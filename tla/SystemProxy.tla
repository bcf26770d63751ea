---------------------------- MODULE SystemProxy ----------------------------
(***************************************************************************)
(* System-wide proxy settings and their restore: SystemProxyGuard and      *)
(* recover_stale of common/sysproxy.py, with the macOS backend (one proxy  *)
(* setting per network service; Windows and GNOME are its case of one      *)
(* service), the state file, and the processes that use them: "connect"    *)
(* owns a guard and toggles it, "share" recovers when it is launched,      *)
(* "restore" recovers with force.                                          *)
(*                                                                         *)
(* Within a process this code never awaits, so what interleaves is         *)
(* kill -9 (or a power cut, or SIGTERM, for which no handler is installed) *)
(* and other processes: there is no lock.  A step is one command on a      *)
(* service, one write or one removal of the state file, or one look at it; *)
(* the commands that set one service are one step, and so is the reading   *)
(* of all of them.                                                         *)
(***************************************************************************)
EXTENDS Naturals

CONSTANTS
    Connectors,    \* processes that run "wayport connect"
    Others,        \* processes that run "wayport share" or "wayport restore"
    Services,      \* network services
    Dead,          \* a pid that names no running process
    Stranger,      \* the pid of a running process that is not wayport
    None,          \* no state file
    Faults         \* bound: which of the FaultKinds happen

Procs == Connectors \cup Others
FaultKinds == {"kill", "error", "skip", "mismatch", "reuse"}

\* A service has what the user set, our proxy, or is turned off by a restore that
\* had nothing to put back; a snapshot does not have the services it could not read.
Settings == [Services -> {"user", "ours", "off"}]
Snapshots == [Services -> {"user", "ours", "off", "unread"}]
Files == [pid : Procs \cup {Dead, Stranger}, snapshot : Snapshots, changed : SUBSET Services]

ASSUME ProxyAssumption ==
    /\ Connectors \cap Others = {}
    /\ Dead \notin Procs /\ Stranger \notin Procs \cup {Dead}
    /\ None \notin Files
    /\ Faults \subseteq FaultKinds

VARIABLES
    setting,   \* per service: its proxy setting
    bypass,    \* per service: the user's list of bypassed domains, or ours
    file,      \* the state file
    pc,        \* per process, what it is doing
    mode,      \* per process, its command
    todo,      \* the services apply or restore has still to visit
    snap,      \* the snapshot of the guard, or of the file being recovered from
    applied,   \* the services apply has set so far
    changed,   \* SystemProxyGuard._changed, which keeps what an earlier enable put there
    active,    \* SystemProxyGuard.active
    overtaken, \* history: the state file was written since the process read it
    orphaned,  \* history: services on our proxy that lost the record of that
    skipped    \* history: services that some snapshot could not read

netVars == <<setting, bypass>>
systemVars == <<netVars, file, overtaken>>
guardVars == <<todo, snap, applied, changed, active>>
historyVars == <<orphaned, skipped>>
vars == <<systemVars, pc, mode, guardVars, historyVars>>

TypeOK ==
    /\ setting \in Settings /\ bypass \in [Services -> {"user", "ours"}]
    /\ file \in Files \cup {None}
    /\ pc \in [Procs -> {"off", "recover", "idle", "reenable", "snapshot", "apply",
                         "save", "restore"}]
    /\ mode \in [Procs -> {"connect", "share", "restore"}]
    /\ todo \in [Procs -> SUBSET Services]
    /\ snap \in [Procs -> Snapshots]
    /\ applied \in [Procs -> SUBSET Services]
    /\ changed \in [Procs -> SUBSET Services]
    /\ active \in [Procs -> BOOLEAN]
    /\ overtaken \subseteq Procs
    /\ orphaned \subseteq Services /\ skipped \subseteq Services

AllUser == [s \in Services |-> "user"]

Init ==
    /\ setting = AllUser /\ bypass = AllUser
    /\ file = None
    /\ pc = [p \in Procs |-> "off"]
    /\ mode \in [Procs -> {"connect", "share", "restore"}]
    /\ \A p \in Procs : mode[p] = "connect" <=> p \in Connectors
    /\ todo = [p \in Procs |-> {}]
    /\ snap = [p \in Procs |-> AllUser]
    /\ applied = [p \in Procs |-> {}]
    /\ changed = [p \in Procs |-> {}]
    /\ active = [p \in Procs |-> FALSE]
    /\ overtaken = {}
    /\ orphaned = {} /\ skipped = {}

-----------------------------------------------------------------------------
GoesTo(p, where) == pc' = [pc EXCEPT ![p] = where]

\* What is left on our proxy when the record of "services" is dropped.
Orphans(services) == {s \in services : setting[s] = "ours"}

\* _write_state.  A recovery that has read the file before does not know of it.
Writes(p, snapshot, services) ==
    /\ file' = [pid |-> p, snapshot |-> snapshot, changed |-> services]
    /\ overtaken' = Procs \ {p}

\* recover_stale finds a state file it may act on: _process_alive answers no
\* for the own pid and for a pid without a process.
IsStale(p) ==
    /\ file # None
    /\ \/ mode[p] = "restore"
       \/ file.pid = p
       \/ file.pid = Dead

\* A recovery that has work to do reads the file, and goes on to restore and to
\* remove it.  If it sees another backend than the run that wrote the file (no
\* desktop session, say), it only removes it.
BeginRecovery(p, where) ==
    /\ IsStale(p)
    /\ snap' = [snap EXCEPT ![p] = file.snapshot]
    /\ overtaken' = overtaken \ {p}
    /\ \/ /\ todo' = [todo EXCEPT ![p] = file.changed]
          /\ UNCHANGED orphaned
       \/ /\ "mismatch" \in Faults
          /\ todo' = [todo EXCEPT ![p] = {}]
          /\ orphaned' = orphaned \cup Orphans(file.changed)
    /\ GoesTo(p, where)
    /\ UNCHANGED <<netVars, file, mode, applied, changed, active, skipped>>

-----------------------------------------------------------------------------
(* Launch: _recover_stale_proxy before connect and share, run_restore *)

Launch(p) ==
    /\ pc[p] = "off"
    /\ \/ BeginRecovery(p, "recover")
       \/ ~IsStale(p) /\ GoesTo(p, "idle")
          /\ UNCHANGED <<systemVars, mode, guardVars, historyVars>>

Recovering(p) == pc[p] \in {"recover", "reenable", "restore"}

\* What a restore makes of a service: one the snapshot does not have is turned off.
PutBack(value) == IF value = "unread" THEN "off" ELSE value

\* Restore one service from the snapshot: the address and the on/off state.  The
\* exit status of the commands is not looked at.
RestoreService(p) ==
    /\ Recovering(p)
    /\ \E s \in todo[p] :
        /\ todo' = [todo EXCEPT ![p] = @ \ {s}]
        /\ \/ /\ setting' = [setting EXCEPT ![s] = PutBack(snap[p][s])]
              /\ UNCHANGED orphaned
           \/ /\ "error" \in Faults
              /\ orphaned' = orphaned \cup Orphans({s})
              /\ UNCHANGED setting
    /\ UNCHANGED <<bypass, file, overtaken, pc, mode, snap, applied, changed, active, skipped>>

\* What was restored from is not looked at again.
AfterRecovery(p) ==
    /\ GoesTo(p, IF pc[p] = "reenable" THEN "snapshot" ELSE "idle")
    /\ snap' = [snap EXCEPT ![p] = AllUser]
    /\ overtaken' = overtaken \ {p}

\* The restore is through; the state file goes, whoever wrote it by now.
Restored(p) ==
    /\ Recovering(p) /\ todo[p] = {}
    /\ file' = None
    /\ orphaned' = IF p \in overtaken /\ file # None
                   THEN orphaned \cup Orphans(file.changed) ELSE orphaned
    /\ AfterRecovery(p)
    /\ UNCHANGED <<netVars, mode, todo, applied, changed, active, skipped>>

\* A command raises (they time out after 5 s), or a second Ctrl+C interrupts
\* disable.  recover_stale keeps the file for another try, but enable goes on to
\* overwrite it; disable, no longer active, removes it.
RestoreFails(p) ==
    /\ "error" \in Faults
    /\ Recovering(p) /\ todo[p] # {}
    /\ LET lost == CASE pc[p] = "recover" -> {}
                     [] pc[p] = "reenable" -> todo[p]
                     [] pc[p] = "restore" ->
                          todo[p] \cup (IF p \in overtaken /\ file # None THEN file.changed ELSE {})
       IN  orphaned' = orphaned \cup Orphans(lost)
    /\ file' = IF pc[p] = "restore" THEN None ELSE file
    /\ todo' = [todo EXCEPT ![p] = {}]
    /\ AfterRecovery(p)
    /\ UNCHANGED <<netVars, mode, applied, changed, active, skipped>>

-----------------------------------------------------------------------------
(* SystemProxyGuard.enable and disable, from _apply_mode and the toggle key *)

\* Mutant: enable does not recover before it takes its snapshot.
Enable_NoRecovery(p) ==
    /\ p \in Connectors /\ pc[p] = "idle" /\ ~active[p]
    /\ GoesTo(p, "snapshot")
    /\ UNCHANGED <<systemVars, mode, guardVars, historyVars>>

Enable(p) ==
    /\ p \in Connectors /\ pc[p] = "idle" /\ ~active[p]
    /\ \/ BeginRecovery(p, "reenable")
       \/ ~IsStale(p) /\ GoesTo(p, "snapshot")
          /\ UNCHANGED <<systemVars, mode, guardVars, historyVars>>

\* backend.snapshot, which passes over a service whose command fails; the first
\* _write_state, with the services of an earlier enable; and backend.apply begins.
Snapshot(p) ==
    /\ pc[p] = "snapshot"
    /\ \E missed \in SUBSET Services :
        LET taken == [s \in Services |-> IF s \in missed THEN "unread" ELSE setting[s]]
        IN  /\ "skip" \in Faults \/ missed = {}
            /\ snap' = [snap EXCEPT ![p] = taken]
            /\ Writes(p, taken, changed[p])
            /\ skipped' = skipped \cup missed
    /\ applied' = [applied EXCEPT ![p] = {}]
    /\ todo' = [todo EXCEPT ![p] = Services]
    /\ GoesTo(p, "apply")
    /\ UNCHANGED <<netVars, mode, changed, active, orphaned>>

\* A service takes our proxy, or refuses and is passed over.
ApplyService(p) ==
    /\ pc[p] = "apply"
    /\ \E s \in todo[p] :
        /\ todo' = [todo EXCEPT ![p] = @ \ {s}]
        /\ \/ /\ setting' = [setting EXCEPT ![s] = "ours"]
              /\ bypass' = [bypass EXCEPT ![s] = "ours"]
              /\ applied' = [applied EXCEPT ![p] = @ \cup {s}]
           \/ UNCHANGED <<netVars, applied>>
    /\ UNCHANGED <<file, overtaken, pc, mode, snap, changed, active, historyVars>>

\* enable gives up: the services apply has set have no record.
GivesUp(p) ==
    /\ orphaned' = orphaned \cup Orphans(applied[p])
    /\ applied' = [applied EXCEPT ![p] = {}]
    /\ todo' = [todo EXCEPT ![p] = {}]
    /\ GoesTo(p, "idle")
    /\ UNCHANGED <<netVars, overtaken, mode, snap, changed, active, skipped>>

\* snapshot, the first _write_state or apply raises: enable removes the file and
\* restores nothing.
EnableFails(p) ==
    /\ "error" \in Faults
    /\ pc[p] = "snapshot" \/ (pc[p] = "apply" /\ todo[p] # {})
    /\ file' = None
    /\ GivesUp(p)

\* No service could be configured: enable gives up.
NothingApplied(p) ==
    /\ pc[p] = "apply" /\ todo[p] = {} /\ applied[p] = {}
    /\ file' = None
    /\ changed' = [changed EXCEPT ![p] = {}]
    /\ GoesTo(p, "idle")
    /\ UNCHANGED <<netVars, overtaken, mode, todo, snap, applied, active, historyVars>>

\* Mutant: the second _write_state is left out.
Save_Skipped(p) ==
    /\ pc[p] = "apply" /\ todo[p] = {} /\ applied[p] # {}
    /\ changed' = [changed EXCEPT ![p] = applied[p]]
    /\ active' = [active EXCEPT ![p] = TRUE]
    /\ applied' = [applied EXCEPT ![p] = {}]
    /\ GoesTo(p, "idle")
    /\ UNCHANGED <<systemVars, mode, todo, snap, historyVars>>

\* apply returns, and the second _write_state, with the services that were changed.
Save(p) ==
    /\ pc[p] = "apply" /\ todo[p] = {} /\ applied[p] # {}
    /\ changed' = [changed EXCEPT ![p] = applied[p]]
    /\ Writes(p, snap[p], applied[p])
    /\ active' = [active EXCEPT ![p] = TRUE]
    /\ applied' = [applied EXCEPT ![p] = {}]
    /\ GoesTo(p, "idle")
    /\ UNCHANGED <<netVars, mode, todo, snap, historyVars>>

\* The second _write_state raises, out of enable: the guard is not active, and the
\* file is the first one or, cut short, one that cannot be read, which is no file.
SaveFails(p) ==
    /\ "error" \in Faults
    /\ pc[p] = "apply" /\ todo[p] = {} /\ applied[p] # {}
    /\ file' \in {file, None}
    /\ orphaned' = orphaned \cup Orphans(applied[p])
    /\ changed' = [changed EXCEPT ![p] = applied[p]]
    /\ applied' = [applied EXCEPT ![p] = {}]
    /\ GoesTo(p, "idle")
    /\ UNCHANGED <<netVars, overtaken, mode, todo, snap, active, skipped>>

\* Mutant: the state file is removed before the settings are restored.
Disable_FileFirst(p) ==
    /\ pc[p] = "idle" /\ active[p]
    /\ active' = [active EXCEPT ![p] = FALSE]
    /\ todo' = [todo EXCEPT ![p] = changed[p]]
    /\ file' = None
    /\ GoesTo(p, "restore")
    /\ UNCHANGED <<netVars, overtaken, mode, snap, applied, changed, historyVars>>

\* disable, from the toggle, _cleanup's finally or atexit.
Disable(p) ==
    /\ pc[p] = "idle" /\ active[p]
    /\ active' = [active EXCEPT ![p] = FALSE]
    /\ todo' = [todo EXCEPT ![p] = changed[p]]
    /\ GoesTo(p, "restore")
    /\ UNCHANGED <<systemVars, mode, snap, applied, changed, historyVars>>

\* The pid of a run that is over, when its state file is read again: it names
\* nothing, unless the system has given it to another program in the meantime.
PidsLeft == {Dead} \cup (IF "reuse" \in Faults THEN {Stranger} ELSE {})

\* The process is gone, with its guard; the file keeps its pid.
Ends(p, left) ==
    /\ file' = IF file # None /\ file.pid = p THEN [file EXCEPT !.pid = left] ELSE file
    /\ todo' = [todo EXCEPT ![p] = {}]
    /\ applied' = [applied EXCEPT ![p] = {}]
    /\ changed' = [changed EXCEPT ![p] = {}]
    /\ active' = [active EXCEPT ![p] = FALSE]
    /\ snap' = [snap EXCEPT ![p] = AllUser]
    /\ GoesTo(p, "off")
    /\ UNCHANGED <<netVars, overtaken, mode, skipped>>

\* The process ends; an active guard is disabled on the way out.
Exit(p) ==
    /\ pc[p] = "idle" /\ ~active[p]
    /\ \E left \in PidsLeft : Ends(p, left)
    /\ UNCHANGED orphaned

\* kill -9, a power cut, or a second Ctrl+C outside disable.  Services that were
\* set and are not in the file yet have no record left.
Kill(p) ==
    /\ "kill" \in Faults
    /\ pc[p] # "off"
    /\ \E left \in PidsLeft : Ends(p, left)
    /\ orphaned' = IF pc[p] = "apply" THEN orphaned \cup Orphans(applied[p]) ELSE orphaned

ProcStep(p) ==
    \/ RestoreService(p) \/ Restored(p) \/ RestoreFails(p)
    \/ Snapshot(p) \/ ApplyService(p) \/ EnableFails(p) \/ NothingApplied(p)
    \/ Save(p) \/ SaveFails(p)

Next == \E p \in Procs :
    \/ ProcStep(p)
    \/ Launch(p) \/ Enable(p) \/ Disable(p)
    \/ Exit(p) \/ Kill(p)

Spec == Init /\ [][Next]_vars

-----------------------------------------------------------------------------
(* What the guard promises *)

\* A value that is not our proxy, and is the user's own if every snapshot of the
\* service could be taken.
UsersOwn(s, value) == value # "ours" /\ (s \notin skipped => value = "user")

\* Wherever a program is killed, and however its steps interleave with those of
\* other processes, a service on our proxy is one that the state file lists with
\* the user's own setting, so the next launch puts it back
\* (common/sysproxy.py:9-14) -- but for the services of a guard that is still
\* applying, and those the program has dropped the record of ("orphaned").
Recoverable ==
    \A s \in Services \ orphaned : setting[s] = "ours" =>
        \/ \E p \in Connectors : pc[p] = "apply" /\ s \in applied[p]
        \/ file # None /\ s \in file.changed /\ UsersOwn(s, file.snapshot[s])

\* An active guard holds what the user had set, never our own proxy, after any
\* sequence of toggles, kills and recoveries (common/sysproxy.py:355-357); of a
\* service that a snapshot could not read it holds nothing.
SnapshotIsTheUsers ==
    \A p \in Connectors : \A s \in changed[p] \ orphaned :
        active[p] => UsersOwn(s, snap[p][s])

\* A launch, with no other run about, that finds nothing to recover leaves nothing on
\* our proxy, so a killed run is repaired (__main__.py:231-232): not if its pid names
\* a process again.
LaunchRepairs ==
    [][\A p \in Procs : pc[p] = "off" /\ pc'[p] = "idle"
                        /\ (\A q \in Procs \ {p} : pc[q] = "off")
        => \A s \in Services \ orphaned' : UsersOwn(s, setting[s])]_vars

(* What is not true *)

\* Every change we make survives kill -9 in the state file, even if no command ever
\* fails and no process meets another.
NothingIsOrphaned == orphaned = {}

\* Launching "share" never takes the proxy from a run that is alive
\* (common/sysproxy.py:283-284): a recovery may read a dead run's file before a
\* connect enables, and restore after it.
LiveRunLeftAlone ==
    \A q \in Procs : pc[q] \in {"recover", "reenable"} /\ mode[q] # "restore" =>
        \A p \in Connectors : ~active[p]

\* When every run has ended in order the services have the settings they had
\* (README.md:108, "Previous settings are restored when you disconnect"): not if two
\* runs had them at once, or a snapshot could not read one ...
SettingsComeBack == (\A p \in Procs : pc[p] = "off") => setting = AllUser

\* ... and the bypassed domains never.
BypassComesBack == (\A p \in Procs : pc[p] = "off") => bypass = AllUser
=============================================================================
