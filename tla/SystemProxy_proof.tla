------------------------- MODULE SystemProxy_proof -------------------------
(***************************************************************************)
(* What the system proxy guard promises, for any set of services and of    *)
(* other processes, wherever processes are killed and commands fail, and   *)
(* however the steps of the processes interleave: if there is one          *)
(* "connect" at a time and the pid of a killed run is not given to another *)
(* program.  Without either of the two it is not true.                     *)
(*                                                                         *)
(* The invariant follows the record of the services on our proxy through   *)
(* its places: the guard while it applies, the state file, and a recovery  *)
(* that has read the file and will remove it.                              *)
(***************************************************************************)
EXTENDS SystemProxy, TLAPS

\* The hypothesis of the theorems.
OneRun ==
    /\ \A p, q \in Connectors : p = q
    /\ "reuse" \notin Faults

\* The services on our proxy that have not lost their record.
Unrecorded == {s \in Services : setting[s] = "ours" /\ s \notin orphaned}

Applying == \E c \in Connectors : pc[c] = "apply"

\* Who may be where; only a connect writes the file, so it is never overtaken.
ProcInv ==
    /\ \A p \in Procs :
        /\ active[p] => p \in Connectors /\ pc[p] = "idle"
        /\ pc[p] \in {"reenable", "snapshot", "apply", "restore"} => p \in Connectors
    /\ overtaken \cap Connectors = {}

\* Whose the state file is, and what it says.
FileInv == file # None =>
    /\ file.pid \in Connectors \cup {Dead}
    /\ file.pid \in Connectors => pc[file.pid] # "off"
    /\ \A p \in Procs : active[p] => file.changed = changed[p]

\* No value that is in force, in the file or in the memory of a process is our own
\* proxy taken for the user's, unless the service has lost its record.
ValuesInv ==
    \A s \in Services \ orphaned :
        /\ setting[s] # "ours" => UsersOwn(s, setting[s])
        /\ file # None => UsersOwn(s, file.snapshot[s])
        /\ \A p \in Procs : active[p] \/ Recovering(p) \/ pc[p] = "apply" =>
            UsersOwn(s, snap[p][s])

\* Where the record of a service is, and that the process that will remove the file
\* has put back by then what the file lists.
RecordInv ==
    /\ Applying \/ (Unrecorded # {} => file # None /\ Unrecorded \subseteq file.changed)
    /\ \A p \in Procs :
        /\ pc[p] = "snapshot" => Unrecorded = {}
        /\ pc[p] = "apply" => Unrecorded \subseteq applied[p]
        /\ Recovering(p) /\ p \notin overtaken /\ ~Applying =>
            Unrecorded \subseteq todo[p]

ProxyInv == TypeOK /\ ProcInv /\ FileInv /\ ValuesInv /\ RecordInv

\* The two parts that several actions share keep the types.
LEMMA BeginRecoveryTypes ==
    ASSUME TypeOK, NEW p \in Procs,
           NEW where \in {"recover", "reenable"}, BeginRecovery(p, where)
    PROVE  TypeOK'
<1>1. file # None /\ file \in Files
  BY DEF TypeOK, BeginRecovery, IsStale
<1>2. file.snapshot \in Snapshots /\ file.changed \subseteq Services
  BY <1>1 DEF Files
<1>3. /\ snap' = [snap EXCEPT ![p] = file.snapshot]
      /\ todo' \in {[todo EXCEPT ![p] = file.changed], [todo EXCEPT ![p] = {}]}
      /\ orphaned' \in {orphaned, orphaned \cup Orphans(file.changed)}
      /\ pc' = [pc EXCEPT ![p] = where]
      /\ overtaken' = overtaken \ {p}
      /\ UNCHANGED <<setting, bypass, file, mode, applied, changed, active, skipped>>
  BY DEF BeginRecovery, GoesTo, netVars
<1>4. /\ snap' \in [Procs -> Snapshots]
      /\ todo' \in [Procs -> SUBSET Services]
      /\ orphaned' \subseteq Services
  BY <1>2, <1>3 DEF TypeOK, Orphans
<1>5. /\ pc' \in [Procs -> {"off", "recover", "idle", "reenable", "snapshot", "apply",
                            "save", "restore"}]
      /\ overtaken' \subseteq Procs
  BY <1>3 DEF TypeOK
<1> QED  BY <1>3, <1>4, <1>5 DEF TypeOK

LEMMA EndsTypes ==
    ASSUME TypeOK, NEW p \in Procs, NEW left \in {Dead}, Ends(p, left),
           orphaned' \subseteq Services
    PROVE  TypeOK'
<1>1. file' \in Files \cup {None}
  <2>1. CASE file # None /\ file.pid = p
    <3>1. file \in Files
      BY <2>1 DEF TypeOK
    <3>2. file' = [file EXCEPT !.pid = left]
      BY <2>1 DEF Ends
    <3> QED  BY <3>1, <3>2 DEF Files
  <2>2. CASE ~(file # None /\ file.pid = p)
    BY <2>2 DEF Ends, TypeOK
  <2> QED  BY <2>1, <2>2
<1>2. /\ todo' \in [Procs -> SUBSET Services]
      /\ applied' \in [Procs -> SUBSET Services]
      /\ changed' \in [Procs -> SUBSET Services]
      /\ active' \in [Procs -> BOOLEAN]
  BY DEF Ends, TypeOK
<1>3. snap' \in [Procs -> Snapshots]
  BY DEF Ends, TypeOK, Snapshots, AllUser
<1>4. /\ pc' \in [Procs -> {"off", "recover", "idle", "reenable", "snapshot", "apply",
                            "save", "restore"}]
      /\ UNCHANGED <<setting, bypass, overtaken, mode, skipped>>
  BY DEF Ends, GoesTo, TypeOK, netVars
<1> QED  BY <1>1, <1>2, <1>3, <1>4 DEF TypeOK

LEMMA ProxyInit == Init => ProxyInv
<1> SUFFICES ASSUME Init PROVE ProxyInv
  OBVIOUS
<1>1. TypeOK
  BY DEF Init, TypeOK, AllUser, Settings, Snapshots
<1>2. ProcInv /\ FileInv
  BY DEF Init, ProcInv, FileInv
<1>3. ValuesInv
  BY DEF Init, ValuesInv, UsersOwn, AllUser, Recovering
<1>4. RecordInv
  BY DEF Init, RecordInv, Unrecorded, AllUser, Applying, Recovering
<1> QED  BY <1>1, <1>2, <1>3, <1>4 DEF ProxyInv

LEMMA RestoreServiceStep == ASSUME OneRun, ProxyInv, NEW p \in Procs, RestoreService(p) PROVE ProxyInv'
<1> USE ProxyAssumption DEF OneRun, RestoreService, GoesTo, Orphans, Recovering, PutBack, netVars, systemVars, guardVars, historyVars
<1>1. TypeOK'
  BY DEF ProxyInv, TypeOK, Settings, Snapshots, Files, AllUser
<1>2. ProcInv'
  BY DEF ProxyInv, ProcInv, TypeOK, Procs
<1>3. FileInv'
  BY DEF ProxyInv, FileInv, ProcInv, TypeOK, Procs, Files
<1>4. ValuesInv'
  BY DEF ProxyInv, ValuesInv, UsersOwn, Recovering, TypeOK, Settings, Snapshots, Procs, ProcInv
<1>5. RecordInv'
  <2>1. PICK s \in todo[p] :
          /\ todo' = [todo EXCEPT ![p] = todo[p] \ {s}]
          /\ \/ /\ setting' = [setting EXCEPT ![s] = PutBack(snap[p][s])]
                /\ UNCHANGED orphaned
             \/ /\ orphaned' = orphaned \cup Orphans({s})
                /\ UNCHANGED setting
    OBVIOUS
  <2>2. s \in Services /\ UNCHANGED <<file, pc, applied, overtaken>>
    BY DEF ProxyInv, TypeOK
  <2>3. s \notin orphaned => snap[p][s] # "ours"
    BY <2>2 DEF ProxyInv, ValuesInv, UsersOwn
  <2>4. Unrecorded' \subseteq Unrecorded \ {s}
    BY <2>1, <2>2, <2>3 DEF Unrecorded, ProxyInv, TypeOK, Settings
  <2>5. Applying' <=> Applying
    BY <2>2 DEF Applying
  <2>6. \A q \in Procs : /\ Recovering(q)' <=> Recovering(q)
                         /\ todo[q] \ {s} \subseteq todo'[q]
    BY <2>1, <2>2 DEF Recovering, ProxyInv, TypeOK
  <2> HIDE DEF RestoreService
  <2> QED  BY <2>2, <2>4, <2>5, <2>6 DEF ProxyInv, RecordInv
<1> QED  BY <1>1, <1>2, <1>3, <1>4, <1>5 DEF ProxyInv

LEMMA RestoredStep == ASSUME OneRun, ProxyInv, NEW p \in Procs, Restored(p) PROVE ProxyInv'
<1> USE ProxyAssumption DEF OneRun, Restored, GoesTo, Orphans, AfterRecovery, Recovering, netVars, systemVars, guardVars, historyVars
<1>1. TypeOK'
  BY DEF ProxyInv, TypeOK, Settings, Snapshots, Files, AllUser
<1>2. ProcInv'
  BY DEF ProxyInv, ProcInv, TypeOK, Procs
<1>3. FileInv'
  BY DEF ProxyInv, FileInv, ProcInv, TypeOK, Procs, Files
<1>4. ValuesInv'
  BY DEF ProxyInv, ValuesInv, UsersOwn, Recovering, TypeOK, Settings, Snapshots, Procs, ProcInv
<1>5. RecordInv'
  BY DEF ProxyInv, RecordInv, Unrecorded, Applying, Recovering, TypeOK, Procs, ProcInv, FileInv
<1> QED  BY <1>1, <1>2, <1>3, <1>4, <1>5 DEF ProxyInv

LEMMA RestoreFailsStep == ASSUME OneRun, ProxyInv, NEW p \in Procs, RestoreFails(p) PROVE ProxyInv'
<1> USE ProxyAssumption DEF OneRun, RestoreFails, GoesTo, Orphans, AfterRecovery, Recovering, netVars, systemVars, guardVars, historyVars
<1>1. TypeOK'
  BY DEF ProxyInv, TypeOK, Settings, Snapshots, Files, AllUser
<1>2. ProcInv'
  BY DEF ProxyInv, ProcInv, TypeOK, Procs
<1>3. FileInv'
  BY DEF ProxyInv, FileInv, ProcInv, TypeOK, Procs, Files
<1>4. ValuesInv'
  BY DEF ProxyInv, ValuesInv, UsersOwn, Recovering, TypeOK, Settings, Snapshots, Procs, ProcInv
<1>5. RecordInv'
  BY DEF ProxyInv, RecordInv, Unrecorded, Applying, Recovering, TypeOK, Procs, ProcInv, FileInv
<1> QED  BY <1>1, <1>2, <1>3, <1>4, <1>5 DEF ProxyInv

LEMMA SnapshotStep == ASSUME OneRun, ProxyInv, NEW p \in Procs, Snapshot(p) PROVE ProxyInv'
<1> USE ProxyAssumption DEF OneRun, Snapshot, GoesTo, Orphans, Writes, netVars, systemVars, guardVars, historyVars
<1>1. TypeOK'
  BY DEF ProxyInv, TypeOK, Settings, Snapshots, Files, AllUser
<1>2. ProcInv'
  BY DEF ProxyInv, ProcInv, TypeOK, Procs
<1>3. FileInv'
  BY DEF ProxyInv, FileInv, ProcInv, TypeOK, Procs, Files
<1>4. ValuesInv'
  <2>1. PICK missed \in SUBSET Services :
          LET taken == [s \in Services |-> IF s \in missed THEN "unread" ELSE setting[s]]
          IN  /\ snap' = [snap EXCEPT ![p] = taken]
              /\ Writes(p, taken, changed[p])
              /\ skipped' = skipped \cup missed
    OBVIOUS
  <2> DEFINE taken == [s \in Services |-> IF s \in missed THEN "unread" ELSE setting[s]]
  <2>2. /\ snap'[p] = taken /\ file'.snapshot = taken /\ skipped' = skipped \cup missed
        /\ \A q \in Procs \ {p} : snap'[q] = snap[q]
    BY <2>1 DEF ProxyInv, TypeOK
  <2>3. /\ \A q \in Procs \ {p} : pc'[q] = pc[q]
        /\ UNCHANGED <<setting, active, orphaned>>
    BY DEF ProxyInv, TypeOK
  <2>4. ~active[p]
    BY DEF ProxyInv, ProcInv
  <2> SUFFICES ASSUME NEW s \in Services \ orphaned'
               PROVE  /\ setting'[s] # "ours" => UsersOwn(s, setting[s])'
                      /\ file' # None => UsersOwn(s, file.snapshot[s])'
                      /\ \A q \in Procs :
                            active'[q] \/ Recovering(q)' \/ pc'[q] = "apply" =>
                                UsersOwn(s, snap[q][s])'
    BY DEF ValuesInv
  <2>5. setting[s] # "ours"
    BY <2>3 DEF ProxyInv, RecordInv, Unrecorded
  <2>6. s \notin skipped => setting[s] = "user"
    BY <2>5, <2>3 DEF ProxyInv, ValuesInv, UsersOwn
  <2>7. taken[s] # "ours" /\ (s \notin skipped' => taken[s] = "user")
    BY <2>2, <2>5, <2>6
  <2> HIDE DEF taken, Snapshot
  <2>8. UsersOwn(s, setting[s])'
    BY <2>2, <2>3, <2>5, <2>6 DEF UsersOwn
  <2>9. UsersOwn(s, file.snapshot[s])'
    BY <2>2, <2>7 DEF UsersOwn
  <2>10. ASSUME NEW q \in Procs, active'[q] \/ Recovering(q)' \/ pc'[q] = "apply"
         PROVE  UsersOwn(s, snap[q][s])'
    <3>1. CASE q = p
      BY <3>1, <2>2, <2>7 DEF UsersOwn
    <3>2. CASE q # p
      BY <3>2, <2>2, <2>3, <2>10 DEF UsersOwn, ProxyInv, ValuesInv, Recovering
    <3> QED  BY <3>1, <3>2
  <2> QED  BY <2>8, <2>9, <2>10
<1>5. RecordInv'
  BY DEF ProxyInv, RecordInv, Unrecorded, Applying, Recovering, TypeOK, Procs, ProcInv, FileInv
<1> QED  BY <1>1, <1>2, <1>3, <1>4, <1>5 DEF ProxyInv

LEMMA ApplyServiceStep == ASSUME OneRun, ProxyInv, NEW p \in Procs, ApplyService(p) PROVE ProxyInv'
<1> USE ProxyAssumption DEF OneRun, ApplyService, GoesTo, Orphans, netVars, systemVars, guardVars, historyVars
<1>1. TypeOK'
  <2>1. PICK s \in todo[p] :
          /\ todo' = [todo EXCEPT ![p] = todo[p] \ {s}]
          /\ \/ /\ setting' = [setting EXCEPT ![s] = "ours"]
                /\ bypass' = [bypass EXCEPT ![s] = "ours"]
                /\ applied' = [applied EXCEPT ![p] = applied[p] \cup {s}]
             \/ UNCHANGED <<setting, bypass, applied>>
    OBVIOUS
  <2>2. s \in Services
    BY DEF ProxyInv, TypeOK
  <2>3. setting' \in Settings /\ bypass' \in [Services -> {"user", "ours"}]
    BY <2>1, <2>2 DEF ProxyInv, TypeOK, Settings
  <2>4. todo' \in [Procs -> SUBSET Services] /\ applied' \in [Procs -> SUBSET Services]
    BY <2>1, <2>2 DEF ProxyInv, TypeOK
  <2> QED  BY <2>3, <2>4 DEF ProxyInv, TypeOK
<1>2. ProcInv'
  BY DEF ProxyInv, ProcInv, TypeOK, Procs
<1>3. FileInv'
  BY DEF ProxyInv, FileInv, ProcInv, TypeOK, Procs, Files
<1>4. ValuesInv'
  BY DEF ProxyInv, ValuesInv, UsersOwn, Recovering, TypeOK, Settings, Snapshots, Procs, ProcInv
<1>5. RecordInv'
  <2>1. PICK s \in todo[p] :
          \/ /\ setting' = [setting EXCEPT ![s] = "ours"]
             /\ applied' = [applied EXCEPT ![p] = applied[p] \cup {s}]
          \/ UNCHANGED <<setting, applied>>
    OBVIOUS
  <2>2. Applying /\ Applying'
    BY DEF Applying, ProxyInv, ProcInv
  <2>3. Unrecorded' \subseteq applied'[p]
    BY <2>1 DEF ProxyInv, RecordInv, Unrecorded, TypeOK, Settings
  <2>4. \A q \in Procs : pc[q] \in {"snapshot", "apply"} => q = p
    BY DEF ProxyInv, ProcInv
  <2> QED  BY <2>2, <2>3, <2>4 DEF RecordInv
<1> QED  BY <1>1, <1>2, <1>3, <1>4, <1>5 DEF ProxyInv

LEMMA EnableFailsStep == ASSUME OneRun, ProxyInv, NEW p \in Procs, EnableFails(p) PROVE ProxyInv'
<1> USE ProxyAssumption DEF OneRun, EnableFails, GoesTo, Orphans, GivesUp, netVars, systemVars, guardVars, historyVars
<1>1. TypeOK'
  BY DEF ProxyInv, TypeOK, Settings, Snapshots, Files, AllUser
<1>2. ProcInv'
  BY DEF ProxyInv, ProcInv, TypeOK, Procs
<1>3. FileInv'
  BY DEF ProxyInv, FileInv, ProcInv, TypeOK, Procs, Files
<1>4. ValuesInv'
  BY DEF ProxyInv, ValuesInv, UsersOwn, Recovering, TypeOK, Settings, Snapshots, Procs, ProcInv
<1>5. RecordInv'
  BY DEF ProxyInv, RecordInv, Unrecorded, Applying, Recovering, TypeOK, Procs, ProcInv, FileInv
<1> QED  BY <1>1, <1>2, <1>3, <1>4, <1>5 DEF ProxyInv

LEMMA NothingAppliedStep == ASSUME OneRun, ProxyInv, NEW p \in Procs, NothingApplied(p) PROVE ProxyInv'
<1> USE ProxyAssumption DEF OneRun, NothingApplied, GoesTo, Orphans, netVars, systemVars, guardVars, historyVars
<1>1. TypeOK'
  BY DEF ProxyInv, TypeOK, Settings, Snapshots, Files, AllUser
<1>2. ProcInv'
  BY DEF ProxyInv, ProcInv, TypeOK, Procs
<1>3. FileInv'
  BY DEF ProxyInv, FileInv, ProcInv, TypeOK, Procs, Files
<1>4. ValuesInv'
  BY DEF ProxyInv, ValuesInv, UsersOwn, Recovering, TypeOK, Settings, Snapshots, Procs, ProcInv
<1>5. RecordInv'
  BY DEF ProxyInv, RecordInv, Unrecorded, Applying, Recovering, TypeOK, Procs, ProcInv, FileInv
<1> QED  BY <1>1, <1>2, <1>3, <1>4, <1>5 DEF ProxyInv

LEMMA SaveStep == ASSUME OneRun, ProxyInv, NEW p \in Procs, Save(p) PROVE ProxyInv'
<1> USE ProxyAssumption DEF OneRun, Save, GoesTo, Orphans, Writes, netVars, systemVars, guardVars, historyVars
<1>1. TypeOK'
  BY DEF ProxyInv, TypeOK, Settings, Snapshots, Files, AllUser
<1>2. ProcInv'
  BY DEF ProxyInv, ProcInv, TypeOK, Procs
<1>3. FileInv'
  BY DEF ProxyInv, FileInv, ProcInv, TypeOK, Procs, Files
<1>4. ValuesInv'
  BY DEF ProxyInv, ValuesInv, UsersOwn, Recovering, TypeOK, Settings, Snapshots, Procs, ProcInv
<1>5. RecordInv'
  <2>1. Unrecorded' = Unrecorded /\ Unrecorded \subseteq applied[p]
    BY DEF Unrecorded, ProxyInv, RecordInv
  <2>2. file' # None /\ file'.changed = applied[p]
    <3>1. file' = [pid |-> p, snapshot |-> snap[p], changed |-> applied[p]]
      OBVIOUS
    <3>2. file' \in Files
      BY <3>1 DEF ProxyInv, TypeOK, Files
    <3> HIDE DEF Save
    <3> QED  BY <3>1, <3>2
  <2>3. p \in Connectors /\ pc' = [pc EXCEPT ![p] = "idle"] /\ overtaken' = Procs \ {p}
    BY DEF ProxyInv, ProcInv
  <2>4. \A q \in Procs : pc'[q] \notin {"snapshot", "apply"}
    BY <2>3 DEF ProxyInv, ProcInv, TypeOK
  <2>5. \A q \in Procs : Recovering(q)' => q \in overtaken'
    BY <2>3 DEF Recovering, ProxyInv, TypeOK
  <2> QED  BY <2>1, <2>2, <2>4, <2>5 DEF RecordInv
<1> QED  BY <1>1, <1>2, <1>3, <1>4, <1>5 DEF ProxyInv

LEMMA SaveFailsStep == ASSUME OneRun, ProxyInv, NEW p \in Procs, SaveFails(p) PROVE ProxyInv'
<1> USE ProxyAssumption DEF OneRun, SaveFails, GoesTo, Orphans, netVars, systemVars, guardVars, historyVars
<1>1. TypeOK'
  BY DEF ProxyInv, TypeOK, Settings, Snapshots, Files, AllUser
<1>2. ProcInv'
  BY DEF ProxyInv, ProcInv, TypeOK, Procs
<1>3. FileInv'
  BY DEF ProxyInv, FileInv, ProcInv, TypeOK, Procs, Files
<1>4. ValuesInv'
  BY DEF ProxyInv, ValuesInv, UsersOwn, Recovering, TypeOK, Settings, Snapshots, Procs, ProcInv
<1>5. RecordInv'
  BY DEF ProxyInv, RecordInv, Unrecorded, Applying, Recovering, TypeOK, Procs, ProcInv, FileInv
<1> QED  BY <1>1, <1>2, <1>3, <1>4, <1>5 DEF ProxyInv

LEMMA LaunchStep == ASSUME OneRun, ProxyInv, NEW p \in Procs, Launch(p) PROVE ProxyInv'
<1> USE ProxyAssumption DEF OneRun, Launch, GoesTo, Orphans, BeginRecovery, IsStale, netVars, systemVars, guardVars, historyVars
<1>1. TypeOK'
  <2>1. CASE BeginRecovery(p, "recover")
    BY <2>1, BeginRecoveryTypes DEF ProxyInv
  <2>2. CASE ~BeginRecovery(p, "recover")
    BY <2>2 DEF ProxyInv, TypeOK
  <2> QED  BY <2>1, <2>2
<1>2. ProcInv'
  BY DEF ProxyInv, ProcInv, TypeOK, Procs
<1>3. FileInv'
  BY DEF ProxyInv, FileInv, ProcInv, TypeOK, Procs, Files
<1>4. ValuesInv'
  BY DEF ProxyInv, ValuesInv, UsersOwn, Recovering, TypeOK, Settings, Snapshots, Procs, ProcInv
<1>5. RecordInv'
  BY DEF ProxyInv, RecordInv, Unrecorded, Applying, Recovering, TypeOK, Procs, ProcInv, FileInv
<1> QED  BY <1>1, <1>2, <1>3, <1>4, <1>5 DEF ProxyInv

LEMMA EnableStep == ASSUME OneRun, ProxyInv, NEW p \in Procs, Enable(p) PROVE ProxyInv'
<1> USE ProxyAssumption DEF OneRun, Enable, GoesTo, Orphans, BeginRecovery, IsStale, netVars, systemVars, guardVars, historyVars
<1>1. TypeOK'
  <2>1. CASE BeginRecovery(p, "reenable")
    BY <2>1, BeginRecoveryTypes DEF ProxyInv
  <2>2. CASE ~BeginRecovery(p, "reenable")
    BY <2>2 DEF ProxyInv, TypeOK
  <2> QED  BY <2>1, <2>2
<1>2. ProcInv'
  BY DEF ProxyInv, ProcInv, TypeOK, Procs
<1>3. FileInv'
  BY DEF ProxyInv, FileInv, ProcInv, TypeOK, Procs, Files
<1>4. ValuesInv'
  BY DEF ProxyInv, ValuesInv, UsersOwn, Recovering, TypeOK, Settings, Snapshots, Procs, ProcInv
<1>5. RecordInv'
  BY DEF ProxyInv, RecordInv, Unrecorded, Applying, Recovering, TypeOK, Procs, ProcInv, FileInv
<1> QED  BY <1>1, <1>2, <1>3, <1>4, <1>5 DEF ProxyInv

LEMMA DisableStep == ASSUME OneRun, ProxyInv, NEW p \in Procs, Disable(p) PROVE ProxyInv'
<1> USE ProxyAssumption DEF OneRun, Disable, GoesTo, Orphans, netVars, systemVars, guardVars, historyVars
<1>1. TypeOK'
  BY DEF ProxyInv, TypeOK, Settings, Snapshots, Files, AllUser
<1>2. ProcInv'
  BY DEF ProxyInv, ProcInv, TypeOK, Procs
<1>3. FileInv'
  BY DEF ProxyInv, FileInv, ProcInv, TypeOK, Procs, Files
<1>4. ValuesInv'
  BY DEF ProxyInv, ValuesInv, UsersOwn, Recovering, TypeOK, Settings, Snapshots, Procs, ProcInv
<1>5. RecordInv'
  BY DEF ProxyInv, RecordInv, Unrecorded, Applying, Recovering, TypeOK, Procs, ProcInv, FileInv
<1> QED  BY <1>1, <1>2, <1>3, <1>4, <1>5 DEF ProxyInv

LEMMA ExitStep == ASSUME OneRun, ProxyInv, NEW p \in Procs, Exit(p) PROVE ProxyInv'
<1> USE ProxyAssumption DEF OneRun, Exit, GoesTo, Orphans, Ends, PidsLeft, netVars, systemVars, guardVars, historyVars
<1>1. TypeOK'
  <2>1. orphaned' \subseteq Services
    BY DEF ProxyInv, TypeOK
  <2>2. Ends(p, Dead)
    OBVIOUS
  <2> HIDE DEF Ends, Exit
  <2> QED  BY <2>1, <2>2, EndsTypes DEF ProxyInv
<1>2. ProcInv'
  BY DEF ProxyInv, ProcInv, TypeOK, Procs
<1>3. FileInv'
  BY DEF ProxyInv, FileInv, ProcInv, TypeOK, Procs, Files
<1>4. ValuesInv'
  BY DEF ProxyInv, ValuesInv, UsersOwn, Recovering, TypeOK, Settings, Snapshots, Procs, ProcInv
<1>5. RecordInv'
  <2>1. /\ pc' = [pc EXCEPT ![p] = "off"]
        /\ UNCHANGED <<setting, overtaken>>
        /\ file # None => file' # None /\ file'.changed = file.changed
        /\ \A q \in Procs \ {p} : todo'[q] = todo[q] /\ applied'[q] = applied[q]
        /\ orphaned \subseteq orphaned'
    BY DEF ProxyInv, TypeOK, Files
  <2>2. pc[p] = "apply" => Unrecorded' = {}
    BY <2>1 DEF ProxyInv, RecordInv, Unrecorded
  <2>3. Unrecorded' \subseteq Unrecorded
    BY <2>1 DEF Unrecorded
  <2> HIDE DEF Exit, Ends
  <2>4. Applying /\ pc[p] # "apply" => Applying'
    BY <2>1 DEF Applying, Procs, ProxyInv, TypeOK
  <2>5. Applying' => Applying
    BY <2>1 DEF Applying, Procs, ProxyInv, TypeOK
  <2>6. Applying' \/ (Unrecorded' # {} => file' # None /\ Unrecorded' \subseteq file'.changed)
    <3>1. CASE Applying /\ pc[p] # "apply"
      BY <3>1, <2>4
    <3>2. CASE pc[p] = "apply"
      BY <3>2, <2>2
    <3>3. CASE ~Applying
      BY <3>3, <2>1, <2>3 DEF ProxyInv, RecordInv
    <3> QED  BY <3>1, <3>2, <3>3
  <2>7. ASSUME NEW q \in Procs
        PROVE  /\ pc'[q] = "snapshot" => Unrecorded' = {}
               /\ pc'[q] = "apply" => Unrecorded' \subseteq applied'[q]
               /\ Recovering(q)' /\ q \notin overtaken' /\ ~Applying' =>
                    Unrecorded' \subseteq todo'[q]
    <3>1. CASE q = p
      BY <3>1, <2>1 DEF Recovering, ProxyInv, TypeOK
    <3>2. CASE q # p /\ (pc[p] # "apply" \/ pc[q] = "snapshot")
      BY <3>2, <2>1, <2>3, <2>4 DEF ProxyInv, RecordInv, Recovering, TypeOK
    <3>3. CASE pc[p] = "apply"
      BY <3>3, <2>2
    <3> QED  BY <3>1, <3>2, <3>3
  <2> QED  BY <2>6, <2>7 DEF RecordInv
<1> QED  BY <1>1, <1>2, <1>3, <1>4, <1>5 DEF ProxyInv

LEMMA KillStep == ASSUME OneRun, ProxyInv, NEW p \in Procs, Kill(p) PROVE ProxyInv'
<1> USE ProxyAssumption DEF OneRun, Kill, GoesTo, Orphans, Ends, PidsLeft, netVars, systemVars, guardVars, historyVars
<1>1. TypeOK'
  <2>1. orphaned' \subseteq Services
    BY DEF ProxyInv, TypeOK
  <2>2. Ends(p, Dead)
    OBVIOUS
  <2> HIDE DEF Ends, Kill
  <2> QED  BY <2>1, <2>2, EndsTypes DEF ProxyInv
<1>2. ProcInv'
  BY DEF ProxyInv, ProcInv, TypeOK, Procs
<1>3. FileInv'
  BY DEF ProxyInv, FileInv, ProcInv, TypeOK, Procs, Files
<1>4. ValuesInv'
  BY DEF ProxyInv, ValuesInv, UsersOwn, Recovering, TypeOK, Settings, Snapshots, Procs, ProcInv
<1>5. RecordInv'
  <2>1. /\ pc' = [pc EXCEPT ![p] = "off"]
        /\ UNCHANGED <<setting, overtaken>>
        /\ file # None => file' # None /\ file'.changed = file.changed
        /\ \A q \in Procs \ {p} : todo'[q] = todo[q] /\ applied'[q] = applied[q]
        /\ orphaned \subseteq orphaned'
    BY DEF ProxyInv, TypeOK, Files
  <2>2. pc[p] = "apply" => Unrecorded' = {}
    BY <2>1 DEF ProxyInv, RecordInv, Unrecorded
  <2>3. Unrecorded' \subseteq Unrecorded
    BY <2>1 DEF Unrecorded
  <2> HIDE DEF Kill, Ends
  <2>4. Applying /\ pc[p] # "apply" => Applying'
    BY <2>1 DEF Applying, Procs, ProxyInv, TypeOK
  <2>5. Applying' => Applying
    BY <2>1 DEF Applying, Procs, ProxyInv, TypeOK
  <2>6. Applying' \/ (Unrecorded' # {} => file' # None /\ Unrecorded' \subseteq file'.changed)
    <3>1. CASE Applying /\ pc[p] # "apply"
      BY <3>1, <2>4
    <3>2. CASE pc[p] = "apply"
      BY <3>2, <2>2
    <3>3. CASE ~Applying
      BY <3>3, <2>1, <2>3 DEF ProxyInv, RecordInv
    <3> QED  BY <3>1, <3>2, <3>3
  <2>7. ASSUME NEW q \in Procs
        PROVE  /\ pc'[q] = "snapshot" => Unrecorded' = {}
               /\ pc'[q] = "apply" => Unrecorded' \subseteq applied'[q]
               /\ Recovering(q)' /\ q \notin overtaken' /\ ~Applying' =>
                    Unrecorded' \subseteq todo'[q]
    <3>1. CASE q = p
      BY <3>1, <2>1 DEF Recovering, ProxyInv, TypeOK
    <3>2. CASE q # p /\ (pc[p] # "apply" \/ pc[q] = "snapshot")
      BY <3>2, <2>1, <2>3, <2>4 DEF ProxyInv, RecordInv, Recovering, TypeOK
    <3>3. CASE pc[p] = "apply"
      BY <3>3, <2>2
    <3> QED  BY <3>1, <3>2, <3>3
  <2> QED  BY <2>6, <2>7 DEF RecordInv
<1> QED  BY <1>1, <1>2, <1>3, <1>4, <1>5 DEF ProxyInv

LEMMA ProxyStep == ASSUME OneRun, ProxyInv, [Next]_vars PROVE ProxyInv'
<1>1. CASE UNCHANGED vars
  <2>1. UNCHANGED <<setting, bypass, file, pc, mode, todo, snap, applied, changed, active,
                    overtaken, orphaned, skipped>>
    BY <1>1 DEF vars, systemVars, netVars, guardVars, historyVars
  <2>2. TypeOK' /\ ProcInv' /\ FileInv'
    BY <2>1 DEF ProxyInv, TypeOK, ProcInv, FileInv
  <2>3. ValuesInv' /\ RecordInv'
    BY <2>1 DEF ProxyInv, ValuesInv, UsersOwn, Recovering, RecordInv, Unrecorded, Applying
  <2> QED  BY <2>2, <2>3 DEF ProxyInv
<1>2. CASE Next
  <2>1. PICK p \in Procs : \/ ProcStep(p)
                          \/ Launch(p) \/ Enable(p) \/ Disable(p)
                          \/ Exit(p) \/ Kill(p)
    BY <1>2 DEF Next
  <2>2. CASE ProcStep(p)
    BY <2>2, RestoreServiceStep, RestoredStep, RestoreFailsStep, SnapshotStep, ApplyServiceStep,
       EnableFailsStep, NothingAppliedStep, SaveStep, SaveFailsStep DEF ProcStep
  <2>3. CASE Launch(p) \/ Enable(p) \/ Disable(p)
    BY <2>3, LaunchStep, EnableStep, DisableStep
  <2>4. CASE Exit(p) \/ Kill(p)
    BY <2>4, ExitStep, KillStep
  <2> QED  BY <2>1, <2>2, <2>3, <2>4
<1> QED  BY <1>1, <1>2

LEMMA AlwaysProxyInv == ASSUME OneRun PROVE Spec => []ProxyInv
<1>1. ProxyInv /\ [Next]_vars => ProxyInv'
  BY ProxyStep
<1> QED  BY ProxyInit, <1>1, PTL DEF Spec

-----------------------------------------------------------------------------
(* What follows *)

\* The variables have their types.
THEOREM ProxyTypes == ASSUME OneRun PROVE Spec => []TypeOK
<1>1. ProxyInv => TypeOK
  BY DEF ProxyInv
<1> QED  BY AlwaysProxyInv, <1>1, PTL

\* Wherever a run is killed, whichever command fails and however the steps of the
\* processes interleave, a service on our proxy is in the state file, with the user's
\* own setting if every snapshot could read it, unless the program has dropped the
\* record of it (enable, apply and _write_state of common/sysproxy.py).
THEOREM KilledRunsAreRecoverable == ASSUME OneRun PROVE Spec => []Recoverable
<1>1. ASSUME OneRun, ProxyInv PROVE Recoverable
  <2> SUFFICES ASSUME NEW s \in Services \ orphaned, setting[s] = "ours",
                      ~(\E p \in Connectors : pc[p] = "apply" /\ s \in applied[p])
               PROVE  file # None /\ s \in file.changed /\ UsersOwn(s, file.snapshot[s])
    BY DEF Recoverable
  <2>1. s \in Unrecorded
    BY DEF Unrecorded
  <2>2. ~Applying
    BY <1>1, <2>1 DEF Applying, ProxyInv, RecordInv, Procs
  <2>3. file # None /\ s \in file.changed
    BY <1>1, <2>1, <2>2 DEF ProxyInv, RecordInv
  <2> QED  BY <1>1, <2>3 DEF ProxyInv, ValuesInv
<1> QED  BY AlwaysProxyInv, <1>1, PTL

\* The snapshot an active guard will restore is the user's, not our own proxy: enable
\* recovers before it takes one (common/sysproxy.py:355-357).  Of a service that a
\* snapshot could not read it has nothing.
THEOREM SnapshotsAreTheUsers == ASSUME OneRun PROVE Spec => []SnapshotIsTheUsers
<1>1. ASSUME ProxyInv PROVE SnapshotIsTheUsers
  <2> SUFFICES ASSUME NEW p \in Connectors, NEW s \in changed[p] \ orphaned, active[p]
               PROVE  UsersOwn(s, snap[p][s])
    BY DEF SnapshotIsTheUsers
  <2>1. s \in Services /\ p \in Procs
    BY <1>1 DEF ProxyInv, TypeOK, Procs
  <2> QED  BY <1>1, <2>1 DEF ProxyInv, ValuesInv
<1> QED  BY AlwaysProxyInv, <1>1, PTL

\* What LaunchRepairs says of one step.
LaunchLeavesNothing ==
    \A p \in Procs : pc[p] = "off" /\ pc'[p] = "idle"
                     /\ (\A q \in Procs \ {p} : pc[q] = "off")
        => \A s \in Services \ orphaned' : UsersOwn(s, setting[s])

\* Only a launch takes a process to "idle" while all are off; if it finds no file to
\* recover from, there is none, and so nothing on our proxy.
LEMMA LaunchStepRepairs ==
    ASSUME OneRun, ProxyInv, [Next]_vars PROVE LaunchLeavesNothing
<1> SUFFICES ASSUME NEW p \in Procs, pc[p] = "off", pc'[p] = "idle",
                    \A q \in Procs : pc[q] = "off",
                    NEW s \in Services \ orphaned'
             PROVE  UsersOwn(s, setting[s])
  BY DEF LaunchLeavesNothing
<1>1. ~Applying
  BY DEF Applying, Procs
<1>2. file # None => file.pid = Dead
  BY DEF ProxyInv, FileInv, Procs
<1>3. PICK q \in Procs : Launch(q)
  <2>1. ~UNCHANGED vars
    BY DEF vars
  <2>2. PICK q \in Procs : \/ ProcStep(q)
                          \/ Launch(q) \/ Enable(q) \/ Disable(q)
                          \/ Exit(q) \/ Kill(q)
    BY <2>1 DEF Next
  <2>3. ~ProcStep(q)
    BY DEF ProcStep, RestoreService, Restored, RestoreFails, Recovering, Snapshot,
           ApplyService, EnableFails, NothingApplied, Save, SaveFails
  <2>4. ~Enable(q) /\ ~Disable(q) /\ ~Exit(q) /\ ~Kill(q)
    BY DEF Enable, Disable, Exit, Kill
  <2> QED  BY <2>2, <2>3, <2>4
<1>4. ~BeginRecovery(q, "recover")
  BY DEF BeginRecovery, GoesTo, ProxyInv, TypeOK
<1>5. ~IsStale(q) /\ orphaned' = orphaned
  BY <1>3, <1>4 DEF Launch, historyVars
<1>6. file = None
  BY <1>2, <1>5 DEF IsStale
<1>7. setting[s] # "ours"
  BY <1>1, <1>5, <1>6 DEF ProxyInv, RecordInv, Unrecorded
<1> QED  BY <1>5, <1>7 DEF ProxyInv, ValuesInv

\* A launch that is alone and finds nothing to recover leaves nothing on our proxy,
\* so the launch after a killed run repairs it (__main__.py:231-232).
THEOREM LaunchesRepair == ASSUME OneRun PROVE Spec => LaunchRepairs
<1>1. ProxyInv /\ [Next]_vars => [LaunchLeavesNothing]_vars
  BY LaunchStepRepairs
<1> QED  BY <1>1, AlwaysProxyInv, PTL DEF Spec, LaunchRepairs, LaunchLeavesNothing
=============================================================================
