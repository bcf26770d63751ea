--------------------------- MODULE ClientProgram ---------------------------
(***************************************************************************)
(* One run of "wayport connect": WayportClient of client/client.py from    *)
(* its first connection attempt to the end of the process.                 *)
(*                                                                         *)
(* The coroutines are connect() with the tunnel's loop inside it and       *)
(* _cleanup after it; for each CONNECTED message a task                    *)
(* _on_tunnel_connected, which starts the local proxy and creates a task   *)
(* _after_connect; for each PEER_DISCONNECTED a task                       *)
(* _on_tunnel_disconnected; and the key listener.  Tasks take their first  *)
(* step in the order in which they were created.                           *)
(*                                                                         *)
(* The system's proxy setting is one value here, and so is the state file: *)
(* SystemProxy has the steps of a guard one by one.  An enable or a        *)
(* restore awaits nothing, so to the tasks of this process it is one step, *)
(* with the ways in which it may fail.                                     *)
(***************************************************************************)
EXTENDS Naturals, Sequences

CONSTANTS
    Conns,       \* connections of applications to the local proxy
    MaxTunnels,  \* bound: CONNECTED messages in one run
    SystemMode,  \* --mode system
    Verify,      \* not --no-verify
    WaitsForAll, \* does Server.wait_closed await open connections (Python 3.12 on)?
    Foreign,     \* bound: may another program hold the port?
    Faults,      \* bound: what may go wrong on the machine, of "proxy" (a command of
                 \* the system proxy fails, or SIGINT ends it), "keys" (the key
                 \* listener raises) and "term" (SIGTERM)
    None

Tunnels == 1 .. MaxTunnels

ASSUME ClientAssumption ==
    /\ MaxTunnels \in Nat
    /\ {SystemMode, Verify, WaitsForAll, Foreign} \subseteq BOOLEAN
    /\ Faults \subseteq {"proxy", "keys", "term"}
    /\ None \notin Tunnels /\ None \notin {"user", "ours"}

VARIABLES
    main,       \* where connect() is
    tunnel,     \* the number of CONNECTED messages so far
    ready,      \* tasks that have yet to take their first step
    task,       \* per CONNECTED message, its _on_tunnel_connected
    after,      \* per CONNECTED message, its _after_connect
    connected,  \* _connected
    port,       \* who listens on the local proxy's port
    conns,      \* the open connections of applications
    guard,      \* system_proxy: guards are numbered by their _after_connect
    active,     \* the guards that are active; each has an atexit hook then
    snap,       \* per guard, its snapshot
    setting,    \* the system's proxy setting
    file,       \* the snapshot in the state file
    broken,     \* history: has an enable or a restore of the proxy failed?
    keys        \* the key listener

tunnelVars == <<tunnel, ready, connected>>
taskVars == <<task, after>>
proxyVars == <<port, conns>>
systemVars == <<active, snap, setting, file, broken>>
vars == <<main, tunnelVars, taskVars, proxyVars, guard, systemVars, keys>>

Settings == {"user", "ours"}

Running == main \in {"offline", "asked", "tunnel", "unpaired"}

TypeOK ==
    /\ main \in {"offline", "asked", "tunnel", "unpaired", "cleanup", "stuck",
                 "restoring", "closing", "returned", "exited", "terminated"}
    /\ tunnel \in 0 .. MaxTunnels
    /\ ready \in Seq({"connected", "disconnected"}) /\ Len(ready) <= 2
    /\ task \in [Tunnels -> {"none", "created", "binding", "bound", "failed", "done"}]
    /\ after \in [Tunnels -> {"none", "pending", "failed", "done"}]
    /\ connected \in BOOLEAN
    /\ port \in {"free", "ours", "other"}
    /\ conns \subseteq Conns
    /\ guard \in Tunnels \cup {None}
    /\ active \subseteq Tunnels
    /\ snap \in [Tunnels -> Settings]
    /\ setting \in Settings
    /\ file \in Settings \cup {None}
    /\ broken \in BOOLEAN
    /\ keys \in {"off", "on", "dead"}

Init ==
    /\ main = "offline"
    /\ tunnel = 0 /\ ready = <<>> /\ connected = FALSE
    /\ task = [n \in Tunnels |-> "none"]
    /\ after = [n \in Tunnels |-> "none"]
    /\ port \in IF Foreign THEN {"free", "other"} ELSE {"free"}
    /\ conns = {}
    /\ guard = None /\ active = {}
    /\ snap = [n \in Tunnels |-> "user"]
    /\ setting = "user" /\ file = None /\ broken = FALSE
    /\ keys = "off"

-----------------------------------------------------------------------------
(* The tunnel, as its callbacks show it *)

\* connected_to_relay: a websocket, and CONNECT is sent.
Attempt ==
    /\ main = "offline"
    /\ main' = "asked"
    /\ UNCHANGED <<tunnelVars, taskVars, proxyVars, guard, systemVars, keys>>

\* Tasks that await nothing but the event loop.
Busy == ready # <<>> \/ \E n \in Tunnels : task[n] \in {"created", "binding", "bound"}

\* CONNECTED, _handle_connected.  An attempt begins with a second's sleep, so the
\* tasks of the last tunnel have long had their turn.
TunnelConnects ==
    /\ main = "asked" /\ tunnel < MaxTunnels /\ ~Busy
    /\ main' = "tunnel"
    /\ tunnel' = tunnel + 1
    /\ task' = [task EXCEPT ![tunnel + 1] = "created"]
    /\ ready' = Append(ready, "connected")
    /\ UNCHANGED <<connected, after, proxyVars, guard, systemVars, keys>>

\* PEER_DISCONNECTED, _handle_disconnected.  The websocket stays, and CONNECT is
\* not sent on it again.
PeerDisconnects ==
    /\ main = "tunnel"
    /\ main' = "unpaired"
    /\ ready' = Append(ready, "disconnected")
    /\ UNCHANGED <<tunnel, connected, taskVars, proxyVars, guard, systemVars, keys>>

\* Mutant: the end of a websocket is told like PEER_DISCONNECTED, after it as well.
WebsocketLost_Tells ==
    /\ main \in {"asked", "tunnel", "unpaired"}
    /\ main' = "offline"
    /\ ready' = Append(ready, "disconnected")
    /\ UNCHANGED <<tunnel, connected, taskVars, proxyVars, guard, systemVars, keys>>

\* The websocket fails: only the status callback is called.
WebsocketLost ==
    /\ main \in {"asked", "tunnel", "unpaired"}
    /\ main' = "offline"
    /\ UNCHANGED <<tunnelVars, taskVars, proxyVars, guard, systemVars, keys>>

-----------------------------------------------------------------------------
(* The tasks *)

\* The loop is alive: the tasks go on during the clean-up.
Alive == Running \/ main \in {"cleanup", "stuck", "restoring", "closing"}

\* Mutant: the task that was created last runs first.
FirstStep_NewestFirst ==
    /\ Alive /\ ready # <<>>
    /\ ready' = SubSeq(ready, 1, Len(ready) - 1)
    /\ connected' = (ready[Len(ready)] = "connected")
    /\ task' = IF ready[Len(ready)] = "connected"
               THEN [task EXCEPT ![tunnel] = "binding"] ELSE task
    /\ UNCHANGED <<main, tunnel, after, proxyVars, guard, systemVars, keys>>

\* _on_tunnel_connected up to the await in LocalProxy.start;
\* _on_tunnel_disconnected.
FirstStep ==
    /\ Alive /\ ready # <<>>
    /\ ready' = Tail(ready)
    /\ connected' = (Head(ready) = "connected")
    /\ \/ /\ Head(ready) = "connected"
          /\ task' = [task EXCEPT ![tunnel] = "binding"]
       \/ /\ Head(ready) = "disconnected"
          /\ UNCHANGED task
    /\ UNCHANGED <<main, tunnel, after, proxyVars, guard, systemVars, keys>>

Binds(n) ==
    /\ Alive /\ task[n] = "binding" /\ port = "free"
    /\ port' = "ours"
    /\ task' = [task EXCEPT ![n] = "bound"]
    /\ UNCHANGED <<main, tunnelVars, after, conns, guard, systemVars, keys>>

\* LocalProxy.start returns, and _after_connect is created.
StartsAfter(n) ==
    /\ task' = [task EXCEPT ![n] = "done"]
    /\ after' = [after EXCEPT ![n] = "pending"]

Started(n) ==
    /\ Alive /\ task[n] = "bound"
    /\ StartsAfter(n)
    /\ UNCHANGED <<main, tunnelVars, proxyVars, guard, systemVars, keys>>

\* The port is taken.  asyncio's message is "... address already in use", which
\* the test for "Address already in use" does not match: the task fails, unseen.
BindFails(n) ==
    /\ Alive /\ task[n] = "binding" /\ port # "free"
    /\ task' = [task EXCEPT ![n] = "failed"]
    /\ UNCHANGED <<main, tunnelVars, after, proxyVars, guard, systemVars, keys>>

\* What a snapshot finds: a state file of the own process is recovered before it, if
\* that restore does not raise.
Recovered == IF file = None THEN setting ELSE file

Found == {Recovered} \cup (IF "proxy" \in Faults THEN {setting} ELSE {})

\* SystemProxyGuard.enable
Enables(n) ==
    \E before \in Found :
        /\ setting' = "ours" /\ file' = before
        /\ snap' = [snap EXCEPT ![n] = before]
        /\ active' = active \cup {n}
        /\ broken' = (broken \/ before # Recovered)

\* enable ends without a guard: apply raises after some services are set and the
\* record is dropped, or the write after it raises, or KeyboardInterrupt ends it.
EnableFails ==
    /\ "proxy" \in Faults
    /\ \E before \in Found : setting' \in {before, "ours"} /\ file' \in {before, None}
    /\ broken' = TRUE
    /\ UNCHANGED <<active, snap>>

\* SystemProxyGuard.disable of an active guard
Restores(n) ==
    /\ setting' = snap[n] /\ file' = None
    /\ active' = active \ {n}
    /\ UNCHANGED <<snap, broken>>

\* A command of the restore raises, or KeyboardInterrupt goes through it: the guard
\* is inactive, its hook is gone and so is the record.
RestoreFails(n) ==
    /\ "proxy" \in Faults
    /\ file' = None /\ active' = active \ {n}
    /\ broken' = TRUE
    /\ UNCHANGED <<setting, snap>>

Disables(n) == Restores(n) \/ RestoreFails(n)

\* The verification, if there is one, has returned an address, or None after 15
\* seconds.  _apply_mode makes a guard, and enables it in system mode if the system
\* lets it; the key listener is started if there is a terminal.
AppliesMode(n) ==
    /\ Alive /\ after[n] = "pending"
    /\ after' = [after EXCEPT ![n] = "done"]
    /\ guard' = n
    /\ (SystemMode /\ (Enables(n) \/ EnableFails)) \/ UNCHANGED systemVars
    /\ keys' \in {"on", keys}
    /\ UNCHANGED <<main, tunnelVars, task, proxyVars>>

\* The connection of the verification ends inside an answer: IncompleteReadError is
\* none of the errors that are caught, and the mode is never applied.
VerificationDies(n) ==
    /\ Alive /\ Verify /\ after[n] = "pending"
    /\ after' = [after EXCEPT ![n] = "failed"]
    /\ UNCHANGED <<main, tunnelVars, task, proxyVars, guard, systemVars, keys>>

\* The key "s".  What enable raises ends the listener.
Toggles ==
    /\ Alive /\ keys = "on" /\ guard # None
    /\ \/ guard \in active /\ Disables(guard) /\ UNCHANGED keys
       \/ guard \notin active /\ Enables(guard) /\ UNCHANGED keys
       \/ guard \notin active /\ EnableFails /\ keys' \in {keys, "dead"}
    /\ UNCHANGED <<main, tunnelVars, taskVars, proxyVars, guard>>

\* The listener's task raises: the terminal, or the browser of the key "b".
KeysDie ==
    /\ Alive /\ keys = "on" /\ "keys" \in Faults
    /\ keys' = "dead"
    /\ UNCHANGED <<main, tunnelVars, taskVars, proxyVars, guard, systemVars>>

-----------------------------------------------------------------------------
(* Applications *)

\* Bound: only before the clean-up.
AppConnects(c) ==
    /\ Running /\ port = "ours" /\ c \notin conns
    /\ conns' = conns \cup {c}
    /\ UNCHANGED <<main, tunnelVars, taskVars, port, guard, systemVars, keys>>

AppCloses(c) ==
    /\ Alive /\ c \in conns
    /\ conns' = conns \ {c}
    /\ UNCHANGED <<main, tunnelVars, taskVars, port, guard, systemVars, keys>>

-----------------------------------------------------------------------------
(* The end *)

\* Ctrl+C, an error that is fatal, or a rejected token.
Stops ==
    /\ Running
    /\ main' = "cleanup"
    /\ UNCHANGED <<tunnelVars, taskVars, proxyVars, guard, systemVars, keys>>

\* LocalProxy._server is set: a start has returned.
HasServer == \E n \in Tunnels : task[n] = "done"

\* _cleanup cancels the receive loop while it awaits the close of a connection, and
\* close suppresses the cancellation: the loop goes on, and _cleanup awaits it.
MissesCancel ==
    /\ main = "cleanup" /\ conns # {}
    /\ main' = "stuck"
    /\ UNCHANGED <<tunnelVars, taskVars, proxyVars, guard, systemVars, keys>>

\* The loops and the key listener have been cancelled, and are over.  To await a
\* listener that has raised raises again, past the rest of _cleanup.
LoopsEnd ==
    /\ main = "cleanup"
    /\ main' = IF keys = "dead" THEN "returned" ELSE "restoring"
    /\ keys' = "off"
    /\ UNCHANGED <<tunnelVars, taskVars, proxyVars, guard, systemVars>>

\* The rest of _cleanup up to its next await: the guard is disabled, and
\* LocalProxy.stop closes the server.
Cleanup ==
    /\ main = "restoring"
    /\ main' = "closing"
    /\ IF guard \in active THEN Disables(guard) ELSE UNCHANGED systemVars
    /\ port' = IF HasServer /\ port = "ours" THEN "free" ELSE port
    /\ UNCHANGED <<tunnelVars, taskVars, conns, guard, keys>>

\* The connections that keep wait_closed waiting; a verification has one too.
ServerIsBusy == conns # {} \/ (Verify /\ \E n \in Tunnels : after[n] = "pending")

\* LocalProxy.stop returns, with every connection closed.
ProxyStopped ==
    /\ main = "closing"
    /\ WaitsForAll /\ HasServer => ~ServerIsBusy
    /\ main' = "returned"
    /\ conns' = {}
    /\ connected' = FALSE
    /\ UNCHANGED <<tunnel, ready, taskVars, port, guard, systemVars, keys>>

\* asyncio.run cancels every task once KeyboardInterrupt has left the loop.
TasksCancelled ==
    /\ ready' = <<>>
    /\ task' = [n \in Tunnels |-> IF task[n] \in {"created", "binding", "bound"}
                                  THEN "failed" ELSE task[n]]
    /\ after' = [n \in Tunnels |-> IF after[n] = "pending" THEN "failed" ELSE after[n]]
    /\ UNCHANGED <<tunnel, connected>>

\* A second Ctrl+C.  KeyboardInterrupt ends _cleanup if that is what runs; otherwise
\* _cleanup is cancelled with every other task, suppresses it where it awaits the
\* loops and goes on, but not in LocalProxy.stop.
Interrupts ==
    /\ \/ main \in {"cleanup", "stuck"} /\ main' \in {"cleanup", "returned"}
       \/ main = "restoring" /\ main' \in {"restoring", "returned"}
       \/ main = "closing" /\ main' = "returned"
    /\ TasksCancelled
    /\ UNCHANGED <<proxyVars, guard, systemVars, keys>>

\* The second Ctrl+C comes inside disable, in the commands of the restore.
RestoreInterrupted ==
    /\ main = "restoring" /\ guard \in active
    /\ main' = "returned"
    /\ RestoreFails(guard)
    /\ TasksCancelled
    /\ UNCHANGED <<proxyVars, guard, keys>>

\* Mutant: no atexit hook.
Exits_NoHook ==
    /\ main = "returned"
    /\ main' = "exited"
    /\ keys' = "off" /\ conns' = {} /\ active' = {}
    /\ port' = IF port = "ours" THEN "free" ELSE port
    /\ UNCHANGED <<tunnelVars, taskVars, guard, snap, setting, file, broken>>

\* asyncio.run cancels what is left, then the atexit hooks disable the guards, the
\* last one first; a hook may fail like any disable.
Exits ==
    /\ main = "returned"
    /\ main' = "exited"
    /\ keys' = "off" /\ conns' = {} /\ active' = {}
    /\ port' = IF port = "ours" THEN "free" ELSE port
    /\ file' = IF active = {} THEN file ELSE None
    /\ \/ active = {} /\ UNCHANGED <<setting, broken>>
       \/ \E first \in active :
              /\ \A n \in active : first <= n
              /\ setting' = snap[first] /\ UNCHANGED broken
       \/ /\ active # {} /\ "proxy" \in Faults
          /\ setting' \in {setting} \cup {snap[n] : n \in active}
          /\ broken' = TRUE
    /\ UNCHANGED <<tunnelVars, taskVars, guard, snap>>

\* SIGTERM: nothing in the program handles it, and atexit hooks do not run.
Terminated ==
    /\ "term" \in Faults
    /\ main \notin {"exited", "terminated"}
    /\ main' = "terminated"
    /\ port' = IF port = "ours" THEN "free" ELSE port
    /\ conns' = {} /\ active' = {} /\ keys' = "off"
    /\ UNCHANGED <<tunnelVars, taskVars, guard, snap, setting, file, broken>>

-----------------------------------------------------------------------------
TaskStep(n) ==
    Binds(n) \/ Started(n) \/ BindFails(n) \/ AppliesMode(n) \/ VerificationDies(n)

Ending == LoopsEnd \/ Cleanup \/ ProxyStopped \/ Exits

Next ==
    \/ Attempt \/ TunnelConnects \/ PeerDisconnects \/ WebsocketLost
    \/ FirstStep \/ \E n \in Tunnels : TaskStep(n)
    \/ Toggles \/ KeysDie
    \/ \E c \in Conns : AppConnects(c) \/ AppCloses(c)
    \/ Stops \/ MissesCancel \/ Ending
    \/ Interrupts \/ RestoreInterrupted \/ Terminated

Spec == Init /\ [][Next]_vars

\* Tasks go on; the end of the program does once what it awaits is there.  Nobody
\* makes the user press a key or an application close its connection.
FairSpec ==
    /\ Spec
    /\ WF_vars(FirstStep)
    /\ \A n \in Tunnels : WF_vars(TaskStep(n))
    /\ WF_vars(Ending)

-----------------------------------------------------------------------------
(* What the client promises *)

\* However the clean-up and the tasks that are still running interleave, and wherever
\* outside the commands of the system proxy a second Ctrl+C comes, a program that ends
\* leaves the user's settings and no state file, unless an enable or a restore has
\* failed (common/sysproxy.py:3-9, README.md:108-109).
RestoredAtExit == main = "exited" /\ ~broken => setting = "user" /\ file = None

\* The guard that the key "s" and the status line are about is the one that is in
\* force, after any number of reconnections.
ToggleControls == Running => active \subseteq {guard}

\* While the client runs, the system is pointed at a port only if the client itself
\* listens there.
SettingPointsAtUs == Running /\ setting = "ours" => port = "ours"

\* The setting follows the one client, through toggles, reconnections and its end.
SettingsFollow == RestoredAtExit /\ ToggleControls /\ SettingPointsAtUs

\* Once the tasks have taken their first steps, the last of CONNECTED and
\* PEER_DISCONNECTED decides what the client says, however quickly they came.
ConnectedIsSeen ==
    main \in {"tunnel", "unpaired"} /\ ready = <<>> => (connected <=> main = "tunnel")

(* What is not true *)

\* Under FairSpec: a clean-up ends the process (client/client.py:305,
\* "Ctrl+C to disconnect.").
EndsWhenAsked == (main = "cleanup") ~> (main \in {"exited", "terminated"})

\* A program that ends has restored the settings, whatever failed
\* (common/sysproxy.py:334, "guarantee it is put back").
AlwaysPutBack == main = "exited" => setting = "user"

\* Once the tasks are through, a tunnel that was verified has its mode applied, for
\* verification "returns None on any failure" (common/verify.py:31-32).
ModeIsApplied == Running => \A n \in Tunnels : after[n] # "failed"

\* A tunnel that comes back while the local proxy is running is announced like the
\* first one (client/client.py:446, "Proxy already running, continuing...").
ContinuesIfRunning == \A n \in Tunnels : task[n] = "failed" => port = "other"

\* While the local proxy is being stopped the settings are the user's again
\* (client/client.py:203,
\* "Restore OS network settings before anything else can fail.").
CleanupRestores == main = "closing" => setting = "user"

\* SIGTERM restores the settings (common/sysproxy.py:8).
RestoredOnSignal == main = "terminated" => setting = "user"

\* A client that says it is connected has a tunnel (client/client.py:123).
ConnectedIsTrue == ready = <<>> /\ connected => main = "tunnel"
=============================================================================
