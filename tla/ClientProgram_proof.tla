------------------------ MODULE ClientProgram_proof ------------------------
(***************************************************************************)
(* Whatever the network, the user and the applications do, the system's    *)
(* proxy setting follows the one client: for any number of tunnels, with   *)
(* and without system mode, verification and a wait_closed that waits.     *)
(*                                                                         *)
(* What the program never looks at, the proof has to find: at most one of  *)
(* the tasks that CONNECTED messages create gets as far as a server, for   *)
(* the port is its own until the clean-up; so at most one guard is made    *)
(* while the client runs, and the setting that any guard ever remembers    *)
(* is the user's, unless an enable or a restore has failed before it.      *)
(***************************************************************************)
EXTENDS ClientProgram, SequenceTheorems, TLAPS

\* What ready can hold: the news of one tunnel.
Up == <<"connected">>
UpDown == <<"connected", "disconnected">>
Down == <<"disconnected">>

\* The news that is still to be told leads to the state of the tunnel.
ReadyInv ==
    /\ ready \in {<<>>, Up, UpDown, Down}
    /\ main = "tunnel" => ready = Up \/ (ready = <<>> /\ connected)
    /\ main = "unpaired" => ready \in {UpDown, Down} \/ (ready = <<>> /\ ~connected)
    /\ ready \in {Up, UpDown} => tunnel \in Tunnels /\ task[tunnel] = "created"

\* A guard is active only if its task has been through, and remembers the user's
\* setting, as long as no enable or restore has failed.
TaskInv ==
    \A n \in Tunnels :
        /\ n > tunnel => task[n] = "none"
        /\ after[n] # "none" => task[n] = "done"
        /\ n \in active => after[n] = "done"
        /\ ~broken => snap[n] = "user"

\* Task n holds the port, or has held it.
Serving(n) == task[n] \in {"bound", "done"}

\* Until the clean-up the port belongs to the first task that got it.
ServerInv ==
    Running => \A n \in Tunnels : Serving(n) =>
        /\ port = "ours"
        /\ \A m \in Tunnels : Serving(m) => m = n

GuardInv ==
    /\ guard # None => after[guard] = "done"
    /\ ToggleControls

\* The setting is ours only if a guard has been made.  Setting, state file and guards
\* agree as long as no enable or restore has failed, except when SIGTERM has ended
\* the program.
SettingInv ==
    /\ setting = "ours" => guard # None
    /\ active # {} => guard # None
    /\ ~broken => file \in {None, "user"}
    /\ ~broken /\ setting = "ours" => file = "user"
    /\ ~broken /\ active = {} /\ main # "terminated" => setting = "user" /\ file = None
    /\ main = "exited" => active = {}

\* The inductive invariant.
ClientInv == TypeOK /\ ReadyInv /\ TaskInv /\ ServerInv /\ GuardInv /\ SettingInv

-----------------------------------------------------------------------------
(* Facts about what is ready *)

LEMMA ReadyValues ==
    /\ Up # <<>> /\ UpDown # <<>> /\ Down # <<>>
    /\ Up # UpDown /\ Up # Down /\ UpDown # Down
BY DEF Up, UpDown, Down

LEMMA ReadyHeads ==
    /\ Head(Up) = "connected" /\ Head(UpDown) = "connected" /\ Head(Down) = "disconnected"
    /\ Tail(Up) = <<>> /\ Tail(UpDown) = Down /\ Tail(Down) = <<>>
BY DEF Up, UpDown, Down

LEMMA ReadyAppends ==
    /\ Append(<<>>, "connected") = Up
    /\ Append(<<>>, "disconnected") = Down
    /\ Append(Up, "disconnected") = UpDown
<1>1. Append(<<>>, "connected") = <<"connected">>
  OBVIOUS
<1>2. Append(<<>>, "disconnected") = <<"disconnected">>
  OBVIOUS
<1>3. Append(Up, "disconnected") = UpDown
  <2> DEFINE S == {"connected", "disconnected"}
             r == Append(Up, "disconnected")
  <2>1. Up \in Seq(S) /\ Len(Up) = 1 /\ Up[1] = "connected"
    BY DEF Up
  <2>2. UpDown \in Seq(S) /\ Len(UpDown) = 2 /\ UpDown[1] = "connected" /\ UpDown[2] = "disconnected"
    BY DEF UpDown
  <2>3. r \in Seq(S) /\ Len(r) = 2 /\ r[1] = "connected" /\ r[2] = "disconnected"
    <3>1. Up \in Seq(S) /\ "disconnected" \in S
      BY <2>1
    <3> HIDE DEF S
    <3>2. r \in Seq(S)
      BY <3>1
    <3>3. Len(r) = Len(Up) + 1
      BY <3>1
    <3>4. r[Len(Up) + 1] = "disconnected"
      BY <3>1
    <3>5. \A i \in 1 .. Len(Up) : r[i] = Up[i]
      BY <3>1
    <3> QED  BY <2>1, <3>2, <3>3, <3>4, <3>5
  <2>4. \A i \in 1 .. 2 : r[i] = UpDown[i]
    BY <2>2, <2>3
  <2> HIDE DEF r
  <2>5. r = UpDown
    BY <2>2, <2>3, <2>4, SeqEqual
  <2> QED  BY <2>5 DEF r
<1> QED
  BY <1>1, <1>2, <1>3 DEF Up, Down

LEMMA ReadyTypes ==
    ASSUME NEW r \in {<<>>, Up, UpDown, Down}
    PROVE  r \in Seq({"connected", "disconnected"}) /\ Len(r) \in 0 .. 2
<1> DEFINE S == {"connected", "disconnected"}
<1>1. <<>> \in Seq(S) /\ Len(<<>>) = 0
  OBVIOUS
<1>2. Up \in Seq(S) /\ Len(Up) = 1
  BY DEF Up
<1>3. UpDown \in Seq(S) /\ Len(UpDown) = 2
  BY DEF UpDown
<1>4. Down \in Seq(S) /\ Len(Down) = 1
  BY DEF Down
<1> HIDE DEF S
<1>5. r \in Seq(S)
  BY <1>1, <1>2, <1>3, <1>4
<1>6. Len(r) \in {0, 1, 2}
  BY <1>1, <1>2, <1>3, <1>4
<1> QED
  BY <1>5, <1>6 DEF S

-----------------------------------------------------------------------------
LEMMA ClientInit == Init => ClientInv
<1> SUFFICES ASSUME Init PROVE ClientInv
  OBVIOUS
<1> USE ClientAssumption DEF Init
<1>1. TypeOK
  <2>1. ready \in Seq({"connected", "disconnected"}) /\ Len(ready) <= 2
    BY ReadyTypes
  <2>2. port \in {"free", "ours", "other"}
    BY DEF Init
  <2>3. tunnel \in 0 .. MaxTunnels
    OBVIOUS
  <2>4. connected \in BOOLEAN /\ broken \in BOOLEAN /\ keys = "off"
    OBVIOUS
  <2> QED  BY <2>1, <2>2, <2>3, <2>4 DEF TypeOK, Settings
<1>2. ReadyInv /\ SettingInv
  BY DEF ReadyInv, SettingInv, Up, UpDown, Down
<1>3. TaskInv /\ ServerInv /\ GuardInv
  BY DEF TaskInv, ServerInv, Serving, GuardInv, ToggleControls, Tunnels
<1> QED
  BY <1>1, <1>2, <1>3 DEF ClientInv

LEMMA EnableTypes ==
    ASSUME TypeOK, NEW n \in Tunnels,
           Enables(n) \/ EnableFails \/ UNCHANGED systemVars
    PROVE  /\ active' \subseteq Tunnels /\ snap' \in [Tunnels -> Settings]
           /\ setting' \in Settings /\ file' \in Settings \cup {None} /\ broken' \in BOOLEAN
<1>1. Found \subseteq Settings
  BY DEF TypeOK, Found, Recovered
<1> QED
  BY <1>1 DEF TypeOK, Enables, EnableFails, Settings, systemVars

\* What an enable that does not fail leaves: a record of the user's setting.
LEMMA EnableKeeps ==
    ASSUME TypeOK, SettingInv, NEW n \in Tunnels, Enables(n) \/ EnableFails
    PROVE  /\ active' \subseteq active \cup {n}
           /\ \/ broken'
              \/ /\ setting' = "ours" /\ file' = "user" /\ ~broken
                 /\ snap' = [snap EXCEPT ![n] = "user"]
                 /\ active' = active \cup {n}
<1>1. ~broken => Recovered = "user"
  BY ClientAssumption DEF SettingInv, TypeOK, Recovered, Settings
<1> QED
  BY <1>1 DEF Enables, EnableFails, TypeOK

LEMMA CancelTypes ==
    ASSUME TypeOK, TasksCancelled
    PROVE  /\ ready' = <<>> /\ ready' \in Seq({"connected", "disconnected"}) /\ Len(ready') <= 2
           /\ task' \in [Tunnels -> {"none", "created", "binding", "bound", "failed", "done"}]
           /\ after' \in [Tunnels -> {"none", "pending", "failed", "done"}]
BY DEF TypeOK, TasksCancelled

LEMMA ClientStep == ClientInv /\ [Next]_vars => ClientInv'
<1> SUFFICES ASSUME ClientInv, [Next]_vars PROVE ClientInv'
  OBVIOUS
<1> USE ClientAssumption
<1> USE DEF ClientInv, Running, tunnelVars, taskVars, proxyVars, systemVars
<1>1. CASE UNCHANGED vars
  BY <1>1 DEF vars, TypeOK, ReadyInv, TaskInv, Serving, ServerInv, GuardInv, ToggleControls, SettingInv
<1>2. ASSUME Attempt \/ WebsocketLost \/ Stops \/ MissesCancel PROVE ClientInv'
  BY <1>2, ReadyValues DEF Attempt, WebsocketLost, Stops, MissesCancel, TypeOK, ReadyInv, TaskInv, Serving, ServerInv, GuardInv, ToggleControls, SettingInv
<1>3. ASSUME TunnelConnects PROVE ClientInv'
  <2> USE <1>3 DEF TunnelConnects
  <2>0. ready = <<>> /\ ready' = Up
    BY ReadyAppends DEF Busy
  <2>1. ready = <<>> /\ ready' = Up /\ tunnel' \in Tunnels
    BY <2>0 DEF TypeOK, Tunnels
  <2>2. task[tunnel'] = "none" /\ task' = [task EXCEPT ![tunnel'] = "created"]
    BY <2>1 DEF TaskInv, TypeOK, Tunnels
  <2>3. TypeOK'
    <3>1. ready' \in Seq({"connected", "disconnected"}) /\ Len(ready') <= 2
      BY <2>1, ReadyTypes
    <3>2. tunnel' \in 0 .. MaxTunnels
      BY <2>1 DEF Tunnels
    <3>3. task' \in [Tunnels -> {"none", "created", "binding", "bound", "failed", "done"}]
      BY <2>2 DEF TypeOK
    <3>4. main' = "tunnel"
      OBVIOUS
    <3> QED  BY <3>1, <3>2, <3>3, <3>4 DEF TypeOK
  <2>4. ReadyInv'
    BY <2>1, <2>2, ReadyValues DEF TypeOK, ReadyInv
  <2>5. TaskInv'
    BY <2>1, <2>2 DEF TypeOK, TaskInv, Tunnels
  <2>6. ServerInv' /\ GuardInv' /\ SettingInv'
    BY <2>2, <2>1 DEF TypeOK, ServerInv, Serving, GuardInv, ToggleControls, SettingInv
  <2> QED  BY <2>3, <2>4, <2>5, <2>6
<1>4. ASSUME PeerDisconnects PROVE ClientInv'
  <2> USE <1>4 DEF PeerDisconnects
  <2>1. \/ ready = Up /\ ready' = UpDown
        \/ ready = <<>> /\ ready' = Down
    BY ReadyAppends DEF ReadyInv
  <2>2. TypeOK' /\ ReadyInv'
    BY <2>1, ReadyTypes, ReadyValues DEF TypeOK, ReadyInv
  <2>3. TaskInv' /\ ServerInv' /\ GuardInv' /\ SettingInv'
    BY DEF TypeOK, TaskInv, ServerInv, Serving, GuardInv, ToggleControls, SettingInv
  <2> QED  BY <2>2, <2>3
<1>5. ASSUME FirstStep PROVE ClientInv'
  <2> USE <1>5 DEF FirstStep
  <2>1. \/ ready = Up /\ ready' = <<>> /\ connected' = TRUE
        \/ ready = UpDown /\ ready' = Down /\ connected' = TRUE
        \/ ready = Down /\ ready' = <<>> /\ connected' = FALSE
    BY ReadyHeads DEF ReadyInv
  <2>2. \/ /\ ready \in {Up, UpDown} /\ tunnel \in Tunnels /\ task[tunnel] = "created"
           /\ task' = [task EXCEPT ![tunnel] = "binding"]
        \/ ready = Down /\ task' = task
    BY <2>1, ReadyHeads DEF ReadyInv
  <2>3. TypeOK'
    BY <2>1, <2>2, ReadyTypes DEF TypeOK
  <2>4. ReadyInv'
    BY <2>1, ReadyValues DEF ReadyInv
  <2>5. TaskInv'
    BY <2>2 DEF TypeOK, TaskInv, Tunnels
  <2>6. ServerInv' /\ GuardInv' /\ SettingInv'
    BY <2>2 DEF TypeOK, ServerInv, Serving, GuardInv, ToggleControls, SettingInv
  <2> QED  BY <2>3, <2>4, <2>5, <2>6
<1>6. ASSUME NEW n \in Tunnels, Binds(n) \/ Started(n) \/ BindFails(n) PROVE ClientInv'
  <2>1. /\ task[n] \in {"binding", "bound"}
        /\ \E t \in {"bound", "done", "failed"} : task' = [task EXCEPT ![n] = t]
        /\ UNCHANGED <<main, tunnelVars, conns, guard, systemVars, keys>>
    BY <1>6 DEF Binds, Started, BindFails, StartsAfter
  <2>2. \/ UNCHANGED after
        \/ after' = [after EXCEPT ![n] = "pending"] /\ task' = [task EXCEPT ![n] = "done"]
    BY <1>6 DEF Binds, Started, BindFails, StartsAfter
  <2>3. port' \in {port, "ours"}
    BY <1>6 DEF Binds, Started, BindFails
  <2>4. TypeOK'
    BY <2>1, <2>2, <2>3 DEF TypeOK
  <2>5. ReadyInv'
    BY <2>1 DEF ReadyInv, TypeOK
  <2>6. TaskInv'
    BY <2>1, <2>2 DEF TypeOK, TaskInv
  <2>7. ServerInv'
    BY <1>6 DEF TypeOK, ServerInv, Serving, Binds, Started, BindFails, StartsAfter
  <2>8. GuardInv'
    BY <2>1, <2>2 DEF TypeOK, TaskInv, GuardInv, ToggleControls
  <2>9. SettingInv'
    BY <2>1 DEF SettingInv
  <2> QED  BY <2>4, <2>5, <2>6, <2>7, <2>8, <2>9
<1>7. ASSUME NEW n \in Tunnels, AppliesMode(n) \/ VerificationDies(n) PROVE ClientInv'
  <2>1. after[n] = "pending" /\ \E a \in {"done", "failed"} : after' = [after EXCEPT ![n] = a]
    BY <1>7 DEF AppliesMode, VerificationDies
  <2>2. \/ UNCHANGED <<guard, systemVars>>
        \/ /\ guard' = n /\ after' = [after EXCEPT ![n] = "done"]
           /\ Enables(n) \/ EnableFails \/ UNCHANGED systemVars
    BY <1>7 DEF AppliesMode, VerificationDies
  <2>3. UNCHANGED <<main, tunnelVars, task, proxyVars>> /\ keys' \in {"on", keys} /\ Alive
    BY <1>7 DEF AppliesMode, VerificationDies
  <2>4. TypeOK'
    BY <2>1, <2>2, <2>3, EnableTypes DEF TypeOK
  <2>5. ReadyInv'
    BY <2>3 DEF ReadyInv
  <2>6. ServerInv'
    BY <2>3 DEF ServerInv, Serving
  <2>7. Running => active = {}
    BY <2>1 DEF TaskInv, ServerInv, Serving, GuardInv, ToggleControls, TypeOK
  <2>8. CASE UNCHANGED <<guard, systemVars>>
    <3>1. \A m \in Tunnels : after[m] = "done" => after'[m] = "done"
      BY <2>1 DEF TypeOK
    <3>2. TaskInv'
      BY <2>1, <2>3, <2>8 DEF TypeOK, TaskInv
    <3>3. GuardInv' /\ SettingInv'
      BY <2>3, <2>8, <3>1 DEF TypeOK, GuardInv, ToggleControls, SettingInv
    <3> QED  BY <2>4, <2>5, <2>6, <3>2, <3>3
  <2>9. CASE /\ guard' = n /\ after' = [after EXCEPT ![n] = "done"]
             /\ Enables(n) \/ EnableFails \/ UNCHANGED systemVars
    <3>0. active' \subseteq active \cup {n} /\ (~broken' => \A m \in Tunnels : snap'[m] = "user")
      BY <2>9, EnableKeeps DEF TypeOK, TaskInv
    <3>1. TaskInv'
      BY <2>1, <2>3, <2>9, <3>0 DEF TypeOK, TaskInv
    <3>2. GuardInv'
      BY <2>3, <2>7, <2>9 DEF TypeOK, GuardInv, ToggleControls, Enables, EnableFails
    <3>3. SettingInv'
      BY <2>3, <2>9, EnableKeeps DEF TypeOK, SettingInv, Alive
    <3> QED  BY <2>4, <2>5, <2>6, <3>1, <3>2, <3>3
  <2> QED  BY <2>2, <2>8, <2>9
<1>8. ASSUME Toggles \/ Cleanup \/ RestoreInterrupted PROVE ClientInv'
  <2>1. /\ UNCHANGED <<tunnel, connected, conns, guard>>
        /\ keys' \in {keys, "dead"}
        /\ port' = port \/ (port' = "free" /\ main' = "closing")
        /\ main' = main \/ (main = "restoring" /\ main' \in {"closing", "returned"})
    BY <1>8 DEF Toggles, Cleanup, RestoreInterrupted, TasksCancelled
  <2>2. \/ UNCHANGED <<ready, taskVars>>
        \/ TasksCancelled /\ main' = "returned"
    BY <1>8 DEF Toggles, Cleanup, RestoreInterrupted
  <2>3. main \notin {"exited", "terminated"}
    BY <1>8 DEF Toggles, Cleanup, RestoreInterrupted, Alive
  <2>4. \/ UNCHANGED systemVars
        \/ guard \in Tunnels /\ (Enables(guard) \/ EnableFails)
        \/ guard \in active /\ (Restores(guard) \/ RestoreFails(guard))
    BY <1>8 DEF Toggles, Cleanup, RestoreInterrupted, Disables, TypeOK
  <2>5. TypeOK'
    <3>1. /\ active' \subseteq Tunnels /\ snap' \in [Tunnels -> Settings]
          /\ setting' \in Settings /\ file' \in Settings \cup {None} /\ broken' \in BOOLEAN
      <4>1. CASE guard \in active /\ (Restores(guard) \/ RestoreFails(guard))
        <5>1. active' = active \ {guard} /\ snap' = snap /\ file' = None
          BY <4>1 DEF Restores, RestoreFails
        <5>2. setting' \in {setting, snap[guard]}
          BY <4>1 DEF Restores, RestoreFails
        <5>3. broken' \in BOOLEAN
          BY <4>1 DEF TypeOK, Restores, RestoreFails
        <5> QED  BY <4>1, <5>1, <5>2, <5>3 DEF TypeOK
      <4>2. CASE guard \in Tunnels /\ (Enables(guard) \/ EnableFails)
        BY <4>2, EnableTypes
      <4>3. CASE UNCHANGED systemVars
        BY <4>3 DEF TypeOK
      <4> QED  BY <2>4, <4>1, <4>2, <4>3
    <3>2. /\ ready' \in Seq({"connected", "disconnected"}) /\ Len(ready') <= 2
          /\ task' \in [Tunnels -> {"none", "created", "binding", "bound", "failed", "done"}]
          /\ after' \in [Tunnels -> {"none", "pending", "failed", "done"}]
      BY <2>2, CancelTypes DEF TypeOK
    <3>3. /\ tunnel' \in 0 .. MaxTunnels /\ connected' \in BOOLEAN /\ conns' \subseteq Conns
          /\ guard' \in Tunnels \cup {None} /\ keys' \in {"off", "on", "dead"}
          /\ port' \in {"free", "ours", "other"}
      BY <2>1 DEF TypeOK
    <3>4. main' \in {main, "closing", "returned"}
      BY <2>1
    <3> QED  BY <3>1, <3>2, <3>3, <3>4 DEF TypeOK
  <2>6. ReadyInv'
    BY <2>1, <2>2, ReadyValues DEF ReadyInv, TasksCancelled
  <2>7. TaskInv'
    <3>1. \A m \in Tunnels : /\ task[m] = "none" => task'[m] = "none"
                             /\ after[m] = "done" => after'[m] = "done"
                             /\ after'[m] # "none" => task'[m] = "done"
      BY <2>2 DEF TypeOK, TaskInv, TasksCancelled
    <3>2. \A m \in Tunnels : /\ m \in active' => m \in active \/ m = guard
                             /\ ~broken' => snap'[m] = "user"
      <4>1. CASE UNCHANGED systemVars
        BY <4>1 DEF TaskInv
      <4>2. CASE guard \in Tunnels /\ (Enables(guard) \/ EnableFails)
        BY <4>2, EnableKeeps DEF TypeOK, TaskInv
      <4>3. CASE guard \in active /\ (Restores(guard) \/ RestoreFails(guard))
        BY <4>3 DEF TypeOK, TaskInv, Restores, RestoreFails
      <4> QED  BY <2>4, <4>1, <4>2, <4>3
    <3> QED  BY <2>1, <3>1, <3>2 DEF TypeOK, TaskInv, GuardInv
  <2>8. ServerInv'
    BY <2>1, <2>2 DEF ServerInv, Serving
  <2>9. GuardInv'
    <3>1. guard # None => after'[guard] = "done"
      BY <2>2 DEF TypeOK, GuardInv, TasksCancelled
    <3>2. active' \subseteq active \cup {guard}
      BY <2>4 DEF Enables, EnableFails, Restores, RestoreFails
    <3> QED  BY <2>1, <3>1, <3>2 DEF GuardInv, ToggleControls
  <2>10. SettingInv'
    <3>1. CASE UNCHANGED systemVars
      BY <2>1, <2>3, <3>1 DEF SettingInv
    <3>2. CASE guard \in Tunnels /\ (Enables(guard) \/ EnableFails)
      BY <2>1, <2>3, <3>2, EnableKeeps DEF TypeOK, SettingInv
    <3>3. CASE guard \in active /\ Restores(guard)
      BY <2>1, <2>3, <3>3 DEF TypeOK, TaskInv, SettingInv, Restores
    <3>4. CASE guard \in active /\ RestoreFails(guard)
      BY <2>1, <2>3, <3>4 DEF TypeOK, SettingInv, RestoreFails
    <3> QED  BY <2>4, <3>1, <3>2, <3>3, <3>4
  <2> QED  BY <2>5, <2>6, <2>7, <2>8, <2>9, <2>10
<1>9. ASSUME NEW c \in Conns, AppConnects(c) \/ AppCloses(c) PROVE ClientInv'
  BY <1>9 DEF AppConnects, AppCloses, TypeOK, ReadyInv, TaskInv, Serving, ServerInv, GuardInv, ToggleControls, SettingInv
<1>10. ASSUME KeysDie \/ LoopsEnd \/ ProxyStopped PROVE ClientInv'
  <2>1. /\ UNCHANGED <<tunnel, ready, taskVars, port, guard, systemVars>>
        /\ conns' \in {{}, conns} /\ connected' \in {FALSE, connected}
        /\ keys' \in {keys, "off", "dead"}
        /\ \/ main' = main /\ connected' = connected
           \/ main \in {"cleanup", "closing"} /\ main' \in {"restoring", "returned"}
    BY <1>10 DEF KeysDie, LoopsEnd, ProxyStopped
  <2>2. TypeOK'
    <3>1. keys' \in {"off", "on", "dead"} /\ conns' \subseteq Conns /\ connected' \in BOOLEAN
      BY <2>1 DEF TypeOK
    <3>2. main' \in {main, "restoring", "returned"}
      BY <2>1
    <3> QED  BY <2>1, <3>1, <3>2 DEF TypeOK
  <2>3. ReadyInv' /\ SettingInv'
    BY <2>1 DEF ReadyInv, SettingInv
  <2>4. TaskInv' /\ ServerInv' /\ GuardInv'
    BY <2>1 DEF TypeOK, TaskInv, ServerInv, Serving, GuardInv, ToggleControls
  <2> QED  BY <2>2, <2>3, <2>4
<1>11. ASSUME Interrupts PROVE ClientInv'
  <2>1. /\ TasksCancelled /\ UNCHANGED <<proxyVars, guard, systemVars, keys>>
        /\ ~Running' /\ main' \in {"cleanup", "restoring", "returned"}
        /\ main \in {"cleanup", "stuck", "restoring", "closing"}
    BY <1>11 DEF Interrupts
  <2>2. TypeOK'
    <3>1. tunnel' = tunnel /\ connected' = connected
      BY <2>1 DEF TasksCancelled
    <3> QED  BY <2>1, <3>1, CancelTypes DEF TypeOK
  <2>3. ReadyInv' /\ ServerInv' /\ SettingInv'
    BY <2>1, ReadyValues DEF ReadyInv, ServerInv, SettingInv, TasksCancelled
  <2>4. TaskInv'
    BY <2>1 DEF TypeOK, TaskInv, TasksCancelled
  <2>5. GuardInv'
    BY <2>1 DEF TypeOK, GuardInv, ToggleControls, TasksCancelled
  <2> QED  BY <2>2, <2>3, <2>4, <2>5
<1>12. ASSUME Exits \/ Terminated PROVE ClientInv'
  <2>1. /\ UNCHANGED <<tunnelVars, taskVars, guard, snap>> /\ keys' = "off"
        /\ conns' = {} /\ active' = {} /\ port' \in {"free", port}
        /\ main' \in {"exited", "terminated"}
    BY <1>12 DEF Exits, Terminated
  <2>2. file' \in {file, None} /\ broken' \in {broken, TRUE}
    BY <1>12 DEF Exits, Terminated
  <2>3. setting' = setting \/ \E n \in active : setting' = snap[n]
    BY <1>12 DEF Exits, Terminated
  <2>4. main' # "terminated" /\ ~broken' => setting' = "user" /\ file' = None
    BY <1>12 DEF Exits, Terminated, TaskInv, TypeOK, SettingInv
  <2>5. TypeOK'
    <3>1. setting' \in Settings
      BY <2>3 DEF TypeOK
    <3>2. file' \in Settings \cup {None}
      BY <2>2 DEF TypeOK
    <3>3. broken' \in BOOLEAN
      BY <2>2 DEF TypeOK
    <3>4. port' \in {"free", "ours", "other"}
      BY <2>1 DEF TypeOK
    <3> QED  BY <2>1, <3>1, <3>2, <3>3, <3>4 DEF TypeOK
  <2>6. ReadyInv'
    BY <2>1 DEF ReadyInv
  <2>7. TaskInv'
    <3>1. ~broken' => ~broken
      BY <2>2 DEF TypeOK
    <3> QED  BY <2>1, <3>1 DEF TypeOK, TaskInv
  <2>8. ServerInv' /\ GuardInv'
    BY <2>1 DEF TypeOK, ServerInv, GuardInv, ToggleControls
  <2>9. SettingInv'
    <3>1. ~broken' /\ main' = "terminated" => UNCHANGED <<setting, file, broken>>
      BY <1>12 DEF Exits, Terminated
    <3> QED  BY <2>1, <2>2, <2>3, <2>4, <3>1 DEF SettingInv, TypeOK
  <2> QED  BY <2>5, <2>6, <2>7, <2>8, <2>9
<1> QED
  BY <1>1, <1>2, <1>3, <1>4, <1>5, <1>6, <1>7, <1>8, <1>9, <1>10, <1>11, <1>12
  DEF Next, TaskStep, Ending

LEMMA ClientSafe == Spec => []ClientInv
BY ClientInit, ClientStep, PTL DEF Spec

-----------------------------------------------------------------------------
(* The theorems *)

\* The variables of ClientProgram keep their types, the guard's snapshots among them.
THEOREM ClientTypes == Spec => []TypeOK
<1>1. ClientInv => TypeOK
  BY DEF ClientInv
<1> QED  BY <1>1, ClientSafe, PTL

\* The setting of the system follows the one client: it names the local proxy's port
\* only while the client itself listens there, whatever has failed; the guard that the
\* key "s" toggles is the one in force; and a program that ends has put the user's
\* setting back unless an enable or a restore has failed (client/client.py).
THEOREM SettingFollowsClient == Spec => []SettingsFollow
<1>1. ClientInv => RestoredAtExit
  BY DEF ClientInv, SettingInv, RestoredAtExit
<1>2. ClientInv => ToggleControls
  BY DEF ClientInv, GuardInv
<1>3. ClientInv => SettingPointsAtUs
  <2> SUFFICES ASSUME ClientInv, Running, setting = "ours" PROVE port = "ours"
    BY DEF SettingPointsAtUs
  <2>1. guard \in Tunnels /\ Serving(guard)
    BY DEF ClientInv, SettingInv, GuardInv, TaskInv, Serving, TypeOK
  <2> QED  BY <2>1 DEF ClientInv, ServerInv
<1> QED  BY <1>1, <1>2, <1>3, ClientSafe, PTL DEF SettingsFollow

\* However quickly CONNECTED and PEER_DISCONNECTED come after each other, and however
\* often the websocket is lost, the last of them decides what the client says.
THEOREM LastNewsIsSeen == Spec => []ConnectedIsSeen
<1>1. ClientInv => ConnectedIsSeen
  BY ReadyValues DEF ClientInv, ReadyInv, ConnectedIsSeen, TypeOK
<1> QED  BY <1>1, ClientSafe, PTL
=============================================================================
