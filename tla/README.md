# A verification project for Wayport

Wayport tunnels the traffic of one machine (`wayport connect`, the *client*)
through another (`wayport share`, the *exit node*). Neither can be reached from
outside, so both open a websocket to a *relay*, which pairs them by a short
code and passes frames on. All three are asyncio programs. The modules here
model their core logic, TLC checks them on small instances, and TLAPS proves
their safety properties for all instances.

Paths below are relative to `src/wayport/`, those of documents and tests to the
repository.

## 1. Inventory

| Part | State it keeps | Operations | What is hard | What makes it correct |
|---|---|---|---|---|
| Relay session tables, `relay/session.py` | `_exitnodes`, `_clients`, `_codes`, the attributes of sessions | create, look up, remove, link, unlink, expire | session objects outlive their entries; two tables and a code table that must agree | a code leads to the session that owns it; both ends of a link agree |
| Relay broker, `relay/broker.py` | none of its own | connect, relay, disconnect | every operation reads, awaits a send and then writes | one client per exit node; data only inside a tunnel; both ends told of its end |
| Relay handlers, `relay/server.py` | one coroutine per websocket | register, connect, finally blocks, clean-up loop | a handler is suspended while others change its session | a drop frees the other side and removes the session |
| Relay admission, `relay/server.py:79-102` | recent connects of each address | token, rate limit | both ends of the sliding window; refused attempts | the limit in every window, and refusals only because of it |
| Exit node's tunnel, `exitnode/tunnel.py` | `_ws`, last code, current tunnel | attempt, register, read | its earlier connection may still be alive at the relay | the code shown leads to it |
| Client's tunnel, `client/tunnel.py` | `_ws`, tunnel id, fatal error | attempt, connect, read | which errors end it; which are retried | it believes in a tunnel only if there is one; it gets an answer |
| Frame queues, `client/client.py`, `exitnode/server.py` | send, receive and pending queues | queue, send loop, receive loop, clear | the connection changes between two sends; streams survive it | order, no hole, nothing stale |
| Frames and encryption, `common/protocol.py`, `common/crypto.py` | - | encode, seal, open | the two-byte length against what encryption adds; different secrets | what comes through is whole and in order, or nothing does |
| Exit node's streams, `exitnode/socks.py` | `_streams`, `_opening`, `_aborted`, tasks | OPEN, DATA, CLOSE, read loops, `close_all` | opens are concurrent, ids are reused by the next client | order, no leak, one answer, one CLOSE |
| Local SOCKS5 proxy, `client/local_proxy.py` | `_connections`, per connection two loops and a queue | accept, answer, DATA, CLOSE, overflow | closing is called from three coroutines | one CLOSE, no hole, no leak |
| Client program, `client/client.py` | `_connected`, the local proxy, its system proxy guard, its tasks | CONNECTED, PEER_DISCONNECTED, toggle, Ctrl+C, clean-up | tasks that outlive the tunnel they were made for; the end while they run | the setting follows the program to its end, as far as restoring works |
| System proxy guard, `common/sysproxy.py` | the system's settings, a state file | enable, disable, recover | `kill -9`, failing commands, other processes | the user's settings can be put back as long as their record is there |
| Codes, `common/codes.py` | - | `code_key` | - | constant `KeyOf` |
| Everything else: command line, settings, upstream proxy, browser, shell, doctor, UI, scripts | - | one-shot I/O | - | not modelled |

The parts interact as follows. The two tunnels talk to the relay's handlers by
websocket messages; the handlers call the broker, the broker the tables, in one
event loop. A tunnel calls its program back (`_handle_connection_status`,
`_handle_data_received`), which fills or clears the queues; the receive loop of
a program calls `SocksHandler.handle_frame` or `LocalProxy.handle_frame`; the
streams call `_queue_frame`. The client calls the system proxy guard after each
CONNECTED, on a key, and on its way out.

`PROJECT.json` lists the components with their status and the hazards of this
code, each at its line with the properties that cover it.

## 2. The modules

| Module | Models | Uses |
|---|---|---|
| `SessionTable` | `SessionManager`: the tables and their operations | |
| `RelayServer` | handlers, broker and clean-up loop | extends `SessionTable`, refines `TunnelPairing` |
| `TunnelPairing` | abstract: exit nodes on offer, clients present, one-to-one pairs | |
| `Reconnection` | the two tunnels as programs that reconnect, around the relay | extends `RelayServer` |
| `Admission` | `_authorized` and `_rate_limited` | |
| `FramePump` | the queues and loops of a program across its connections | |
| `SecureStream` | frames of one stream through both programs, with sizes and secrets | |
| `ExitStreams` | `SocksHandler`, `StreamConnection` | |
| `LocalProxy` | `LocalProxy`, `LocalProxyConnection` | |
| `ClientProgram` | one run of `wayport connect`: `WayportClient`, start and stop of the local proxy, its guards | |
| `SystemProxy` | `SystemProxyGuard`, `recover_stale`, the state file | |
| `..._proof` | proofs about `RelayServer` (with its tables, `TunnelPairing` and `Reconnection`), `Admission`, `FramePump`, `SecureStream`, `ExitStreams`, `LocalProxy`, `ClientProgram`, `SystemProxy` | each extends its module; `RelayServer_proof` extends `Reconnection` |
| `MCRelayServer`, `MCReconnection`, `MCExitStreams`, `MCSystemProxy` | instances for TLC | |

**Where an action begins and ends.** asyncio switches coroutines only at an
`await`, so an action is the code from one await to the next, and a coroutine
has a program counter that says at which await it is. A send hands its message
to the websocket at once and may then suspend; it is therefore part of the
action before the await.

**RelayServer.** A session id is a uuid made for one websocket, so a session is
named by its websocket. `exitPc` and `clientPc` are the handlers' program
counters. `Register`, `ConnectInvalid`, `ConnectBusy`, `ConnectUnreachable` and
`Connect` are the handling of the first message; `LinkSucceeds` and `LinkFails`
what follows the await of PEER_CONNECTING; `RelayFromExit` and `RelayFromClient`
are `relay_binary_data`; `...Closes...` and `...Removed` are the finally blocks
before and after their await; `Expire` and `CleanupExpired` are time and the
clean-up loop: a session may expire while it is linked, and it, its code and its
tunnel then go without a word, at the next clean-up or lookup. `toExit` and
`toClient` record what was written to a websocket, as long as the peer's end of it
is there; `joined` are the clients that were ever linked, which no table remembers.
Assumed of the peers: one REGISTER or CONNECT per websocket, as the shipped
programs do. PING, PONG and PEER_ACCEPTED change nothing and are left out. When
a hundred drawn codes are all in use the code raises and the tables stay as they
are: no step.

**Reconnection.** Adds the programs to the relay: `ExitAttempt`, `ExitReads`,
`ExitNotices`, and the client's counterparts, with `ClientStops` for a fatal
error. A websocket of `RelayServer` is one attempt of one program. A fault takes
the program's end of a websocket away; the program and the relay's handler
notice separately and in any order (`ExitLost`, `ClientLost`). `RelayRestarts`
empties the relay's tables and drops everything. The relay's actions are those
of `RelayServer`, expiry (`TimePasses`) and clean-up (`CleansUp`) included, with
the program's own code in place of any code. A session that expires under a
websocket that stays up has lapsed (`Lapsed`): its sharer is told nothing, shows its
code and does not register again until the websocket goes. Data frames are not
relayed in this composition.

**Admission.** A request is one step, since nothing suspends between the checks.
The clock counts ticks and several requests may fall on one. `attempts` is the
code's table; `admitted` is the history that the properties are about, which the
code forgets.

**FramePump.** `link` is what `is_connected` and `send_data` see of the tunnel.
Each frame is a number, so order and holes can be read off `wire`. The client
has a state `closed` in which its tunnel id outlives the websocket, because
`_tunnel_id` is reset after an await. `IsClient` selects the program.

**SecureStream.** One stream from socket to socket: `Ask`, `Read` and
`ReadEnd` are what happens at the sockets, `SendLoop`, `DataReceived` and the
`Handle...` actions the loops between them. A frame
has its kind, its number, its real size and the secret it is sealed with, so
that `Encodes` is the test of `Frame.encode` and `Decrypts` that of AES-GCM. The
two ends, which treat frames alike, are one definition with the end as its
parameter; `got` is what it hands on. At the exit node that is written to the
socket, at the client it is put on the connection's write queue, from which
`WriteLoop` takes it (`written`) until the end of the stream cancels it. Queues are
not full and the websockets are up: that is `FramePump`.

**ExitStreams.** A stream is named by its session and id, while the tables and
frames of the code know only the id. `Insert` is everything from the table entry
to the first flushed DATA, where nothing suspends; `Flush` and the rest follow
the open task. `Answer` goes to whichever client is there, as in the code.
`close_all` is not called again while it is running.

**LocalProxy.** `recv` is the await the receive loop is suspended at. The bytes
of the handshake are one step that succeeds or fails. The receive loop does not
yield between frames that are there, so a queue may overflow before the read loop
has taken its first step; the loop is then cancelled without its finally block, and
the connection is `lost`, like one whose answer could not be written.

**ClientProgram.** `main` is where `connect()` is, from its first attempt to the
end of the process; `task` and `after` are, for each CONNECTED, the tasks
`_on_tunnel_connected` and `_after_connect`. Tasks take their first step in the
order of their creation (`ready`), and from then on any order. Every tunnel makes
its own guard (`guard` is the one the program has hold of, `active` those whose
atexit hooks are there). `Stops` is Ctrl+C, a fatal error or a rejected token;
`connect()` cleans up and returns `False` in all cases, so they do not differ.
`_cleanup` is cut at its awaits: the loops end (`LoopsEnd`), or the receive loop
misses its cancellation inside `LocalProxyConnection.close` and `_cleanup` waits for
it (`MissesCancel`, `stuck`); the guard is disabled and the server closed
(`Cleanup`); `wait_closed` returns (`ProxyStopped`). A second Ctrl+C may come at any
of these (`Interrupts`) and inside the commands of the restore
(`RestoreInterrupted`). The setting and the state file are one value each, and an
enable or a restore is one step with each of its ways to fail (`EnableFails`,
`RestoreFails`): neither awaits anything, and `SystemProxy` has their steps. `broken`
records that one of them has failed. A verification whose connection is cut
(`VerificationDies`) and a key listener that raises (`KeysDie`) end as they do in
the code.

**SystemProxy.** One step is one command on a service, or one write or removal
of the state file; the several commands that set one service are one step, and
so is taking a snapshot, which may pass over services (`"unread"`; a restore turns
those off). There is no lock, and every process may take a step at any time: a
recovery that has read the file goes on restoring while another process enables.
`Kill` turns the file's pid into one that names no process, or (fault `reuse`)
another program. `bypass` is the list of domains that `apply` overwrites. Three
history variables: `overtaken` are the processes that have read a file which was
written again since, `orphaned` the services that are on our proxy and whose record
the program has dropped (a failed or killed apply, a failed second write or
disable, a file of another backend, a file that a recovery has removed after it was
written again), `skipped` the services that a snapshot could not read. What is
promised of a service is promised until it is orphaned.

## 3. The runs

| Run | Bounds | Shows |
|---|---|---|
| `relay` | 2 exit-node and 2 client websockets, 2 tunnels, 2 codes, one session may expire, wires up to 6 | types, tables, links, wires, refinement |
| `reconnect` | one sharer and two connectors, two attempts each, one fault (exit node, connector or relay), the session of the sharer's first websocket may expire | beliefs of the programs; everything settles |
| `admission` | 2 addresses, a limit of 2 in 2 ticks, 5 ticks, right, wrong and no token | the window is exact at both ends |
| `sysproxy` | two services (symmetric), one connect and one other process, kills, failing commands, skipped services, files of another backend | the state file is enough for what was not orphaned |
| `client` | up to 3 tunnels, 2 application connections, a foreign program on the port, failing enables and restores, a key listener that raises, Ctrl+C and more of them anywhere, SIGTERM | the setting follows the program |
| `socks` | three streams of two clients, 2 DATA each way, one stream whose client does not wait | order, leaks, answers, closes, progress |
| `local` | 2 connections, queue of 1, 2 DATA in, 1 out | one CLOSE, no hole, no leak, progress |
| `pump` | 4 frames out, 2 in, queues of 2, 2 attempts | order, staleness, holes, progress |
| `frames` | 2 secrets or none at either end, reads of 1 and of 65507 octets, 4 frames of each end | intact and whole up to socket and write queue, or nothing; answers |
| `relay_codes` | 2 exit nodes, one code with letters | **violated**: a generated code may be in use |
| `socks_handover` | two clients, one id, a handover while an open is in progress | **violated**: data of one client to the other's destination |
| `frames_full` | reads of 65535 octets | **violated**: a full read leaves a hole |

*Why the bounds are enough.* The relay's properties relate at most two exit
nodes and two clients: every race is between two handlers that both want the
same exit node, or between a drop and a link. Two of each give every pair of
program counters, with an exit node to spare so that a wrong one could be
chosen; the proofs then lift the safety properties to every size. In `relay`
the wires are long enough for one whole tunnel and the beginning of the next. In
`reconnect` each program has one attempt more than there are faults, so nobody
runs out of attempts; the websockets that may fail, `e1` and `c1`, stand for
their like, because `a` and `b` are the same and an attempt after the first
happens only after a fault. In `pump` the queues hold two frames, so a third
finds them full, and two attempts give every position of a drop between two
sends. In `socks` the third stream has the id of the first, in the next
client's session. In `local` two DATA after one in the queue make it overflow.
In `admission` the clock passes two windows, so attempts are forgotten and come
again. In `client` the second tunnel meets a bound port and the third finds the
tasks of both before it. 65507 is the largest read that fits once it is sealed.

*Deadlock.* It is checked for `sysproxy`, whose processes can always be launched
again, and `admission`, where somebody may always ask. The other systems may
really stop: each websocket, stream, connection and frame is used once, so the
models end when all are used up, as the programs do when nobody comes.

*Fairness.* A coroutine that can go on does: asyncio's loop is a queue. A
suspended send ends, because a peer that stops reading fails the websocket's
heartbeat (`WS_HEARTBEAT_SECONDS`); a connection attempt ends in
`CONNECT_TIMEOUT_SECONDS`; a cancelled loop runs its finally block. In
`Reconnection` one weak fairness condition on all steps that are neither faults nor
expiry is enough, since only finitely many of them can happen. In
`SecureStream` the loops and the exit node's answer go on. Nothing forces an
application or a destination to read, a peer to send, a user to press a key, or
a fault to happen: `Stuck` says who does not read.

`client` checks safety only, with `WaitsForAll = FALSE`: a `wait_closed` that waits
takes steps away. `sysproxy` has no liveness either.

`NeverStalls` of `ExitStreams` and `LoopServesAll` of `LocalProxy` are checked
with destinations and applications that read. On the client's side the code is
meant to hold without this (a queue per connection), and does not, see below; on
the exit node's side `_handle_data` awaits the drain of one destination by design.

### What the violation runs show

* **relay_codes.** `_generate_unique_code` (`relay/session.py:297`) looks the
  drawn code up as drawn, while the table's keys are in normal form.
* **socks_handover.** `close_all` (`exitnode/socks.py:175-180`) does not know of
  opens in progress, and the next client reuses their ids.
* **frames_full.** The read loops read up to 65535 octets
  (`client/local_proxy.py:273`); sealed, that is 65563, which `Frame.encode`
  refuses (`common/protocol.py:52`). The send loop logs it, drops the frame and
  sends the next one: a hole in the stream.

### Known divergences without a run

These are defined in the modules too, under "What is not true" or as the
property named. Each fails if it is put into the cfg named, instead of its other
properties, with the changes given.

| Property | cfg, changes | The code | The document |
|---|---|---|---|
| `TunnelIsMadeAgain` | `reconnect`; `Clients = Tunnels = {c1, c2}`, `Connectors = {"a"}`, `Faults = {e1}`, `MayExpire = {}`; as PROPERTY | After PEER_DISCONNECTED the client stays on its websocket (`client/tunnel.py:281`); CONNECT is only sent when one is opened | `client/tunnel.py:287` "Continue running to allow reconnection with same code" |
| `RedeployIsSurvived` | the same with `Faults = {"relay"}`; as INVARIANT | A client that is back before its exit node is told `invalid_code`, which is fatal (`client/tunnel.py:33`); likewise `server_busy` | `docs/deploy.md:67-69` "Both sides reconnect automatically and re-request their previous code" |
| `LiveRunLeftAlone` | `sysproxy`; `Faults = {"kill"}` | The pid is checked before the restore and nothing is locked in between, so a recovery may take the proxy from a run that enables meanwhile, and remove its file (`common/sysproxy.py:283-296`) | `common/sysproxy.py:272` "Restore even if the recorded process still appears to be alive", of `force` only |
| `NothingIsOrphaned` | `sysproxy`; `Faults = {"kill"}` | The state file lists no services while they are being configured (`common/sysproxy.py:361`). With `{"error"}`: an apply, a disable or the second write that raises drops the record (`365`, `393`, `373`) | `common/sysproxy.py:11-12` "a state file written *before* the change is applied" |
| `LaunchRepairs` | `sysproxy`; `Faults = {"kill", "reuse"}` | A pid that names any process is taken for a live run (`common/sysproxy.py:283`) | `__main__.py:231-232` "fixes itself on the next launch" |
| `SettingsComeBack` | `sysproxy`; `Connectors = {connect, again}`, `Faults = {}` | The second connect's snapshot is the first one's proxy (`common/sysproxy.py:355`) | `README.md:108-109` "Previous settings are restored when you disconnect"; `README.md:168` offers a second client |
| `SettingsComeBack` | `sysproxy`; `Faults = {"skip"}` | A service whose setting could not be read is set all the same, and turned off by the restore (`common/sysproxy.py:85-86`, `112-122`) | as before |
| `BypassComesBack` | `sysproxy`; `Faults = {}` | `apply` overwrites the bypassed domains; nothing restores them (`common/sysproxy.py:105`) | as before |
| `ContinuesIfRunning` | `client` | The text of the bind error never matches (`client/client.py:445`), so a tunnel that comes back is not announced | `client/client.py:446` "Proxy already running, continuing..." |
| `ModeIsApplied` | `client`; `Faults = {}` | `IncompleteReadError`, of a connection that is cut, is none of the errors caught: the task ends and the mode is never applied (`common/verify.py:37`) | `common/verify.py:29-30` "returns None on any failure -- this is a nicety, never a reason to fail a connection" |
| `AlwaysPutBack` | `client` | A command of the restore that raises, or a second Ctrl+C inside it, leaves our proxy set with neither guard, hook nor state file (`common/sysproxy.py:384-393`); so does an apply that raises half-way (`363-366`) | `common/sysproxy.py:334` "Apply a system proxy and guarantee it is put back." |
| `CleanupRestores` | `client` | `_after_connect` is not cancelled and may enable the system proxy while the clean-up waits (`client/client.py:298`) | `client/client.py:203` "Restore OS network settings before anything else can fail." |
| `RestoredOnSignal` | `client` | Nothing handles SIGTERM, and atexit hooks do not run | `common/sysproxy.py:8` "signal handlers (Ctrl+C, SIGTERM)" |
| `ConnectedIsTrue` | `client` | A websocket that fails leaves `_connected` as it was (`client/client.py:485`) | `client/client.py:123` "Check if connected to an exit node." |
| `EndsWhenAsked` | `client`; `SPECIFICATION FairSpec`; as PROPERTY | `close`, awaited by the receive loop, suppresses the cancellation that `_cleanup` then waits for (`client/local_proxy.py:149-155`, `client/client.py:188-191`); and with `WaitsForAll = TRUE`, `stop` awaits `wait_closed` before it closes the connections that it, since Python 3.12, waits for (`client/local_proxy.py:369`) | `client/client.py:305` "Ctrl+C to disconnect." |
| `NeverStalls` | `local`; `Stuck = {c1}` | Overflow awaits `close()`, which awaits the flush of the stalled socket (`client/local_proxy.py:129, 158`) | `client/local_proxy.py:117-120`, of what the queue avoids: "lets one stalled application stall the whole tunnel" |
| `EveryStreamIsClosed` | `local` | A read loop that was never made, or is cancelled before its first step, runs no finally block, and no CLOSE is sent (`client/local_proxy.py:105, 129, 148`) | `exitnode/socks.py:112` "a long session leaks descriptors", of what the CLOSE avoids |
| `WholeAtTheClient` | `frames` | CLOSE cancels the write loop with DATA still in its queue (`client/local_proxy.py:152-155`): the end of a response may be cut off | - |
| `Answered` | `frames`; as PROPERTY | A frame that cannot be decrypted is dropped; `SecretMismatchError` is never raised (`client/client.py:558`) | `README.md:165-166` "connecting fails with a clear message rather than hanging" |
| `NoLeak` | `socks`; `Handovers = {"websocket"}` | When its websocket drops, the exit node does not call `close_all` (`exitnode/tunnel.py:187`); the next client's stream takes the old one's place in the table | `exitnode/socks.py:112` "a long session leaks descriptors", of what it avoids |

More that is not promised by the code, named as hazards with a note or as an
exception of a property:

* A session that expires while it is linked is removed, and neither end is told; its
  sharer keeps its websocket, shows a code that leads nowhere and does not register
  again until the websocket goes (`relay/session.py:200-203, 301-312`). `UnlinkIsTold`,
  `TunnelIsReal`, `ShownCodeLeadsHere` and `SharerComesBack` say so (`Lapsed`).
* A client can be linked to an exit node whose handler is already closing and is
  never told (`TunnelIsReal` asks for the exit node's socket to be up).
* Frames put aside while disconnected leave only behind another frame.

## 4. The proofs

| Module | Theorem | States |
|---|---|---|
| `RelayServer_proof` | `TypeCorrect` | `Spec => []TypeOK` |
| | `LinksAgree` | `Spec => []LinkAgreement` |
| | `CodesAreSound` | `Spec => []CodeTableSound` |
| | `CodesReachTheirSessions` | `GeneratedAreKeys => (Spec => []RegisteredIsReachable)` |
| | `RelayRefinesPairing` | `Spec => RelayImplementsPairing` |
| | `NobodyElseEndsTunnels` | `Spec => TunnelEndsForCause` |
| | `PairsAreOneToOne` | `Spec => []Pairing!OneToOne` |
| | `PairsHaveBothEnds` | `Spec => []Pairing!PairsArePresent` |
| | `WiresTellOneStory` | `Spec => []WireOrder` |
| | `ProgramTypes` | `ProgramsSpec => []ProgramsTypeOK` |
| | `TunnelsAreReal` | `ProgramsSpec => []TunnelIsReal` |
| | `ShownCodesLeadHere` | `GeneratedAreKeys => (ProgramsSpec => []ShownCodeLeadsHere)` |
| `Admission_proof` | `LimiterBoundsEveryWindow` | `Spec => []WindowBound` |
| | `LimiterRefusesForCause` | `Spec => []RefusedForCause` |
| `FramePump_proof` | `FramesStayInOrder` | `Spec => []InOrder` |
| | `NothingStaleLeaves` | `Spec => []NothingStaleIsSent` |
| | `FramesLeaveNoHole` | `Spec => []NothingSkipped` |
| `SecureStream_proof` | `StreamTypes` | `FramesFit`: `Spec => []TypeOK` |
| | `StreamIsIntact` | `FramesFit`: `Spec => []Intact` |
| | `StreamIsWhole` | `FramesFit`: `Spec => []Whole` |
| | `NothingComesThrough` | `FramesFit`: `Spec => []NothingWithoutTheSecret` |
| `ExitStreams_proof` | `ExitStreamTypes` | `Spec => []TypeOK` |
| | `StreamsStayInOrder` | quiet handovers: `Spec => []InOrder` |
| | `NoSocketLeaks` | quiet handovers: `Spec => []NoLeak` |
| | `DataStaysWithItsClient` | quiet handovers: `Spec => []OwnDestinationOnly` |
| `LocalProxy_proof` | `LocalTypes` | `Spec => []TypeOK` |
| | `ExitHearsOneClose` | `Spec => []ExitIsToldOnce` |
| | `ApplicationReadsInOrder` | `Spec => []InOrder` |
| | `NoConnectionLeaks` | `Spec => []NoLeak` |
| `ClientProgram_proof` | `ClientTypes` | `Spec => []TypeOK` |
| | `SettingFollowsClient` | `Spec => []SettingsFollow` |
| | `LastNewsIsSeen` | `Spec => []ConnectedIsSeen` |
| `SystemProxy_proof` | `ProxyTypes` | `OneRun`: `Spec => []TypeOK` |
| | `KilledRunsAreRecoverable` | `OneRun`: `Spec => []Recoverable` |
| | `SnapshotsAreTheUsers` | `OneRun`: `Spec => []SnapshotIsTheUsers` |
| | `LaunchesRepair` | `OneRun`: `Spec => LaunchRepairs` |

*Assumptions.* Each module with constants has one named assumption, and `None`
(or `NoSecret`) is no value of what it stands in for: in `ExitStreams` also no
tuple that the receive loop can be awaiting and no set of streams, in
`ClientProgram` no tunnel and no setting. Beyond that:

* `GeneratedAreKeys`: a generated code is its own key. It is false of the code's
  alphabet; the theorem says that this is the only thing wrong, and
  `relay_codes` that it is.
* `FramesFit`: every read fits a frame once it is sealed. It is false of the
  code's 65535; `frames_full` shows what happens then.
* `Handovers \subseteq {"quiet"}`: the next client comes when no stream of the last
  one is being opened or closed. The code does not see to this:
  `socks_handover` shows what happens otherwise, and the last table of section 3
  what a dropped websocket does. A quiet handover may still find streams open.
* `OneRun`: there is one connect, and the pid of a killed run is not used again. Any
  number of launches of "share" and "restore" may interleave with it in any way. The
  last table of section 3 shows what happens without either.

*The relay.* `LinkAgreement` is not inductive. When a client's handler comes
back from its await and links, one must know that the client is not linked
already and that its tunnel id is nobody else's; when a tunnel is unlinked, that
exactly one exit node and one client hold its id. `LinkInv` adds this:

* `HandlerInv` - what a program counter says about its session: a client is in
  the table while its handler runs, and is linked only in `serving` or
  `sending`; an exit node is linked to nobody before it has registered.
* `MintedInv` - a tunnel id belongs to the one client it was minted for.
* `HalfLinkInv` - an exit node's client and tunnel are set and reset together.

`TypeStep` and `LinkStep` go through the actions one by one; `UnlinkExact` says
what `UnlinkSessions` does under the invariant. `CodeInv` adds to
`CodeTableSound` that sessions in the table have a code. The refinement maps
`pairs` to the exit nodes in the table with their client; `PairingStep` shows
that each action is a step of `TunnelPairing` or changes nothing there:
`LinkSucceeds` is `Pair`, the closing actions are `Unpair` and `Withdraw`.
`CauseStep` reads `TunnelEndsForCause` off the closing actions, the link and the
removals of expired sessions; it needs `DownInv`, that a handler which is closing has
found its websocket closed.

What `TunnelPairing` promises is proved of the relay itself: `PairingInv` is
inductive for the abstract steps (`PairingInductive`), and by `PairingStep` the
relay takes no others.

*The wires.* That a websocket reads one story cannot be seen from the tables, since
`unlink` forgets what was told. `WireInv` has one part for each party: the locals
of `connect_client_to_exitnode`, which outlive the link (`AttemptInv`), what
stands on a client's wire (`ClientWire`) and on an exit node's (`ExitWire`), and for each exit node
and client what the one has read of the other (`Story`): if the exit node has left this
client's tunnel, every frame of the client is followed by the end of the tunnel
(`Closed`), and if the two were ever linked (`joined`) that end was told. The logs only grow, so a lemma says once what one message more
does to each part (`ExitLogAppend`, `ClientLogAppend`, `ClosedAppend`), and the steps
that send nothing are dealt with together.

*The two programs around the relay.* The relay's invariant holds of it in the
composition because a program's step is a step of `RelayServer` on the relay's
variables (`MovesAreSteps`). A redeploy is not one: it empties the tables, and
`RestartKeepsRelay` shows the invariant from nothing. `ProgramsInv` adds what only
these peers make true: an exit node with a socket and a registration is in the
table or has expired (`Known`, `ExitSide`), a client is written an
answer, and then at most the end of its tunnel (`ClientSide`). `TunnelsAreReal` then
rests on the one message a program has read. Only `ShownCodesLeadHere` needs
`GeneratedAreKeys`.

*The rate limiter.* The code's table holds the times it has not forgotten, the
property is about all times. `LimiterInv` says that the table is the end of the
history, that what was cut off is over a window old, and that any two
attempts that are `MaxAttempts` apart in the history are more than a window apart.

*The queues.* `PumpInv` puts all frames in one order: what was written (`WireInv`),
what is pending, what the send loop has in its hand, what is in the send queue
(`WaitInv`). That there is no hole (`HoleInv`) is inductive only while the
connection of the last attempt can still be written: afterwards frames may be
lost, and none follows them.

*The stream.* `StreamInv` is two invariants. With the same secret at both ends
(`Agreed`), what is queued, on the wire and received is one run of consecutive
numbers that starts after what was handed on, whose first frames are the OPEN or
its answer, and whose CLOSE, if there is one, is the last. With different ones
(`Apart`) only the OPEN can arrive anywhere, and the client is never answered.

*The exit node's streams.* The tables know an id, and several streams have it. What
makes it name the right one is `TableInv` (every entry, and everything held, is of
the stream of this session) with `StopInv` (who awaits the end of a read loop; while
`close_all` runs the receive loop is free, and what still lives is what it has been given). A stream that is taken
from the table while another one is live would break both, so the steps that pop an
id (`on_close`, a failed write) are the ones to look at: two live streams never
share an id. `OwnInv` follows a chunk from `_opening` through the flush to the
destination, also for the clients that `InOrder` does not speak of.

*The client program.* What the program never looks at, the proof has to find. Only
one of the tasks that CONNECTED messages create can hold the port (`ServerInv`), for
no other can bind it before the clean-up. So at most one guard is made while the
client runs (`GuardInv`). As long as nothing has failed (`~broken`) the setting that
any guard remembers is the user's (`TaskInv`), and setting, state file and guards
agree (`SettingInv`), wherever in the clean-up the program is interrupted. That the
setting names only a port of ours while the client runs needs no such hypothesis: it
is set by a task that holds the port. `ReadyInv` says which news can still be waiting
for its first step.

*The local proxy.* `LocalInv` is a type invariant and, for each connection,
what was told (`ToldInv`), that there is nothing before its answer
(`QuietInv`), which loop is where and who waits for it (`LoopInv`: a connection
without a read loop that has run is `lost`), and that what was written and
what is queued are one run of numbers (`DataInv`). A step concerns one
connection (`Concerns`), so `OneStep` leaves the others alone; each action then
has to be looked at for its own.

*The system proxy.* `ProxyInv` follows the record of what is on our proxy, and not
orphaned, through its places: the guard that applies, the state file, and each
recovery that has read the file and will remove it (`RecordInv`). The last is where
processes interleave: a recovery that was not overtaken still has to restore all
that the file lists, and one that was orphans it. `FileInv` says whose the file is,
`ValuesInv` that no value in force, in the file or in the memory of a process is our
own proxy taken for the user's. `LaunchRepairs` follows because a file whose owner
does not run names no process.

*Only model-checked.* Liveness under fairness (`SharerComesBack`,
`ConnectorIsAnswered`, `TablesSettle`, `ClosedStreamEnds`, `NeverStalls`,
`SendQueueMoves`, `LoopServesAll`, `AnsweredWithTheSecret`) is out of the
prover's reach, as is ENABLED. Every invariant of the passing runs has a
theorem.

## 5. Not modelled

The JSON of control messages, which are tuples here; the arithmetic of the
back-off and the rejected token at the client; the bytes of the SOCKS5 handshake,
which succeeds or fails in one step; the commands of the Windows and GNOME
backends, which are the macOS one's case of one service; the derivation of a
machine's code from its key; the request a verification makes. Command line,
settings, upstream proxy selection, browser, shell, doctor and user interface are
one-shot I/O without state that outlives a call.

The parts are checked one by one, and joined by what each assumes of its peers:
the frames that `LocalProxy` takes of the exit node are those that
`ExitStreams!ToldInOrder` allows, the frames of `SecureStream` go through loops
that `FramePump` shows to keep their order. A composition of all of them, with
several streams over failing connections, is beyond TLC's reach at bounds where
something happens.

## 6. Plan

Built: the relay with its abstraction, reconnection, admission, queues, frames,
streams on both sides, the client program, the system proxy, and a proof of every
invariant that the runs check. What is left, in the order of its worth:

1. `StreamsStayInOrder` for the clients that do not wait for their answer: what is
   delivered has no hole as long as `MAX_PENDING_BYTES` is not reached.
2. An abstract specification of one stream, end to end, that `SecureStream`
   implements, and of the guard (off, on, to be recovered) for `SystemProxy`.
3. The end of the exit node program, as `ClientProgram` has the client's.
4. The user's own changes of the settings while a guard is active.
