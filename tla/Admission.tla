----------------------------- MODULE Admission -----------------------------
(***************************************************************************)
(* What the relay checks before it opens a websocket: the bearer token of  *)
(* every request, and how often one address has asked for                  *)
(* /client/connect lately (RelayServer._authorized and _rate_limited of    *)
(* relay/server.py, as called by the two websocket handlers).  Nothing     *)
(* suspends between the checks, so a request is one step.                  *)
(*                                                                         *)
(* Time is time.monotonic in ticks; several requests may fall on one tick. *)
(***************************************************************************)
EXTENDS Integers, Sequences

CONSTANTS
    Addresses,    \* request.remote of the requests
    MaxAttempts,  \* CONNECT_RATE_MAX_ATTEMPTS
    Window,       \* CONNECT_RATE_WINDOW_SECONDS, in ticks
    Expected,     \* settings.token; None for an open relay
    Tokens,       \* what requests present; None for no or another Authorization
    MaxNow,       \* bound: time
    None

Answers == {"websocket", "unauthorized", "rate_limited"}

ASSUME AdmissionAssumption ==
    /\ MaxAttempts \in Nat \ {0}
    /\ Window \in Nat
    /\ MaxNow \in Nat
    /\ None \in Tokens
    /\ None \notin Addresses \X Answers

VARIABLES
    now,        \* the clock
    attempts,   \* _connect_attempts: the times of recent attempts of an address
    answered,   \* the last request and its answer
    admitted    \* history: the times at which an address was let through

vars == <<now, attempts, answered, admitted>>

TypeOK ==
    /\ now \in Nat
    /\ attempts \in [Addresses -> Seq(Nat)]
    /\ \A a \in Addresses : Len(attempts[a]) <= MaxAttempts
    /\ answered \in (Addresses \X Answers) \cup {None}
    /\ admitted \in [Addresses -> Seq(Nat)]

Init ==
    /\ now = 0
    /\ attempts = [a \in Addresses |-> <<>>]
    /\ answered = None
    /\ admitted = [a \in Addresses |-> <<>>]

-----------------------------------------------------------------------------
\* _authorized: a relay without a token lets everyone through.
Authorized(token) == Expected = None \/ token = Expected

Unauthorized(a) ==
    /\ answered' = <<a, "unauthorized">>
    /\ UNCHANGED <<now, attempts, admitted>>

\* Mutant: an attempt that is exactly one window old is forgotten too.
IsStale_AtWindow(time) == now - time >= Window

\* An attempt that no longer counts.
IsStale(time) == now - time > Window

\* The while loop at the head of _rate_limited drops k attempts: stale ones, from
\* the front, until the first that still counts.
Prunes(queue, k) ==
    /\ \A i \in 1 .. k : IsStale(queue[i])
    /\ k < Len(queue) => ~IsStale(queue[k + 1])

\* Mutant: an attempt that is refused counts as well.
RateLimited_Counts(a, recent) ==
    /\ Len(recent) >= MaxAttempts
    /\ attempts' = [attempts EXCEPT ![a] = Append(Tail(recent), now)]
    /\ answered' = <<a, "rate_limited">>
    /\ UNCHANGED <<now, admitted>>

\* Too many: the attempt itself is not recorded.
RateLimited(a, recent) ==
    /\ Len(recent) >= MaxAttempts
    /\ attempts' = [attempts EXCEPT ![a] = recent]
    /\ answered' = <<a, "rate_limited">>
    /\ UNCHANGED <<now, admitted>>

Accept(a, recent) ==
    /\ Len(recent) < MaxAttempts
    /\ attempts' = [attempts EXCEPT ![a] = Append(recent, now)]
    /\ answered' = <<a, "websocket">>
    /\ admitted' = [admitted EXCEPT ![a] = Append(@, now)]
    /\ UNCHANGED now

\* _handle_client_connect, up to the websocket.
ClientConnect(a, token) ==
    \/ ~Authorized(token) /\ Unauthorized(a)
    \/ /\ Authorized(token)
       /\ \E k \in 0 .. Len(attempts[a]) :
            /\ Prunes(attempts[a], k)
            /\ LET recent == SubSeq(attempts[a], k + 1, Len(attempts[a]))
               IN  RateLimited(a, recent) \/ Accept(a, recent)

\* _handle_server_register, up to the websocket: exit nodes are not limited.
ServerRegister(a, token) ==
    \/ ~Authorized(token) /\ Unauthorized(a)
    \/ /\ Authorized(token)
       /\ answered' = <<a, "websocket">>
       /\ UNCHANGED <<now, attempts, admitted>>

Tick ==
    /\ now < MaxNow
    /\ now' = now + 1
    /\ answered' = None
    /\ UNCHANGED <<attempts, admitted>>

Next ==
    \/ Tick
    \/ \E a \in Addresses, token \in Tokens : ClientConnect(a, token) \/ ServerRegister(a, token)

Spec == Init /\ [][Next]_vars

-----------------------------------------------------------------------------
(* What the limiter promises *)

\* In no stretch of one window, wherever it begins, is an address let through
\* more than MaxAttempts times (relay/server.py:31, "cap on how fast").
WindowBound ==
    \A a \in Addresses : \A i \in DOMAIN admitted[a] :
        i + MaxAttempts \in DOMAIN admitted[a] =>
            admitted[a][i + MaxAttempts] - admitted[a][i] > Window

\* An address is refused only if it was itself let through MaxAttempts times in
\* the window that ends now: neither its refused attempts nor those without a
\* token count, so that it gets in again when it has waited for one window.
RefusedForCause ==
    \A a \in Addresses : answered = <<a, "rate_limited">> =>
        /\ Len(admitted[a]) >= MaxAttempts
        /\ now - admitted[a][Len(admitted[a]) - MaxAttempts + 1] <= Window
=============================================================================
