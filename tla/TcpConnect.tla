----------------------------- MODULE TcpConnect -----------------------------
(***************************************************************************)
(* The static TcpClient::Connect (tcp_client.cc): a timer makes a TcpClient *)
(* and connects it, again after every failure, until one is connected or   *)
(* the time is over; `then` is told which.  The timer, the TcpClients and  *)
(* the TryConnectData they share are deleted by close callbacks, and       *)
(* closures on each refer to the others.                                   *)
(***************************************************************************)
EXTENDS EventLoop, FiniteSets

CONSTANTS
    Attempt, \* TcpClient objects: bounds the number of attempts
    Null,
    Clock    \* the timer's handle

ASSUME ConnectAssumption == Null # Clock /\ Null \notin Attempt /\ Clock \notin Attempt

VARIABLES
    timer,     \* the Timer, and with it its TryConnectData
    late,      \* GetElapsedTime() >= timeout
    current,   \* TryConnectData::client
    client,    \* each TcpClient and its handle
    request,   \* what libuv does for each
    listening, \* the three closures of connect are on the client's lists
    owed       \* calls of Connect less calls of `then`

vars == <<timer, late, current, client, request, listening, owed, loopVars>>

Object == {"none", "open", "closing", "deleted"}
Caller == {"caller"}
Promise == INSTANCE RequireService WITH Request <- Caller

\* Handle::Close of objects, those that are open.
Closing(c) == IF c \in Attempt /\ client[c] = "open"
              THEN [client EXCEPT ![c] = "closing"] ELSE client
CloseList(c) == IF c \in Attempt /\ client[c] = "open" THEN <<c>> ELSE <<>>

\* OnError of a client: the closure closes the current one.
Error(a) ==
    IF listening[a]
    THEN client' = Closing(current) /\ CloseHandles(CloseList(current))
    ELSE UNCHANGED <<client, closing>>

-----------------------------------------------------------------------------

\* The call: the timer is made and started.
Connect ==
    /\ phase = "poll" /\ timer = "none"
    /\ timer' = "open"
    /\ \E w \in Caller : Promise!Ask(w)
    /\ UNCHANGED <<late, current, client, request, listening, loopVars>>

\* Time is over, whatever the resolver or the network is doing.
Expire ==
    /\ timer = "open" /\ ~late
    /\ late' = TRUE
    /\ UNCHANGED <<timer, current, client, request, listening, owed, loopVars>>

\* The name is given to the resolver, which takes it: one that libuv refuses at
\* once reports to a TryConnectData whose client is not set yet.
GetAddrInfo(a) == request' = [request EXCEPT ![a] = "resolving"]

\* A tick without an attempt under way starts one.
TickTries ==
    /\ phase = "timers" /\ timer = "open" /\ ~late
    /\ current = Null
    /\ \E a \in Attempt :
         /\ client[a] = "none"
         /\ client' = [client EXCEPT ![a] = "open"]
         /\ GetAddrInfo(a)
         /\ listening' = [listening EXCEPT ![a] = TRUE]
         /\ current' = a
    /\ UNCHANGED <<timer, late, owed, loopVars>>

\* Variant: the timer keeps ticking.
TickGivesUpKeepsTimer ==
    /\ phase = "timers" /\ timer = "open" /\ late
    /\ client' = Closing(current)
    /\ CloseHandles(CloseList(current))
    /\ owed' = [w \in Caller |-> owed[w] - 1]
    /\ UNCHANGED <<timer, late, current, request, listening, phase, batch, calls>>

\* Variant: the attempt is not closed.
TickGivesUpKeepsAttempt ==
    /\ phase = "timers" /\ timer = "open" /\ late
    /\ timer' = "closing"
    /\ CloseHandles(<<Clock>>)
    /\ owed' = [w \in Caller |-> owed[w] - 1]
    /\ UNCHANGED <<late, current, client, request, listening, phase, batch, calls>>

\* A tick when the time is over closes the attempt, then the timer.
TickGivesUp ==
    /\ phase = "timers" /\ timer = "open" /\ late
    /\ client' = Closing(current)
    /\ timer' = "closing"
    /\ CloseHandles(<<Clock>> \o CloseList(current))
    /\ owed' = [w \in Caller |-> owed[w] - 1]
    /\ UNCHANGED <<late, current, request, listening, phase, batch, calls>>

-----------------------------------------------------------------------------
(* Callbacks of an attempt. *)

\* OnAddrInfo.  What it does with a client that was deleted is undefined.
ResolveFails(a) ==
    /\ phase = "poll" /\ request[a] = "resolving" /\ client[a] # "deleted"
    /\ request' = [request EXCEPT ![a] = "none"]
    /\ Error(a)
    /\ UNCHANGED <<timer, late, current, listening, owed, phase, batch, calls>>

\* ConnectAddr: uv_tcp_connect starts on an open handle; it may fail at once on
\* any, and does on one that is closing.
ConnectAddr(a) ==
    \/ /\ client[a] = "open"
       /\ request' = [request EXCEPT ![a] = "connecting"]
       /\ UNCHANGED <<client, closing>>
    \/ /\ request' = [request EXCEPT ![a] = "none"]
       /\ Error(a)

\* OnAddrInfo with an address.
Resolve(a) ==
    /\ phase = "poll" /\ request[a] = "resolving" /\ client[a] # "deleted"
    /\ ConnectAddr(a)
    /\ UNCHANGED <<timer, late, current, listening, owed, phase, batch, calls>>

\* Variant: looks the name up again on the client it closes.
ConnectFailsResolvesAgain(a) ==
    /\ phase = "poll" /\ client[a] = "open" /\ request[a] = "connecting"
    /\ request' = [request EXCEPT ![a] = "resolving"]
    /\ Error(a)
    /\ UNCHANGED <<timer, late, current, listening, owed, phase, batch, calls>>

\* OnConnect with an error.
ConnectFails(a) ==
    /\ phase = "poll" /\ client[a] = "open" /\ request[a] = "connecting"
    /\ request' = [request EXCEPT ![a] = "none"]
    /\ Error(a)
    /\ UNCHANGED <<timer, late, current, listening, owed, phase, batch, calls>>

\* OnConnect without: `then` keeps the client or closes it at once, in which
\* case ReadStart fails and its error closes nothing more.
Connected(a) ==
    /\ phase = "poll" /\ client[a] = "open" /\ request[a] = "connecting"
    /\ request' = [request EXCEPT ![a] = "connected"]
    /\ timer' = "closing"
    /\ owed' = [w \in Caller |-> owed[w] - 1]
    /\ \/ /\ CloseHandles(<<Clock>>)
          /\ UNCHANGED client
       \/ /\ client' = Closing(current)
          /\ CloseHandles(CloseList(current) \o <<Clock>>)
    /\ UNCHANGED <<late, current, listening, phase, batch, calls>>

\* Later the connection fails or its owner closes it.
ConnectionEnds(a) ==
    /\ phase = "poll" /\ client[a] = "open" /\ request[a] = "connected"
    /\ client' = Closing(a)
    /\ CloseHandles(CloseList(a))
    /\ UNCHANGED <<timer, late, current, request, listening, owed, phase, batch, calls>>

\* Before the close callback of a client that was connecting, OnConnect is
\* told that it was cancelled.
ConnectCancelled(a) ==
    /\ phase = "closing" /\ batch # <<>> /\ Head(batch) = a
    /\ request[a] = "connecting"
    /\ request' = [request EXCEPT ![a] = "none"]
    /\ Error(a)
    /\ UNCHANGED <<timer, late, current, listening, owed, phase, batch, calls>>

\* The client's close callback runs the closure and deletes the client.
ClientClosed(a) ==
    /\ TakeClosed(a) /\ request[a] # "connecting"
    /\ current' = IF listening[a] THEN Null ELSE current
    /\ client' = [client EXCEPT ![a] = "deleted"]
    /\ UNCHANGED <<timer, late, request, listening, owed, phase, closing, calls>>

\* Variant: TryConnectData has no destructor.
TimerClosedKeepsClosures ==
    /\ TakeClosed(Clock)
    /\ timer' = "deleted"
    /\ UNCHANGED <<late, current, client, request, listening, owed, phase, closing, calls>>

\* The timer's close callback deletes TryConnectData, whose destructor takes
\* the closures off a client that is still there, and the timer.
TimerClosed ==
    /\ TakeClosed(Clock)
    /\ timer' = "deleted"
    /\ listening' = IF current = Null THEN listening
                    ELSE [listening EXCEPT ![current] = FALSE]
    /\ UNCHANGED <<late, current, client, request, owed, phase, closing, calls>>

-----------------------------------------------------------------------------

Init ==
    /\ LoopInit
    /\ timer = "none" /\ late = FALSE /\ current = Null
    /\ client = [a \in Attempt |-> "none"]
    /\ request = [a \in Attempt |-> "none"]
    /\ listening = [a \in Attempt |-> FALSE]
    /\ Promise!Init

LoopStep ==
    /\ Iterate
    /\ UNCHANGED <<timer, late, current, client, request, listening, owed>>

Closed ==
    \/ TimerClosed
    \/ \E a \in Attempt : ConnectCancelled(a) \/ ClientClosed(a)

Next ==
    \/ Connect \/ Expire \/ TickTries \/ TickGivesUp \/ LoopStep \/ Closed
    \/ \E a \in Attempt :
         ResolveFails(a) \/ Resolve(a) \/ ConnectFails(a) \/ Connected(a) \/ ConnectionEnds(a)

Spec == Init /\ [][Next]_vars

\* uv_run never stops, time passes and a repeating timer fires.  The network
\* and the resolver need not answer.
Fairness ==
    /\ WF_vars(LoopStep) /\ WF_vars(Closed) /\ WF_vars(Expire) /\ SF_vars(TickGivesUp)
FairSpec == Spec /\ Fairness

-----------------------------------------------------------------------------
(* Properties. *)

\* A closure on a client's lists that can still be called finds the timer and
\* the TryConnectData it refers to.
ClosuresFindTheirData ==
    \A a \in Attempt :
        listening[a] /\ client[a] \in {"open", "closing"} => timer \in {"open", "closing"}

\* The pointer the timer and the destructor use is to a client that exists.
PointerIsLive ==
    timer # "deleted" /\ current # Null => client[current] \in {"open", "closing"}

\* There is one attempt at a time, and none once `then` was called but the
\* one that was handed over.
OneAttempt == Cardinality({a \in Attempt : client[a] = "open"}) <= 1

\* Whatever closes first, neither the closures nor the pointer are left to an
\* object that is gone, and the pointer has room for every client there is
\* (tcp_client.cc:190-207).
ReferencesAreLive == ClosuresFindTheirData /\ PointerIsLive /\ OneAttempt

\* The client a resolver or a connect will report to was not deleted, but
\* where the time ran out while a name was still being resolved: nothing
\* cancels uv_getaddrinfo, and OnAddrInfo is given the deleted client.
ClientOutlivesRequests ==
    \A a \in Attempt :
        request[a] \in {"resolving", "connecting"} /\ client[a] = "deleted"
            => late /\ request[a] = "resolving"

\* `then` is called once, by the timer or by an attempt, whatever the
\* network does (test_tcp_client.cc asserts callback_called == 1).
CallsThenOnce == Promise!Spec

\* A Connect that is over leaves nothing behind but the client it handed over.
LeavesNothing ==
    timer = "closing" ~> timer = "deleted" /\ \A a \in Attempt :
        client[a] \in {"none", "deleted"} \/ request[a] = "connected"
=============================================================================
