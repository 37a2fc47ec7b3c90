------------------------------ MODULE TcpProxy ------------------------------
(***************************************************************************)
(* nexer::TcpProxy (tcp_proxy.cc): for every accepted connection it makes  *)
(* a forwarder, has the upstream's app started, connects to the upstream   *)
(* and joins the two; and Nexer::Close, which closes the proxy.            *)
(*                                                                         *)
(* The closures of a session capture the address of its forwarder, and     *)
(* find out with Has(forwarder) whether it is still there when the app or  *)
(* the connection answers.  Forwarders live in memory that is reused.      *)
(* The app's answer is that of RequireService, which ProcessManager        *)
(* implements; the connection's that of TcpConnect.  A forwarder is        *)
(* reduced to its lifetime (TcpForwarder has the rest).                    *)
(***************************************************************************)
EXTENDS Naturals, FiniteSets

CONSTANTS
    Session,  \* accepted connections
    Address,  \* addresses of TcpForwarder objects
    Null,
    Reuse,    \* may a new forwarder get the address of a deleted one?
    Shutdown  \* may Nexer::Close be called?

ASSUME ProxyAssumption ==
    /\ Null \notin Session \cup Address
    /\ Reuse \in BOOLEAN /\ Shutdown \in BOOLEAN

VARIABLES
    proxy,      \* the TcpProxy and its handle
    forwarders, \* forwarders_
    memory,     \* for each address, whose forwarder lives there
    used,       \* addresses that ever held a forwarder
    peer,       \* outgoing_.tcp of each forwarder: whose connection
    mine,       \* the address each session's closures captured
    stage,      \* what each session waits for
    owed,       \* calls of Require less answers
    incoming,   \* the accepted TcpClient of each session
    outgoing    \* the one connected for it

vars == <<proxy, forwarders, memory, used, peer, mine, stage, owed, incoming, outgoing>>

App == INSTANCE RequireService WITH Request <- Session

Has(a) == a \in forwarders

\* Handle::Close.
Close(client, s) == [client EXCEPT ![s] = IF @ = "open" THEN "closing" ELSE @]

-----------------------------------------------------------------------------

\* The OnConnection closure.  The app's answer may come later, or before
\* CheckUpstreamProcess returns: without error when there is no app or it
\* runs already, with one when it cannot be started.
Accept(s, a) ==
    /\ proxy = "open"
    /\ stage[s] = "new" /\ memory[a] = Null
    /\ Reuse \/ a \notin used
    /\ used' = used \cup {a}
    /\ memory' = [memory EXCEPT ![a] = s]
    /\ mine' = [mine EXCEPT ![s] = a]
    /\ forwarders' = forwarders \cup {a}
    /\ \/ /\ App!Ask(s)
          /\ stage' = [stage EXCEPT ![s] = "checking"]
          /\ incoming' = [incoming EXCEPT ![s] = "open"]
       \/ /\ stage' = [stage EXCEPT ![s] = "connecting"]
          /\ incoming' = [incoming EXCEPT ![s] = "open"]
          /\ UNCHANGED owed
       \/ /\ stage' = [stage EXCEPT ![s] = "done"]
          /\ incoming' = [incoming EXCEPT ![s] = "closing"]
          /\ UNCHANGED owed
    /\ UNCHANGED <<proxy, peer, outgoing>>

\* CheckUpstreamProcess is answered without error.
AppRuns(s) ==
    /\ stage[s] = "checking"
    /\ App!Answer(s)
    /\ stage' = [stage EXCEPT ![s] = "connecting"]
    /\ UNCHANGED <<proxy, forwarders, memory, used, peer, mine, incoming, outgoing>>

\* Variant: the client is left waiting.
AppFailsSilently(s) ==
    /\ stage[s] = "checking"
    /\ App!Answer(s)
    /\ stage' = [stage EXCEPT ![s] = "done"]
    /\ UNCHANGED <<proxy, forwarders, memory, used, peer, mine, incoming, outgoing>>

\* ... or with one.
AppFails(s) ==
    /\ stage[s] = "checking"
    /\ App!Answer(s)
    /\ stage' = [stage EXCEPT ![s] = "done"]
    /\ incoming' = IF Has(mine[s]) THEN Close(incoming, s) ELSE incoming
    /\ UNCHANGED <<proxy, forwarders, memory, used, peer, mine, outgoing>>

\* Variant: nobody asks whether the forwarder is still there.
ConnectedAlwaysJoins(s) ==
    /\ stage[s] = "connecting"
    /\ stage' = [stage EXCEPT ![s] = "done"]
    /\ peer' = [peer EXCEPT ![mine[s]] = s]
    /\ outgoing' = [outgoing EXCEPT ![s] = "open"]
    /\ UNCHANGED <<proxy, forwarders, memory, used, mine, owed, incoming>>

\* Variant: a connection nobody waits for is dropped, not closed.
ConnectedDrops(s) ==
    /\ stage[s] = "connecting"
    /\ stage' = [stage EXCEPT ![s] = "done"]
    /\ peer' = IF Has(mine[s]) THEN [peer EXCEPT ![mine[s]] = s] ELSE peer
    /\ outgoing' = [outgoing EXCEPT ![s] = "open"]
    /\ UNCHANGED <<proxy, forwarders, memory, used, mine, owed, incoming>>

\* TcpClient::Connect hands over a connection.
Connected(s) ==
    /\ stage[s] = "connecting"
    /\ stage' = [stage EXCEPT ![s] = "done"]
    /\ \/ /\ Has(mine[s])
          /\ peer' = [peer EXCEPT ![mine[s]] = s]
          /\ outgoing' = [outgoing EXCEPT ![s] = "open"]
       \/ /\ ~Has(mine[s])
          /\ outgoing' = [outgoing EXCEPT ![s] = "closing"]
          /\ UNCHANGED peer
    /\ UNCHANGED <<proxy, forwarders, memory, used, mine, owed, incoming>>

\* ... or gives up.
ConnectFails(s) ==
    /\ stage[s] = "connecting"
    /\ stage' = [stage EXCEPT ![s] = "done"]
    /\ incoming' = IF Has(mine[s]) THEN Close(incoming, s) ELSE incoming
    /\ UNCHANGED <<proxy, forwarders, memory, used, peer, mine, owed, outgoing>>

-----------------------------------------------------------------------------
(* The forwarder's connections end. *)

IncomingEnds(s) ==
    /\ incoming[s] = "open"
    /\ incoming' = Close(incoming, s)
    /\ UNCHANGED <<proxy, forwarders, memory, used, peer, mine, stage, owed, outgoing>>

OutgoingEnds(s) ==
    /\ outgoing[s] = "open"
    /\ outgoing' = Close(outgoing, s)
    /\ UNCHANGED <<proxy, forwarders, memory, used, peer, mine, stage, owed, incoming>>

\* The forwarder at a is deleted and its OnClose closure removes it.
Remove(a) ==
    /\ forwarders' = forwarders \ {a}
    /\ memory' = [memory EXCEPT ![a] = Null]

\* Variant: forwarders_ keeps the forwarder.
IncomingClosedKeeps(s) ==
    LET a == mine[s] IN
    /\ incoming[s] = "closing"
    /\ incoming' = [incoming EXCEPT ![s] = "deleted"]
    /\ \/ /\ peer[a] = Null
          /\ memory' = [memory EXCEPT ![a] = Null]
          /\ UNCHANGED outgoing
       \/ /\ peer[a] # Null
          /\ outgoing' = Close(outgoing, peer[a])
          /\ UNCHANGED memory
    /\ UNCHANGED <<proxy, forwarders, used, peer, mine, stage, owed>>

\* Variant: the other connection is not closed.
IncomingClosedLeavesPeer(s) ==
    LET a == mine[s] IN
    /\ incoming[s] = "closing"
    /\ incoming' = [incoming EXCEPT ![s] = "deleted"]
    /\ IF peer[a] = Null THEN Remove(a) ELSE UNCHANGED <<forwarders, memory>>
    /\ UNCHANGED <<proxy, used, peer, mine, stage, owed, outgoing>>

\* The incoming client's close callback.
IncomingClosed(s) ==
    LET a == mine[s] IN
    /\ incoming[s] = "closing"
    /\ incoming' = [incoming EXCEPT ![s] = "deleted"]
    /\ \/ /\ peer[a] = Null
          /\ Remove(a)
          /\ UNCHANGED outgoing
       \/ /\ peer[a] # Null
          /\ outgoing' = Close(outgoing, peer[a])
          /\ UNCHANGED <<forwarders, memory>>
    /\ UNCHANGED <<proxy, used, peer, mine, stage, owed>>

\* The outgoing client's.  One that was never joined is only deleted.
OutgoingClosed(s) ==
    LET a == mine[s]
        joined == peer[a] = s
        client == memory[a] IN
    /\ outgoing[s] = "closing"
    /\ outgoing' = [outgoing EXCEPT ![s] = "deleted"]
    /\ peer' = IF joined THEN [peer EXCEPT ![a] = Null] ELSE peer
    /\ \/ /\ joined /\ incoming[client] = "deleted"
          /\ Remove(a)
          /\ UNCHANGED incoming
       \/ /\ joined /\ incoming[client] # "deleted"
          /\ incoming' = Close(incoming, client)
          /\ UNCHANGED <<forwarders, memory>>
       \/ /\ ~joined
          /\ UNCHANGED <<incoming, forwarders, memory>>
    /\ UNCHANGED <<proxy, used, mine, stage, owed>>

-----------------------------------------------------------------------------

\* Nexer::Close closes the listening handle only; the close callback
\* deletes the TcpProxy with its set.  The closures of sessions that are
\* left would read freed memory: what they do then is not followed.
NexerClose ==
    /\ Shutdown /\ proxy = "open"
    /\ proxy' = "closing"
    /\ UNCHANGED <<forwarders, memory, used, peer, mine, stage, owed, incoming, outgoing>>

ProxyClosed ==
    /\ proxy = "closing"
    /\ proxy' = "deleted"
    /\ forwarders' = {}
    /\ UNCHANGED <<memory, used, peer, mine, stage, owed, incoming, outgoing>>

Init ==
    /\ proxy = "open"
    /\ forwarders = {} /\ used = {}
    /\ memory = [a \in Address |-> Null]
    /\ peer = [a \in Address |-> Null]
    /\ mine = [s \in Session |-> Null]
    /\ stage = [s \in Session |-> "new"]
    /\ App!Init
    /\ incoming = [s \in Session |-> "none"]
    /\ outgoing = [s \in Session |-> "none"]

Answer(s) == AppRuns(s) \/ AppFails(s) \/ Connected(s) \/ ConnectFails(s)
Ends(s) == IncomingEnds(s) \/ OutgoingEnds(s)
Closed(s) == IncomingClosed(s) \/ OutgoingClosed(s)

Next ==
    \/ proxy # "deleted" /\ \E s \in Session :
         \/ \E a \in Address : Accept(s, a)
         \/ Answer(s) \/ Ends(s) \/ Closed(s)
    \/ NexerClose \/ ProxyClosed

Spec == Init /\ [][Next]_vars

\* Apps and connects are answered and close callbacks run; neither end of a
\* connection has to close it.
Fairness == \A s \in Session : WF_vars(Answer(s)) /\ WF_vars(Closed(s))
FairSpec == Spec /\ Fairness

-----------------------------------------------------------------------------
(* Properties. *)

\* forwarders_ is the set of forwarders that exist, so that Has is right and
\* Remove finds what it looks for.
ForwardersExact ==
    proxy # "deleted" => forwarders = {a \in Address : memory[a] # Null}

\* A client is joined to the connection that was made for it.
OwnUpstream == \A a \in Address : peer[a] # Null => peer[a] = memory[a]

\* A connection to an upstream always has a forwarder that will close it.
NoOrphanUpstream ==
    \A s \in Session : outgoing[s] = "open" =>
        \E a \in Address : memory[a] # Null /\ peer[a] = s

\* When its check and its connect are over a client is joined or closed.
NoClientIsAbandoned ==
    \A s \in Session : stage[s] = "done" /\ incoming[s] = "open" => peer[mine[s]] = s

\* Whoever leaves first and whatever fails while the app is checked and the
\* upstream connected, neither connection of a session is left to nobody
\* (tcp_proxy.cc:31-63).
NobodyIsLeft == NoOrphanUpstream /\ NoClientIsAbandoned

\* Every session ends: its forwarder does not outlive the first close of
\* one of its connections for ever, unless the proxy is deleted first.
ForwarderIsFreed ==
    \A s \in Session :
        incoming[s] = "closing" \/ outgoing[s] = "closing"
            ~> proxy = "deleted" \/ \A a \in Address : memory[a] # s
=============================================================================
