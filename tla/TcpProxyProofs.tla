---------------------------- MODULE TcpProxyProofs ----------------------------
(***************************************************************************)
(* For any number of sessions and addresses, in whichever order apps and   *)
(* connects are answered and connections end, and whenever Nexer::Close is *)
(* called: forwarders_ is the set of the forwarders there are; and as long *)
(* as no forwarder gets the address of a deleted one, every client is      *)
(* joined to the connection made for it and no connection is left to       *)
(* nobody.                                                                 *)
(***************************************************************************)
EXTENDS TcpProxy, TLAPS

-----------------------------------------------------------------------------
(* The inductive invariants. *)

Types ==
    /\ proxy \in {"open", "closing", "deleted"}
    /\ forwarders \subseteq Address /\ used \subseteq Address
    /\ memory \in [Address -> Session \cup {Null}]
    /\ peer \in [Address -> Session \cup {Null}]
    /\ mine \in [Session -> Address \cup {Null}]
    /\ stage \in [Session -> {"new", "checking", "connecting", "done"}]
    /\ incoming \in [Session -> {"none", "open", "closing", "deleted"}]
    /\ outgoing \in [Session -> {"none", "open", "closing", "deleted"}]

SetInv == Types /\ ForwardersExact

\* Where a session is says which of its objects there are.
StagesAreTrue ==
    \A s \in Session :
        /\ stage[s] = "new" => mine[s] = Null /\ incoming[s] = "none"
        /\ stage[s] # "new" => mine[s] \in used /\ incoming[s] # "none"
        /\ stage[s] # "done" => outgoing[s] = "none"

\* Each session has an address of its own.
HomesDiffer == \A s, t \in Session : mine[s] = mine[t] /\ mine[s] # Null => s = t

\* The forwarder at an address is that of the session which captured it, ...
MemoryIsMine == \A a \in Address : memory[a] # Null => mine[memory[a]] = a

\* ... and lives as long as its client.
ForwarderHasClient ==
    \A s \in Session : incoming[s] \in {"open", "closing"} => memory[mine[s]] = s

IInv ==
    /\ SetInv /\ StagesAreTrue /\ HomesDiffer /\ MemoryIsMine /\ ForwarderHasClient
    /\ OwnUpstream /\ NobodyIsLeft

-----------------------------------------------------------------------------
(* forwarders_ and memory: whatever addresses are reused. *)

LEMMA SetInitially == Init => SetInv
BY DEF Init, SetInv, Types, ForwardersExact

LEMMA SetInductive == SetInv /\ [Next]_vars => SetInv'
<1> SUFFICES ASSUME SetInv, [Next]_vars PROVE SetInv'
  OBVIOUS
<1> USE ProxyAssumption DEF SetInv
<1>1. ASSUME NEW s \in Session, NEW a \in Address, Accept(s, a) PROVE SetInv'
  BY <1>1 DEF Accept, Types, ForwardersExact
<1>2. ASSUME NEW s \in Session, Answer(s) PROVE SetInv'
  <2>1. CASE AppRuns(s)
    BY <2>1 DEF AppRuns, Types, ForwardersExact
  <2>2. CASE AppFails(s)
    BY <2>2 DEF AppFails, Close, Types, ForwardersExact
  <2>3. CASE Connected(s)
    BY <2>3 DEF Connected, Has, Types, ForwardersExact
  <2>4. CASE ConnectFails(s)
    BY <2>4 DEF ConnectFails, Close, Types, ForwardersExact
  <2> QED BY <1>2, <2>1, <2>2, <2>3, <2>4 DEF Answer
<1>3. ASSUME NEW s \in Session, Ends(s) PROVE SetInv'
  BY <1>3 DEF Ends, IncomingEnds, OutgoingEnds, Close, Types, ForwardersExact
<1>4. ASSUME NEW s \in Session, IncomingClosed(s) PROVE SetInv'
  BY <1>4 DEF IncomingClosed, Remove, Close, Types, ForwardersExact
<1>5. ASSUME NEW s \in Session, OutgoingClosed(s) PROVE SetInv'
  <2>1. /\ peer' = peer \/ peer' = [peer EXCEPT ![mine[s]] = Null]
        /\ outgoing' = [outgoing EXCEPT ![s] = "deleted"]
        /\ UNCHANGED <<proxy, used, mine, stage>>
    BY <1>5 DEF OutgoingClosed
  <2>2. incoming' = incoming \/ \E t : incoming' = Close(incoming, t)
    BY <1>5 DEF OutgoingClosed
  <2>3. \/ UNCHANGED <<forwarders, memory>>
        \/ forwarders' = forwarders \ {mine[s]} /\ memory' = [memory EXCEPT ![mine[s]] = Null]
    BY <1>5 DEF OutgoingClosed, Remove
  <2>4. peer' \in [Address -> Session \cup {Null}] /\ outgoing' \in [Session -> {"none", "open", "closing", "deleted"}]
    BY <2>1 DEF Types
  <2>5. incoming' \in [Session -> {"none", "open", "closing", "deleted"}]
    BY <2>2 DEF Types, Close
  <2>6. ForwardersExact' /\ forwarders' \subseteq Address /\ memory' \in [Address -> Session \cup {Null}]
    BY <2>1, <2>3 DEF Types, ForwardersExact
  <2> QED BY <2>1, <2>4, <2>5, <2>6 DEF Types
<1>6. CASE NexerClose \/ ProxyClosed
  BY <1>6 DEF NexerClose, ProxyClosed, Types, ForwardersExact
<1>7. CASE UNCHANGED vars
  BY <1>7 DEF vars, Types, ForwardersExact
<1> QED BY <1>1, <1>2, <1>3, <1>4, <1>5, <1>6, <1>7 DEF Next, Closed

-----------------------------------------------------------------------------
(* The sessions, if no address is reused. *)

LEMMA Initially == Init => IInv
<1> SUFFICES ASSUME Init PROVE IInv
  OBVIOUS
<1>1. SetInv
  BY SetInitially
<1>2. StagesAreTrue /\ HomesDiffer /\ MemoryIsMine /\ ForwarderHasClient
  BY DEF Init, StagesAreTrue, HomesDiffer, MemoryIsMine, ForwarderHasClient
<1>3. OwnUpstream /\ NobodyIsLeft
  BY DEF Init, OwnUpstream, NobodyIsLeft, NoOrphanUpstream, NoClientIsAbandoned
<1> QED BY <1>1, <1>2, <1>3 DEF IInv

\* A client is accepted.
LEMMA AcceptStep ==
    ASSUME ~Reuse, IInv, NEW s \in Session, NEW a \in Address, Accept(s, a)
    PROVE  IInv'
<1> USE ProxyAssumption DEF IInv, SetInv, Types
<1>1. SetInv'
  BY SetInductive DEF Next, vars, Accept
<1>2. /\ a \notin used /\ memory[a] = Null /\ stage[s] = "new" /\ mine[s] = Null
      /\ \A t \in Session : mine[t] # a
  BY DEF Accept, StagesAreTrue
<1>3. /\ mine' = [mine EXCEPT ![s] = a] /\ memory' = [memory EXCEPT ![a] = s]
      /\ used' = used \cup {a} /\ peer' = peer /\ outgoing' = outgoing
      /\ \E x \in {"checking", "connecting", "done"} : stage' = [stage EXCEPT ![s] = x]
      /\ \E x \in {"open", "closing"} : incoming' = [incoming EXCEPT ![s] = x]
      /\ stage'[s] = "done" => incoming'[s] = "closing"
  BY DEF Accept
<1>4. StagesAreTrue' /\ HomesDiffer' /\ MemoryIsMine' /\ ForwarderHasClient'
  BY <1>2, <1>3 DEF StagesAreTrue, HomesDiffer, MemoryIsMine, ForwarderHasClient
<1>5. OwnUpstream'
  BY <1>2, <1>3 DEF OwnUpstream
<1>6. NobodyIsLeft'
  BY <1>2, <1>3 DEF NobodyIsLeft, NoOrphanUpstream, NoClientIsAbandoned
<1> QED BY <1>1, <1>4, <1>5, <1>6

\* While the proxy is there Has knows whether a session's forwarder is.
LEMMA HasIsRight ==
    ASSUME IInv, proxy # "deleted", NEW s \in Session, stage[s] # "new"
    PROVE  /\ Has(mine[s]) => mine[s] \in Address /\ memory[mine[s]] = s
           /\ ~Has(mine[s]) => incoming[s] = "deleted"
<1> USE ProxyAssumption DEF IInv, SetInv, Types
<1>1. mine[s] \in Address
  BY DEF StagesAreTrue
<1>2. Has(mine[s]) <=> memory[mine[s]] # Null
  BY <1>1 DEF Has, ForwardersExact
<1>3. memory[mine[s]] # Null => memory[mine[s]] = s
  BY <1>1 DEF MemoryIsMine, HomesDiffer
<1>4. memory[mine[s]] = Null => incoming[s] = "deleted"
  BY DEF ForwarderHasClient, StagesAreTrue
<1> QED BY <1>1, <1>2, <1>3, <1>4

\* The app or the connect answers.
LEMMA AnswerSteps ==
    ASSUME ~Reuse, IInv, proxy # "deleted", NEW s \in Session, Answer(s)
    PROVE  IInv'
<1> USE ProxyAssumption DEF IInv, SetInv, Types
<1>1. SetInv'
  BY SetInductive DEF Next
<1>2. CASE AppRuns(s)
  BY <1>1, <1>2 DEF AppRuns, StagesAreTrue, HomesDiffer, MemoryIsMine, ForwarderHasClient,
     OwnUpstream, NobodyIsLeft, NoOrphanUpstream, NoClientIsAbandoned
<1>3. CASE AppFails(s) \/ ConnectFails(s)
  <2>1. /\ stage[s] # "new" /\ stage[s] # "done" /\ stage' = [stage EXCEPT ![s] = "done"]
        /\ incoming' = IF Has(mine[s]) THEN Close(incoming, s) ELSE incoming
        /\ UNCHANGED <<memory, used, peer, mine, outgoing>>
    BY <1>3 DEF AppFails, ConnectFails
  <2>2. incoming'[s] \in {"closing", "deleted"} /\ \A t \in Session : t # s => incoming'[t] = incoming[t]
    BY <2>1, HasIsRight DEF Close, StagesAreTrue
  <2>3. incoming'[s] = "closing" => incoming[s] \in {"open", "closing"}
    BY <2>1 DEF Close
  <2>4. StagesAreTrue' /\ HomesDiffer' /\ MemoryIsMine' /\ ForwarderHasClient'
    BY <2>1, <2>2, <2>3 DEF StagesAreTrue, HomesDiffer, MemoryIsMine, ForwarderHasClient
  <2>5. OwnUpstream' /\ NobodyIsLeft'
    BY <2>1, <2>2 DEF OwnUpstream, NobodyIsLeft, NoOrphanUpstream, NoClientIsAbandoned
  <2> QED BY <1>1, <2>4, <2>5
<1>4. CASE Connected(s)
  <2>1. /\ stage[s] = "connecting" /\ outgoing[s] = "none"
        /\ stage' = [stage EXCEPT ![s] = "done"]
        /\ UNCHANGED <<memory, used, mine, incoming>>
    BY <1>4 DEF Connected, StagesAreTrue
  <2>2. CASE Has(mine[s])
    <3>1. /\ peer' = [peer EXCEPT ![mine[s]] = s] /\ outgoing' = [outgoing EXCEPT ![s] = "open"]
          /\ mine[s] \in Address /\ memory[mine[s]] = s
      BY <1>4, <2>1, <2>2, HasIsRight DEF Connected
    <3>2. StagesAreTrue' /\ HomesDiffer' /\ MemoryIsMine' /\ ForwarderHasClient'
      BY <2>1, <3>1 DEF StagesAreTrue, HomesDiffer, MemoryIsMine, ForwarderHasClient
    <3>3. OwnUpstream'
      BY <2>1, <3>1 DEF OwnUpstream
    <3>4. NoOrphanUpstream'
      <4> SUFFICES ASSUME NEW t \in Session, outgoing'[t] = "open"
                   PROVE  \E a \in Address : memory'[a] # Null /\ peer'[a] = t
        BY DEF NoOrphanUpstream
      <4>1. CASE t = s
        BY <2>1, <3>1, <4>1
      <4>2. CASE t # s
        <5>1. PICK a \in Address : memory[a] # Null /\ peer[a] = t
          BY <3>1, <4>2 DEF NobodyIsLeft, NoOrphanUpstream
        <5>2. a # mine[s]
          BY <3>1, <4>2, <5>1 DEF OwnUpstream
        <5> QED BY <2>1, <3>1, <5>1, <5>2
      <4> QED BY <4>1, <4>2
    <3>5. NoClientIsAbandoned'
      BY <2>1, <3>1 DEF NobodyIsLeft, NoClientIsAbandoned, HomesDiffer
    <3> QED BY <1>1, <3>2, <3>3, <3>4, <3>5 DEF NobodyIsLeft
  <2>3. CASE ~Has(mine[s])
    <3>1. /\ peer' = peer /\ outgoing' = [outgoing EXCEPT ![s] = "closing"]
          /\ incoming[s] = "deleted"
      BY <1>4, <2>1, <2>3, HasIsRight DEF Connected
    <3> QED BY <1>1, <2>1, <3>1 DEF StagesAreTrue, HomesDiffer, MemoryIsMine,
       ForwarderHasClient, OwnUpstream, NobodyIsLeft, NoOrphanUpstream, NoClientIsAbandoned
  <2> QED BY <2>2, <2>3
<1> QED BY <1>2, <1>3, <1>4 DEF Answer

\* A connection ends.
LEMMA EndSteps ==
    ASSUME ~Reuse, IInv, proxy # "deleted", NEW s \in Session, Ends(s)
    PROVE  IInv'
<1>1. SetInv'
  BY SetInductive DEF Next, IInv
<1>2. StagesAreTrue' /\ HomesDiffer' /\ MemoryIsMine' /\ ForwarderHasClient'
  BY DEF IInv, SetInv, Types, Ends, IncomingEnds, OutgoingEnds, Close, StagesAreTrue,
         HomesDiffer, MemoryIsMine, ForwarderHasClient
<1>3. OwnUpstream' /\ NobodyIsLeft'
  BY DEF IInv, SetInv, Types, Ends, IncomingEnds, OutgoingEnds, Close, OwnUpstream,
         NobodyIsLeft, NoOrphanUpstream, NoClientIsAbandoned
<1> QED BY <1>1, <1>2, <1>3 DEF IInv

\* The client's close callback.
LEMMA IncomingClosedStep ==
    ASSUME ~Reuse, IInv, proxy # "deleted", NEW s \in Session, IncomingClosed(s)
    PROVE  IInv'
<1> USE ProxyAssumption DEF IInv, SetInv, Types
<1> DEFINE a == mine[s]
<1>1. SetInv'
  BY SetInductive DEF Next, Closed
<1>2. /\ a \in Address /\ memory[a] = s /\ incoming[s] = "closing"
      /\ incoming' = [incoming EXCEPT ![s] = "deleted"]
      /\ UNCHANGED <<used, peer, mine, stage>>
  BY DEF IncomingClosed, StagesAreTrue, ForwarderHasClient
<1>3. CASE peer[a] = Null
  <2>1. memory' = [memory EXCEPT ![a] = Null] /\ outgoing' = outgoing
    BY <1>3 DEF IncomingClosed, Remove
  <2>2. StagesAreTrue' /\ HomesDiffer' /\ MemoryIsMine' /\ ForwarderHasClient'
    BY <1>2, <2>1 DEF StagesAreTrue, HomesDiffer, MemoryIsMine, ForwarderHasClient
  <2>3. OwnUpstream' /\ NobodyIsLeft'
    BY <1>2, <1>3, <2>1 DEF OwnUpstream, NobodyIsLeft, NoOrphanUpstream, NoClientIsAbandoned
  <2> QED BY <1>1, <2>2, <2>3
<1>4. CASE peer[a] # Null
  <2>1. memory' = memory /\ outgoing' = Close(outgoing, s)
    BY <1>2, <1>4 DEF IncomingClosed, OwnUpstream
  <2>2. outgoing[s] = "none" => outgoing'[s] = "none"
    BY <2>1 DEF Close
  <2>3. \A t \in Session : outgoing'[t] = "open" => outgoing[t] = "open"
    BY <2>1 DEF Close
  <2>4. \A t \in Session : outgoing[t] = "none" => outgoing'[t] = "none"
    BY <2>1 DEF Close
  <2>5. StagesAreTrue' /\ HomesDiffer' /\ MemoryIsMine' /\ ForwarderHasClient'
    BY <1>2, <2>1, <2>4 DEF StagesAreTrue, HomesDiffer, MemoryIsMine, ForwarderHasClient
  <2>6. OwnUpstream' /\ NobodyIsLeft'
    BY <1>2, <2>1, <2>3 DEF OwnUpstream, NobodyIsLeft, NoOrphanUpstream, NoClientIsAbandoned
  <2> QED BY <1>1, <2>5, <2>6
<1> QED BY <1>3, <1>4

\* The upstream connection's.
LEMMA OutgoingClosedStep ==
    ASSUME ~Reuse, IInv, proxy # "deleted", NEW s \in Session, OutgoingClosed(s)
    PROVE  IInv'
<1> USE ProxyAssumption DEF IInv, SetInv, Types
<1> DEFINE a == mine[s]
<1>1. SetInv'
  BY SetInductive DEF Next, Closed
<1>2. /\ a \in Address /\ outgoing[s] = "closing" /\ stage[s] = "done"
      /\ outgoing' = [outgoing EXCEPT ![s] = "deleted"]
      /\ UNCHANGED <<used, mine, stage>>
  BY DEF OutgoingClosed, StagesAreTrue
<1>3. CASE peer[a] # s
  <2>1. UNCHANGED <<peer, memory, incoming>>
    BY <1>3 DEF OutgoingClosed
  <2> QED BY <1>1, <1>2, <2>1 DEF StagesAreTrue, HomesDiffer, MemoryIsMine,
       ForwarderHasClient, OwnUpstream, NobodyIsLeft, NoOrphanUpstream, NoClientIsAbandoned
<1>4. CASE peer[a] = s
  <2>1. memory[a] = s /\ peer' = [peer EXCEPT ![a] = Null]
    BY <1>2, <1>4 DEF OutgoingClosed, OwnUpstream
  <2>2. \/ /\ incoming[s] = "deleted" /\ incoming' = incoming
           /\ memory' = [memory EXCEPT ![a] = Null]
        \/ /\ incoming[s] # "deleted" /\ incoming' = Close(incoming, s)
           /\ memory' = memory
    BY <1>4, <2>1 DEF OutgoingClosed, Remove
  <2>3. incoming'[s] \in {"closing", "deleted"} /\ \A t \in Session : t # s => incoming'[t] = incoming[t]
    BY <1>2, <2>2 DEF Close, StagesAreTrue
  <2>4. /\ incoming'[s] = "closing" => memory' = memory
        /\ memory' = memory \/ memory' = [memory EXCEPT ![a] = Null]
    BY <2>2
  <2>5. StagesAreTrue' /\ HomesDiffer' /\ MemoryIsMine' /\ ForwarderHasClient'
    BY <1>2, <2>1, <2>3, <2>4 DEF StagesAreTrue, HomesDiffer, MemoryIsMine, ForwarderHasClient
  <2>6. OwnUpstream'
    BY <1>2, <2>1, <2>4 DEF OwnUpstream
  <2>7. NoOrphanUpstream'
    <3> SUFFICES ASSUME NEW t \in Session, outgoing'[t] = "open"
                 PROVE  \E b \in Address : memory'[b] # Null /\ peer'[b] = t
      BY DEF NoOrphanUpstream
    <3>1. t # s /\ outgoing[t] = "open"
      BY <1>2
    <3>2. PICK b \in Address : memory[b] # Null /\ peer[b] = t
      BY <3>1 DEF NobodyIsLeft, NoOrphanUpstream
    <3> QED BY <1>4, <2>1, <2>4, <3>1, <3>2
  <2>8. NoClientIsAbandoned'
    BY <1>2, <2>1, <2>3 DEF NobodyIsLeft, NoClientIsAbandoned, HomesDiffer
  <2> QED BY <1>1, <2>5, <2>6, <2>7, <2>8 DEF NobodyIsLeft
<1> QED BY <1>3, <1>4

LEMMA Inductive ==
    ASSUME ~Reuse
    PROVE  IInv /\ [Next]_vars => IInv'
<1> SUFFICES ASSUME IInv, [Next]_vars PROVE IInv'
  OBVIOUS
<1>1. CASE NexerClose \/ ProxyClosed \/ UNCHANGED vars
  <2>1. SetInv'
    BY <1>1, SetInductive DEF IInv, Next
  <2>2. UNCHANGED <<memory, used, peer, mine, stage, incoming, outgoing>>
    BY <1>1 DEF NexerClose, ProxyClosed, vars
  <2> QED BY <2>1, <2>2 DEF IInv, StagesAreTrue, HomesDiffer, MemoryIsMine, ForwarderHasClient,
       OwnUpstream, NobodyIsLeft, NoOrphanUpstream, NoClientIsAbandoned
<1> QED BY <1>1, AcceptStep, AnswerSteps, EndSteps, IncomingClosedStep, OutgoingClosedStep
        DEF Next, Closed

-----------------------------------------------------------------------------
(* The theorems. *)

\* The set that Has looks in and that Remove takes from holds the forwarders
\* that exist and no other, until the proxy is deleted (tcp_proxy.cc:12-25).
THEOREM SetIsExact == Spec => []ForwardersExact
<1>1. SetInv => ForwardersExact
  BY DEF SetInv
<1> QED BY <1>1, SetInitially, SetInductive, PTL DEF Spec

\* If no forwarder is made where a deleted one was, a client is only ever
\* joined to the connection made for it (tcp_proxy.cc:45-58).  The run in
\* which addresses are reused shows that the condition is needed.
THEOREM ClientsGetTheirUpstream ==
    ASSUME ~Reuse
    PROVE  Spec => []OwnUpstream
<1>1. IInv => OwnUpstream
  BY DEF IInv
<1> QED BY <1>1, Initially, Inductive, PTL DEF Spec

\* ... and neither connection of a session is left to nobody
\* (tcp_proxy.cc:31-63).
THEOREM NobodyIsEverLeft ==
    ASSUME ~Reuse
    PROVE  Spec => []NobodyIsLeft
<1>1. IInv => NobodyIsLeft
  BY DEF IInv
<1> QED BY <1>1, Initially, Inductive, PTL DEF Spec
=============================================================================
