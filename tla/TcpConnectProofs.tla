--------------------------- MODULE TcpConnectProofs ---------------------------
(***************************************************************************)
(* For any number of attempts, whenever names resolve or not, connections  *)
(* come, fail or end and the time runs out: nothing that can still be      *)
(* called refers to a timer, a TryConnectData or a client that is gone,    *)
(* there is one attempt at a time, and `then` is called at most once.      *)
(***************************************************************************)
EXTENDS TcpConnect, EventLoopProofs, FiniteSetTheorems

-----------------------------------------------------------------------------
(* The inductive invariant. *)

Handle == Attempt \cup {Clock}

Types ==
    /\ timer \in Object /\ late \in BOOLEAN
    /\ current \in Attempt \cup {Null}
    /\ client \in [Attempt -> Object]
    /\ request \in [Attempt -> {"none", "resolving", "connecting", "connected"}]
    /\ listening \in [Attempt -> BOOLEAN]
    /\ owed \in [Caller -> {0, 1}]

\* A handle that waits for its close callback was closed.
QueuedAreClosing ==
    /\ \A a \in Attempt : Queued(a) => client[a] = "closing"
    /\ Queued(Clock) => timer = "closing"

\* Before its client is deleted an attempt that has closures on it is the one
\* the data points to, and as long as there is data that one has them.
CurrentIsTheListener ==
    /\ \A a \in Attempt : listening[a] /\ client[a] \in {"open", "closing"} => current = a
    /\ timer # "deleted" /\ current # Null => listening[current]

\* Only the current attempt can be open.
OnlyCurrentIsOpen == \A a \in Attempt : client[a] = "open" => current = a

\* What an attempt waits for says where it is.
RequestsAreTrue ==
    \A a \in Attempt :
        /\ client[a] = "none" => request[a] = "none"
        /\ client[a] = "open" /\ request[a] \in {"resolving", "connecting"} => timer = "open"
        /\ client[a] = "closing" /\ request[a] = "resolving" => late

\* `then` is owed while the timer runs.
OwedWhileOpen == owed["caller"] = 1 <=> timer = "open"

IInv ==
    /\ Types /\ QueueInv(Handle) /\ QueuedAreClosing
    /\ CurrentIsTheListener /\ OnlyCurrentIsOpen /\ RequestsAreTrue /\ OwedWhileOpen
    /\ ClosuresFindTheirData /\ PointerIsLive /\ ClientOutlivesRequests

\* The parts that are not about the lists of the loop.
Body ==
    /\ Types /\ CurrentIsTheListener /\ OnlyCurrentIsOpen /\ RequestsAreTrue /\ OwedWhileOpen
    /\ ClosuresFindTheirData /\ PointerIsLive /\ ClientOutlivesRequests

-----------------------------------------------------------------------------
(* The lists of the loop. *)

\* Handles are closed, each for the first time.
LEMMA ClosesHandles ==
    ASSUME QueueInv(Handle), QueuedAreClosing, NEW s \in Seq(Handle), Fresh(s),
           CloseHandles(s), phase' = phase, batch' = batch,
           \A a \in Attempt : client[a] = "closing" \/ In(a, s) => client'[a] = "closing",
           timer = "closing" \/ In(Clock, s) => timer' = "closing"
    PROVE  QueueInv(Handle)' /\ QueuedAreClosing'
<1>1. QueueInv(Handle)' /\ \A h : Queued(h)' <=> Queued(h) \/ In(h, s)
  BY Closes
<1> QED BY <1>1 DEF QueuedAreClosing

\* Nothing is closed.
LEMMA ClosesNothing ==
    ASSUME QueueInv(Handle), QueuedAreClosing, closing' = closing, phase' = phase, batch' = batch,
           \A a \in Attempt : client[a] = "closing" => client'[a] = "closing",
           timer = "closing" => timer' = "closing"
    PROVE  QueueInv(Handle)' /\ QueuedAreClosing'
<1>1. QueueInv(Handle)' /\ \A h : Queued(h)' <=> Queued(h)
  BY Stays
<1> QED BY <1>1 DEF QueuedAreClosing

\* The lists given to uv_close hold what is open, each handle once.
LEMMA CloseLists ==
    ASSUME IInv, NEW c \in Attempt \cup {Null}
    PROVE  /\ CloseList(c) \in Seq(Handle) /\ Fresh(CloseList(c))
           /\ \A h : In(h, CloseList(c)) => h = c /\ c \in Attempt /\ client[c] = "open"
           /\ timer = "open" =>
                \A s \in {<<Clock>>, <<Clock>> \o CloseList(c), CloseList(c) \o <<Clock>>} :
                  /\ s \in Seq(Handle) /\ Fresh(s)
                  /\ \A h : In(h, s) => h = Clock \/ (h = c /\ c \in Attempt /\ client[c] = "open")
<1>1. Clock \notin Attempt
  BY ConnectAssumption
<1>2. timer = "open" => ~Queued(Clock)
  BY DEF IInv, QueuedAreClosing
<1>3. CASE c \in Attempt /\ client[c] = "open"
  <2>1. CloseList(c) = <<c>> /\ c # Clock /\ c \in Handle /\ Clock \in Handle
    BY <1>1, <1>3 DEF CloseList, Handle
  <2>2. ~Queued(c)
    BY <1>3 DEF IInv, QueuedAreClosing
  <2>3. /\ <<c>> \in Seq(Handle) /\ <<Clock>> \in Seq(Handle)
        /\ <<Clock>> \o <<c>> = <<Clock, c>> /\ <<c>> \o <<Clock>> = <<c, Clock>>
        /\ <<Clock, c>> \in Seq(Handle) /\ <<c, Clock>> \in Seq(Handle)
    <3>1. <<c>> \in Seq(Handle) /\ <<Clock>> \in Seq(Handle)
      BY <2>1
    <3>2. <<Clock, c>> \in Seq(Handle) /\ <<c, Clock>> \in Seq(Handle)
      BY <2>1
    <3>3. <<Clock>> \o <<c>> = <<Clock, c>> /\ <<c>> \o <<Clock>> = <<c, Clock>>
      BY <2>1, JoinedPair
    <3> QED BY <3>1, <3>2, <3>3
  <2>4. Fresh(<<c>>) /\ \A h : In(h, <<c>>) => h = c
    BY <2>2 DEF Fresh, In
  <2>5. ASSUME timer = "open"
        PROVE  \A s \in {<<Clock>>, <<Clock, c>>, <<c, Clock>>} :
                 Fresh(s) /\ \A h : In(h, s) => h = Clock \/ h = c
    <3>1. Fresh(<<Clock>>) /\ \A h : In(h, <<Clock>>) => h = Clock
      BY <1>2, <2>5 DEF Fresh, In
    <3>2. Fresh(<<Clock, c>>) /\ \A h : In(h, <<Clock, c>>) => h = Clock \/ h = c
      BY <1>2, <2>5, <2>1, <2>2 DEF Fresh, In
    <3>3. Fresh(<<c, Clock>>) /\ \A h : In(h, <<c, Clock>>) => h = Clock \/ h = c
      BY <1>2, <2>5, <2>1, <2>2 DEF Fresh, In
    <3> QED BY <3>1, <3>2, <3>3
  <2>6. /\ CloseList(c) \in Seq(Handle) /\ Fresh(CloseList(c))
        /\ \A h : In(h, CloseList(c)) => h = c /\ c \in Attempt /\ client[c] = "open"
    BY <1>3, <2>1, <2>3, <2>4
  <2>7. ASSUME timer = "open",
               NEW s \in {<<Clock>>, <<Clock>> \o CloseList(c), CloseList(c) \o <<Clock>>}
        PROVE  /\ s \in Seq(Handle) /\ Fresh(s)
               /\ \A h : In(h, s) => h = Clock \/ (h = c /\ c \in Attempt /\ client[c] = "open")
    <3>1. s \in {<<Clock>>, <<Clock, c>>, <<c, Clock>>}
      BY <2>1, <2>3, <2>7
    <3> QED BY <3>1, <1>3, <2>3, <2>5, <2>7
  <2> QED BY <2>6, <2>7
<1>4. CASE ~(c \in Attempt /\ client[c] = "open")
  <2>1. CloseList(c) = <<>> /\ Clock \in Handle
    BY <1>4 DEF CloseList, Handle
  <2>2. /\ <<>> \in Seq(Handle) /\ <<Clock>> \in Seq(Handle)
        /\ <<Clock>> \o <<>> = <<Clock>> /\ <<>> \o <<Clock>> = <<Clock>>
    BY <2>1
  <2>3. Fresh(<<>>) /\ \A h : ~In(h, <<>>)
    BY DEF Fresh, In
  <2>4. timer = "open" => Fresh(<<Clock>>) /\ \A h : In(h, <<Clock>>) => h = Clock
    BY <1>2 DEF Fresh, In
  <2> QED BY <2>1, <2>2, <2>3, <2>4
<1> QED BY <1>3, <1>4

-----------------------------------------------------------------------------
(* The steps. *)

LEMMA Initially == Init => IInv
<1> SUFFICES ASSUME Init PROVE IInv
  OBVIOUS
<1>1. <<>> \in Seq(Handle) /\ DOMAIN <<>> = {}
  OBVIOUS
<1>2. QueueInv(Handle) /\ QueuedAreClosing
  BY <1>1 DEF Init, LoopInit, QueueInv, Once, QueuedAreClosing, Queued, Waits, In
<1>3. Types
  BY DEF Init, Types, Object, Promise!Init
<1>4. OwedWhileOpen
  BY DEF Init, OwedWhileOpen, Promise!Init, Caller
<1>5. /\ CurrentIsTheListener /\ OnlyCurrentIsOpen /\ RequestsAreTrue
      /\ ClosuresFindTheirData /\ PointerIsLive /\ ClientOutlivesRequests
  BY ConnectAssumption DEF Init, CurrentIsTheListener, OnlyCurrentIsOpen, RequestsAreTrue,
     ClosuresFindTheirData, PointerIsLive, ClientOutlivesRequests
<1> QED BY <1>2, <1>3, <1>4, <1>5 DEF IInv

\* Connect, the passing of time and a try close nothing.
LEMMA TimerSteps ==
    ASSUME IInv, Connect \/ Expire \/ TickTries
    PROVE  IInv'
<1>1. CASE Connect
  <2>1. QueueInv(Handle)' /\ QueuedAreClosing'
    BY <1>1, ClosesNothing DEF IInv, Connect, loopVars
  <2>2. Body'
    BY <1>1, ConnectAssumption DEF IInv, Connect, Body, Types, Object, Caller, Promise!Ask,
       CurrentIsTheListener, OnlyCurrentIsOpen, RequestsAreTrue, OwedWhileOpen,
       ClosuresFindTheirData, PointerIsLive, ClientOutlivesRequests
  <2> QED BY <2>1, <2>2 DEF IInv, Body
<1>2. CASE Expire
  <2>1. QueueInv(Handle)' /\ QueuedAreClosing'
    BY <1>2, ClosesNothing DEF IInv, Expire, loopVars
  <2>2. Body'
    BY <1>2, ConnectAssumption DEF IInv, Expire, Body, Types,
       CurrentIsTheListener, OnlyCurrentIsOpen, RequestsAreTrue, OwedWhileOpen,
       ClosuresFindTheirData, PointerIsLive, ClientOutlivesRequests
  <2> QED BY <2>1, <2>2 DEF IInv, Body
<1>3. CASE TickTries
  <2>1. QueueInv(Handle)' /\ QueuedAreClosing'
    <3>1. /\ closing' = closing /\ phase' = phase /\ batch' = batch /\ timer' = timer
          /\ \A a \in Attempt : client[a] = "closing" => client'[a] = "closing"
      BY <1>3 DEF IInv, Types, TickTries, loopVars
    <3> QED BY <3>1, ClosesNothing DEF IInv
  <2>2. Body'
    BY <1>3, ConnectAssumption DEF IInv, TickTries, GetAddrInfo, Body, Types, Object,
       CurrentIsTheListener, OnlyCurrentIsOpen, RequestsAreTrue, OwedWhileOpen,
       ClosuresFindTheirData, PointerIsLive, ClientOutlivesRequests
  <2> QED BY <2>1, <2>2 DEF IInv, Body
<1> QED BY <1>1, <1>2, <1>3

\* The time is over.
LEMMA GivesUp ==
    ASSUME IInv, TickGivesUp
    PROVE  IInv'
<1>1. current \in Attempt \cup {Null} /\ timer = "open"
  BY DEF IInv, Types, TickGivesUp
<1>2. QueueInv(Handle)' /\ QueuedAreClosing'
  <2> DEFINE s == <<Clock>> \o CloseList(current)
  <2>1. /\ s \in Seq(Handle) /\ Fresh(s)
        /\ \A h : In(h, s) => h = Clock
                      \/ (h = current /\ current \in Attempt /\ client[current] = "open")
    BY <1>1, CloseLists
  <2> HIDE DEF s
  <2>2. CloseHandles(s) /\ phase' = phase /\ batch' = batch /\ timer' = "closing"
    BY DEF TickGivesUp, s
  <2>3. \A a \in Attempt : client[a] = "closing" \/ In(a, s) => client'[a] = "closing"
    BY <2>1, ConnectAssumption DEF IInv, Types, TickGivesUp, Closing
  <2> QED BY <2>1, <2>2, <2>3, ClosesHandles DEF IInv
<1>3. Body'
  BY <1>1, ConnectAssumption DEF IInv, TickGivesUp, Closing, Body, Types, Object, Caller,
     CurrentIsTheListener, OnlyCurrentIsOpen, RequestsAreTrue, OwedWhileOpen,
     ClosuresFindTheirData, PointerIsLive, ClientOutlivesRequests
<1> QED BY <1>2, <1>3 DEF IInv, Body

\* What OnError of a client closes.
LEMMA ErrorCloses ==
    ASSUME IInv, NEW a \in Attempt, Error(a), phase' = phase, batch' = batch, timer' = timer
    PROVE  /\ QueueInv(Handle)' /\ QueuedAreClosing'
           /\ client' = IF listening[a] THEN Closing(current) ELSE client
<1>1. current \in Attempt \cup {Null}
  BY DEF IInv, Types
<1>2. CASE listening[a]
  <2> DEFINE s == CloseList(current)
  <2>1. /\ s \in Seq(Handle) /\ Fresh(s)
        /\ \A h : In(h, s) => h = current /\ current \in Attempt /\ client[current] = "open"
    BY <1>1, CloseLists
  <2>2. CloseHandles(s) /\ client' = Closing(current)
    BY <1>2 DEF Error
  <2> HIDE DEF s
  <2>3. \A x \in Attempt : client[x] = "closing" \/ In(x, s) => client'[x] = "closing"
    BY <2>1, <2>2 DEF IInv, Types, Closing
  <2>4. In(Clock, s) => FALSE
    BY <2>1, ConnectAssumption
  <2>5. QueueInv(Handle)' /\ QueuedAreClosing'
    BY <2>1, <2>2, <2>3, <2>4, ClosesHandles DEF IInv
  <2> QED BY <1>2, <2>2, <2>5
<1>3. CASE ~listening[a]
  <2>1. client' = client /\ closing' = closing
    BY <1>3 DEF Error
  <2> QED BY <1>3, <2>1, ClosesNothing DEF IInv
<1> QED BY <1>2, <1>3

\* Callbacks that tell a client of an error.
LEMMA ErrorSteps ==
    ASSUME IInv, NEW a \in Attempt,
           ResolveFails(a) \/ Resolve(a) \/ ConnectFails(a) \/ ConnectCancelled(a)
    PROVE  IInv'
<1>1. CASE Resolve(a) /\ client[a] = "open" /\ request' = [request EXCEPT ![a] = "connecting"]
           /\ UNCHANGED <<client, closing>>
  <2>1. QueueInv(Handle)' /\ QueuedAreClosing'
    BY <1>1, ClosesNothing DEF IInv, Resolve
  <2>2. Body'
    BY <1>1 DEF IInv, Resolve, Body, Types,
       CurrentIsTheListener, OnlyCurrentIsOpen, RequestsAreTrue, OwedWhileOpen,
       ClosuresFindTheirData, PointerIsLive, ClientOutlivesRequests
  <2> QED BY <2>1, <2>2 DEF IInv, Body
<1>2. ASSUME Error(a), request' = [request EXCEPT ![a] = "none"],
             client[a] \in {"open", "closing"},
             UNCHANGED <<timer, late, current, listening, owed, phase, batch>>
      PROVE  IInv'
  <2>1. /\ QueueInv(Handle)' /\ QueuedAreClosing'
        /\ client' = IF listening[a] THEN Closing(current) ELSE client
    BY <1>2, ErrorCloses
  <2>2. listening[a] => current = a
    BY <1>2 DEF IInv, CurrentIsTheListener
  <2>3. Body'
    BY <1>2, <2>1, <2>2, ConnectAssumption DEF IInv, Closing, Body, Types, Object,
       CurrentIsTheListener, OnlyCurrentIsOpen, RequestsAreTrue, OwedWhileOpen,
       ClosuresFindTheirData, PointerIsLive, ClientOutlivesRequests
  <2> QED BY <2>1, <2>3 DEF IInv, Body
<1>3. request[a] # "none" => client[a] # "none" /\ client[a] \in Object
  BY DEF IInv, RequestsAreTrue, Types
<1>4. CASE ResolveFails(a)
  BY <1>2, <1>3, <1>4 DEF ResolveFails, Object
<1>5. CASE Resolve(a)
  BY <1>1, <1>2, <1>3, <1>5 DEF Resolve, ConnectAddr, Object
<1>6. CASE ConnectFails(a)
  BY <1>2, <1>6 DEF ConnectFails
<1>7. CASE ConnectCancelled(a)
  <2>1. batch # <<>> /\ Head(batch) = a /\ batch \in Seq(Handle)
    BY <1>7 DEF ConnectCancelled, IInv, QueueInv
  <2>2. 1 \in DOMAIN batch /\ batch[1] = a
    BY <2>1
  <2>3. client[a] = "closing"
    BY <2>2 DEF IInv, QueuedAreClosing, Queued, Waits, In
  <2> QED BY <1>2, <1>7, <2>3 DEF ConnectCancelled
<1> QED BY <1>4, <1>5, <1>6, <1>7

\* A connection is handed over, and ends.
LEMMA ConnectedSteps ==
    ASSUME IInv, NEW a \in Attempt, Connected(a) \/ ConnectionEnds(a)
    PROVE  IInv'
<1>1. CASE Connected(a)
  <2>1. /\ current = a /\ timer = "open" /\ client[a] = "open" /\ a # Clock
        /\ timer' = "closing" /\ phase' = phase /\ batch' = batch
    BY <1>1, ConnectAssumption DEF Connected, IInv, OnlyCurrentIsOpen, RequestsAreTrue
  <2>2. PICK s \in {<<Clock>>, CloseList(current) \o <<Clock>>} :
          /\ CloseHandles(s)
          /\ \/ s = <<Clock>> /\ client' = client
             \/ client' = Closing(current)
    BY <1>1 DEF Connected
  <2>3. /\ s \in Seq(Handle) /\ Fresh(s)
        /\ \A h : In(h, s) => h = Clock \/ h = current
        /\ s = <<Clock>> => \A h : In(h, s) => h = Clock
    <3>1. \A h : In(h, <<Clock>>) => h = Clock
      BY DEF In
    <3>2. current \in Attempt \cup {Null} /\ timer = "open"
      BY <2>1
    <3>3. s \in {<<Clock>>, <<Clock>> \o CloseList(current), CloseList(current) \o <<Clock>>}
      BY <2>2
    <3>4. /\ s \in Seq(Handle) /\ Fresh(s)
          /\ \A h : In(h, s) => h = Clock \/ h = current
      <4>1. PICK c \in Attempt \cup {Null} : c = current
        BY <3>2
      <4>2. s \in {<<Clock>>, <<Clock>> \o CloseList(c), CloseList(c) \o <<Clock>>}
        BY <3>3, <4>1
      <4>3. \A r \in {<<Clock>>, <<Clock>> \o CloseList(c), CloseList(c) \o <<Clock>>} :
              /\ r \in Seq(Handle) /\ Fresh(r)
              /\ \A h : In(h, r) => h = Clock \/ (h = c /\ c \in Attempt /\ client[c] = "open")
        BY <3>2, CloseLists
      <4> QED BY <4>1, <4>2, <4>3, Zenon
    <3> QED BY <3>1, <3>4
  <2>4. \A x \in Attempt : client[x] = "closing" \/ In(x, s) => client'[x] = "closing"
    BY <2>1, <2>2, <2>3, ConnectAssumption DEF IInv, Types, Closing
  <2>5. QueueInv(Handle)' /\ QueuedAreClosing'
    BY <2>1, <2>2, <2>3, <2>4, ClosesHandles DEF IInv
  <2>6. client' = client \/ client' = [client EXCEPT ![a] = "closing"]
    BY <2>1, <2>2 DEF Closing
  <2>7. Body'
    BY <1>1, <2>1, <2>6 DEF IInv, Connected, Body, Types, Object, Caller,
       CurrentIsTheListener, OnlyCurrentIsOpen, RequestsAreTrue, OwedWhileOpen,
       ClosuresFindTheirData, PointerIsLive, ClientOutlivesRequests
  <2> QED BY <2>5, <2>7 DEF IInv, Body
<1>2. CASE ConnectionEnds(a)
  <2> DEFINE s == CloseList(a)
  <2>1. /\ s \in Seq(Handle) /\ Fresh(s)
        /\ \A h : In(h, s) => h = a
    BY CloseLists
  <2>2. /\ CloseHandles(s) /\ phase' = phase /\ batch' = batch /\ timer' = timer
        /\ client' = [client EXCEPT ![a] = "closing"]
    BY <1>2 DEF ConnectionEnds, Closing
  <2> HIDE DEF s
  <2>3. \A x \in Attempt : client[x] = "closing" \/ In(x, s) => client'[x] = "closing"
    BY <2>1, <2>2 DEF IInv, Types
  <2>4. QueueInv(Handle)' /\ QueuedAreClosing'
    BY <2>1, <2>2, <2>3, ConnectAssumption, ClosesHandles DEF IInv
  <2>5. Body'
    BY <1>2, <2>2 DEF IInv, ConnectionEnds, Body, Types, Object,
       CurrentIsTheListener, OnlyCurrentIsOpen, RequestsAreTrue, OwedWhileOpen,
       ClosuresFindTheirData, PointerIsLive, ClientOutlivesRequests
  <2> QED BY <2>4, <2>5 DEF IInv, Body
<1> QED BY <1>1, <1>2

\* Close callbacks.
LEMMA ClosedSteps ==
    ASSUME IInv, TimerClosed \/ \E a \in Attempt : ClientClosed(a)
    PROVE  IInv'
<1>1. CASE TimerClosed
  <2>1. /\ QueueInv(Handle)' /\ Queued(Clock)
        /\ \A g : Queued(g)' <=> Queued(g) /\ g # Clock
    BY <1>1, Takes DEF IInv, TimerClosed
  <2>2. QueuedAreClosing' /\ timer = "closing"
    BY <1>1, <2>1 DEF IInv, QueuedAreClosing, TimerClosed
  <2>3. Body'
    BY <1>1, <2>2, ConnectAssumption DEF IInv, TimerClosed, Body, Types, Object,
       CurrentIsTheListener, OnlyCurrentIsOpen, RequestsAreTrue, OwedWhileOpen,
       ClosuresFindTheirData, PointerIsLive, ClientOutlivesRequests
  <2> QED BY <2>1, <2>2, <2>3 DEF IInv, Body
<1>2. ASSUME NEW a \in Attempt, ClientClosed(a) PROVE IInv'
  <2>1. /\ QueueInv(Handle)' /\ Queued(a)
        /\ \A g : Queued(g)' <=> Queued(g) /\ g # a
    BY <1>2, Takes DEF IInv, ClientClosed
  <2>2. client[a] = "closing"
    BY <2>1 DEF IInv, QueuedAreClosing
  <2>3. QueuedAreClosing'
    BY <1>2, <2>1 DEF IInv, QueuedAreClosing, ClientClosed, Types
  <2>4. Body'
    BY <1>2, <2>2, ConnectAssumption DEF IInv, ClientClosed, Body, Types, Object,
       CurrentIsTheListener, OnlyCurrentIsOpen, RequestsAreTrue, OwedWhileOpen,
       ClosuresFindTheirData, PointerIsLive, ClientOutlivesRequests
  <2> QED BY <2>1, <2>3, <2>4 DEF IInv, Body
<1> QED BY <1>1, <1>2

LEMMA LoopSteps ==
    ASSUME IInv, LoopStep
    PROVE  IInv'
<1>1. QueueInv(Handle)' /\ \A h : Queued(h)' <=> Queued(h)
  BY Iterates DEF IInv, LoopStep
<1>2. QueuedAreClosing'
  BY <1>1 DEF IInv, LoopStep, QueuedAreClosing
<1>3. Body'
  BY DEF IInv, LoopStep, Body, Types,
     CurrentIsTheListener, OnlyCurrentIsOpen, RequestsAreTrue, OwedWhileOpen,
     ClosuresFindTheirData, PointerIsLive, ClientOutlivesRequests
<1> QED BY <1>1, <1>2, <1>3 DEF IInv, Body

LEMMA Inductive == IInv /\ [Next]_vars => IInv'
<1> SUFFICES ASSUME IInv, [Next]_vars PROVE IInv'
  OBVIOUS
<1>1. CASE UNCHANGED vars
  <2>1. QueueInv(Handle)' /\ QueuedAreClosing'
    BY <1>1, ClosesNothing DEF IInv, vars, loopVars
  <2>2. Body'
    BY <1>1 DEF IInv, vars, Body, Types,
       CurrentIsTheListener, OnlyCurrentIsOpen, RequestsAreTrue, OwedWhileOpen,
       ClosuresFindTheirData, PointerIsLive, ClientOutlivesRequests
  <2> QED BY <2>1, <2>2 DEF IInv, Body
<1>2. CASE Next
  BY <1>2, TimerSteps, GivesUp, ErrorSteps, ConnectedSteps, ClosedSteps, LoopSteps
     DEF Next, Closed
<1> QED BY <1>1, <1>2

-----------------------------------------------------------------------------
(* The theorems. *)

LEMMA Invariant == Spec => []IInv
BY Initially, Inductive, PTL DEF Spec

\* At most one client is open.
LEMMA AtMostOne == IInv => OneAttempt
<1> SUFFICES ASSUME IInv PROVE OneAttempt
  OBVIOUS
<1> DEFINE S == {a \in Attempt : client[a] = "open"}
<1>1. S \subseteq {current}
  BY DEF IInv, OnlyCurrentIsOpen
<1>2. IsFiniteSet({current}) /\ Cardinality({current}) = 1
  BY FS_Singleton
<1>3. Cardinality(S) <= 1
  BY <1>1, <1>2, FS_Subset
<1> QED BY <1>3 DEF OneAttempt

\* Whichever of the timer, the attempts and TryConnectData is deleted first
\* (tcp_client.cc:190-207, 222-225), no closure and no pointer is left to one
\* that is gone, and there is one attempt at a time.
THEOREM ReferencesStayLive == Spec => []ReferencesAreLive
<1>1. IInv => ReferencesAreLive
  BY AtMostOne DEF IInv, ReferencesAreLive
<1> QED BY <1>1, Invariant, PTL

\* The only request that may find its client deleted is the resolver's, and
\* only when the time ran out (tcp_client.cc:40-44, 233-240).
THEOREM RequestsFindTheirClient == Spec => []ClientOutlivesRequests
<1>1. IInv => ClientOutlivesRequests
  BY DEF IInv
<1> QED BY <1>1, Invariant, PTL

\* The safety part of CallsThenOnce: every step of the timer, the resolver and
\* the network is a call of Connect, a call of `then` that was owed, or
\* neither (tcp_client.cc:212-216, 233-243).
THEOREM ThenIsOwed == Spec => Promise!Init /\ [][Promise!Next]_owed
<1>1. Init => Promise!Init
  BY DEF Init
<1>2. IInv /\ [Next]_vars => [Promise!Next]_owed
  <2> SUFFICES ASSUME IInv, [Next]_vars PROVE Promise!Next \/ owed' = owed
    OBVIOUS
  <2>1. ASSUME owed["caller"] = 1, owed' = [w \in Caller |-> owed[w] - 1] PROVE Promise!Next
    <3>1. "caller" \in Caller /\ \A w \in Caller : w = "caller" /\ owed'[w] = 0
      BY <2>1 DEF Caller
    <3>2. owed' = [owed EXCEPT !["caller"] = 0]
      BY <2>1, <3>1 DEF IInv, Types
    <3> QED BY <2>1, <3>1, <3>2 DEF Promise!Next, Promise!Answer
  <2>2. CASE Connect
    BY <2>2 DEF Connect, Promise!Next
  <2>3. CASE TickGivesUp
    BY <2>1, <2>3 DEF TickGivesUp, IInv, OwedWhileOpen
  <2>4. ASSUME NEW a \in Attempt, Connected(a) PROVE Promise!Next
    BY <2>1, <2>4 DEF Connected, IInv, OwedWhileOpen, RequestsAreTrue
  <2>5. CASE UNCHANGED vars
    BY <2>5 DEF vars
  <2>6. CASE Expire \/ TickTries \/ LoopStep \/ Closed
    BY <2>6 DEF Expire, TickTries, LoopStep, Closed, TimerClosed, ConnectCancelled, ClientClosed
  <2>7. ASSUME NEW a \in Attempt,
               ResolveFails(a) \/ Resolve(a) \/ ConnectFails(a) \/ ConnectionEnds(a)
        PROVE  owed' = owed
    BY <2>7 DEF ResolveFails, Resolve, ConnectFails, ConnectionEnds
  <2> QED BY <2>2, <2>3, <2>4, <2>5, <2>6, <2>7 DEF Next
<1> QED BY <1>1, <1>2, Invariant, PTL DEF Spec
=============================================================================
