-------------------------- MODULE TcpForwarderProofs --------------------------
(***************************************************************************)
(* For any number of chunks, whenever connections read, write, fail and    *)
(* close, and whether one joins two connections or echoes one: the string  *)
(* libuv is writing is not touched, the forwarder lives as long as its     *)
(* connections, and what it gives each of them is what Relay allows.       *)
(***************************************************************************)
EXTENDS TcpForwarder, EventLoopProofs

-----------------------------------------------------------------------------
(* The inductive invariant. *)

Live(h) == conn[h] \in {"open", "closing"}

Write == [string : String, len : Nat, sent : Nat]

Types ==
    /\ echo \in BOOLEAN /\ alive \in BOOLEAN
    /\ tcp \in [Client -> Conn \cup {None}]
    /\ data \in [String -> Seq(Nat)]
    /\ conn \in [Conn -> {None, "open", "closing", "deleted", "refused"}]
    /\ reqs \in [Conn -> Seq(Write)]
    /\ got \in [Conn -> Nat]
    /\ put \in [Conn -> Seq(Nat)]

\* A handle that waits for its close callback was closed.
QueuedAreClosing == \A h \in Conn : Queued(h) => conn[h] = "closing"

\* Each side points to its connection as long as that is there; in an echo
\* both point to the same.
Wired ==
    /\ echo => /\ conn["far"] = "refused"
               /\ \A c \in Client : tcp[c] = IF Live("near") THEN "near" ELSE None
    /\ ~echo => \A h \in Conn : tcp[Owner(h)] = IF Live(h) THEN h ELSE None
    /\ conn["near"] \notin {None, "refused"}

\* Each direction has two strings of its own, which change places.
StringsInv ==
    /\ dataIn \in [Client -> String] /\ dataOut \in [Client -> String]
    /\ \A c \in Client :
         \E k \in {1, 2} : LET base == IF echo THEN "incoming" ELSE c IN
             dataIn[c] = <<base, k>> /\ dataOut[c] = <<base, 3 - k>>
    /\ echo => dataIn["incoming"] = dataIn["outgoing"]

\* What waits in i and o, read last, are the last of n chunks; what was put,
\* and what the request q on the string s still has to send of o, are the
\* rest; without a request an open connection has nothing waiting in o.
Lined(n, i, o) ==
    /\ \A x \in 1..Len(i) : i[x] = n - Len(i) + x
    /\ \A x \in 1..Len(o) : o[x] = n - Len(i) - Len(o) + x
Flow(n, i, o, q, s, k, state) ==
    /\ Lined(n, i, o)
    /\ q # <<>> => /\ Len(q) = 1 /\ q[1].string = s /\ q[1].len = Len(o)
                   /\ Len(o) > 0 /\ q[1].sent <= Len(o)
                   /\ k + Len(o) - q[1].sent + Len(i) = n
                   /\ state \in {"open", "closing"}
    /\ q = <<>> /\ state \in {None, "open"} => o = <<>> /\ k + Len(i) = n

\* The direction that ends at connection d, if there is one.
Used(d) == d = "near" \/ ~echo
InStr(d) == dataIn[Peer(Owner(d))]
OutStr(d) == dataOut[Peer(Owner(d))]
Running(d) ==
    Flow(got[Other(d)], data[InStr(d)], data[OutStr(d)], reqs[d], OutStr(d), Len(put[d]), conn[d])
FlowInv ==
    /\ \A d \in Conn : Used(d) => Running(d)
    /\ \A d \in Conn : ~Used(d) => reqs[d] = <<>>

IInv ==
    /\ Types /\ QueueInv(Conn) /\ QueuedAreClosing /\ Wired /\ OutlivesConnections
    /\ StringsInv /\ FlowInv

-----------------------------------------------------------------------------
(* Directions. *)

LEMMA FirstWrite ==
    ASSUME NEW q \in Seq(Write), q # <<>>
    PROVE  /\ q[1] \in Write /\ q[1].sent \in Nat /\ q[1].len \in Nat
           /\ Len(q) \in Nat /\ 1 \in DOMAIN q /\ Head(q) = q[1]
<1>1. q[1] \in Write /\ Len(q) \in Nat /\ 1 \in DOMAIN q /\ Head(q) = q[1]
  OBVIOUS
<1> QED BY <1>1 DEF Write

\* Counts of chunks: put, waiting to be sent, sent, waiting to be written.
LEMMA Counts ==
    /\ \A k, i, n \in Nat : k + i = n => k + (i + 1) = n + 1
    /\ \A k, o, t, i, n \in Nat : k + o - t + i = n => k + o - t + (i + 1) = n + 1
    /\ \A k, o, t, i, n \in Nat : k + o - t + i = n /\ t < o =>
         t + 1 <= o /\ (k + 1) + o - (t + 1) + i = n
OBVIOUS

LEMMA Appended ==
    ASSUME NEW i \in Seq(Nat), NEW x \in Nat
    PROVE  Append(i, x) \in Seq(Nat) /\ Append(i, x) # <<>>
<1>1. Append(i, x) \in Seq(Nat) /\ Len(Append(i, x)) = Len(i) + 1 /\ Len(i) \in Nat
  OBVIOUS
<1>2. Len(<<>>) = 0
  OBVIOUS
<1> QED BY <1>1, <1>2

LEMMA OneLeft ==
    /\ \A q \in Seq(Write) : Len(q) = 1 => Tail(q) = <<>>
    /\ \A x : Append(<<>>, x) = <<x>>
    /\ \A x \in Write : <<x>> \in Seq(Write)
    /\ <<>> \in Seq(Write)
<1>1. ASSUME NEW q \in Seq(Write), Len(q) = 1 PROVE Tail(q) = <<>>
  <2>1. q # <<>>
    BY <1>1, EmptySeq
  <2>2. Tail(q) \in Seq(Write) /\ Len(Tail(q)) = Len(q) - 1
    BY <2>1, HeadTailProperties
  <2>3. Len(Tail(q)) = 0
    BY <1>1, <2>2
  <2> QED BY <2>2, <2>3, EmptySeq
<1>2. \A x : Append(<<>>, x) = <<x>>
  OBVIOUS
<1> QED BY <1>1, <1>2

\* A chunk is read.
LEMMA FlowReads ==
    ASSUME NEW n \in Nat, NEW i \in Seq(Nat), NEW o \in Seq(Nat), NEW q \in Seq(Write),
           NEW s, NEW k \in Nat, NEW state, Flow(n, i, o, q, s, k, state)
    PROVE  Flow(n + 1, Append(i, n + 1), o, q, s, k, state)
<1> DEFINE j == Append(i, n + 1)
<1>1. /\ j \in Seq(Nat) /\ Len(j) = Len(i) + 1 /\ Len(i) \in Nat /\ Len(o) \in Nat
      /\ \A x \in 1..Len(j) : j[x] = IF x <= Len(i) THEN i[x] ELSE n + 1
  OBVIOUS
<1> HIDE DEF j
<1>2. Lined(n + 1, j, o)
  <2>1. Lined(n, i, o)
    BY DEF Flow
  <2>2. ASSUME NEW x \in 1..Len(j) PROVE j[x] = (n + 1) - Len(j) + x
    <3>1. x \in Int /\ 1 <= x /\ x <= Len(i) + 1
      BY <1>1
    <3>2. CASE x <= Len(i)
      <4>1. x \in 1..Len(i) /\ j[x] = i[x]
        BY <1>1, <3>1, <3>2
      <4>2. i[x] = n - Len(i) + x
        BY <2>1, <4>1 DEF Lined
      <4> QED BY <1>1, <3>1, <4>1, <4>2
    <3>3. CASE ~(x <= Len(i))
      <4>1. x = Len(i) + 1 /\ j[x] = n + 1
        BY <1>1, <3>1, <3>3
      <4> QED BY <1>1, <4>1
    <3> QED BY <3>2, <3>3
  <2>3. ASSUME NEW x \in 1..Len(o) PROVE o[x] = (n + 1) - Len(j) - Len(o) + x
    BY <1>1, <2>1 DEF Lined
  <2> QED BY <2>2, <2>3 DEF Lined
<1>3. Flow(n + 1, j, o, q, s, k, state)
  <2>1. CASE q = <<>>
    <3>1. state \in {None, "open"} => o = <<>> /\ k + Len(i) = n
      BY <2>1 DEF Flow
    <3>2. state \in {None, "open"} => o = <<>> /\ k + Len(j) = n + 1
      BY <1>1, <3>1, Counts
    <3> QED BY <1>2, <2>1, <3>2 DEF Flow
  <2>2. CASE q # <<>>
    <3>1. q[1].sent \in Nat
      BY <2>2, FirstWrite
    <3>2. k + Len(o) - q[1].sent + Len(i) = n
      BY <2>2 DEF Flow
    <3>3. k + Len(o) - q[1].sent + Len(j) = n + 1
      <4> DEFINE was == Len(i)
                 is == Len(j)
                 all == Len(o)
                 sent == q[1].sent
      <4>1. was \in Nat /\ is = was + 1 /\ all \in Nat /\ sent \in Nat /\ k + all - sent + was = n
        BY <1>1, <3>1, <3>2
      <4> HIDE DEF was, is, all, sent
      <4>2. k + all - sent + is = n + 1
        BY <4>1
      <4> QED BY <4>2 DEF is, all, sent
    <3> QED BY <1>2, <2>2, <3>3 DEF Flow
  <2> QED BY <2>1, <2>2
<1> QED BY <1>3 DEF j

\* What waits is given to libuv.
LEMMA FlowStarts ==
    ASSUME NEW n \in Nat, NEW i \in Seq(Nat), NEW s, NEW k \in Nat, NEW state, NEW t,
           Flow(n, i, <<>>, <<>>, s, k, state), state \in {None, "open"}, i # <<>>
    PROVE  Flow(n, <<>>, i, <<[string |-> t, len |-> Len(i), sent |-> 0]>>, t, k, "open")
<1> DEFINE q == <<[string |-> t, len |-> Len(i), sent |-> 0]>>
<1>1. /\ q # <<>> /\ Len(q) = 1 /\ q[1].string = t /\ q[1].len = Len(i) /\ q[1].sent = 0
      /\ Len(i) \in Nat /\ Len(i) > 0 /\ Len(<<>>) = 0
  OBVIOUS
<1>2. k + Len(i) = n /\ Lined(n, i, <<>>)
  BY DEF Flow
<1>3. Lined(n, <<>>, i)
  BY <1>1, <1>2 DEF Lined
<1> HIDE DEF q
<1>4. Flow(n, <<>>, i, q, t, k, "open")
  BY <1>1, <1>2, <1>3 DEF Flow
<1> QED BY <1>4 DEF q

\* The kernel takes a chunk, which is the next one.
LEMMA FlowSends ==
    ASSUME NEW n \in Nat, NEW i \in Seq(Nat), NEW o \in Seq(Nat), NEW q \in Seq(Write),
           NEW s, NEW k \in Nat, NEW state, Flow(n, i, o, q, s, k, state),
           q # <<>>, q[1].sent < q[1].len
    PROVE  /\ o[q[1].sent + 1] = k + 1 /\ k < n
           /\ Flow(n, i, o, [q EXCEPT ![1].sent = q[1].sent + 1], s, k + 1, state)
<1> DEFINE r == [q EXCEPT ![1].sent = q[1].sent + 1]
<1>1. /\ Len(q) = 1 /\ q[1].string = s /\ q[1].len = Len(o) /\ Len(o) > 0
      /\ k + Len(o) - q[1].sent + Len(i) = n /\ state \in {"open", "closing"}
      /\ Lined(n, i, o)
  BY DEF Flow
<1>2. q[1] \in Write /\ q[1].sent \in Nat /\ Len(o) \in Nat /\ Len(i) \in Nat
  BY FirstWrite
<1>3. /\ Len(r) = 1 /\ r # <<>> /\ r[1].string = s /\ r[1].len = Len(o)
      /\ r[1].sent = q[1].sent + 1
  BY <1>1, <1>2 DEF Write
<1>4. o[q[1].sent + 1] = k + 1 /\ k < n
  <2>1. q[1].sent + 1 \in 1..Len(o)
    <3> DEFINE sent == q[1].sent
               all == Len(o)
    <3>1. sent \in Nat /\ all \in Nat /\ sent < all
      BY <1>1, <1>2
    <3> HIDE DEF sent, all
    <3>2. sent + 1 \in 1..all
      BY <3>1
    <3> QED BY <3>2 DEF sent, all
  <2>2. o[q[1].sent + 1] = n - Len(i) - Len(o) + (q[1].sent + 1)
    BY <1>1, <2>1 DEF Lined
  <2> DEFINE sent == q[1].sent
             all == Len(o)
             left == Len(i)
             chunk == o[q[1].sent + 1]
  <2>3. /\ sent \in Nat /\ all \in Nat /\ left \in Nat /\ sent < all
        /\ k + all - sent + left = n /\ chunk = n - left - all + (sent + 1)
    BY <1>1, <1>2, <2>2
  <2> HIDE DEF sent, all, left, chunk
  <2>4. chunk = k + 1 /\ k < n
    BY <2>3
  <2> QED BY <2>4 DEF chunk
<1> HIDE DEF r
<1>5. Flow(n, i, o, r, s, k + 1, state)
  <2>1. r[1].sent <= Len(o) /\ (k + 1) + Len(o) - r[1].sent + Len(i) = n
    <3> DEFINE sent == q[1].sent
               all == Len(o)
               left == Len(i)
    <3>1. sent \in Nat /\ all \in Nat /\ left \in Nat /\ sent < all /\ k + all - sent + left = n
      BY <1>1, <1>2
    <3> HIDE DEF sent, all, left
    <3>2. sent + 1 <= all /\ (k + 1) + all - (sent + 1) + left = n
      BY <3>1, Counts
    <3> QED BY <1>3, <3>2 DEF sent, all, left
  <2> QED BY <1>1, <1>3, <2>1 DEF Flow
<1> QED BY <1>4, <1>5 DEF r

\* The write is done.
LEMMA FlowDone ==
    ASSUME NEW n \in Nat, NEW i \in Seq(Nat), NEW o \in Seq(Nat), NEW q \in Seq(Write),
           NEW s, NEW k \in Nat, NEW state, Flow(n, i, o, q, s, k, state),
           q # <<>>, q[1].sent = q[1].len
    PROVE  Flow(n, i, <<>>, <<>>, s, k, state)
<1>1. /\ Len(q) = 1 /\ q[1].sent = Len(o) /\ k + Len(o) - q[1].sent + Len(i) = n /\ Lined(n, i, o)
  BY DEF Flow
<1>2. Len(o) \in Nat /\ Len(i) \in Nat /\ k + Len(i) = n
  BY <1>1
<1>3. Lined(n, i, <<>>)
  BY <1>1 DEF Lined
<1> QED BY <1>2, <1>3 DEF Flow

\* A connection that is closed has nothing more to be given: requests are
\* dropped, and strings change places.
LEMMA FlowStops ==
    ASSUME NEW n \in Nat, NEW i \in Seq(Nat), NEW o \in Seq(Nat), NEW q,
           NEW s, NEW k, NEW state, NEW t, NEW ended,
           Flow(n, i, o, q, s, k, state), ended \notin {None, "open"}
    PROVE  Flow(n, i, o, <<>>, t, k, ended) /\ Flow(n, <<>>, i, <<>>, t, k, ended)
<1>1. Lined(n, i, o)
  BY DEF Flow
<1>2. Lined(n, <<>>, i)
  BY <1>1 DEF Lined
<1> QED BY <1>1, <1>2 DEF Flow

\* A connection is closed while it is written to, or not.
LEMMA FlowCloses ==
    ASSUME NEW n, NEW i, NEW o, NEW q, NEW s, NEW k, Flow(n, i, o, q, s, k, "open")
    PROVE  Flow(n, i, o, q, s, k, "closing")
BY DEF Flow, None

-----------------------------------------------------------------------------
(* Connections and strings. *)

LEMMA Ends ==
    ASSUME NEW h \in Conn
    PROVE  /\ h \in {"near", "far"} /\ Owner(h) \in Client /\ Peer(Owner(h)) \in Client
           /\ Other(h) \in Conn /\ Other(Other(h)) = h
           /\ ~echo => Other(h) # h /\ Peer(Owner(h)) = Owner(Other(h))
                       /\ Peer(Owner(Other(h))) = Owner(h)
           /\ echo => Other(h) = h
BY DEF Conn, Client, Owner, Peer, Other

\* How the closures of a connection that was not deleted find the rest.
LEMMA Wires ==
    ASSUME IInv, NEW h \in Conn, Live(h)
    PROVE  /\ Used(h) /\ Used(Other(h)) /\ tcp[Owner(h)] = h
           /\ dataIn[Owner(h)] = InStr(Other(h)) /\ dataOut[Owner(h)] = OutStr(Other(h))
           /\ tcp[Peer(Owner(h))] = IF Live(Other(h)) THEN Other(h) ELSE None
           /\ IsOpen(tcp[Peer(Owner(h))]) <=> conn[Other(h)] = "open"
<1> USE DEF IInv, Types
<1>1. None \notin Conn
  BY DEF Conn, None
<1>2. CASE echo
  <2>1. h = "near" /\ Other(h) = "near" /\ Owner(h) = "incoming" /\ Peer(Owner(h)) = "outgoing"
    BY <1>2 DEF Wired, Live, Conn, Other, Owner, Peer
  <2>2. /\ dataIn["incoming"] = dataIn["outgoing"] /\ dataOut["incoming"] = dataOut["outgoing"]
    <3>1. PICK k \in {1, 2} :
            dataIn["incoming"] = <<"incoming", k>> /\ dataOut["incoming"] = <<"incoming", 3 - k>>
      BY <1>2 DEF StringsInv, Client
    <3>2. PICK l \in {1, 2} :
            dataIn["outgoing"] = <<"incoming", l>> /\ dataOut["outgoing"] = <<"incoming", 3 - l>>
      BY <1>2 DEF StringsInv, Client
    <3>3. k = l
      BY <1>2, <3>1, <3>2 DEF StringsInv
    <3> QED BY <3>1, <3>2, <3>3
  <2>3. tcp["incoming"] = "near" /\ tcp["outgoing"] = "near" /\ "near" \in Conn
    BY <1>2, <2>1 DEF Wired, Client, Conn
  <2> QED BY <2>1, <2>2, <2>3 DEF Used, InStr, OutStr, IsOpen
<1>3. CASE ~echo
  <2>1. /\ Other(h) \in Conn /\ Peer(Owner(h)) = Owner(Other(h))
        /\ Peer(Owner(Other(h))) = Owner(h)
    BY <1>3, Ends
  <2>2. /\ tcp[Owner(h)] = h
        /\ tcp[Owner(Other(h))] = IF Live(Other(h)) THEN Other(h) ELSE None
    BY <1>3, <2>1 DEF Wired
  <2>3. IsOpen(tcp[Peer(Owner(h))]) <=> conn[Other(h)] = "open"
    BY <1>1, <2>1, <2>2 DEF IsOpen, Live
  <2> QED BY <1>3, <2>1, <2>2, <2>3 DEF Used, InStr, OutStr
<1> QED BY <1>2, <1>3

\* The strings of the directions differ.
LEMMA Apart ==
    ASSUME IInv, NEW d \in Conn, Used(d)
    PROVE  /\ InStr(d) \in String /\ OutStr(d) \in String /\ InStr(d) # OutStr(d)
           /\ \A e \in Conn : e # d /\ Used(e) =>
                /\ InStr(e) \notin {InStr(d), OutStr(d)}
                /\ OutStr(e) \notin {InStr(d), OutStr(d)}
<1>1. Peer(Owner(d)) \in Client
  BY Ends
<1>2. InStr(d) \in String /\ OutStr(d) \in String /\ InStr(d) # OutStr(d)
  BY <1>1 DEF IInv, StringsInv, InStr, OutStr
<1>3. ASSUME NEW e \in Conn, e # d, Used(e)
      PROVE  /\ InStr(e) \notin {InStr(d), OutStr(d)}
             /\ OutStr(e) \notin {InStr(d), OutStr(d)}
  <2>1. ~echo
    BY <1>3, Ends DEF Used
  <2>2. Peer(Owner(e)) \in Client /\ Peer(Owner(e)) # Peer(Owner(d))
    BY <1>3, Ends DEF Owner, Peer
  <2>3. /\ \E k \in {1, 2} : /\ InStr(d) = <<Peer(Owner(d)), k>>
                             /\ OutStr(d) = <<Peer(Owner(d)), 3 - k>>
        /\ \E k \in {1, 2} : /\ InStr(e) = <<Peer(Owner(e)), k>>
                             /\ OutStr(e) = <<Peer(Owner(e)), 3 - k>>
    BY <1>1, <2>1, <2>2 DEF IInv, StringsInv, InStr, OutStr
  <2> QED BY <2>2, <2>3
<1> QED BY <1>2, <1>3

\* Swap of the strings of one direction leaves the other one's.
LEMMA SwapStep ==
    ASSUME IInv, NEW d \in Conn, Used(d), NEW c \in Client, c = Peer(Owner(d)) \/ echo,
           Live("near") \/ Live("far"), Swap(c), echo' = echo
    PROVE  /\ StringsInv'
           /\ InStr(d)' = OutStr(d) /\ OutStr(d)' = InStr(d)
           /\ \A e \in Conn : e # d /\ Used(e) => InStr(e)' = InStr(e) /\ OutStr(e)' = OutStr(e)
<1> DEFINE p == Peer(Owner(d))
<1>1. p \in Client
  BY Ends
<1>2. tcp["incoming"] = tcp["outgoing"] <=> echo
  <2>1. CASE echo
    BY <2>1 DEF IInv, Wired, Client
  <2>2. CASE ~echo
    <3>1. /\ tcp["incoming"] = IF Live("near") THEN "near" ELSE None
          /\ tcp["outgoing"] = IF Live("far") THEN "far" ELSE None
      BY <2>2 DEF IInv, Wired, Conn, Owner
    <3> QED BY <2>2, <3>1 DEF None
  <2> QED BY <2>1, <2>2
<1>3. \A b \in Client : b \in Swaps(c) <=> b = c \/ echo
  BY <1>2 DEF Swaps
<1>4. \A b \in Client : /\ dataIn'[b] = IF b = c \/ echo THEN dataOut[b] ELSE dataIn[b]
                        /\ dataOut'[b] = IF b = c \/ echo THEN dataIn[b] ELSE dataOut[b]
  BY <1>3 DEF Swap
<1>5. StringsInv'
  <2>1. dataIn' \in [Client -> String] /\ dataOut' \in [Client -> String]
    BY DEF Swap, IInv, StringsInv
  <2>2. ASSUME NEW b \in Client
        PROVE  \E k \in {1, 2} : LET base == IF echo' THEN "incoming" ELSE b IN
                   dataIn'[b] = <<base, k>> /\ dataOut'[b] = <<base, 3 - k>>
    <3>1. PICK k \in {1, 2} : LET base == IF echo THEN "incoming" ELSE b IN
                   dataIn[b] = <<base, k>> /\ dataOut[b] = <<base, 3 - k>>
      BY DEF IInv, StringsInv
    <3>2. CASE b = c \/ echo
      <4>1. 3 - k \in {1, 2} /\ 3 - (3 - k) = k
        OBVIOUS
      <4>2. dataIn'[b] = dataOut[b] /\ dataOut'[b] = dataIn[b]
        BY <1>4, <3>2
      <4> QED BY <3>1, <4>1, <4>2
    <3>3. CASE ~(b = c \/ echo)
      BY <1>4, <3>1, <3>3
    <3> QED BY <3>2, <3>3
  <2>3. echo => dataIn'["incoming"] = dataIn'["outgoing"]
    <3>1. echo => dataOut["incoming"] = dataOut["outgoing"]
      BY DEF IInv, StringsInv, Client
    <3> QED BY <1>4, <3>1 DEF Client
  <2> QED BY <2>1, <2>2, <2>3 DEF StringsInv
<1>6. InStr(d)' = OutStr(d) /\ OutStr(d)' = InStr(d)
  BY <1>1, <1>4 DEF InStr, OutStr
<1>7. ASSUME NEW e \in Conn, e # d, Used(e)
      PROVE  InStr(e)' = InStr(e) /\ OutStr(e)' = OutStr(e)
  <2>1. ~echo
    BY <1>7, Ends DEF Used
  <2>2. Peer(Owner(e)) \in Client /\ Peer(Owner(e)) # c
    BY <1>7, <2>1, Ends DEF Owner, Peer
  <2> QED BY <1>4, <2>1, <2>2 DEF InStr, OutStr
<1> QED BY <1>5, <1>6, <1>7

-----------------------------------------------------------------------------
(* Closing. *)

\* All that uv_close does to the connections.
OnlyCloses == \A h \in Conn : conn'[h] = conn[h] \/ (conn[h] = "open" /\ conn'[h] = "closing")

\* The handles to close, which no one has closed.
LEMMA OpenOnes ==
    ASSUME IInv, NEW x \in Conn \cup {None}, NEW y \in Conn \cup {None}
    PROVE  LET s == (IF y = x THEN <<>> ELSE IfOpen(y)) \o IfOpen(x) IN
           /\ s \in Seq(Conn) /\ Fresh(s)
           /\ \A h \in Conn : In(h, s) <=> conn[h] = "open" /\ h \in {x, y}
<1> DEFINE s == (IF y = x THEN <<>> ELSE IfOpen(y)) \o IfOpen(x)
           Right == /\ s \in Seq(Conn) /\ Fresh(s)
                    /\ \A h \in Conn : In(h, s) <=> conn[h] = "open" /\ h \in {x, y}
<1>1. \A h \in Conn : conn[h] = "open" => ~Queued(h)
  BY DEF IInv, QueuedAreClosing
<1>2. <<>> \o <<>> = <<>> /\ (\A h : <<>> \o <<h>> = <<h>> /\ <<h>> \o <<>> = <<h>>)
  OBVIOUS
<1>7. /\ <<>> \in Seq(Conn) /\ DOMAIN <<>> = {}
      /\ \A h \in Conn : <<h>> \in Seq(Conn) /\ DOMAIN <<h>> = {1} /\ <<h>>[1] = h
      /\ \A g, h \in Conn : /\ <<g, h>> \in Seq(Conn) /\ DOMAIN <<g, h>> = {1, 2}
                            /\ <<g, h>>[1] = g /\ <<g, h>>[2] = h
  OBVIOUS
<1>3. CASE y # x /\ IsOpen(y) /\ IsOpen(x)
  <2>1. s = <<y, x>> /\ x \in Conn /\ y \in Conn /\ conn[x] = "open" /\ conn[y] = "open"
    BY <1>3, JoinedPair DEF IfOpen, IsOpen
  <2> HIDE DEF s
  <2>2. Right
    BY <1>1, <1>3, <1>7, <2>1 DEF Fresh, In
  <2> QED BY <2>2 DEF s
<1>4. CASE y # x /\ IsOpen(y) /\ ~IsOpen(x)
  <2>1. s = <<y>> /\ y \in Conn /\ conn[y] = "open" /\ (x \in Conn => conn[x] # "open")
    BY <1>2, <1>4 DEF IfOpen, IsOpen
  <2> HIDE DEF s
  <2>2. Right
    BY <1>1, <1>4, <1>7, <2>1 DEF Fresh, In
  <2> QED BY <2>2 DEF s
<1>5. CASE (y = x \/ ~IsOpen(y)) /\ IsOpen(x)
  <2>1. s = <<x>> /\ x \in Conn /\ conn[x] = "open" /\ (y # x /\ y \in Conn => conn[y] # "open")
    BY <1>2, <1>5 DEF IfOpen, IsOpen
  <2> HIDE DEF s
  <2>2. Right
    BY <1>1, <1>7, <2>1 DEF Fresh, In
  <2> QED BY <2>2 DEF s
<1>6. CASE (y = x \/ ~IsOpen(y)) /\ ~IsOpen(x)
  <2>1. s = <<>> /\ (x \in Conn => conn[x] # "open") /\ (y \in Conn => conn[y] # "open")
    BY <1>2, <1>6 DEF IfOpen, IsOpen
  <2> HIDE DEF s
  <2>2. Right
    BY <1>7, <2>1 DEF Fresh, In
  <2> QED BY <2>2 DEF s
<1> QED BY <1>3, <1>4, <1>5, <1>6

\* Handle::Close of one or two connections.
LEMMA CloseStep ==
    ASSUME IInv, NEW x \in Conn \cup {None}, NEW y \in Conn \cup {None},
           Close(x, y), phase' = phase, batch' = batch
    PROVE  /\ QueueInv(Conn)' /\ QueuedAreClosing' /\ OnlyCloses
           /\ conn' \in [Conn -> {None, "open", "closing", "deleted", "refused"}]
<1> DEFINE s == (IF y = x THEN <<>> ELSE IfOpen(y)) \o IfOpen(x)
<1>1. /\ s \in Seq(Conn) /\ Fresh(s)
      /\ \A h \in Conn : In(h, s) <=> conn[h] = "open" /\ h \in {x, y}
  BY OpenOnes
<1>2. CloseHandles(s)
  BY DEF Close
<1> HIDE DEF s
<1>3. QueueInv(Conn)' /\ \A h : Queued(h)' <=> Queued(h) \/ In(h, s)
  BY <1>1, <1>2, Closes DEF IInv
<1>4. conn' = [h \in Conn |-> IF conn[h] = "open" /\ h \in {x, y} THEN "closing" ELSE conn[h]]
  BY DEF Close
<1>5. QueuedAreClosing'
  BY <1>1, <1>3, <1>4 DEF IInv, QueuedAreClosing
<1>6. OnlyCloses
  <2> SUFFICES ASSUME NEW h \in Conn
               PROVE  conn'[h] = conn[h] \/ (conn[h] = "open" /\ conn'[h] = "closing")
    BY DEF OnlyCloses
  <2> QED BY <1>4
<1>7. conn' \in [Conn -> {None, "open", "closing", "deleted", "refused"}]
  BY <1>4 DEF IInv, Types
<1> QED BY <1>3, <1>5, <1>6, <1>7

\* HandleError closes what is open of the two.
LEMMA ErrorStep ==
    ASSUME IInv, NEW h \in Conn, HandleError(h), phase' = phase, batch' = batch
    PROVE  /\ QueueInv(Conn)' /\ QueuedAreClosing' /\ OnlyCloses
           /\ conn' \in [Conn -> {None, "open", "closing", "deleted", "refused"}]
BY Ends, CloseStep DEF HandleError, IInv, Types

\* Connections that close are still there, and what refers to them is right.
LEMMA WireKept ==
    ASSUME IInv, OnlyCloses, UNCHANGED <<echo, tcp, alive>>
    PROVE  Wired' /\ OutlivesConnections' /\ \A h \in Conn : Live(h)' <=> Live(h)
<1>1. \A h \in Conn : Live(h)' <=> Live(h)
  BY DEF OnlyCloses, Live
<1>2. \A h \in Conn : conn[h] \in {None, "refused"} => conn'[h] = conn[h]
  BY DEF OnlyCloses, None
<1>3. conn'["near"] \notin {None, "refused"}
  BY DEF OnlyCloses, IInv, Wired, Conn, None
<1>4. Wired'
  BY <1>1, <1>2, <1>3 DEF IInv, Wired, Conn
<1>5. OutlivesConnections'
  BY <1>1 DEF IInv, OutlivesConnections, Live
<1> QED BY <1>1, <1>4, <1>5

\* What is on its way stays.
LEMMA FlowKept ==
    ASSUME IInv, OnlyCloses, UNCHANGED <<echo, stringVars, reqs, got, put>>
    PROVE  StringsInv' /\ FlowInv'
<1>1. StringsInv'
  BY DEF stringVars, IInv, StringsInv
<1>2. ASSUME NEW d \in Conn, Used(d)' PROVE Running(d)'
  <2>1. Running(d)
    BY <1>2 DEF Used, IInv, FlowInv
  <2>2. Flow(got[Other(d)], data[InStr(d)], data[OutStr(d)], reqs[d], OutStr(d), Len(put[d]), conn'[d])
    <3>1. conn'[d] = conn[d] \/ (conn[d] = "open" /\ conn'[d] = "closing")
      BY DEF OnlyCloses
    <3> QED BY <2>1, <3>1, FlowCloses DEF Running
  <2>3. Other(d)' = Other(d) /\ InStr(d)' = InStr(d) /\ OutStr(d)' = OutStr(d)
    BY DEF stringVars, Other, InStr, OutStr
  <2> QED BY <2>2, <2>3 DEF stringVars, Running
<1>3. \A d \in Conn : ~Used(d)' => reqs'[d] = <<>>
  BY DEF Used, IInv, FlowInv
<1> QED BY <1>1, <1>2, <1>3 DEF FlowInv
\* A step that is about one direction.
Untouched(e) ==
    /\ got'[Other(e)] = got[Other(e)] /\ InStr(e)' = InStr(e) /\ OutStr(e)' = OutStr(e)
    /\ data'[InStr(e)] = data[InStr(e)] /\ data'[OutStr(e)] = data[OutStr(e)]
    /\ put'[e] = put[e]
    /\ conn'[e] = conn[e] \/ (conn[e] = "open" /\ conn'[e] = "closing")

LEMMA OneDirection ==
    ASSUME IInv, echo' = echo, NEW d \in Conn, Used(d), Running(d)',
           \A e \in Conn : e # d /\ Used(e) => Untouched(e),
           \A e \in Conn : e # d => reqs'[e] = reqs[e]
    PROVE  FlowInv'
<1>1. ASSUME NEW e \in Conn, e # d, Used(e)' PROVE Running(e)'
  <2>1. Used(e)
    BY <1>1 DEF Used
  <2>2. Running(e) /\ Untouched(e) /\ reqs'[e] = reqs[e]
    BY <1>1, <2>1 DEF IInv, FlowInv
  <2>3. Flow(got[Other(e)], data[InStr(e)], data[OutStr(e)], reqs[e], OutStr(e), Len(put[e]), conn'[e])
    BY <2>2, FlowCloses DEF Running, Untouched
  <2>4. Other(e)' = Other(e)
    BY DEF Other
  <2> QED BY <2>2, <2>3, <2>4 DEF Running, Untouched
<1>2. \A e \in Conn : ~Used(e)' => reqs'[e] = <<>>
  BY DEF Used, IInv, FlowInv
<1> QED BY <1>1, <1>2 DEF FlowInv

-----------------------------------------------------------------------------
(* The steps. *)

\* Reading the end of a stream, or an error.
LEMMA ReadEnds ==
    ASSUME IInv, NEW h \in Conn, ReadEof(h) \/ ReadFails(h), echo' = echo
    PROVE  IInv'
<1>1. UNCHANGED <<echo, tcp, stringVars, alive, reqs, got, put, phase, batch, calls>>
  BY DEF ReadEof, ReadFails
<1>2. /\ QueueInv(Conn)' /\ QueuedAreClosing' /\ OnlyCloses
      /\ conn' \in [Conn -> {None, "open", "closing", "deleted", "refused"}]
  BY <1>1, CloseStep, ErrorStep DEF ReadEof, ReadFails
<1>3. Types'
  BY <1>1, <1>2 DEF IInv, Types, stringVars
<1>4. Wired' /\ OutlivesConnections' /\ StringsInv' /\ FlowInv'
  BY <1>1, <1>2, WireKept, FlowKept
<1> QED BY <1>2, <1>3, <1>4 DEF IInv

\* Nothing is closed.
LEMMA LoopKept ==
    ASSUME IInv, UNCHANGED <<echo, tcp, alive, conn, loopVars>>
    PROVE  /\ QueueInv(Conn)' /\ QueuedAreClosing' /\ Wired' /\ OutlivesConnections'
           /\ OnlyCloses
<1>1. OnlyCloses
  BY DEF OnlyCloses
<1>2. QueueInv(Conn)' /\ \A h : Queued(h)' <=> Queued(h)
  BY Stays DEF loopVars, IInv
<1>3. QueuedAreClosing'
  BY <1>2 DEF IInv, QueuedAreClosing
<1> QED BY <1>1, <1>2, <1>3, WireKept

\* What is waiting for a connection that is free is given to libuv.
LEMMA Starts ==
    ASSUME IInv, NEW d \in Conn, Used(d), NEW n \in Nat, NEW i \in Seq(Nat), i # <<>>,
           NEW q, NEW state, state \in {None, "open"},
           Flow(n, i, <<>>, <<>>, OutStr(d), Len(put[d]), state),
           Len(put[d]) \in Nat,
           InStr(d)' = OutStr(d), OutStr(d)' = InStr(d), got'[Other(d)] = n, put' = put,
           data'[InStr(d)] = i, data'[OutStr(d)] = <<>>, echo' = echo,
           reqs'[d] = <<Request(InStr(d), data')>>, conn'[d] = "open"
    PROVE  Running(d)'
<1> DEFINE t == InStr(d)
<1>1. Flow(n, <<>>, i, <<[string |-> t, len |-> Len(i), sent |-> 0]>>, t, Len(put[d]), "open")
  BY FlowStarts
<1>2. reqs'[d] = <<[string |-> t, len |-> Len(i), sent |-> 0]>>
  BY DEF Request
<1>3. Other(d)' = Other(d)
  BY DEF Other
<1> HIDE DEF t
<1> QED BY <1>1, <1>2, <1>3 DEF Running, t

LEMMA Reads ==
    ASSUME IInv, NEW h \in Conn, ReadData(h), echo' = echo
    PROVE  IInv'
<1> PICK d \in Conn : d = Other(h)
  BY Ends
<1> DEFINE c == Owner(h)
           n == got[h]
           in == InStr(d)
           out == OutStr(d)
           free == conn[d] = "open" /\ data[out] = <<>>
<1>1. conn[h] = "open" /\ Live(h) /\ (Live("near") \/ Live("far"))
  BY DEF ReadData, Live, Conn
<1>2. /\ Used(d) /\ Other(d) = h /\ c \in Client
      /\ dataIn[c] = in /\ dataOut[c] = out
      /\ tcp[Peer(c)] = IF Live(d) THEN d ELSE None
      /\ IsOpen(tcp[Peer(c)]) <=> conn[d] = "open"
      /\ c = Peer(Owner(d)) \/ echo
  BY <1>1, Wires, Ends DEF ReadData, Live
<1>3. in \in String /\ out \in String /\ in # out
  BY <1>2, Apart
<1>4. /\ got' = [got EXCEPT ![h] = n + 1]
      /\ data' = [data EXCEPT ![in] = Append(@, n + 1)]
      /\ \/ /\ free /\ Swap(c)
            /\ reqs' = [reqs EXCEPT ![d] = Append(@, Request(in, data'))]
         \/ ~free /\ UNCHANGED <<dataIn, dataOut, reqs>>
      /\ UNCHANGED <<tcp, alive, conn, put, loopVars>>
  BY <1>2 DEF ReadData, Live
<1>5. /\ n \in Nat /\ data[in] \in Seq(Nat) /\ data[out] \in Seq(Nat) /\ reqs[d] \in Seq(Write)
      /\ Len(put[d]) \in Nat
  BY <1>2, <1>3 DEF IInv, Types
<1> HIDE DEF in, out, n
<1> DEFINE i == Append(data[in], n + 1)
<1>6. /\ i \in Seq(Nat) /\ i # <<>> /\ data'[in] = i /\ data'[out] = data[out]
      /\ data' \in [String -> Seq(Nat)] /\ got' \in [Conn -> Nat] /\ got'[h] = n + 1
  <2>1. n + 1 \in Nat
    BY <1>5
  <2>2. i \in Seq(Nat) /\ i # <<>>
    BY <1>5, <2>1, Appended
  <2>3. data' = [data EXCEPT ![in] = i] /\ data \in [String -> Seq(Nat)] /\ got \in [Conn -> Nat]
    BY <1>4 DEF IInv, Types
  <2> HIDE DEF i
  <2> QED BY <1>3, <1>4, <2>1, <2>2, <2>3
<1>7. Flow(n + 1, i, data[out], reqs[d], out, Len(put[d]), conn[d])
  BY <1>2, <1>5, FlowReads DEF IInv, FlowInv, Running, in, out, n
<1> HIDE DEF i, c, free
<1>8. /\ QueueInv(Conn)' /\ QueuedAreClosing' /\ Wired' /\ OutlivesConnections'
      /\ OnlyCloses
  BY <1>4, LoopKept
<1>9. ASSUME NEW e \in Conn, e # d, Used(e)
      PROVE  /\ got'[Other(e)] = got[Other(e)]
             /\ data'[InStr(e)] = data[InStr(e)] /\ data'[OutStr(e)] = data[OutStr(e)]
             /\ put'[e] = put[e] /\ conn'[e] = conn[e]
  <2>1. Other(e) \in Conn /\ Other(e) # h
    BY <1>9, Ends
  <2>2. /\ InStr(e) \in String /\ OutStr(e) \in String
        /\ InStr(e) # in /\ OutStr(e) # in
    BY <1>2, <1>9, Apart DEF in
  <2> QED BY <1>4, <2>1, <2>2 DEF IInv, Types
<1>10. CASE free /\ Swap(c) /\ reqs' = [reqs EXCEPT ![d] = Append(@, Request(in, data'))]
  <2>1. conn[d] = "open" /\ data[out] = <<>> /\ reqs[d] = <<>>
    <3>1. conn[d] = "open" /\ data[out] = <<>> /\ Len(<<>>) = 0
      BY <1>10 DEF free
    <3> QED BY <1>7, <3>1 DEF Flow
  <2>2. /\ StringsInv' /\ InStr(d)' = out /\ OutStr(d)' = in
        /\ \A e \in Conn : e # d /\ Used(e) => InStr(e)' = InStr(e) /\ OutStr(e)' = OutStr(e)
    BY <1>1, <1>2, <1>10, SwapStep DEF in, out
  <2>3. reqs'[d] = <<Request(in, data')>> /\ \A e \in Conn : e # d => reqs'[e] = reqs[e]
    BY <1>2, <1>10, <2>1 DEF IInv, Types
  <2>4. Running(d)'
    <3>1. /\ Flow(n + 1, i, <<>>, <<>>, OutStr(d), Len(put[d]), "open")
          /\ n + 1 \in Nat /\ got'[Other(d)] = n + 1 /\ conn'[d] = "open" /\ put' = put
      BY <1>2, <1>4, <1>5, <1>6, <1>7, <2>1 DEF out
    <3>2. /\ InStr(d)' = OutStr(d) /\ OutStr(d)' = InStr(d)
          /\ data'[InStr(d)] = i /\ data'[OutStr(d)] = <<>>
          /\ reqs'[d] = <<Request(InStr(d), data')>>
      BY <1>6, <2>1, <2>2, <2>3 DEF in, out
    <3> QED BY <1>2, <1>5, <1>6, <3>1, <3>2, Starts
  <2>5. Request(in, data') \in Write
    BY <1>3, <1>6 DEF Request, Write
  <2>6. reqs' \in [Conn -> Seq(Write)]
    BY <1>2, <1>5, <1>10, <2>5 DEF IInv, Types
  <2>7. Types'
    BY <1>4, <1>6, <2>6 DEF IInv, Types
  <2>8. \A e \in Conn : e # d /\ Used(e) => Untouched(e)
    BY <1>9, <2>2 DEF Untouched
  <2>9. FlowInv'
    BY <1>2, <2>3, <2>4, <2>8, OneDirection
  <2> QED BY <1>8, <2>2, <2>7, <2>9 DEF IInv
<1>11. CASE ~free /\ UNCHANGED <<dataIn, dataOut, reqs>>
  <2>1. \A e \in Conn : InStr(e)' = InStr(e) /\ OutStr(e)' = OutStr(e)
    BY <1>11 DEF InStr, OutStr
  <2>2. StringsInv'
    BY <1>11 DEF IInv, StringsInv
  <2>3. Types'
    BY <1>4, <1>6, <1>11 DEF IInv, Types
  <2>4. Running(d)'
    <3>1. Other(d)' = Other(d)
      BY DEF Other
    <3> QED BY <1>2, <1>4, <1>6, <1>7, <1>11, <2>1, <3>1 DEF Running, in, out
  <2>5. \A e \in Conn : e # d /\ Used(e) => Untouched(e)
    BY <1>9, <2>1 DEF Untouched
  <2>6. FlowInv'
    BY <1>2, <1>11, <2>4, <2>5, OneDirection
  <2> QED BY <1>8, <2>2, <2>3, <2>6 DEF IInv
<1> QED BY <1>4, <1>10, <1>11

\* The strings do not change places.
LEMMA StringsKept ==
    ASSUME IInv, UNCHANGED <<dataIn, dataOut, echo>>
    PROVE  StringsInv' /\ \A e \in Conn : InStr(e)' = InStr(e) /\ OutStr(e)' = OutStr(e)
BY DEF IInv, StringsInv, InStr, OutStr

\* The kernel takes the next chunk.
LEMMA TakesChunk ==
    ASSUME IInv, NEW h \in Conn, Transmit(h)
    PROVE  /\ Live(h) /\ Used(h) /\ reqs[h] # <<>> /\ reqs[h] \in Seq(Write)
           /\ reqs[h][1].sent < reqs[h][1].len /\ reqs[h][1].string = OutStr(h)
           /\ reqs' = [reqs EXCEPT ![h] = [@ EXCEPT ![1].sent = reqs[h][1].sent + 1]]
           /\ put' = [put EXCEPT ![h] = Append(@, Len(put[h]) + 1)]
           /\ Len(put[h]) < got[Other(h)]
           /\ Flow(got[Other(h)], data[InStr(h)], data[OutStr(h)],
                   [reqs[h] EXCEPT ![1].sent = reqs[h][1].sent + 1], OutStr(h),
                   Len(put[h]) + 1, conn[h])
<1>1. /\ Live(h) /\ reqs[h] # <<>> /\ reqs[h] \in Seq(Write)
      /\ Head(reqs[h]).sent < Head(reqs[h]).len
  BY DEF Transmit, Sending, Live, IInv, Types
<1>2. Used(h) /\ Running(h)
  BY <1>1, Wires DEF IInv, FlowInv
<1>3. Head(reqs[h]) = reqs[h][1]
  BY <1>1, FirstWrite
<1>4. reqs[h][1].string = OutStr(h) /\ reqs[h][1].sent < reqs[h][1].len
  BY <1>1, <1>2, <1>3 DEF Running, Flow
<1>5. /\ got[Other(h)] \in Nat /\ data[InStr(h)] \in Seq(Nat) /\ data[OutStr(h)] \in Seq(Nat)
      /\ Len(put[h]) \in Nat
  BY <1>2, Apart, Ends DEF IInv, Types
<1>6. /\ data[OutStr(h)][reqs[h][1].sent + 1] = Len(put[h]) + 1
      /\ Len(put[h]) < got[Other(h)]
      /\ Flow(got[Other(h)], data[InStr(h)], data[OutStr(h)],
              [reqs[h] EXCEPT ![1].sent = reqs[h][1].sent + 1], OutStr(h),
              Len(put[h]) + 1, conn[h])
  <2> DEFINE n == got[Other(h)]
             i == data[InStr(h)]
             o == data[OutStr(h)]
             q == reqs[h]
             k == Len(put[h])
  <2>1. Flow(n, i, o, q, OutStr(h), k, conn[h])
    BY <1>2 DEF Running
  <2>2. /\ n \in Nat /\ i \in Seq(Nat) /\ o \in Seq(Nat) /\ q \in Seq(Write) /\ k \in Nat
        /\ q # <<>> /\ q[1].sent < q[1].len
    BY <1>1, <1>4, <1>5
  <2> HIDE DEF n, i, o, q, k
  <2>3. /\ o[q[1].sent + 1] = k + 1 /\ k < n
        /\ Flow(n, i, o, [q EXCEPT ![1].sent = q[1].sent + 1], OutStr(h), k + 1, conn[h])
    BY <2>1, <2>2, FlowSends
  <2> QED BY <2>3 DEF n, i, o, q, k
<1>7. /\ put' = [put EXCEPT ![h] = Append(@, data[OutStr(h)][reqs[h][1].sent + 1])]
      /\ reqs' = [reqs EXCEPT ![h] = [@ EXCEPT ![1].sent = reqs[h][1].sent + 1]]
  BY <1>3, <1>4 DEF Transmit
<1> QED BY <1>1, <1>2, <1>4, <1>6, <1>7

LEMMA Transmits ==
    ASSUME IInv, NEW h \in Conn, Transmit(h), echo' = echo
    PROVE  IInv'
<1> DEFINE r == [reqs[h] EXCEPT ![1].sent = reqs[h][1].sent + 1]
<1>1. /\ Used(h) /\ reqs[h] # <<>> /\ reqs[h] \in Seq(Write)
      /\ reqs' = [reqs EXCEPT ![h] = r]
      /\ put' = [put EXCEPT ![h] = Append(@, Len(put[h]) + 1)]
      /\ Flow(got[Other(h)], data[InStr(h)], data[OutStr(h)], r, OutStr(h),
              Len(put[h]) + 1, conn[h])
  BY TakesChunk
<1>2. UNCHANGED <<echo, tcp, stringVars, alive, conn, got, loopVars>>
  BY DEF Transmit
<1>3. r \in Seq(Write)
  <2>1. reqs[h][1] \in Write /\ reqs[h][1].sent \in Nat
    BY <1>1, FirstWrite
  <2>2. [reqs[h][1] EXCEPT !.sent = reqs[h][1].sent + 1] \in Write
    BY <2>1 DEF Write
  <2> QED BY <1>1, <2>2
<1> HIDE DEF r
<1>4. put[h] \in Seq(Nat) /\ put \in [Conn -> Seq(Nat)] /\ reqs \in [Conn -> Seq(Write)]
  BY DEF IInv, Types
<1>5. /\ Append(put[h], Len(put[h]) + 1) \in Seq(Nat)
      /\ Len(Append(put[h], Len(put[h]) + 1)) = Len(put[h]) + 1
  BY <1>4
<1>6. /\ put' \in [Conn -> Seq(Nat)] /\ Len(put'[h]) = Len(put[h]) + 1
      /\ reqs' \in [Conn -> Seq(Write)] /\ reqs'[h] = r
      /\ \A e \in Conn : e # h => reqs'[e] = reqs[e] /\ put'[e] = put[e]
  BY <1>1, <1>3, <1>4, <1>5
<1>7. Types'
  BY <1>2, <1>6 DEF IInv, Types, stringVars
<1>8. /\ QueueInv(Conn)' /\ QueuedAreClosing' /\ Wired' /\ OutlivesConnections'
  BY <1>2, LoopKept
<1>9. StringsInv' /\ \A e \in Conn : InStr(e)' = InStr(e) /\ OutStr(e)' = OutStr(e)
  BY <1>2, StringsKept DEF stringVars
<1>10. Running(h)'
  <2>1. Other(h)' = Other(h)
    BY <1>2 DEF Other
  <2> QED BY <1>1, <1>2, <1>6, <1>9, <2>1 DEF Running, stringVars
<1>11. \A e \in Conn : e # h /\ Used(e) => Untouched(e)
  BY <1>2, <1>6, <1>9 DEF Untouched, stringVars
<1>12. FlowInv'
  BY <1>1, <1>2, <1>6, <1>10, <1>11, OneDirection
<1> QED BY <1>7, <1>8, <1>9, <1>12 DEF IInv

\* A write that is done leaves its string empty, and nothing of the request.
LEMMA Answered ==
    ASSUME IInv, NEW h \in Conn, Live(h), Sent(h),
           data' = [data EXCEPT ![dataOut[Peer(Owner(h))]] = <<>>]
    PROVE  /\ Used(h) /\ Tail(reqs[h]) = <<>>
           /\ Flow(got[Other(h)], data[InStr(h)], <<>>, <<>>, OutStr(h), Len(put[h]), conn[h])
           /\ got[Other(h)] \in Nat /\ data[InStr(h)] \in Seq(Nat) /\ Len(put[h]) \in Nat
           /\ data' \in [String -> Seq(Nat)]
           /\ data'[InStr(h)] = data[InStr(h)] /\ data'[OutStr(h)] = <<>>
           /\ InStr(h) \in String
           /\ \A e \in Conn : e # h /\ Used(e) =>
                data'[InStr(e)] = data[InStr(e)] /\ data'[OutStr(e)] = data[OutStr(e)]
<1>1. /\ reqs[h] # <<>> /\ reqs[h] \in Seq(Write)
      /\ Head(reqs[h]).sent = Head(reqs[h]).len
  BY DEF Sent, IInv, Types
<1>2. Used(h) /\ Running(h)
  BY Wires DEF IInv, FlowInv
<1>3. reqs[h][1].sent = reqs[h][1].len
  BY <1>1, FirstWrite
<1>4. /\ got[Other(h)] \in Nat /\ data[InStr(h)] \in Seq(Nat) /\ data[OutStr(h)] \in Seq(Nat)
      /\ Len(put[h]) \in Nat
      /\ InStr(h) \in String /\ OutStr(h) \in String /\ InStr(h) # OutStr(h)
  BY <1>2, Apart, Ends DEF IInv, Types
<1>5. Flow(got[Other(h)], data[InStr(h)], <<>>, <<>>, OutStr(h), Len(put[h]), conn[h])
  <2> DEFINE n == got[Other(h)]
             i == data[InStr(h)]
             o == data[OutStr(h)]
             q == reqs[h]
             k == Len(put[h])
  <2>1. Flow(n, i, o, q, OutStr(h), k, conn[h])
    BY <1>2 DEF Running
  <2>2. /\ n \in Nat /\ i \in Seq(Nat) /\ o \in Seq(Nat) /\ q \in Seq(Write) /\ k \in Nat
        /\ q # <<>> /\ q[1].sent = q[1].len
    BY <1>1, <1>3, <1>4
  <2> HIDE DEF n, i, o, q, k
  <2>3. Flow(n, i, <<>>, <<>>, OutStr(h), k, conn[h])
    BY <2>1, <2>2, FlowDone
  <2> QED BY <2>3 DEF n, i, k
<1>6. Tail(reqs[h]) = <<>>
  <2>1. Len(reqs[h]) = 1
    BY <1>1, <1>2 DEF Running, Flow
  <2> QED BY <1>1, <2>1, OneLeft
<1>7. data' = [data EXCEPT ![OutStr(h)] = <<>>] /\ data \in [String -> Seq(Nat)]
  BY DEF OutStr, IInv, Types
<1>8. /\ data' \in [String -> Seq(Nat)]
      /\ data'[InStr(h)] = data[InStr(h)] /\ data'[OutStr(h)] = <<>>
  <2>1. <<>> \in Seq(Nat)
    OBVIOUS
  <2> QED BY <1>4, <1>7, <2>1
<1>9. \A e \in Conn : e # h /\ Used(e) =>
        data'[InStr(e)] = data[InStr(e)] /\ data'[OutStr(e)] = data[OutStr(e)]
  BY <1>2, <1>7, Apart
<1> QED BY <1>2, <1>4, <1>5, <1>6, <1>8, <1>9

LEMMA WritesOn ==
    ASSUME IInv, NEW h \in Conn, WriteDone(h), echo' = echo
    PROVE  IInv'
<1> DEFINE p == Peer(Owner(h))
           in == InStr(h)
           out == OutStr(h)
           i == data[in]
<1>1. Live(h) /\ conn[h] = "open" /\ Sent(h) /\ (Live("near") \/ Live("far"))
  BY DEF WriteDone, Live, Conn
<1>2. /\ data' = [data EXCEPT ![dataOut[p]] = <<>>]
      /\ \/ /\ i # <<>> /\ Swap(p)
            /\ reqs' = [reqs EXCEPT ![h] = Append(Tail(@), Request(in, data'))]
         \/ /\ reqs' = [reqs EXCEPT ![h] = Tail(@)]
            /\ UNCHANGED <<dataIn, dataOut>>
      /\ UNCHANGED <<tcp, alive, conn, got, put, loopVars>>
  BY DEF WriteDone, InStr
<1>3. /\ Used(h) /\ Tail(reqs[h]) = <<>>
      /\ Flow(got[Other(h)], i, <<>>, <<>>, out, Len(put[h]), conn[h])
      /\ got[Other(h)] \in Nat /\ i \in Seq(Nat) /\ Len(put[h]) \in Nat
      /\ data' \in [String -> Seq(Nat)] /\ data'[in] = i /\ data'[out] = <<>>
      /\ in \in String
      /\ \A e \in Conn : e # h /\ Used(e) =>
           data'[InStr(e)] = data[InStr(e)] /\ data'[OutStr(e)] = data[OutStr(e)]
  BY <1>1, <1>2, Answered
<1>4. p \in Client
  BY Ends
<1>5. /\ QueueInv(Conn)' /\ QueuedAreClosing' /\ Wired' /\ OutlivesConnections'
  BY <1>2, LoopKept
<1>6. reqs \in [Conn -> Seq(Write)] /\ Other(h)' = Other(h)
  BY DEF IInv, Types, Other
<1> HIDE DEF i, in, out
<1>7. CASE /\ i # <<>> /\ Swap(p)
           /\ reqs' = [reqs EXCEPT ![h] = Append(Tail(@), Request(in, data'))]
  <2>1. /\ StringsInv' /\ InStr(h)' = out /\ OutStr(h)' = in
        /\ \A e \in Conn : e # h /\ Used(e) => InStr(e)' = InStr(e) /\ OutStr(e)' = OutStr(e)
    BY <1>1, <1>3, <1>4, <1>7, SwapStep DEF in, out
  <2>2. Request(in, data') \in Write
    BY <1>3 DEF Request, Write
  <2>3. /\ reqs' \in [Conn -> Seq(Write)] /\ reqs'[h] = <<Request(in, data')>>
        /\ \A e \in Conn : e # h => reqs'[e] = reqs[e]
    <3>1. Append(Tail(reqs[h]), Request(in, data')) = <<Request(in, data')>>
      BY <1>3, OneLeft
    <3>2. <<Request(in, data')>> \in Seq(Write)
      BY <2>2, OneLeft
    <3>3. reqs' = [reqs EXCEPT ![h] = <<Request(in, data')>>]
      BY <1>7, <3>1
    <3> QED BY <1>6, <3>2, <3>3
  <2>4. Types'
    BY <1>2, <1>3, <2>3 DEF IInv, Types
  <2>5. Running(h)'
    <3>1. /\ Flow(got[Other(h)], i, <<>>, <<>>, OutStr(h), Len(put[h]), "open")
          /\ got'[Other(h)] = got[Other(h)] /\ conn'[h] = "open" /\ put' = put
      BY <1>1, <1>2, <1>3 DEF out
    <3>2. /\ InStr(h)' = OutStr(h) /\ OutStr(h)' = InStr(h)
          /\ data'[InStr(h)] = i /\ data'[OutStr(h)] = <<>>
          /\ reqs'[h] = <<Request(InStr(h), data')>>
      BY <1>3, <2>1, <2>3 DEF in, out
    <3> QED BY <1>3, <1>7, <3>1, <3>2, Starts
  <2>6. \A e \in Conn : e # h /\ Used(e) => Untouched(e)
    BY <1>2, <1>3, <2>1 DEF Untouched
  <2>7. FlowInv'
    BY <1>3, <2>3, <2>5, <2>6, OneDirection
  <2> QED BY <1>5, <2>1, <2>4, <2>7 DEF IInv
<1>8. CASE reqs' = [reqs EXCEPT ![h] = Tail(@)] /\ UNCHANGED <<dataIn, dataOut>>
  <2>1. StringsInv' /\ \A e \in Conn : InStr(e)' = InStr(e) /\ OutStr(e)' = OutStr(e)
    BY <1>8, StringsKept
  <2>2. /\ reqs' \in [Conn -> Seq(Write)] /\ reqs'[h] = <<>>
        /\ \A e \in Conn : e # h => reqs'[e] = reqs[e]
    <3>1. <<>> \in Seq(Write)
      OBVIOUS
    <3> QED BY <1>3, <1>6, <1>8, <3>1
  <2>3. Types'
    BY <1>2, <1>3, <2>2 DEF IInv, Types
  <2>4. Running(h)'
    BY <1>2, <1>3, <1>6, <2>1, <2>2 DEF Running, in, out
  <2>5. \A e \in Conn : e # h /\ Used(e) => Untouched(e)
    BY <1>2, <1>3, <2>1 DEF Untouched
  <2>6. FlowInv'
    BY <1>3, <2>2, <2>4, <2>5, OneDirection
  <2> QED BY <1>5, <2>1, <2>3, <2>6 DEF IInv
<1> QED BY <1>2, <1>7, <1>8

\* A connection whose close callback is next was closed.
LEMMA NextIsClosing ==
    ASSUME IInv, NEW h \in Conn, batch # <<>>, Head(batch) = h
    PROVE  conn[h] = "closing" /\ Live(h)
<1>1. batch \in Seq(Conn)
  BY DEF IInv, QueueInv
<1>2. In(h, batch)
  BY <1>1, Rest DEF In
<1> QED BY <1>2 DEF IInv, QueuedAreClosing, Queued, Waits, Live

\* A request that is given up.
LEMMA WritesEnd ==
    ASSUME IInv, NEW h \in Conn, WriteFails(h) \/ WriteCancelled(h), echo' = echo
    PROVE  IInv'
<1>1. /\ Live(h) /\ reqs[h] # <<>> /\ HandleError(h)
      /\ reqs' = [reqs EXCEPT ![h] = Tail(@)]
      /\ UNCHANGED <<echo, tcp, stringVars, alive, got, put, phase, batch, calls>>
  BY NextIsClosing DEF WriteFails, WriteCancelled, IsNext, Sending, Live
<1>2. Used(h) /\ Running(h) /\ tcp[Owner(h)] = h
  BY <1>1, Wires DEF IInv, FlowInv
<1>3. /\ QueueInv(Conn)' /\ QueuedAreClosing' /\ OnlyCloses
      /\ conn' \in [Conn -> {None, "open", "closing", "deleted", "refused"}]
  BY <1>1, ErrorStep
<1>4. Wired' /\ OutlivesConnections'
  BY <1>1, <1>3, WireKept
<1>5. conn'[h] = "closing"
  BY <1>1, <1>2 DEF HandleError, Close, Live
<1>6. reqs[h] \in Seq(Write) /\ reqs \in [Conn -> Seq(Write)]
  BY DEF IInv, Types
<1>7. reqs' \in [Conn -> Seq(Write)] /\ reqs'[h] = <<>> /\ \A e \in Conn : e # h => reqs'[e] = reqs[e]
  <2>1. Len(reqs[h]) = 1
    BY <1>1, <1>2 DEF Running, Flow
  <2>2. Tail(reqs[h]) = <<>>
    BY <1>6, <2>1, OneLeft
  <2> QED BY <1>1, <1>6, <2>2, OneLeft
<1>8. Types'
  BY <1>1, <1>3, <1>7 DEF IInv, Types, stringVars
<1>9. StringsInv' /\ \A e \in Conn : InStr(e)' = InStr(e) /\ OutStr(e)' = OutStr(e)
  BY <1>1, StringsKept DEF stringVars
<1>10. Running(h)'
  <2>1. got[Other(h)] \in Nat /\ data[InStr(h)] \in Seq(Nat) /\ data[OutStr(h)] \in Seq(Nat)
    BY <1>2, Apart, Ends DEF IInv, Types
  <2>2. Flow(got[Other(h)], data[InStr(h)], data[OutStr(h)], <<>>, OutStr(h), Len(put[h]), conn'[h])
    <3>1. "closing" \notin {None, "open"}
      BY DEF None
    <3> QED BY <1>2, <1>5, <2>1, <3>1, FlowStops DEF Running
  <2>3. Other(h)' = Other(h)
    BY <1>1 DEF Other
  <2> QED BY <1>1, <1>7, <1>9, <2>2, <2>3 DEF Running, stringVars
<1>11. \A e \in Conn : e # h /\ Used(e) => Untouched(e)
  BY <1>1, <1>3, <1>9 DEF Untouched, stringVars, OnlyCloses
<1>12. FlowInv'
  BY <1>1, <1>2, <1>7, <1>10, <1>11, OneDirection
<1> QED BY <1>3, <1>4, <1>8, <1>9, <1>12 DEF IInv

\* A request that is answered as its connection is closed.
LEMMA WritesLast ==
    ASSUME IInv, NEW h \in Conn, WriteFlushed(h), echo' = echo
    PROVE  IInv'
<1> DEFINE p == Peer(Owner(h))
           i == data[InStr(h)]
           k == Len(put[h])
<1>1. conn[h] = "closing" /\ Live(h) /\ (Live("near") \/ Live("far"))
  BY NextIsClosing DEF WriteFlushed, IsNext, Conn
<1>2. /\ Sent(h) /\ data' = [data EXCEPT ![dataOut[p]] = <<>>]
      /\ reqs' = [reqs EXCEPT ![h] = Tail(@)]
      /\ UNCHANGED <<echo, tcp, alive, got, put, phase, batch, calls>>
      /\ \/ Swap(p) /\ HandleError(h)
         \/ UNCHANGED <<dataIn, dataOut, conn, closing>>
  BY DEF WriteFlushed
<1>3. /\ Used(h) /\ Tail(reqs[h]) = <<>>
      /\ Flow(got[Other(h)], i, <<>>, <<>>, OutStr(h), k, "closing")
      /\ got[Other(h)] \in Nat /\ i \in Seq(Nat) /\ k \in Nat
      /\ data' \in [String -> Seq(Nat)] /\ data'[InStr(h)] = i /\ data'[OutStr(h)] = <<>>
      /\ \A e \in Conn : e # h /\ Used(e) =>
           data'[InStr(e)] = data[InStr(e)] /\ data'[OutStr(e)] = data[OutStr(e)]
  BY <1>1, <1>2, Answered
<1>4. p \in Client /\ Other(h)' = Other(h)
  BY <1>2, Ends DEF Other
<1>5. /\ QueueInv(Conn)' /\ QueuedAreClosing' /\ OnlyCloses
      /\ conn' \in [Conn -> {None, "open", "closing", "deleted", "refused"}]
  <2>1. CASE HandleError(h)
    BY <1>2, <2>1, ErrorStep
  <2>2. CASE UNCHANGED <<conn, closing>>
    BY <1>2, <2>2, LoopKept DEF loopVars, IInv, Types
  <2> QED BY <1>2, <2>1, <2>2
<1>6. Wired' /\ OutlivesConnections' /\ conn'[h] = "closing"
  BY <1>1, <1>2, <1>5, WireKept DEF OnlyCloses
<1>7. reqs' \in [Conn -> Seq(Write)] /\ reqs'[h] = <<>> /\ \A e \in Conn : e # h => reqs'[e] = reqs[e]
  BY <1>2, <1>3, OneLeft DEF IInv, Types
<1>8. Types'
  BY <1>2, <1>3, <1>5, <1>7 DEF IInv, Types
<1>9. /\ \/ InStr(h)' = OutStr(h) /\ OutStr(h)' = InStr(h)
         \/ InStr(h)' = InStr(h) /\ OutStr(h)' = OutStr(h)
      /\ \A e \in Conn : e # h /\ Used(e) => InStr(e)' = InStr(e) /\ OutStr(e)' = OutStr(e)
      /\ StringsInv'
  <2>1. CASE Swap(p)
    BY <1>1, <1>2, <1>3, <1>4, <2>1, SwapStep
  <2>2. CASE UNCHANGED <<dataIn, dataOut>>
    BY <1>2, <2>2, StringsKept
  <2> QED BY <1>2, <2>1, <2>2
<1>10. Running(h)'
  <2>1. /\ \A t : Flow(got[Other(h)], i, <<>>, <<>>, t, k, "closing")
        /\ \A t : Flow(got[Other(h)], <<>>, i, <<>>, t, k, "closing")
    <3>1. "closing" \notin {None, "open"} /\ <<>> \in Seq(Nat)
      BY DEF None
    <3> HIDE DEF i, k
    <3> QED BY <1>3, <3>1, FlowStops
  <2> HIDE DEF i
  <2> QED BY <1>2, <1>3, <1>4, <1>6, <1>7, <1>9, <2>1 DEF Running
<1>11. \A e \in Conn : e # h /\ Used(e) => Untouched(e)
  BY <1>2, <1>3, <1>5, <1>9 DEF Untouched, OnlyCloses
<1>12. FlowInv'
  BY <1>2, <1>3, <1>7, <1>10, <1>11, OneDirection
<1> QED BY <1>5, <1>6, <1>8, <1>9, <1>12 DEF IInv

\* The close callback of a connection.
LEMMA CloseEnds ==
    ASSUME IInv, NEW h \in Conn, Closed(h), echo' = echo
    PROVE  IInv'
<1> PICK d \in Conn : d = Other(h)
  BY Ends
<1> DEFINE c == Owner(h)
<1>1. /\ conn[h] = "closing" /\ Live(h) /\ TakeClosed(h) /\ reqs[h] = <<>>
      /\ UNCHANGED <<echo, stringVars, reqs, got, put, phase, calls>>
  BY NextIsClosing DEF Closed, TakeClosed
<1>2. /\ Used(h) /\ Running(h) /\ tcp[c] = h
      /\ tcp[Peer(c)] = IF Live(d) THEN d ELSE None
  BY <1>1, Wires DEF IInv, FlowInv
<1> DEFINE left == IF d # h /\ Live(d) THEN d ELSE None
<1>3. /\ left = IF tcp[Peer(c)] = tcp[c] THEN None ELSE tcp[Peer(c)]
      /\ IsOpen(left) <=> d # h /\ conn[d] = "open"
  <2>1. None \notin Conn
    BY DEF Conn, None
  <2> QED BY <1>1, <1>2, <2>1 DEF IsOpen, Live
<1>4. /\ tcp' = [tcp EXCEPT ![c] = None, ![Peer(c)] = left]
      /\ alive' = (left # None)
      /\ \/ /\ IsOpen(left)
            /\ conn' = [conn EXCEPT ![h] = "deleted", ![left] = "closing"]
            /\ CloseHandles(<<left>>)
         \/ /\ ~IsOpen(left)
            /\ conn' = [conn EXCEPT ![h] = "deleted"]
            /\ UNCHANGED closing
  <2> HIDE DEF left
  <2> QED BY <1>3 DEF Closed
<1>5. /\ conn' \in [Conn -> {None, "open", "closing", "deleted", "refused"}]
      /\ conn'[h] = "deleted"
      /\ \A e \in Conn : e # h => conn'[e] = conn[e] \/ (conn[e] = "open" /\ conn'[e] = "closing")
  <2>1. conn \in [Conn -> {None, "open", "closing", "deleted", "refused"}]
    BY DEF IInv, Types
  <2>2. CASE IsOpen(left) /\ conn' = [conn EXCEPT ![h] = "deleted", ![left] = "closing"]
    <3>1. left = d /\ d # h /\ conn[d] = "open"
      BY <1>3, <2>2 DEF Live
    <3> HIDE DEF left
    <3> QED BY <2>1, <2>2, <3>1
  <2>3. CASE conn' = [conn EXCEPT ![h] = "deleted"]
    BY <2>1, <2>3
  <2> QED BY <1>4, <2>2, <2>3
<1>6. QueueInv(Conn)' /\ \A g \in Conn : Queued(g)' => (Queued(g) /\ g # h) \/ conn'[g] = "closing"
  <2>1. CASE IsOpen(left) /\ CloseHandles(<<left>>)
    <3>1. left = d /\ d # h /\ conn[d] = "open"
      BY <1>3, <2>1 DEF Live
    <3> HIDE DEF left
    <3>2. ~Queued(left) /\ conn'[left] = "closing"
      <4>1. conn' = [conn EXCEPT ![h] = "deleted", ![left] = "closing"]
        BY <1>4, <2>1
      <4> QED BY <3>1, <4>1 DEF IInv, Types, QueuedAreClosing
    <3>3. <<left>> \in Seq(Conn) /\ Fresh(<<left>>) /\ \A g : In(g, <<left>>) <=> g = left
      BY <3>1, <3>2 DEF Fresh, In
    <3>4. QueueInv(Conn)' /\ \A g : Queued(g)' <=> (Queued(g) /\ g # h) \/ In(g, <<left>>)
      BY <1>1, <2>1, <3>3, TakesAndCloses DEF IInv
    <3> QED BY <3>2, <3>3, <3>4
  <2>2. CASE UNCHANGED closing
    BY <1>1, <2>2, Takes DEF IInv
  <2> QED BY <1>4, <2>1, <2>2
<1>7. QueuedAreClosing'
  BY <1>5, <1>6 DEF IInv, QueuedAreClosing
<1>8. tcp' \in [Client -> Conn \cup {None}]
  <2>1. left \in Conn \cup {None}
    OBVIOUS
  <2> HIDE DEF left
  <2> QED BY <1>4, <2>1 DEF IInv, Types
<1>9. Types'
  BY <1>1, <1>4, <1>5, <1>8 DEF IInv, Types, stringVars
<1>10. Wired' /\ OutlivesConnections'
  <2>1. \A e \in Conn : Live(e)' <=> e # h /\ Live(e)
    BY <1>5 DEF Live
  <2>2. \A b \in Client : tcp'[b] = IF b = Peer(c) THEN left ELSE None
    BY <1>4, Ends DEF Peer, Client, IInv, Types
  <2>3. d \in Conn /\ c \in Client /\ (d = h <=> echo) /\ (~echo => Owner(d) = Peer(c))
    BY Ends
  <2>4. Wired'
    <3>1. CASE echo
      <4>1. h = "near" /\ conn["far"] = "refused" /\ left = None
        BY <1>1, <2>3, <3>1 DEF IInv, Wired, Live, Conn
      <4>2. conn'["far"] = "refused"
        BY <1>5, <4>1 DEF Conn
      <4> QED BY <1>1, <1>5, <2>1, <2>2, <3>1, <4>1, <4>2 DEF Wired, Conn, None
    <3>2. CASE ~echo
      <4>1. \A e \in Conn : e = h \/ e = d
        BY <2>3, <3>2 DEF Conn
      <4>2. tcp'[Owner(h)] = None /\ tcp'[Owner(d)] = IF Live(d) THEN d ELSE None
        BY <2>2, <2>3, <3>2, Ends DEF Peer
      <4>3. conn'["near"] \notin {None, "refused"}
        BY <1>5 DEF IInv, Wired, Conn, None
      <4> QED BY <1>1, <2>1, <2>3, <3>2, <4>1, <4>2, <4>3 DEF Wired
    <3> QED BY <3>1, <3>2
  <2>5. OutlivesConnections'
    <3>1. alive' <=> d # h /\ Live(d)
      BY <1>4 DEF None, Conn
    <3>2. (\E e \in Conn : Live(e)') <=> d # h /\ Live(d)
      <4>1. \A e \in Conn : e # h /\ Live(e) => e = d /\ d # h
        BY <1>1, <2>3 DEF Conn, IInv, Wired, Live
      <4> QED BY <2>1, <4>1
    <3> QED BY <3>1, <3>2 DEF OutlivesConnections, Live
  <2> QED BY <2>4, <2>5
<1>11. StringsInv' /\ \A e \in Conn : InStr(e)' = InStr(e) /\ OutStr(e)' = OutStr(e)
  BY <1>1, StringsKept DEF stringVars
<1>12. Running(h)'
  <2>1. /\ got[Other(h)] \in Nat /\ data[InStr(h)] \in Seq(Nat) /\ data[OutStr(h)] \in Seq(Nat)
        /\ conn'[h] \notin {None, "open"}
    BY <1>2, <1>5, Apart, Ends DEF IInv, Types, None
  <2>2. Flow(got[Other(h)], data[InStr(h)], data[OutStr(h)], <<>>, OutStr(h), Len(put[h]), conn'[h])
    BY <1>2, <2>1, FlowStops DEF Running
  <2>3. Other(h)' = Other(h)
    BY <1>1 DEF Other
  <2> QED BY <1>1, <1>11, <2>2, <2>3 DEF Running, stringVars
<1>13. \A e \in Conn : e # h /\ Used(e) => Untouched(e)
  BY <1>1, <1>5, <1>11 DEF Untouched, stringVars
<1>14. FlowInv'
  BY <1>1, <1>2, <1>12, <1>13, OneDirection
<1> QED BY <1>6, <1>7, <1>9, <1>10, <1>11, <1>14 DEF IInv

\* Without an upstream connection nothing is being written to it.
LEMMA NotYet ==
    ASSUME IInv, conn["far"] = None
    PROVE  /\ ~echo /\ Used("far") /\ ~Live("far") /\ ~Queued("far") /\ "far" \in Conn /\ Other("far") = "near"
           /\ InStr("far") = dataIn["incoming"] /\ OutStr("far") = dataOut["incoming"]
           /\ reqs["far"] = <<>> /\ data[OutStr("far")] = <<>>
           /\ Flow(got["near"], data[InStr("far")], <<>>, <<>>, OutStr("far"), Len(put["far"]), None)
           /\ got["near"] \in Nat /\ data[InStr("far")] \in Seq(Nat) /\ Len(put["far"]) \in Nat
<1>1. ~echo
  BY DEF IInv, Wired, None
<1>2. /\ "far" \in Conn /\ "near" \in Conn /\ Other("far") = "near" /\ Used("far")
      /\ InStr("far") = dataIn["incoming"] /\ OutStr("far") = dataOut["incoming"]
  BY <1>1 DEF Conn, Other, Used, InStr, OutStr, Owner, Peer
<1>3. ~Live("far") /\ ~Queued("far")
  BY <1>2 DEF Live, IInv, QueuedAreClosing, None
<1>4. Flow(got["near"], data[InStr("far")], data[OutStr("far")], reqs["far"], OutStr("far"),
           Len(put["far"]), None)
  BY <1>2 DEF IInv, FlowInv, Running
<1>5. reqs["far"] = <<>> /\ data[OutStr("far")] = <<>>
  BY <1>4 DEF Flow, None
<1>6. got["near"] \in Nat /\ data[InStr("far")] \in Seq(Nat) /\ Len(put["far"]) \in Nat
  BY <1>2, Apart DEF IInv, Types
<1> QED BY <1>1, <1>2, <1>3, <1>4, <1>5, <1>6

LEMMA Connects ==
    ASSUME IInv, SetOutgoing, echo' = echo
    PROVE  IInv'
<1> DEFINE in == InStr("far")
           out == OutStr("far")
           i == data[in]
           k == Len(put["far"])
<1>1. /\ ~echo /\ Used("far") /\ ~Live("far") /\ ~Queued("far") /\ "far" \in Conn /\ Other("far") = "near"
      /\ in = dataIn["incoming"] /\ out = dataOut["incoming"]
      /\ reqs["far"] = <<>> /\ data[out] = <<>>
      /\ Flow(got["near"], i, <<>>, <<>>, out, k, None)
      /\ got["near"] \in Nat /\ i \in Seq(Nat) /\ k \in Nat
  BY NotYet DEF SetOutgoing
<1> HIDE DEF in, out
<1>2. /\ alive /\ tcp' = [tcp EXCEPT !["outgoing"] = "far"]
      /\ conn' = [conn EXCEPT !["far"] = "open"]
      /\ \/ /\ i # <<>> /\ Swap("incoming")
            /\ reqs' = [reqs EXCEPT !["far"] = <<Request(in, data)>>]
         \/ i = <<>> /\ UNCHANGED <<dataIn, dataOut, reqs>>
      /\ UNCHANGED <<echo, data, alive, got, put, loopVars>>
  BY <1>1 DEF SetOutgoing
<1>3. /\ conn' \in [Conn -> {None, "open", "closing", "deleted", "refused"}]
      /\ conn'["far"] = "open" /\ \A e \in Conn : e # "far" => conn'[e] = conn[e]
      /\ tcp' \in [Client -> Conn \cup {None}]
      /\ \A b \in Client : tcp'[b] = IF b = "outgoing" THEN "far" ELSE tcp[b]
  BY <1>1, <1>2 DEF IInv, Types
<1>4. QueueInv(Conn)' /\ QueuedAreClosing'
  <2>1. QueueInv(Conn)' /\ \A h : Queued(h)' <=> Queued(h)
    BY <1>2, Stays DEF loopVars, IInv
  <2> QED BY <1>1, <1>3, <2>1 DEF IInv, QueuedAreClosing
<1>5. Wired' /\ OutlivesConnections'
  <2>1. \A e \in Conn : Live(e)' <=> Live(e) \/ e = "far"
    BY <1>3 DEF Live
  <2>2. conn'["near"] \notin {None, "refused"}
    BY <1>3 DEF IInv, Wired, Conn
  <2>3. \A h \in Conn : tcp'[Owner(h)] = IF Live(h)' THEN h ELSE None
    <3>1. \A h \in Conn : tcp[Owner(h)] = IF Live(h) THEN h ELSE None
      BY <1>1 DEF IInv, Wired
    <3>2. Owner("near") # "outgoing" /\ Owner("far") = "outgoing"
      BY Ends DEF Owner
    <3>3. ASSUME NEW h \in Conn PROVE tcp'[Owner(h)] = IF Live(h)' THEN h ELSE None
      <4>1. h \in {"near", "far"} /\ Owner(h) \in Client
        BY Ends DEF Conn, Owner
      <4>2. CASE h = "far"
        BY <1>3, <2>1, <3>2, <4>1, <4>2
      <4>3. CASE h = "near"
        BY <1>3, <2>1, <3>1, <3>2, <4>1, <4>3
      <4> QED BY <4>1, <4>2, <4>3
    <3> QED BY <3>3
  <2>4. Wired'
    BY <1>1, <1>2, <2>2, <2>3 DEF Wired
  <2>5. OutlivesConnections'
    BY <1>1, <1>2, <1>3 DEF OutlivesConnections
  <2> QED BY <2>4, <2>5
<1>6. Live("near") \/ Live("far")
  BY <1>2 DEF IInv, OutlivesConnections, Live, Conn
<1>7. CASE /\ i # <<>> /\ Swap("incoming")
           /\ reqs' = [reqs EXCEPT !["far"] = <<Request(in, data)>>]
  <2>1. /\ StringsInv' /\ InStr("far")' = out /\ OutStr("far")' = in
        /\ \A e \in Conn : e # "far" /\ Used(e) => InStr(e)' = InStr(e) /\ OutStr(e)' = OutStr(e)
    <3>1. "incoming" \in Client /\ "incoming" = Peer(Owner("far"))
      BY DEF Client, Owner, Peer
    <3> QED BY <1>1, <1>2, <1>6, <1>7, <3>1, SwapStep DEF in, out
  <2>2. Request(in, data) \in Write
    <3>1. in \in String
      BY <1>1, Apart DEF in
    <3> QED BY <1>1, <3>1 DEF Request, Write
  <2>3. /\ reqs' \in [Conn -> Seq(Write)] /\ reqs'["far"] = <<Request(in, data)>>
        /\ \A e \in Conn : e # "far" => reqs'[e] = reqs[e]
    BY <1>1, <1>7, <2>2, OneLeft DEF IInv, Types
  <2>4. Types'
    BY <1>2, <1>3, <2>3 DEF IInv, Types
  <2>5. Running("far")'
    <3>1. /\ Flow(got["near"], i, <<>>, <<>>, OutStr("far"), k, None)
          /\ got'[Other("far")] = got["near"] /\ conn'["far"] = "open" /\ put' = put
      BY <1>1, <1>2, <1>3 DEF out
    <3>2. /\ InStr("far")' = OutStr("far") /\ OutStr("far")' = InStr("far")
          /\ data'[InStr("far")] = i /\ data'[OutStr("far")] = <<>>
          /\ reqs'["far"] = <<Request(InStr("far"), data')>>
      BY <1>1, <1>2, <2>1, <2>3 DEF in, out
    <3> QED BY <1>1, <1>2, <1>7, <3>1, <3>2, Starts
  <2>6. \A e \in Conn : e # "far" /\ Used(e) => Untouched(e)
    BY <1>2, <1>3, <2>1 DEF Untouched
  <2>7. FlowInv'
    BY <1>1, <1>2, <2>3, <2>5, <2>6, OneDirection
  <2> QED BY <1>4, <1>5, <2>1, <2>4, <2>7 DEF IInv
<1>8. CASE i = <<>> /\ UNCHANGED <<dataIn, dataOut, reqs>>
  <2>1. StringsInv' /\ \A e \in Conn : InStr(e)' = InStr(e) /\ OutStr(e)' = OutStr(e)
    BY <1>2, <1>8, StringsKept
  <2>2. Types'
    BY <1>2, <1>3, <1>8 DEF IInv, Types
  <2>3. Running("far")'
    <3>1. Flow(got["near"], i, <<>>, <<>>, out, k, "open")
      BY <1>1 DEF Flow
    <3>2. Other("far")' = Other("far")
      BY <1>2 DEF Other
    <3> QED BY <1>1, <1>2, <1>3, <1>8, <2>1, <3>1, <3>2 DEF Running, in, out
  <2>4. \A e \in Conn : e # "far" /\ Used(e) => Untouched(e)
    BY <1>2, <1>3, <2>1 DEF Untouched
  <2>5. FlowInv'
    BY <1>1, <1>2, <1>8, <2>3, <2>4, OneDirection
  <2> QED BY <1>4, <1>5, <2>1, <2>2, <2>5 DEF IInv
<1> QED BY <1>2, <1>7, <1>8

\* There will be no upstream connection.
LEMMA Refuses ==
    ASSUME IInv, UpstreamFails, echo' = echo
    PROVE  IInv'
<1> DEFINE live == conn["near"] = "open"
<1>1. /\ ~echo /\ Used("far") /\ ~Live("far") /\ ~Queued("far") /\ "far" \in Conn /\ Other("far") = "near"
      /\ reqs["far"] = <<>> /\ data[OutStr("far")] = <<>>
      /\ Flow(got["near"], data[InStr("far")], <<>>, <<>>, OutStr("far"), Len(put["far"]), None)
      /\ got["near"] \in Nat /\ data[InStr("far")] \in Seq(Nat)
  BY NotYet DEF UpstreamFails
<1>2. /\ conn' = [conn EXCEPT !["far"] = "refused", !["near"] = IF live THEN "closing" ELSE @]
      /\ IF live THEN CloseHandles(<<"near">>) ELSE UNCHANGED closing
      /\ UNCHANGED <<echo, tcp, stringVars, alive, reqs, got, put, phase, batch, calls>>
  BY DEF UpstreamFails
<1>3. /\ conn' \in [Conn -> {None, "open", "closing", "deleted", "refused"}]
      /\ conn'["far"] = "refused" /\ conn'["near"] = IF live THEN "closing" ELSE conn["near"]
  BY <1>1, <1>2 DEF IInv, Types, Conn
<1>4. \A e \in Conn : e # "far" => e = "near"
  BY DEF Conn
<1>5. QueueInv(Conn)' /\ QueuedAreClosing'
  <2>1. CASE live
    <3>1. "near" \in Conn /\ ~Queued("near")
      BY <2>1 DEF Conn, IInv, QueuedAreClosing
    <3>2. <<"near">> \in Seq(Conn) /\ Fresh(<<"near">>) /\ \A g : In(g, <<"near">>) <=> g = "near"
      BY <3>1 DEF Fresh, In
    <3>3. QueueInv(Conn)' /\ \A g : Queued(g)' <=> Queued(g) \/ In(g, <<"near">>)
      BY <1>2, <2>1, <3>2, Closes DEF IInv
    <3> QED BY <1>1, <1>3, <1>4, <2>1, <3>2, <3>3 DEF IInv, QueuedAreClosing
  <2>2. CASE ~live
    <3>1. QueueInv(Conn)' /\ \A g : Queued(g)' <=> Queued(g)
      BY <1>2, <2>2, Stays DEF IInv
    <3> QED BY <1>1, <1>3, <1>4, <2>2, <3>1 DEF IInv, QueuedAreClosing
  <2> QED BY <2>1, <2>2
<1>6. \A e \in Conn : Live(e)' <=> Live(e)
  BY <1>1, <1>3, <1>4 DEF Live
<1>7. Wired'
  <2>1. conn'["near"] \notin {None, "refused"}
    BY <1>3 DEF IInv, Wired, None
  <2> QED BY <1>1, <1>2, <1>6, <2>1 DEF IInv, Wired
<1>8. OutlivesConnections'
  BY <1>2, <1>6 DEF IInv, OutlivesConnections, Live
<1>9. Types'
  BY <1>2, <1>3 DEF IInv, Types, stringVars
<1>10. StringsInv' /\ \A e \in Conn : InStr(e)' = InStr(e) /\ OutStr(e)' = OutStr(e)
  BY <1>2, StringsKept DEF stringVars
<1>11. Running("far")'
  <2>1. "refused" \notin {None, "open"} /\ <<>> \in Seq(Nat)
    BY DEF None
  <2>2. Flow(got["near"], data[InStr("far")], <<>>, <<>>, OutStr("far"), Len(put["far"]), "refused")
    BY <1>1, <2>1, FlowStops
  <2>3. Other("far")' = Other("far")
    BY <1>2 DEF Other
  <2> QED BY <1>1, <1>2, <1>3, <1>10, <2>2, <2>3 DEF Running, stringVars
<1>12. \A e \in Conn : e # "far" /\ Used(e) => Untouched(e)
  BY <1>2, <1>3, <1>4, <1>10 DEF Untouched, stringVars
<1>13. FlowInv'
  BY <1>1, <1>2, <1>11, <1>12, OneDirection
<1> QED BY <1>5, <1>7, <1>8, <1>9, <1>10, <1>13 DEF IInv

LEMMA LoopSteps ==
    ASSUME IInv, LoopStep, echo' = echo
    PROVE  IInv'
<1>1. Iterate /\ UNCHANGED <<echo, tcp, stringVars, alive, conn, reqs, got, put>>
  BY DEF LoopStep
<1>2. QueueInv(Conn)' /\ \A h : Queued(h)' <=> Queued(h)
  BY <1>1, Iterates DEF IInv
<1>3. OnlyCloses
  BY <1>1 DEF OnlyCloses
<1>4. QueuedAreClosing' /\ Types'
  BY <1>1, <1>2 DEF IInv, QueuedAreClosing, Types, stringVars
<1>5. Wired' /\ OutlivesConnections' /\ StringsInv' /\ FlowInv'
  BY <1>1, <1>3, WireKept, FlowKept
<1> QED BY <1>2, <1>4, <1>5 DEF IInv

LEMMA StuttersKept ==
    ASSUME IInv, UNCHANGED <<vars, echo>>
    PROVE  IInv'
<1>1. UNCHANGED <<echo, tcp, stringVars, alive, conn, reqs, got, put, loopVars>>
  BY DEF vars
<1>2. QueueInv(Conn)' /\ QueuedAreClosing' /\ Wired' /\ OutlivesConnections' /\ OnlyCloses
  BY <1>1, LoopKept
<1>3. Types'
  BY <1>1 DEF IInv, Types, stringVars
<1>4. StringsInv' /\ FlowInv'
  BY <1>1, <1>2, FlowKept
<1> QED BY <1>2, <1>3, <1>4 DEF IInv

-----------------------------------------------------------------------------
(* The theorems. *)

LEMMA StartsRight == Init => IInv
<1> SUFFICES ASSUME Init PROVE IInv
  OBVIOUS
<1>1. <<>> \in Seq(Nat) /\ <<>> \in Seq(Write) /\ <<>> \in Seq(Conn) /\ Len(<<>>) = 0 /\ DOMAIN <<>> = {}
  OBVIOUS
<1>2. QueueInv(Conn) /\ \A h : ~Queued(h)
  BY <1>1 DEF Init, LoopInit, QueueInv, Once, Queued, Waits, In
<1>3. QueuedAreClosing
  BY <1>2 DEF QueuedAreClosing
<1>4. StringsInv
  <2>1. \A c \in Client : LET base == IF echo THEN "incoming" ELSE c IN
          dataIn[c] = <<base, 1>> /\ dataOut[c] = <<base, 3 - 1>>
    BY DEF Init, Strings
  <2>2. dataIn \in [Client -> String] /\ dataOut \in [Client -> String]
    BY DEF Init, Strings, String, Client
  <2>3. echo => dataIn["incoming"] = dataIn["outgoing"]
    BY DEF Init, Strings, Client
  <2> QED BY <2>1, <2>2, <2>3 DEF StringsInv
<1>5. Types
  BY <1>1 DEF Init, Types, Conn, None
<1>6. Wired
  BY DEF Init, Wired, Live, Conn, Client, Owner, None
<1>7. OutlivesConnections
  BY DEF Init, OutlivesConnections, Conn
<1>8. FlowInv
  <2>1. ASSUME NEW d \in Conn PROVE Running(d) /\ reqs[d] = <<>>
    <3>1. InStr(d) \in String /\ OutStr(d) \in String
      BY <1>4, Ends DEF StringsInv, InStr, OutStr
    <3>2. /\ got[Other(d)] = 0 /\ data[InStr(d)] = <<>> /\ data[OutStr(d)] = <<>>
          /\ reqs[d] = <<>> /\ put[d] = <<>>
      BY <3>1, Ends DEF Init
    <3>3. \A state : Flow(0, <<>>, <<>>, <<>>, OutStr(d), 0, state)
      BY <1>1 DEF Flow, Lined
    <3> QED BY <1>1, <3>2, <3>3 DEF Running
  <2> QED BY <2>1 DEF FlowInv
<1> QED BY <1>2, <1>3, <1>4, <1>5, <1>6, <1>7, <1>8 DEF IInv

LEMMA StaysRight == IInv /\ [Next]_<<vars, echo>> => IInv'
<1> SUFFICES ASSUME IInv, [Next]_<<vars, echo>> PROVE IInv'
  OBVIOUS
<1>1. CASE UNCHANGED <<vars, echo>>
  BY <1>1, StuttersKept
<1>2. CASE echo' = echo /\ (SetOutgoing \/ UpstreamFails \/ LoopStep)
  BY <1>2, Connects, Refuses, LoopSteps
<1>3. CASE echo' = echo /\ \E h \in Conn : Handle(h)
  <2>1. PICK h \in Conn : Handle(h)
    BY <1>3
  <2> QED BY <1>3, <2>1, Reads, ReadEnds, Transmits, WritesOn, WritesEnd, WritesLast, CloseEnds
       DEF Handle
<1> QED BY <1>1, <1>2, <1>3 DEF Next

LEMMA Stable == IInv => BufferIsStable
<1> SUFFICES ASSUME IInv, NEW h \in Conn, reqs[h] # <<>>
             PROVE  /\ Len(reqs[h]) = 1 /\ alive
                    /\ Head(reqs[h]).string = dataOut[Peer(Owner(h))]
                    /\ Len(data[Head(reqs[h]).string]) = Head(reqs[h]).len
  BY DEF BufferIsStable
<1>1. Used(h) /\ Running(h) /\ reqs[h] \in Seq(Write)
  BY DEF IInv, FlowInv, Types
<1>2. /\ Len(reqs[h]) = 1 /\ reqs[h][1].string = OutStr(h)
      /\ reqs[h][1].len = Len(data[OutStr(h)]) /\ conn[h] \in {"open", "closing"}
  BY <1>1 DEF Running, Flow
<1>3. alive
  BY <1>2 DEF IInv, OutlivesConnections
<1>4. Head(reqs[h]) = reqs[h][1]
  BY <1>1, FirstWrite
<1> QED BY <1>2, <1>3, <1>4 DEF OutStr

\* The string uv_write was given is the peer's data_out, is not changed before
\* OnWrite runs, and belongs to the one request under way.
THEOREM BufferStaysStable == Spec => []BufferIsStable
<1> QED BY StartsRight, StaysRight, Stable, PTL DEF Spec

\* The closures on the connections never find the forwarder deleted: the
\* OnClose closure that runs last deletes it.
THEOREM ForwarderLivesAsLong == Spec => []OutlivesConnections
<1>1. IInv => OutlivesConnections
  BY DEF IInv
<1> QED BY <1>1, StartsRight, StaysRight, PTL DEF Spec

-----------------------------------------------------------------------------
(* What each connection is given. *)

LEMMA RelayStarts == Init => Relayed!Init
BY Ends DEF Init, Relayed!Init

\* A chunk that is read is received, one that the kernel takes is delivered;
\* no other step is seen.
LEMMA RelaySteps ==
    ASSUME IInv, [Next]_<<vars, echo>>
    PROVE  [Relayed!Next]_<<[h \in Conn |-> Other(h)], got, put>>
<1>1. echo' = echo
  BY DEF Next
<1>2. [h \in Conn |-> Other(h)]' = [h \in Conn |-> Other(h)]
  BY <1>1 DEF Other
<1>3. ASSUME NEW h \in Conn, ReadData(h) PROVE Relayed!Receive(h)
  BY <1>2, <1>3 DEF ReadData, Relayed!Receive
<1>4. ASSUME NEW h \in Conn, Transmit(h) PROVE Relayed!Deliver(h)
  <2>1. /\ put' = [put EXCEPT ![h] = Append(@, Len(put[h]) + 1)] /\ got' = got
        /\ Len(put[h]) < got[Other(h)]
    BY <1>4, TakesChunk DEF Transmit
  <2> QED BY <1>2, <2>1 DEF Relayed!Deliver
<1>5. ASSUME NEW h \in Conn, \/ ReadEof(h) \/ ReadFails(h) \/ WriteDone(h) \/ WriteFails(h)
                             \/ WriteCancelled(h) \/ WriteFlushed(h) \/ Closed(h)
      PROVE  UNCHANGED <<got, put>>
  BY <1>5 DEF ReadEof, ReadFails, WriteDone, WriteFails, WriteCancelled, WriteFlushed, Closed
<1>6. ASSUME SetOutgoing \/ UpstreamFails \/ LoopStep \/ UNCHANGED <<vars, echo>>
      PROVE  UNCHANGED <<got, put>>
  BY <1>6 DEF SetOutgoing, UpstreamFails, LoopStep, vars
<1> QED BY <1>2, <1>3, <1>4, <1>5, <1>6 DEF Next, Handle, Relayed!Next

\* OnData and OnSend give each connection, in order and once, a prefix of what
\* was read from the other (or, for an echo, from itself).
THEOREM RelaysInOrder == Spec => ImplementsRelay
<1>1. Init => Relayed!Init
  BY RelayStarts
<1>2. IInv /\ [Next]_<<vars, echo>> => [Relayed!Next]_<<[h \in Conn |-> Other(h)], got, put>>
  BY RelaySteps
<1> QED BY <1>1, <1>2, StartsRight, StaysRight, PTL DEF Spec, ImplementsRelay, Relayed!Spec
=============================================================================
