-------------------------- MODULE HttpServerProofs --------------------------
(***************************************************************************)
(* A peer that waits for each response gets the answers to its requests in *)
(* their order, whatever it asks for, however often, wherever TCP cuts it  *)
(* and whenever it sends what the parser refuses.  What makes it inductive *)
(* is the place the server has come to in the last request: what the       *)
(* parser and the socket still hold goes on from there, and the fields of  *)
(* the one Request are what the pieces before it make.                     *)
(***************************************************************************)
EXTENDS HttpServer, EventLoopProofs

-----------------------------------------------------------------------------
(* The inductive invariant. *)

Piece == [is : {"start", "url", "field", "value", "body", "end", "junk"}, of : Nat]
Answer == {AnswerTo(r) : r \in Nat}

\* What is to come: what the parser was given, then what the socket holds.
Stream == calls \o wire

\* The parser refuses what comes next, if anything does.
Spent(s) == s # <<>> => s[1] = Junk

\* Up to what the parser refuses, it goes on after the first k pieces of r.
Follows(s, r, k) ==
    \A i \in 1..Len(s) :
        (\A j \in 1..i : s[j] # Junk) => k + i <= Len(Message(r)) /\ s[i] = Message(r)[k + i]

Blank == url = <<>> /\ headers = <<>> /\ ~inField /\ body = <<>> /\ response = <<>>

Header(key, value) == [key |-> key, value |-> value]

\* The headers that the first k pieces of a request make.
HeadersGiven(k) ==
    /\ k \in 0..2 => headers = <<>>
    /\ k = 3 => headers = <<Header(<<1>>, <<>>)>>
    /\ k = 4 => headers = <<Header(<<1, 1>>, <<>>)>>
    /\ k = 5 => headers = <<Header(<<1, 1>>, <<1>>)>>
    /\ k = 6 => headers = <<Header(<<1, 1>>, <<1>>), Header(<<2>>, <<>>)>>
    /\ k >= 7 => headers = <<Header(<<1, 1>>, <<1>>), Header(<<2>>, <<2>>)>>
    /\ inField <=> k \in {3, 4, 6}

\* The same where the first header has no value.
HeadersWithout(k) ==
    /\ k \in 0..2 => headers = <<>>
    /\ k = 3 => headers = <<Header(<<1>>, <<>>)>>
    /\ k = 4 => headers = <<Header(<<1, 1>>, <<>>)>>
    /\ k = 5 => headers = <<Header(<<1, 1, 2>>, <<>>)>>
    /\ k >= 6 => headers = <<Header(<<1, 1, 2>>, <<2>>)>>
    /\ inField <=> k \in {3, 4, 5}

HeadersAt(r, k) == IF r \in EmptyValue THEN HeadersWithout(k) ELSE HeadersGiven(k)

UrlAt(r, k) ==
    /\ k = 0 => url = <<>>
    /\ k = 1 => url = <<r>>
    /\ k >= 2 => url = <<r, r>>

BodyAt(r, k) ==
    /\ k + 2 < Len(Message(r)) => body = <<>>
    /\ k + 2 = Len(Message(r)) => body = <<r>>
    /\ k + 2 > Len(Message(r)) => body = <<r, r>>

\* The Request after the first k pieces of request r.
At(r, k) == UrlAt(r, k) /\ HeadersAt(r, k) /\ BodyAt(r, k)

Whole(r) == r \in 1..MaxRequests /\ At(r, Len(Message(r)))

Replied == Len(got) = asked

\* Every request has its response.
Waiting ==
    /\ Replied /\ pending = <<>> /\ Spent(Stream)
    /\ complete \/ Blank

\* The last request is parsed as far as its first k pieces.
Underway(k) ==
    /\ Len(got) + 1 = asked /\ pending = <<>> /\ Follows(Stream, asked, k)
    /\ \/ ~complete /\ response = <<>> /\ At(asked, k)
       \/ k = 0 /\ complete /\ Spent(calls)

\* Its response waits to be sent, or the Request was emptied under it.
Answering ==
    /\ Len(got) + 1 = asked /\ Spent(Stream)
    /\ \/ complete /\ pending = <<AnswerTo(asked)>>
       \/ Blank /\ calls # <<>>

Patience ==
    /\ asked \in 0..MaxRequests
    /\ wire \in Seq(Piece) /\ calls \in Seq(Piece) /\ got \in Seq(Answer)
    /\ AnswersInOrder
    /\ complete => \E r \in Nat : Whole(r)
    /\ conn \in {"none", "open"} =>
          Waiting \/ Answering \/ \E k \in 0..Len(Message(asked)) - 1 : Underway(k)

HInv ==
    /\ calls # <<>> => conn = "open"
    /\ conn \in {"none", "deleted"} => pending = <<>>
    /\ patient => Patience

-----------------------------------------------------------------------------
(* The pieces of a request, and what is left of them. *)

LEMMA Places ==
    ASSUME NEW H, NEW s \in Seq(H), NEW t \in Seq(H)
    PROVE  /\ s \o t \in Seq(H) /\ Len(s \o t) = Len(s) + Len(t)
           /\ Len(s) \in Nat /\ Len(t) \in Nat
           /\ \A i \in 1..Len(s) : (s \o t)[i] = s[i]
           /\ \A i \in 1..Len(t) : (s \o t)[Len(s) + i] = t[i]
<1>1. \A i \in DOMAIN t : (s \o t)[i + Len(s)] = t[i]
  BY Joined
<1>2. DOMAIN t = 1..Len(t) /\ Len(s) \in Nat /\ Len(t) \in Nat
  OBVIOUS
<1>3. \A i \in 1..Len(t) : (s \o t)[Len(s) + i] = t[i]
  <2> SUFFICES ASSUME NEW i \in 1..Len(t) PROVE (s \o t)[Len(s) + i] = t[i]
    OBVIOUS
  <2>1. Len(s) + i = i + Len(s)
    BY <1>2
  <2> QED BY <1>1, <1>2, <2>1
<1> QED BY <1>2, <1>3

LEMMA ThreeParts ==
    ASSUME NEW H, NEW a \in Seq(H), NEW b \in Seq(H), NEW c \in Seq(H), NEW s, s = (a \o b) \o c
    PROVE  /\ s \in Seq(H) /\ Len(s) = Len(a) + Len(b) + Len(c)
           /\ \A i \in 1..Len(a) : s[i] = a[i]
           /\ \A i \in 1..Len(b) : s[Len(a) + i] = b[i]
           /\ \A i \in 1..Len(c) : s[Len(a) + Len(b) + i] = c[i]
<1>1. /\ a \o b \in Seq(H) /\ Len(a \o b) = Len(a) + Len(b)
      /\ Len(a) \in Nat /\ Len(b) \in Nat
      /\ \A i \in 1..Len(a) : (a \o b)[i] = a[i]
      /\ \A i \in 1..Len(b) : (a \o b)[Len(a) + i] = b[i]
  <2>1. \A i \in 1..Len(b) : (a \o b)[Len(a) + i] = b[i]
    BY Places, SMT
  <2> QED BY <2>1
<1>2. /\ (a \o b) \o c \in Seq(H) /\ Len((a \o b) \o c) = Len(a \o b) + Len(c)
      /\ Len(a \o b) \in Nat /\ Len(c) \in Nat
      /\ \A i \in 1..Len(a \o b) : ((a \o b) \o c)[i] = (a \o b)[i]
      /\ \A i \in 1..Len(c) : ((a \o b) \o c)[Len(a \o b) + i] = c[i]
  <2>1. \A i \in 1..Len(c) : ((a \o b) \o c)[Len(a \o b) + i] = c[i]
    BY <1>1, Places, SMT
  <2>2. \A i \in 1..Len(a \o b) : ((a \o b) \o c)[i] = (a \o b)[i]
    BY <1>1, SMT
  <2>3. /\ (a \o b) \o c \in Seq(H) /\ Len((a \o b) \o c) = Len(a \o b) + Len(c)
        /\ Len(a \o b) \in Nat /\ Len(c) \in Nat
    BY <1>1
  <2> QED BY <2>1, <2>2, <2>3
<1>3. PICK m : /\ Len(m) = Len(a) + Len(b)
               /\ Len(a) \in Nat /\ Len(b) \in Nat
               /\ \A i \in 1..Len(a) : m[i] = a[i]
               /\ \A i \in 1..Len(b) : m[Len(a) + i] = b[i]
               /\ s \in Seq(H) /\ Len(s) = Len(m) + Len(c)
               /\ \A i \in 1..Len(m) : s[i] = m[i]
               /\ \A i \in 1..Len(c) : s[Len(m) + i] = c[i]
  BY <1>1, <1>2, Zenon
<1> QED BY <1>3

LEMMA PiecesOfMessage ==
    ASSUME NEW r \in Nat
    PROVE  /\ Message(r) \in Seq(Piece)
           /\ Message(r)[1] = Part("start", r) /\ Message(r)[2] = Part("url", r)
           /\ Message(r)[3] = Part("field", 1) /\ Message(r)[4] = Part("field", 1)
           /\ r \notin EmptyValue =>
                /\ Len(Message(r)) = 10
                /\ Message(r)[5] = Part("value", 1) /\ Message(r)[6] = Part("field", 2)
                /\ Message(r)[7] = Part("value", 2) /\ Message(r)[8] = Part("body", r)
                /\ Message(r)[9] = Part("body", r) /\ Message(r)[10] = Part("end", 0)
           /\ r \in EmptyValue =>
                /\ Len(Message(r)) = 9
                /\ Message(r)[5] = Part("field", 2) /\ Message(r)[6] = Part("value", 2)
                /\ Message(r)[7] = Part("body", r) /\ Message(r)[8] = Part("body", r)
                /\ Message(r)[9] = Part("end", 0)
<1>1. PICK s, a, b, c :
        /\ Message(r) = s /\ s = (a \o b) \o c
        /\ a = <<Part("start", r), Part("url", r), Part("field", 1), Part("field", 1)>>
        /\ b = IF r \in EmptyValue THEN <<>> ELSE <<Part("value", 1)>>
        /\ c = <<Part("field", 2), Part("value", 2), Part("body", r), Part("body", r),
                  Part("end", 0)>>
  BY DEF Message
<1>2. /\ Part("start", r) \in Piece /\ Part("url", r) \in Piece /\ Part("body", r) \in Piece
      /\ Part("field", 1) \in Piece /\ Part("field", 2) \in Piece /\ Part("end", 0) \in Piece
      /\ Part("value", 1) \in Piece /\ Part("value", 2) \in Piece
  BY DEF Part, Piece
<1>3. a \in Seq(Piece) /\ b \in Seq(Piece) /\ c \in Seq(Piece)
  BY <1>1, <1>2
<1>4. Len(a) = 4 /\ Len(c) = 5
  BY <1>1
<1>5. /\ s \in Seq(Piece)
      /\ \A i \in 1..4 : s[i] = a[i]
      /\ Len(b) = 0 => Len(s) = 9 /\ \A i \in 1..5 : s[4 + i] = c[i]
      /\ Len(b) = 1 => Len(s) = 10 /\ s[5] = b[1] /\ \A i \in 1..5 : s[5 + i] = c[i]
  <2>1. /\ s \in Seq(Piece) /\ Len(s) = Len(a) + Len(b) + Len(c)
        /\ \A i \in 1..Len(a) : s[i] = a[i]
        /\ \A i \in 1..Len(b) : s[Len(a) + i] = b[i]
        /\ \A i \in 1..Len(c) : s[Len(a) + Len(b) + i] = c[i]
    BY <1>1, <1>3, ThreeParts
  <2>2. Len(b) = 1 => 1 \in 1..Len(b) /\ Len(a) + 1 = 5
    BY <1>4
  <2> QED BY <1>4, <2>1, <2>2
<1>6. /\ s[1] = a[1] /\ s[2] = a[2] /\ s[3] = a[3] /\ s[4] = a[4]
  BY <1>5
<1>7. /\ a[1] = Part("start", r) /\ a[2] = Part("url", r)
      /\ a[3] = Part("field", 1) /\ a[4] = Part("field", 1)
  BY <1>1
<1>8. /\ c[1] = Part("field", 2) /\ c[2] = Part("value", 2) /\ c[3] = Part("body", r)
      /\ c[4] = Part("body", r) /\ c[5] = Part("end", 0)
  BY <1>1
<1>9. CASE r \in EmptyValue
  <2>1. Len(b) = 0
    BY <1>1, <1>9
  <2>2. s[5] = c[1] /\ s[6] = c[2] /\ s[7] = c[3] /\ s[8] = c[4] /\ s[9] = c[5]
    BY <1>5, <2>1
  <2> QED BY <1>1, <1>5, <1>6, <1>7, <1>8, <1>9, <2>1, <2>2
<1>10. CASE r \notin EmptyValue
  <2>1. Len(b) = 1 /\ b[1] = Part("value", 1)
    BY <1>1, <1>10
  <2>2. s[6] = c[1] /\ s[7] = c[2] /\ s[8] = c[3] /\ s[9] = c[4] /\ s[10] = c[5]
    BY <1>5, <2>1
  <2> QED BY <1>1, <1>5, <1>6, <1>7, <1>8, <1>10, <2>1, <2>2
<1> QED BY <1>9, <1>10

\* The kinds of the pieces of r at their places.
LEMMA PlaceOfPiece ==
    ASSUME NEW r \in Nat, NEW i \in 1..Len(Message(r))
    PROVE  /\ Message(r)[i] # Junk
           /\ Message(r)[i].is # "junk"
           /\ (Message(r)[i].is = "start" <=> i = 1)
           /\ (Message(r)[i].is = "end" <=> i = Len(Message(r)))
           /\ Message(r)[i].is \in {"start", "url"} => i \in {1, 2} /\ Message(r)[i].of = r
           /\ Message(r)[i].is = "field" =>
                \/ i \in {3, 4} /\ Message(r)[i].of = 1
                \/ i = (IF r \in EmptyValue THEN 5 ELSE 6) /\ Message(r)[i].of = 2
           /\ Message(r)[i].is = "value" =>
                \/ r \notin EmptyValue /\ i = 5 /\ Message(r)[i].of = 1
                \/ i = (IF r \in EmptyValue THEN 6 ELSE 7) /\ Message(r)[i].of = 2
           /\ Message(r)[i].is = "body" =>
                /\ i = Len(Message(r)) - 1 \/ i = Len(Message(r)) - 2
                /\ Message(r)[i].of = r
<1>1. \A x : /\ Part("start", x).is = "start" /\ Part("url", x).is = "url"
             /\ Part("field", x).is = "field" /\ Part("value", x).is = "value"
             /\ Part("body", x).is = "body" /\ Part("end", x).is = "end"
             /\ Part("start", x).of = x /\ Part("url", x).of = x /\ Part("field", x).of = x
             /\ Part("value", x).of = x /\ Part("body", x).of = x
             /\ Junk.is = "junk"
  BY DEF Part, Junk
<1>2. CASE r \in EmptyValue
  <2>1. i \in 1..9 /\ Len(Message(r)) = 9
    BY <1>2, PiecesOfMessage
  <2>2. i = 1 \/ i = 2 \/ i = 3 \/ i = 4 \/ i = 5 \/ i = 6 \/ i = 7 \/ i = 8 \/ i = 9
    BY <2>1
  <2>3. /\ Message(r)[1] = Part("start", r)
        /\ Message(r)[2] = Part("url", r)
        /\ Message(r)[3] = Part("field", 1)
        /\ Message(r)[4] = Part("field", 1)
        /\ Message(r)[5] = Part("field", 2)
        /\ Message(r)[6] = Part("value", 2)
        /\ Message(r)[7] = Part("body", r)
        /\ Message(r)[8] = Part("body", r)
        /\ Message(r)[9] = Part("end", 0)
    BY <1>2, PiecesOfMessage
  <2> QED BY <1>1, <1>2, <2>1, <2>2, <2>3, SMTT(60)
<1>3. CASE r \notin EmptyValue
  <2>1. i \in 1..10 /\ Len(Message(r)) = 10
    BY <1>3, PiecesOfMessage
  <2>2. i = 1 \/ i = 2 \/ i = 3 \/ i = 4 \/ i = 5 \/ i = 6 \/ i = 7 \/ i = 8 \/ i = 9 \/ i = 10
    BY <2>1
  <2>3. /\ Message(r)[1] = Part("start", r)
        /\ Message(r)[2] = Part("url", r)
        /\ Message(r)[3] = Part("field", 1)
        /\ Message(r)[4] = Part("field", 1)
        /\ Message(r)[5] = Part("value", 1)
        /\ Message(r)[6] = Part("field", 2)
        /\ Message(r)[7] = Part("value", 2)
        /\ Message(r)[8] = Part("body", r)
        /\ Message(r)[9] = Part("body", r)
        /\ Message(r)[10] = Part("end", 0)
    BY <1>3, PiecesOfMessage
  <2> QED BY <1>1, <1>3, <2>1, <2>2, <2>3, SMTT(60)
<1> QED BY <1>2, <1>3

\* A sequence of calls one of which is made.
LEMMA StreamWithoutHead ==
    ASSUME calls \in Seq(Piece), wire \in Seq(Piece), calls # <<>>
    PROVE  /\ Stream \in Seq(Piece) /\ Stream # <<>> /\ Stream[1] = Head(calls)
           /\ Tail(calls) \o wire \in Seq(Piece) /\ Len(Stream) = Len(Tail(calls) \o wire) + 1
           /\ \A i \in 1..Len(Tail(calls) \o wire) : (Tail(calls) \o wire)[i] = Stream[i + 1]
BY DEF Stream

\* The piece that is made next of what follows is the next of the request.
LEMMA NextOfMessage ==
    ASSUME NEW s \in Seq(Piece), NEW t \in Seq(Piece), Len(s) = Len(t) + 1,
           \A i \in 1..Len(t) : t[i] = s[i + 1],
           NEW r \in Nat, NEW k \in Nat, Follows(s, r, k), s[1] # Junk
    PROVE  /\ k + 1 <= Len(Message(r)) /\ s[1] = Message(r)[k + 1]
           /\ Follows(t, r, k + 1)
<1>1. 1 \in 1..Len(s)
  OBVIOUS
<1>2. k + 1 <= Len(Message(r)) /\ s[1] = Message(r)[k + 1]
  BY <1>1 DEF Follows
<1>3. ASSUME NEW i \in 1..Len(t), \A j \in 1..i : t[j] # Junk
      PROVE  (k + 1) + i <= Len(Message(r)) /\ t[i] = Message(r)[(k + 1) + i]
  <2>1. i + 1 \in 1..Len(s) /\ t[i] = s[i + 1]
    BY <1>3
  <2>2. \A j \in 1..(i + 1) : s[j] # Junk
    <3> SUFFICES ASSUME NEW j \in 1..(i + 1), j # 1 PROVE s[j] # Junk
      OBVIOUS
    <3>1. j - 1 \in 1..i /\ j - 1 \in 1..Len(t) /\ (j - 1) + 1 = j
      BY <1>3
    <3> QED BY <3>1, <1>3
  <2>3. k + (i + 1) <= Len(Message(r)) /\ s[i + 1] = Message(r)[k + (i + 1)]
    BY <2>1, <2>2 DEF Follows
  <2>4. k + (i + 1) = (k + 1) + i
    BY <1>3
  <2> QED BY <2>1, <2>3, <2>4
<1> QED BY <1>2, <1>3 DEF Follows

\* Nothing follows a request that is complete but what the parser refuses.
LEMMA NothingFollows ==
    ASSUME NEW s \in Seq(Piece), NEW r \in Nat, Follows(s, r, Len(Message(r)))
    PROVE  Spent(s)
<1> SUFFICES ASSUME s # <<>>, s[1] # Junk PROVE FALSE
  BY DEF Spent
<1>1. 1 \in 1..Len(s) /\ \A j \in 1..1 : s[j] # Junk
  OBVIOUS
<1>2. Len(Message(r)) + 1 <= Len(Message(r))
  BY <1>1 DEF Follows
<1>3. Len(Message(r)) \in Nat
  BY PiecesOfMessage, Places
<1> QED BY <1>2, <1>3

-----------------------------------------------------------------------------
(* The parser's calls. *)

LEMMA LengthOfMessage ==
    ASSUME NEW r \in Nat
    PROVE  Len(Message(r)) = IF r \in EmptyValue THEN 9 ELSE 10
BY PiecesOfMessage

LEMMA LongEnough ==
    ASSUME NEW r \in Nat
    PROVE  0 + 2 < Len(Message(r)) /\ 0 \in 0..Len(Message(r)) - 1
<1>1. CASE r \in EmptyValue
  <2>1. Len(Message(r)) = 9
    BY <1>1, LengthOfMessage
  <2> QED BY <2>1
<1>2. CASE r \notin EmptyValue
  <2>1. Len(Message(r)) = 10
    BY <1>2, LengthOfMessage
  <2> QED BY <2>1
<1> QED BY <1>1, <1>2

\* A call of the parser's for a piece it takes: the last request is underway.
LEMMA PieceIsNext ==
    ASSUME HInv, patient, calls # <<>>, Head(calls).is # "junk"
    PROVE  /\ asked \in Nat /\ asked \in 1..MaxRequests
           /\ \E k \in 0..Len(Message(asked)) - 1 :
                /\ Underway(k) /\ ~complete /\ response = <<>> /\ At(asked, k)
                /\ Head(calls) = Message(asked)[k + 1]
                /\ Follows(Tail(calls) \o wire, asked, k + 1)
<1>1. Patience /\ conn = "open"
  BY DEF HInv
<1>2. calls \in Seq(Piece) /\ wire \in Seq(Piece) /\ asked \in 0..MaxRequests /\ asked \in Nat
  BY <1>1, HttpAssumption DEF Patience
<1>3. Head(calls) # Junk
  BY DEF Junk, Part
<1>4. /\ Stream \in Seq(Piece) /\ Stream # <<>> /\ Stream[1] = Head(calls)
      /\ Tail(calls) \o wire \in Seq(Piece) /\ Len(Stream) = Len(Tail(calls) \o wire) + 1
      /\ \A i \in 1..Len(Tail(calls) \o wire) : (Tail(calls) \o wire)[i] = Stream[i + 1]
  BY <1>2, StreamWithoutHead
<1>5. ~Waiting /\ ~Answering
  BY <1>3, <1>4 DEF Waiting, Answering, Spent
<1>6. PICK k \in 0..Len(Message(asked)) - 1 : Underway(k)
  BY <1>1, <1>5 DEF Patience
<1>7. k \in Nat
  BY <1>2, LengthOfMessage
<1>8. Follows(Stream, asked, k) /\ Len(got) + 1 = asked
  BY <1>6 DEF Underway
<1>9. Head(calls) = Message(asked)[k + 1] /\ Follows(Tail(calls) \o wire, asked, k + 1)
  <2>1. PICK s \in Seq(Piece) : s = Stream
    BY <1>4
  <2>2. PICK t \in Seq(Piece) : t = Tail(calls) \o wire
    BY <1>4
  <2>3. /\ Len(s) = Len(t) + 1 /\ s[1] = Head(calls)
        /\ \A i \in 1..Len(t) : t[i] = s[i + 1]
    BY <1>4, <2>1, <2>2
  <2>4. s[1] # Junk /\ Follows(s, asked, k)
    BY <1>3, <1>8, <2>1, <2>3
  <2>5. s[1] = Message(asked)[k + 1] /\ Follows(t, asked, k + 1)
    BY <1>2, <1>7, <2>3, <2>4, NextOfMessage
  <2> QED BY <2>2, <2>3, <2>5
<1>10. calls[1] = Head(calls)
  BY <1>2
<1>11. ~complete /\ response = <<>> /\ At(asked, k)
  BY <1>3, <1>6, <1>10 DEF Underway, Spent
<1>12. asked \in 1..MaxRequests
  <2>1. Len(got) \in Nat
    BY <1>1 DEF Patience
  <2> QED BY <1>2, <1>8, <2>1, HttpAssumption
<1> QED BY <1>2, <1>6, <1>9, <1>11, <1>12

\* A piece that is not the last: the request goes on.
LEMMA RequestGoesOn ==
    ASSUME HInv, patient, calls # <<>>, Head(calls).is # "junk", Head(calls).is # "end", Parsed,
           NEW k \in 0..Len(Message(asked)) - 1,
           Underway(k), ~complete, response = <<>>, asked \in Nat,
           Head(calls) = Message(asked)[k + 1], Follows(Tail(calls) \o wire, asked, k + 1),
           At(asked, k + 1)'
    PROVE  HInv'
<1>1. Patience /\ conn = "open"
  BY DEF HInv
<1>2. calls' = Tail(calls)
  <2>1. calls \in Seq(Piece) /\ calls' = <<>> \o Tail(calls)
    BY <1>1 DEF Patience, Parsed, Continue
  <2> QED BY <2>1
<1>3. /\ UNCHANGED <<conn, asked, patient, wire, complete, response, pending, got>>
      /\ calls' \in Seq(Piece)
  BY <1>1, <1>2 DEF Parsed, peerVars, Patience
<1>4. k + 1 \in 0..Len(Message(asked)) - 1
  <2>1. k + 1 \in 1..Len(Message(asked)) /\ Len(Message(asked)) \in Nat /\ k \in Nat
    BY LengthOfMessage
  <2>2. k + 1 # Len(Message(asked))
    BY <2>1, PlaceOfPiece
  <2> QED BY <2>1, <2>2
<1>5. Follows(Stream, asked, k + 1)'
  BY <1>2, <1>3 DEF Follows, Stream
<1>6. Underway(k + 1)'
  BY <1>3, <1>5 DEF Underway
<1>7. Patience'
  BY <1>1, <1>3, <1>4, <1>6 DEF Patience, AnswersInOrder
<1> QED BY <1>1, <1>3, <1>7 DEF HInv, Parsed

\* What is made longer by one.
LEMMA Longer ==
    ASSUME NEW x, NEW y, NEW z
    PROVE  /\ Append(<<>>, x) = <<x>>
           /\ Append(<<x>>, y) = <<x, y>>
           /\ Append(<<x, y>>, z) = <<x, y, z>>
<1> DEFINE H == {x, y, z}
           p == Append(<<x>>, y)
           q == Append(<<x, y>>, z)
<1>1. Append(<<>>, x) = <<x>>
  OBVIOUS
<1>2. <<x>> \in Seq(H) /\ <<x, y>> \in Seq(H) /\ <<x, y, z>> \in Seq(H) /\ y \in H /\ z \in H
  OBVIOUS
<1>3. p \in Seq(H) /\ Len(p) = 2 /\ p[1] = x /\ p[2] = y
  BY <1>2
<1>4. q \in Seq(H) /\ Len(q) = 3 /\ q[1] = x /\ q[2] = y /\ q[3] = z
  BY <1>2
<1> HIDE DEF p, q, H
<1>5. \A i \in 1..Len(p) : p[i] = <<x, y>>[i]
  BY <1>3
<1>6. \A i \in 1..Len(q) : q[i] = <<x, y, z>>[i]
  BY <1>4
<1>7. p = <<x, y>> /\ q = <<x, y, z>>
  BY <1>2, <1>3, <1>4, <1>5, <1>6, SeqEqual
<1> QED BY <1>1, <1>7 DEF p, q

LEMMA OneReplaced ==
    ASSUME NEW x, NEW y, NEW h
    PROVE  /\ Len(<<x>>) = 1 /\ <<x>>[1] = x /\ [<<x>> EXCEPT ![1] = y] = <<y>>
           /\ Len(<<h, x>>) = 2 /\ <<h, x>>[2] = x /\ [<<h, x>> EXCEPT ![2] = y] = <<h, y>>
<1>1. Len(<<x>>) = 1 /\ <<x>>[1] = x /\ [<<x>> EXCEPT ![1] = y] = <<y>>
  OBVIOUS
<1>2. Len(<<h, x>>) = 2 /\ <<h, x>>[2] = x /\ [<<h, x>> EXCEPT ![2] = y] = <<h, y>>
  OBVIOUS
<1> QED BY <1>1, <1>2

\* What the next part of a name, or a value, makes of the last header.
LEMMA LastKeyGrows ==
    ASSUME NEW b, NEW g
    PROVE  LET one == <<Header(<<1>>, b)>>
               two == <<Header(<<1, 1>>, b)>>
           IN /\ [one EXCEPT ![Len(one)].key = Append(@, g)] = <<Header(<<1, g>>, b)>>
              /\ [two EXCEPT ![Len(two)].key = Append(@, g)] = <<Header(<<1, 1, g>>, b)>>
<1>1. Append(<<1>>, g) = <<1, g>> /\ Append(<<1, 1>>, g) = <<1, 1, g>>
  BY Longer
<1>2. ASSUME NEW a
      PROVE  [<<Header(a, b)>> EXCEPT ![Len(<<Header(a, b)>>)].key = Append(@, g)]
             = <<Header(Append(a, g), b)>>
  <2>1. [Header(a, b) EXCEPT !.key = Append(@, g)] = Header(Append(a, g), b)
    BY DEF Header
  <2> QED BY <2>1, OneReplaced
<1> QED BY <1>1, <1>2

LEMMA LastValueGrows ==
    ASSUME NEW a, NEW g
    PROVE  LET one == <<Header(a, <<>>)>>
           IN [one EXCEPT ![Len(one)].value = Append(@, g)] = <<Header(a, <<g>>)>>
<1>1. Append(<<>>, g) = <<g>>
  BY Longer
<1>2. [Header(a, <<>>) EXCEPT !.value = Append(@, g)] = Header(a, Append(<<>>, g))
  BY DEF Header
<1> QED BY <1>1, <1>2, OneReplaced

LEMMA SecondValueGrows ==
    ASSUME NEW h, NEW a, NEW g
    PROVE  LET two == <<h, Header(a, <<>>)>>
           IN [two EXCEPT ![Len(two)].value = Append(@, g)] = <<h, Header(a, <<g>>)>>
<1>1. Append(<<>>, g) = <<g>>
  BY Longer
<1>2. [Header(a, <<>>) EXCEPT !.value = Append(@, g)] = Header(a, Append(<<>>, g))
  BY DEF Header
<1> QED BY <1>1, <1>2, OneReplaced

\* What the Request is like depends on its fields alone.
LEMMA SameRequest ==
    ASSUME UNCHANGED <<url, headers, inField, body>>
    PROVE  /\ \A r, k : At(r, k) => At(r, k)'
           /\ \A r : Whole(r) => Whole(r)'
<1>1. ASSUME NEW k PROVE (HeadersGiven(k) => HeadersGiven(k)') /\ (HeadersWithout(k) => HeadersWithout(k)')
  BY DEF HeadersGiven, HeadersWithout
<1>2. ASSUME NEW r, NEW k, At(r, k) PROVE At(r, k)'
  <2>1. UrlAt(r, k)' /\ BodyAt(r, k)'
    BY <1>2 DEF At, UrlAt, BodyAt
  <2>2. HeadersAt(r, k)'
    BY <1>1, <1>2 DEF At, HeadersAt
  <2> QED BY <2>1, <2>2 DEF At
<1>3. ASSUME NEW r, Whole(r) PROVE Whole(r)'
  BY <1>2, <1>3 DEF Whole
<1> QED BY <1>2, <1>3

\* So does how far the server has come depend on what it has and what it is given.
LEMMA SamePlace ==
    ASSUME UNCHANGED <<asked, wire, calls, got, pending>>,
           UNCHANGED <<url, headers, inField, body, complete, response>>
    PROVE  /\ Waiting => Waiting'
           /\ Answering => Answering'
           /\ \A k \in 0..Len(Message(asked)) - 1 : Underway(k) => Underway(k)'
<1>1. Stream' = Stream /\ (Blank => Blank') /\ (Replied => Replied')
  BY DEF Stream, Blank, Replied
<1>2. (Spent(Stream) => Spent(Stream)') /\ (Spent(calls) => Spent(calls)')
  BY <1>1 DEF Spent
<1>3. ASSUME NEW k, Follows(Stream, asked, k) PROVE Follows(Stream, asked, k)'
  BY <1>1, <1>3 DEF Follows
<1>4. Waiting => Waiting'
  BY <1>1, <1>2 DEF Waiting
<1>5. Answering => Answering'
  BY <1>1, <1>2 DEF Answering
<1>6. ASSUME NEW k, Underway(k) PROVE Underway(k)'
  BY <1>2, <1>3, <1>6, SameRequest DEF Underway
<1> QED BY <1>4, <1>5, <1>6

\* The fields that a piece does not belong to stay.
LEMMA OthersStay ==
    ASSUME NEW r \in Nat, NEW k \in Nat, At(r, k)
    PROVE  /\ k >= 2 /\ url' = url => UrlAt(r, k + 1)'
           /\ k + 3 < Len(Message(r)) /\ body' = body => BodyAt(r, k + 1)'
           /\ /\ k < 2 \/ k + 3 >= Len(Message(r))
              /\ headers' = headers /\ inField' = inField
              => HeadersAt(r, k + 1)'
<1>1. k >= 2 /\ url' = url => UrlAt(r, k + 1)'
  BY DEF At, UrlAt
<1>2. k + 3 < Len(Message(r)) /\ body' = body => BodyAt(r, k + 1)'
  BY LengthOfMessage DEF At, BodyAt
<1>3. ASSUME k < 2 \/ k + 3 >= Len(Message(r)), headers' = headers, inField' = inField
      PROVE  HeadersAt(r, k + 1)'
  <2>1. CASE r \in EmptyValue
    <3>3. Len(Message(r)) = 9
      BY <2>1, LengthOfMessage
    <3>1. HeadersWithout(k) /\ (k < 2 \/ k >= 6)
      BY <1>3, <2>1, <3>3 DEF At, HeadersAt
    <3>2. HeadersWithout(k + 1)'
      BY <1>3, <3>1 DEF HeadersWithout
    <3> QED BY <2>1, <3>2 DEF HeadersAt
  <2>2. CASE r \notin EmptyValue
    <3>3. Len(Message(r)) = 10
      BY <2>2, LengthOfMessage
    <3>1. HeadersGiven(k) /\ (k < 2 \/ k >= 7)
      BY <1>3, <2>2, <3>3 DEF At, HeadersAt
    <3>2. HeadersGiven(k + 1)'
      BY <1>3, <3>1 DEF HeadersGiven
    <3> QED BY <2>2, <3>2 DEF HeadersAt
  <2> QED BY <2>1, <2>2
<1> QED BY <1>1, <1>2, <1>3

\* The parts of the url.
LEMMA OnUrl ==
    ASSUME NEW k \in Nat, NEW r \in Nat, At(r, k), Parsing("start") \/ Parsing("url"), ParserOnUrl,
           k + 1 <= Len(Message(r)), Head(calls) = Message(r)[k + 1]
    PROVE  At(r, k + 1)'
<1>1. k + 1 \in 1..Len(Message(r)) /\ Head(calls).is \in {"start", "url"}
  BY LengthOfMessage DEF Parsing
<1>2. k + 1 \in {1, 2} /\ Given = r
  BY <1>1, PlaceOfPiece DEF Given
<1>0. k \in {0, 1}
  BY <1>2
<1>3. /\ url' = Append(url, r) /\ headers' = headers /\ inField' = inField /\ body' = body
  BY <1>2 DEF ParserOnUrl
<1>4. HeadersAt(r, k + 1)' /\ BodyAt(r, k + 1)'
  <2>1. k < 2 /\ k + 3 < Len(Message(r))
    <3>1. PICK n \in {9, 10} : n = Len(Message(r))
      BY LengthOfMessage
    <3>2. k < 2 /\ k + 3 < n
      BY <1>0
    <3> QED BY <3>1, <3>2
  <2> QED BY <1>3, <2>1, OthersStay
<1>5. CASE k = 0
  <2>1. url' = <<r>>
    BY <1>3, <1>5, Longer DEF At, UrlAt
  <2> QED BY <1>4, <1>5, <2>1 DEF At, UrlAt
<1>6. CASE k = 1
  <2>1. url' = <<r, r>>
    BY <1>3, <1>6, Longer DEF At, UrlAt
  <2> QED BY <1>4, <1>6, <2>1 DEF At, UrlAt
<1> QED BY <1>2, <1>5, <1>6

\* The parts of the names.
LEMMA OnHeaderField ==
    ASSUME NEW k \in Nat, NEW r \in Nat, At(r, k), ParserOnHeaderField,
           k + 1 <= Len(Message(r)), Head(calls) = Message(r)[k + 1]
    PROVE  At(r, k + 1)'
<1>1. k + 1 \in 1..Len(Message(r)) /\ Head(calls).is = "field"
  BY LengthOfMessage DEF Parsing, ParserOnHeaderField
<1>2. \/ k \in {2, 3} /\ Given = 1
      \/ r \in EmptyValue /\ k = 4 /\ Given = 2
      \/ r \notin EmptyValue /\ k = 5 /\ Given = 2
  BY <1>1, PlaceOfPiece DEF Given
<1>3. /\ url' = url /\ body' = body /\ inField' = TRUE
      /\ headers' = IF inField THEN [headers EXCEPT ![Len(headers)].key = Append(@, Given)]
                    ELSE Append(headers, Header(<<Given>>, <<>>))
  BY DEF ParserOnHeaderField, Header
<1>0. k >= 2 /\ k + 3 < Len(Message(r))
  <2>1. CASE r \in EmptyValue
    <3>1. Len(Message(r)) = 9 /\ k \in {2, 3, 4}
      BY <1>2, <2>1, LengthOfMessage
    <3> QED BY <3>1
  <2>2. CASE r \notin EmptyValue
    <3>1. Len(Message(r)) = 10 /\ k \in {2, 3, 5}
      BY <1>2, <2>2, LengthOfMessage
    <3> QED BY <3>1
  <2> QED BY <2>1, <2>2
<1>4. UrlAt(r, k + 1)' /\ BodyAt(r, k + 1)'
  BY <1>3, <1>0, OthersStay
<1>5. CASE k = 2
  <2>1. headers = <<>> /\ ~inField /\ Given = 1
    BY <1>2, <1>5 DEF At, HeadersAt, HeadersGiven, HeadersWithout
  <2>2. headers' = <<Header(<<1>>, <<>>)>>
    BY <1>3, <2>1, Longer
  <2>3. HeadersAt(r, k + 1)'
    <3>1. HeadersGiven(3)' /\ HeadersWithout(3)'
      <4>1. 3 \notin 0..2 /\ 3 # 4 /\ 3 # 5 /\ 3 # 6 /\ 3 \in {3, 4, 6}
             /\ 3 \in {3, 4, 5} /\ ~(3 >= 7) /\ ~(3 >= 6)
        OBVIOUS
      <4> QED BY <1>3, <2>2, <4>1, Zenon DEF HeadersGiven, HeadersWithout
    <3>2. k + 1 = 3
      BY <1>5
    <3> QED BY <1>5, <3>1, <3>2 DEF HeadersAt
  <2> QED BY <1>4, <2>3 DEF At
<1>6. CASE k = 3
  <2>1. headers = <<Header(<<1>>, <<>>)>> /\ inField /\ Given = 1
    BY <1>2, <1>6 DEF At, HeadersAt, HeadersGiven, HeadersWithout
  <2>2. headers' = <<Header(<<1, 1>>, <<>>)>>
    BY <1>3, <2>1, LastKeyGrows
  <2>3. HeadersAt(r, k + 1)'
    <3>1. HeadersGiven(4)' /\ HeadersWithout(4)'
      <4>1. 4 \notin 0..2 /\ 4 # 3 /\ 4 # 5 /\ 4 # 6 /\ 4 \in {3, 4, 6}
             /\ 4 \in {3, 4, 5} /\ ~(4 >= 7) /\ ~(4 >= 6)
        OBVIOUS
      <4> QED BY <1>3, <2>2, <4>1, Zenon DEF HeadersGiven, HeadersWithout
    <3>2. k + 1 = 4
      BY <1>6
    <3> QED BY <1>6, <3>1, <3>2 DEF HeadersAt
  <2> QED BY <1>4, <2>3 DEF At
<1>7. CASE r \in EmptyValue /\ k = 4
  <2>1. headers = <<Header(<<1, 1>>, <<>>)>> /\ inField /\ Given = 2
    BY <1>2, <1>7 DEF At, HeadersAt, HeadersWithout
  <2>2. headers' = <<Header(<<1, 1, 2>>, <<>>)>>
    BY <1>3, <2>1, LastKeyGrows
  <2>3. HeadersAt(r, k + 1)'
    <3>1. HeadersWithout(5)'
      <4>1. 5 \notin 0..2 /\ 5 # 3 /\ 5 # 4 /\ 5 # 6 /\ 5 \in {3, 4, 5} /\ ~(5 >= 6)
        OBVIOUS
      <4> QED BY <1>3, <2>2, <4>1, Zenon DEF HeadersWithout
    <3>2. k + 1 = 5
      BY <1>7
    <3> QED BY <1>7, <3>1, <3>2 DEF HeadersAt
  <2> QED BY <1>4, <2>3 DEF At
<1>8. CASE r \notin EmptyValue /\ k = 5
  <2>1. headers = <<Header(<<1, 1>>, <<1>>)>> /\ ~inField /\ Given = 2
    BY <1>2, <1>8 DEF At, HeadersAt, HeadersGiven
  <2>2. headers' = <<Header(<<1, 1>>, <<1>>), Header(<<2>>, <<>>)>>
    BY <1>3, <2>1, Longer
  <2>3. HeadersAt(r, k + 1)'
    <3>1. HeadersGiven(6)'
      <4>1. 6 \notin 0..2 /\ 6 # 3 /\ 6 # 4 /\ 6 # 5 /\ 6 \in {3, 4, 6} /\ ~(6 >= 7)
        OBVIOUS
      <4> QED BY <1>3, <2>2, <4>1, Zenon DEF HeadersGiven
    <3>2. k + 1 = 6
      BY <1>8
    <3> QED BY <1>8, <3>1, <3>2 DEF HeadersAt
  <2> QED BY <1>4, <2>3 DEF At
<1> QED BY <1>2, <1>5, <1>6, <1>7, <1>8

\* The values.
LEMMA OnHeaderValue ==
    ASSUME NEW k \in Nat, NEW r \in Nat, At(r, k), ParserOnHeaderValue,
           k + 1 <= Len(Message(r)), Head(calls) = Message(r)[k + 1]
    PROVE  At(r, k + 1)'
<1>1. k + 1 \in 1..Len(Message(r)) /\ Head(calls).is = "value"
  BY LengthOfMessage DEF Parsing, ParserOnHeaderValue
<1>2. \/ r \notin EmptyValue /\ k = 4 /\ Given = 1
      \/ r \in EmptyValue /\ k = 5 /\ Given = 2
      \/ r \notin EmptyValue /\ k = 6 /\ Given = 2
  BY <1>1, PlaceOfPiece DEF Given
<1>3. /\ url' = url /\ body' = body /\ inField' = FALSE
      /\ headers' = [headers EXCEPT ![Len(headers)].value = Append(@, Given)]
  BY DEF ParserOnHeaderValue
<1>4. k >= 2 /\ k + 3 < Len(Message(r))
  <2>1. CASE r \in EmptyValue
    <3>1. Len(Message(r)) = 9 /\ k = 5
      BY <1>2, <2>1, LengthOfMessage
    <3> QED BY <3>1
  <2>2. CASE r \notin EmptyValue
    <3>1. Len(Message(r)) = 10 /\ k \in {4, 6}
      BY <1>2, <2>2, LengthOfMessage
    <3> QED BY <3>1
  <2> QED BY <2>1, <2>2
<1>5. UrlAt(r, k + 1)' /\ BodyAt(r, k + 1)'
  BY <1>3, <1>4, OthersStay
<1>6. CASE r \notin EmptyValue /\ k = 4
  <2>1. headers = <<Header(<<1, 1>>, <<>>)>> /\ Given = 1
    BY <1>2, <1>6 DEF At, HeadersAt, HeadersGiven
  <2>2. headers' = <<Header(<<1, 1>>, <<1>>)>>
    BY <1>3, <2>1, LastValueGrows
  <2>3. HeadersGiven(5)'
    <3>1. 5 \notin 0..2 /\ 5 # 3 /\ 5 # 4 /\ 5 # 6 /\ 5 \notin {3, 4, 6} /\ ~(5 >= 7)
      OBVIOUS
    <3> QED BY <1>3, <2>2, <3>1, Zenon DEF HeadersGiven
  <2>4. k + 1 = 5
    BY <1>6
  <2> QED BY <1>5, <1>6, <2>3, <2>4 DEF At, HeadersAt
<1>7. CASE r \in EmptyValue /\ k = 5
  <2>1. headers = <<Header(<<1, 1, 2>>, <<>>)>> /\ Given = 2
    BY <1>2, <1>7 DEF At, HeadersAt, HeadersWithout
  <2>2. headers' = <<Header(<<1, 1, 2>>, <<2>>)>>
    BY <1>3, <2>1, LastValueGrows
  <2>3. HeadersWithout(6)'
    <3>1. 6 \notin 0..2 /\ 6 # 3 /\ 6 # 4 /\ 6 # 5 /\ 6 \notin {3, 4, 5}
      OBVIOUS
    <3> QED BY <1>3, <2>2, <3>1, Zenon DEF HeadersWithout
  <2>4. k + 1 = 6
    BY <1>7
  <2> QED BY <1>5, <1>7, <2>3, <2>4 DEF At, HeadersAt
<1>8. CASE r \notin EmptyValue /\ k = 6
  <2>1. headers = <<Header(<<1, 1>>, <<1>>), Header(<<2>>, <<>>)>> /\ Given = 2
    BY <1>2, <1>8 DEF At, HeadersAt, HeadersGiven
  <2>2. headers' = <<Header(<<1, 1>>, <<1>>), Header(<<2>>, <<2>>)>>
    <3>1. [<<Header(<<1, 1>>, <<1>>), Header(<<2>>, <<>>)>>
             EXCEPT ![Len(<<Header(<<1, 1>>, <<1>>), Header(<<2>>, <<>>)>>)].value = Append(@, 2)]
          = <<Header(<<1, 1>>, <<1>>), Header(<<2>>, <<2>>)>>
      BY SecondValueGrows
    <3> QED BY <1>3, <2>1, <3>1
  <2>3. HeadersGiven(7)'
    <3>1. 7 \notin 0..2 /\ 7 # 3 /\ 7 # 4 /\ 7 # 5 /\ 7 # 6 /\ 7 \notin {3, 4, 6}
      OBVIOUS
    <3> QED BY <1>3, <2>2, <3>1, Zenon DEF HeadersGiven
  <2>4. k + 1 = 7
    BY <1>8
  <2> QED BY <1>5, <1>8, <2>3, <2>4 DEF At, HeadersAt
<1> QED BY <1>2, <1>6, <1>7, <1>8

\* The parts of the body.
LEMMA OnBody ==
    ASSUME NEW k \in Nat, NEW r \in Nat, At(r, k), ParserOnBody,
           k + 1 <= Len(Message(r)), Head(calls) = Message(r)[k + 1]
    PROVE  At(r, k + 1)'
<1>1. k + 1 \in 1..Len(Message(r)) /\ Head(calls).is = "body"
  BY LengthOfMessage DEF Parsing, ParserOnBody
<1>2. PICK n \in {9, 10} : n = Len(Message(r))
  BY LengthOfMessage
<1>3. (k + 2 = n \/ k + 3 = n) /\ Given = r
  <2>1. Message(r)[k + 1].is = "body" /\ Given = Message(r)[k + 1].of
    BY <1>1 DEF Given
  <2>2. Message(r)[k + 1].of = r /\ (k + 1 = n - 1 \/ k + 1 = n - 2)
    BY <1>1, <1>2, <2>1, PlaceOfPiece
  <2>3. n \in Nat
    BY <1>2
  <2> QED BY <2>1, <2>2, <2>3
<1>4. url' = url /\ headers' = headers /\ inField' = inField /\ body' = Append(body, r)
  BY <1>3 DEF ParserOnBody
<1>5. k >= 2 /\ k + 3 >= n
  <2>1. n = 9 \/ n = 10
    BY <1>2
  <2>2. k + 2 = n => k >= 2 /\ k + 3 >= n
    BY <2>1
  <2>3. k + 3 = n => k >= 2 /\ k + 3 >= n
    BY <2>1
  <2> QED BY <1>3, <2>2, <2>3
<1>6. UrlAt(r, k + 1)' /\ HeadersAt(r, k + 1)'
  BY <1>2, <1>4, <1>5, OthersStay
<1>7. CASE k + 3 = n
  <2>1. body' = <<r>>
    <3>1. k + 2 < Len(Message(r))
      BY <1>2, <1>7
    <3>2. body = <<>>
      BY <3>1 DEF At, BodyAt
    <3> QED BY <1>4, <3>2, Longer
  <2> QED BY <1>2, <1>6, <1>7, <2>1 DEF At, BodyAt
<1>8. CASE k + 2 = n
  <2>1. body' = <<r, r>>
    BY <1>2, <1>4, <1>8, Longer DEF At, BodyAt
  <2> QED BY <1>2, <1>6, <1>8, <2>1 DEF At, BodyAt
<1> QED BY <1>3, <1>7, <1>8

LEMMA ParserTakes ==
    ASSUME HInv, ParserOnUrl \/ ParserOnHeaderField \/ ParserOnHeaderValue \/ ParserOnBody
    PROVE  HInv'
<1>1. /\ Parsed /\ calls # <<>>
      /\ Head(calls).is \in {"start", "url", "field", "value", "body"}
  BY DEF ParserOnUrl, ParserOnHeaderField, ParserOnHeaderValue, ParserOnBody, Parsing
<1>2. CASE ~patient
  BY <1>1, <1>2 DEF HInv, Parsed, peerVars
<1>3. CASE patient
  <2>1. asked \in Nat
    BY <1>1, <1>3, PieceIsNext
  <2>2. PICK k \in 0..Len(Message(asked)) - 1 :
           /\ Underway(k) /\ ~complete /\ response = <<>> /\ At(asked, k)
           /\ Head(calls) = Message(asked)[k + 1]
           /\ Follows(Tail(calls) \o wire, asked, k + 1)
    BY <1>1, <1>3, PieceIsNext
  <2>3. k \in Nat /\ k + 1 <= Len(Message(asked)) /\ asked' = asked
    BY <1>1, <2>1, LengthOfMessage DEF Parsed, peerVars
  <2>4. At(asked, k + 1)'
    <3>1. PICK r \in Nat : r = asked
      BY <2>1
    <3>2. At(r, k) /\ Head(calls) = Message(r)[k + 1] /\ k + 1 <= Len(Message(r))
      BY <2>2, <2>3, <3>1
    <3>3. At(r, k + 1)'
      BY <1>1, <2>3, <3>2, OnUrl, OnHeaderField, OnHeaderValue, OnBody DEF ParserOnUrl
    <3> QED BY <2>3, <3>1, <3>3 DEF At, UrlAt, BodyAt, HeadersAt
  <2> QED BY <1>1, <1>3, <2>1, <2>2, <2>4, RequestGoesOn
<1> QED BY <1>2, <1>3

-----------------------------------------------------------------------------
(* The end of a request. *)

LEMMA NoneSpoilt ==
    [i \in DOMAIN <<>> |-> Spoilt] = <<>>
OBVIOUS

\* The answer to the last request reaches the peer.
LEMMA OneMoreAnswer ==
    ASSUME Patience, patient, Len(got) + 1 = asked,
           got' = Append(got, AnswerTo(asked)), asked' = asked
    PROVE  AnswersInOrder' /\ got' \in Seq(Answer) /\ Replied'
<1>1. asked \in Nat /\ got \in Seq(Answer) /\ \A i \in DOMAIN got : got[i] = AnswerTo(i)
  BY HttpAssumption DEF Patience, AnswersInOrder
<1>2. AnswerTo(asked) \in Answer
  BY <1>1 DEF Answer
<1>3. /\ got' \in Seq(Answer) /\ Len(got') = Len(got) + 1 /\ Len(got) \in Nat
      /\ \A i \in 1..Len(got) : got'[i] = got[i]
      /\ got'[Len(got) + 1] = AnswerTo(asked)
  BY <1>1, <1>2
<1>4. \A i \in 1..(Len(got) + 1) : got'[i] = AnswerTo(i)
  <2> SUFFICES ASSUME NEW i \in 1..(Len(got) + 1) PROVE got'[i] = AnswerTo(i)
    OBVIOUS
  <2>1. CASE i = Len(got) + 1
    BY <1>3, <2>1
  <2>2. CASE i # Len(got) + 1
    <3>1. i \in 1..Len(got) /\ DOMAIN got = 1..Len(got)
      BY <1>1, <1>3, <2>2
    <3> QED BY <1>1, <1>3, <3>1
  <2> QED BY <2>1, <2>2
<1>5. DOMAIN got' = 1..(Len(got) + 1)
  BY <1>3
<1> QED BY <1>3, <1>4, <1>5 DEF AnswersInOrder, Replied

LEMMA CompleteKeeps ==
    ASSUME HInv, MessageComplete
    PROVE  HInv'
<1>1. /\ calls # <<>> /\ Head(calls).is = "end" /\ conn = "open"
      /\ UNCHANGED <<conn, asked, patient, wire, url, headers, inField, body>>
      /\ complete' = TRUE /\ calls' = <<>> \o Tail(calls) /\ Respond
  BY DEF MessageComplete, Parsing, HInv, peerVars, messageVars, Continue
<1>2. CASE ~patient
  BY <1>1, <1>2 DEF HInv
<1>3. CASE patient
  <2>1. asked \in Nat /\ asked \in 1..MaxRequests
    BY <1>1, <1>3, PieceIsNext
  <2>2. PICK k \in 0..Len(Message(asked)) - 1 :
           /\ Underway(k) /\ ~complete /\ response = <<>> /\ At(asked, k)
           /\ Head(calls) = Message(asked)[k + 1]
           /\ Follows(Tail(calls) \o wire, asked, k + 1)
    BY <1>1, <1>3, PieceIsNext
  <2>3. PICK r \in Nat : r = asked
    BY <2>1
  <2>4. PICK n \in {9, 10} : n = Len(Message(r))
    BY LengthOfMessage
  <2>5. k + 1 = n /\ k \in Nat
    <3>1. k + 1 \in 1..Len(Message(r)) /\ Head(calls) = Message(r)[k + 1] /\ k \in Nat
      BY <2>2, <2>3, <2>4
    <3> QED BY <1>1, <2>4, <3>1, PlaceOfPiece
  <2>6. At(r, n)'
    <3>1. k >= 2 /\ k + 3 >= Len(Message(r)) /\ k + 2 > Len(Message(r))
      <4>1. CASE n = 9
        BY <2>4, <2>5, <4>1
      <4>2. CASE n = 10
        BY <2>4, <2>5, <4>2
      <4> QED BY <2>4, <4>1, <4>2
    <3>2. At(r, k)
      BY <2>2, <2>3
    <3>3. UrlAt(r, k + 1)' /\ HeadersAt(r, k + 1)'
      BY <1>1, <2>5, <3>1, <3>2, OthersStay
    <3>4. BodyAt(r, k + 1)'
      BY <1>1, <2>4, <2>5, <3>1, <3>2 DEF At, BodyAt
    <3> QED BY <2>5, <3>3, <3>4 DEF At
  <2>7. url = <<r, r>>
    <3>1. k >= 2
      <4>1. CASE n = 9
        BY <2>5, <4>1
      <4>2. CASE n = 10
        BY <2>5, <4>2
      <4> QED BY <2>4, <4>1, <4>2
    <3> QED BY <2>2, <2>3, <3>1 DEF At, UrlAt
  <2>8. response' = AnswerTo(asked)
    <3>1. response' = Append(<<>>, <<r, r>>)
      BY <1>1, <2>2, <2>7 DEF Respond
    <3>2. Append(<<>>, <<r, r>>) = << <<r, r>> >>
      BY Longer
    <3> QED BY <2>3, <3>1, <3>2 DEF AnswerTo
  <2>9. /\ Patience /\ calls \in Seq(Piece) /\ wire \in Seq(Piece) /\ calls' = Tail(calls)
        /\ calls' \in Seq(Piece)
    <3>1. Patience /\ calls \in Seq(Piece) /\ wire \in Seq(Piece)
      BY <1>3 DEF HInv, Patience
    <3> QED BY <1>1, <3>1
  <2>10. Spent(Stream)'
    <3>1. Tail(calls) \o wire \in Seq(Piece) /\ Follows(Tail(calls) \o wire, r, Len(Message(r)))
      BY <1>1, <2>2, <2>3, <2>4, <2>5, <2>9, StreamWithoutHead
    <3>2. Spent(Tail(calls) \o wire)
      BY <3>1, NothingFollows
    <3> QED BY <1>1, <2>9, <3>2 DEF Spent, Stream
  <2>11. Len(got) + 1 = asked /\ pending = <<>>
    BY <2>2 DEF Underway
  <2>12. (complete => \E q \in Nat : Whole(q))'
    <3>1. At(r, Len(Message(r)))'
      BY <2>4, <2>6
    <3>2. Whole(r)'
      BY <2>1, <2>3, <3>1 DEF Whole
    <3> QED BY <3>2
  <2>13. AnswersInOrder' /\ got' \in Seq(Answer) /\ (Waiting \/ Answering)'
    <3>1. CASE pending' = Append(<<>>, response') /\ got' = got
      <4>1. pending' = <<AnswerTo(asked)>>
        BY <2>8, <3>1, Longer
      <4>2. Answering'
        BY <1>1, <2>10, <2>11, <3>1, <4>1 DEF Answering
      <4> QED BY <1>1, <2>9, <3>1, <4>2 DEF Patience, AnswersInOrder
    <3>2. CASE pending' = <<>> /\ got' = Append(got, response')
      <4>1. AnswersInOrder' /\ got' \in Seq(Answer) /\ Replied'
        BY <1>1, <1>3, <2>8, <2>9, <2>11, <3>2, OneMoreAnswer
      <4> QED BY <1>1, <2>10, <3>2, <4>1 DEF Waiting
    <3> QED BY <1>1, <2>11, <3>1, <3>2, NoneSpoilt DEF Respond
  <2>14. Patience'
    BY <1>1, <2>9, <2>12, <2>13 DEF Patience
  <2> QED BY <1>1, <2>14 DEF HInv
<1> QED BY <1>2, <1>3

\* What the parser refuses closes the connection.
LEMMA FailureKeeps ==
    ASSUME HInv, ParseFails
    PROVE  HInv'
<1>1. /\ calls # <<>> /\ conn = "open" /\ conn' = "closing" /\ calls' = <<>>
      /\ UNCHANGED <<asked, patient, wire, url, headers, inField, body, complete, pending, got>>
  BY DEF ParseFails, Parsing, HInv, CloseClient, peerVars, requestVars, messageVars
<1>2. ASSUME patient PROVE Patience'
  <2>1. Patience
    BY <1>1, <1>2 DEF HInv
  <2>2. calls' \in Seq(Piece)
    BY <1>1
  <2>3. (complete => \E r \in Nat : Whole(r))' /\ AnswersInOrder'
    BY <1>1, <2>1, SameRequest DEF Patience, AnswersInOrder
  <2> QED BY <1>1, <2>1, <2>2, <2>3 DEF Patience
<1> QED BY <1>1, <1>2 DEF HInv

-----------------------------------------------------------------------------
(* Reading and asking. *)

LEMMA TwoPartsMake ==
    ASSUME NEW H, NEW a \in Seq(H), NEW b \in Seq(H), NEW s \in Seq(H),
           Len(s) = Len(a) + Len(b), \A i \in 1..Len(a) : s[i] = a[i],
           \A i \in 1..Len(b) : s[Len(a) + i] = b[i]
    PROVE  a \o b = s
<1>1. /\ \A i \in DOMAIN (a \o b) :
           /\ i \in Int
           /\ \/ i \in DOMAIN a /\ (a \o b)[i] = a[i]
              \/ i - Len(a) \in DOMAIN b /\ (a \o b)[i] = b[i - Len(a)]
      /\ a \o b \in Seq(H)
  BY Joined
<1>2. Len(a \o b) = Len(a) + Len(b) /\ Len(a) \in Nat /\ Len(b) \in Nat
  BY Places
<1>3. PICK t : t = a \o b
  OBVIOUS
<1>4. \A i \in 1..Len(t) : t[i] = s[i]
  <2> SUFFICES ASSUME NEW i \in 1..Len(t) PROVE t[i] = s[i]
    OBVIOUS
  <2>1. i \in DOMAIN (a \o b)
    BY <1>1, <1>3
  <2>2. CASE i \in DOMAIN a /\ t[i] = a[i]
    BY <2>2
  <2>3. CASE i - Len(a) \in DOMAIN b /\ t[i] = b[i - Len(a)]
    <3>1. PICK j \in 1..Len(b) : Len(a) + j = i /\ t[i] = b[j]
      <4>1. i - Len(a) \in 1..Len(b) /\ Len(a) + (i - Len(a)) = i
        BY <1>2, <2>3
      <4> QED BY <2>3, <4>1
    <3> QED BY <3>1
  <2> QED BY <1>1, <1>3, <2>1, <2>2, <2>3
<1> QED BY <1>1, <1>2, <1>3, <1>4, SeqEqual

\* What is given to the parser and what stays in the socket make the same.
LEMMA CutAnywhere ==
    ASSUME NEW H, NEW s \in Seq(H), NEW n \in 1..Len(s)
    PROVE  /\ SubSeq(s, 1, n) \in Seq(H) /\ SubSeq(s, 1, n) # <<>>
           /\ SubSeq(s, n + 1, Len(s)) \in Seq(H)
           /\ SubSeq(s, 1, n) \o SubSeq(s, n + 1, Len(s)) = s
<1>1. PICK a, b : a = SubSeq(s, 1, n) /\ b = SubSeq(s, n + 1, Len(s))
  OBVIOUS
<1>2. /\ a \in Seq(H) /\ Len(a) = n /\ \A i \in 1..n : a[i] = s[i]
      /\ b \in Seq(H) /\ Len(b) = Len(s) - n /\ \A i \in 1..Len(b) : b[i] = s[n + i]
  BY <1>1
<1>3. /\ Len(s) = Len(a) + Len(b) /\ \A i \in 1..Len(a) : s[i] = a[i]
      /\ \A i \in 1..Len(b) : s[Len(a) + i] = b[i]
  BY <1>2
<1>4. a \o b = s
  BY <1>2, <1>3, TwoPartsMake
<1>5. a # <<>>
  BY <1>2
<1> QED BY <1>1, <1>2, <1>4, <1>5

\* The Request before the first piece.
LEMMA BlankIsStart ==
    ASSUME NEW r \in Nat, Blank'
    PROVE  At(r, 0)'
<1>1. url' = <<>> /\ headers' = <<>> /\ ~inField' /\ body' = <<>>
  BY DEF Blank
<1>2. UrlAt(r, 0)'
  BY <1>1 DEF UrlAt
<1>3. BodyAt(r, 0)'
  <2>1. 0 + 2 < Len(Message(r))
    BY LongEnough
  <2>2. ~(0 + 2 = Len(Message(r))) /\ ~(0 + 2 > Len(Message(r)))
    <3>1. Len(Message(r)) \in Int
      BY LengthOfMessage
    <3> QED BY <2>1, <3>1
  <2> QED BY <1>1, <2>1, <2>2, Zenon DEF BodyAt
<1>4. /\ 0 \in 0..2 /\ 0 # 3 /\ 0 # 4 /\ 0 # 5 /\ 0 # 6 /\ ~(0 >= 7) /\ ~(0 >= 6)
      /\ 0 \notin {3, 4, 6} /\ 0 \notin {3, 4, 5}
  OBVIOUS
<1>5. HeadersGiven(0)' /\ HeadersWithout(0)'
  BY <1>1, <1>4, Zenon DEF HeadersGiven, HeadersWithout
<1> QED BY <1>2, <1>3, <1>5 DEF At, HeadersAt

\* Nothing that the parser refuses at once leads on.
LEMMA RefusedFollows ==
    ASSUME NEW s \in Seq(Piece), s[1] = Junk, NEW r \in Nat, NEW k
    PROVE  Follows(s, r, k) /\ Spent(s)
<1>1. \A i \in 1..Len(s) : 1 \in 1..i
  OBVIOUS
<1> QED BY <1>1 DEF Follows, Spent

\* What is put behind the second of two lists is behind both.
LEMMA PutBehind ==
    ASSUME NEW H, NEW a \in Seq(H), NEW b \in Seq(H), NEW t \in Seq(H), NEW x,
           Len(t) = Len(b) + 1, t[Len(b) + 1] = x, \A i \in 1..Len(b) : t[i] = b[i]
    PROVE  /\ Len(a \o t) = Len(a \o b) + 1 /\ (a \o t)[Len(a \o b) + 1] = x
           /\ \A i \in 1..Len(a \o b) : (a \o t)[i] = (a \o b)[i]
<1>1. /\ \A i \in DOMAIN (a \o b) :
           /\ i \in Int
           /\ \/ i \in DOMAIN a /\ (a \o b)[i] = a[i]
              \/ i - Len(a) \in DOMAIN b /\ (a \o b)[i] = b[i - Len(a)]
      /\ \A i \in DOMAIN a : (a \o b)[i] = a[i] /\ (a \o t)[i] = a[i]
      /\ \A i \in DOMAIN t : (a \o t)[i + Len(a)] = t[i]
      /\ a \o b \in Seq(H) /\ a \o t \in Seq(H)
  BY Joined
<1>2. /\ Len(a \o b) = Len(a) + Len(b) /\ Len(a \o t) = Len(a) + Len(t)
      /\ Len(a) \in Nat /\ Len(b) \in Nat
  BY Places
<1>3. PICK p, q : p = a \o b /\ q = a \o t
  OBVIOUS
<1>4. Len(q) = Len(p) + 1
  BY <1>2, <1>3
<1>5. q[Len(p) + 1] = x
  <2>1. Len(b) + 1 \in DOMAIN t /\ (Len(b) + 1) + Len(a) = Len(p) + 1
    BY <1>2, <1>3
  <2>2. (a \o t)[(Len(b) + 1) + Len(a)] = t[Len(b) + 1]
    BY <1>1, <2>1
  <2> QED BY <1>3, <2>1, <2>2
<1>6. \A i \in 1..Len(p) : q[i] = p[i]
  <2> SUFFICES ASSUME NEW i \in 1..Len(p) PROVE q[i] = p[i]
    OBVIOUS
  <2>1. i \in DOMAIN (a \o b)
    BY <1>1, <1>3
  <2>2. CASE i \in DOMAIN a
    BY <1>1, <1>3, <2>2
  <2>3. CASE i - Len(a) \in DOMAIN b /\ p[i] = b[i - Len(a)]
    <3>1. PICK j \in 1..Len(b) : j + Len(a) = i /\ p[i] = b[j]
      <4>1. i - Len(a) \in 1..Len(b) /\ (i - Len(a)) + Len(a) = i
        BY <1>2, <2>3
      <4> QED BY <2>3, <4>1
    <3>2. j \in DOMAIN t /\ t[j] = b[j]
      BY <1>2
    <3> QED BY <1>1, <1>3, <3>1, <3>2
  <2> QED BY <1>1, <1>3, <2>1, <2>2, <2>3
<1> QED BY <1>3, <1>4, <1>5, <1>6

\* The parser is given a piece of what the socket holds, after a Reset or not.
LEMMA DataKeeps ==
    ASSUME HInv, OnData
    PROVE  HInv'
<1>1. /\ calls = <<>> /\ conn = "open" /\ wire # <<>>
      /\ UNCHANGED <<conn, asked, patient, got>>
  BY DEF OnData, Dispatch
<1>2. CASE ~patient
  BY <1>1, <1>2 DEF HInv
<1>3. CASE patient
  <2>1. /\ Patience /\ wire \in Seq(Piece) /\ asked \in Nat /\ asked \in 0..MaxRequests
        /\ Len(got) \in Nat
    BY <1>3, HttpAssumption DEF HInv, Patience
  <2>2. PICK n \in 1..Len(wire) :
           calls' = Understood(n, complete) /\ wire' = SubSeq(wire, n + 1, Len(wire))
    BY DEF OnData, Dispatch
  <2>3. /\ SubSeq(wire, 1, n) \in Seq(Piece) /\ SubSeq(wire, 1, n) # <<>>
        /\ wire' \in Seq(Piece) /\ SubSeq(wire, 1, n) \o wire' = wire
    BY <2>1, <2>2, CutAnywhere
  <2>4. Stream = wire /\ wire[1] \in Piece
    BY <1>1, <2>1 DEF Stream
  <2>5. Waiting \/ Answering \/ \E k \in 0..Len(Message(asked)) - 1 : Underway(k)
    BY <1>1, <2>1 DEF Patience
  <2>6. CASE ~complete
    <3>1. /\ calls' = SubSeq(wire, 1, n) /\ UNCHANGED <<requestVars, pending>>
      BY <2>2, <2>6 DEF OnData, Understood
    <3>2. Stream' = Stream /\ calls' \in Seq(Piece)
      BY <2>3, <2>4, <3>1 DEF Stream
    <3>3. UNCHANGED <<url, headers, inField, body, complete, response, pending>>
      BY <3>1 DEF requestVars, messageVars
    <3>4. ~Answering
      BY <1>1, <2>6 DEF Answering
    <3>5. Waiting => Waiting'
      BY <1>1, <3>2, <3>3 DEF Waiting, Replied, Spent, Blank
    <3>6. ASSUME NEW k \in 0..Len(Message(asked)) - 1, Underway(k)
          PROVE  Underway(k)'
      <4>1. At(asked, k)'
        BY <1>1, <2>6, <3>3, <3>6, SameRequest DEF Underway
      <4> QED BY <1>1, <2>6, <3>2, <3>3, <3>6, <4>1 DEF Underway, Follows
    <3>7. Patience'
      BY <1>1, <1>3, <2>1, <2>3, <2>5, <2>6, <3>2, <3>3, <3>4, <3>5, <3>6
      DEF Patience, AnswersInOrder
    <3> QED BY <1>1, <3>7 DEF HInv
  <2>7. CASE complete
    <3>1. /\ Blank' /\ ~complete' /\ pending' = [i \in DOMAIN pending |-> Spoilt]
      BY <2>7 DEF OnData, Emptied, Blank
    <3>2. ASSUME wire[1] = Junk
          PROVE  /\ calls' = <<Junk>> /\ calls' \in Seq(Piece) /\ calls' # <<>>
                 /\ Stream' \in Seq(Piece) /\ Stream'[1] = Junk
      <4>1. calls' = <<Junk>> /\ Junk \in Piece
        BY <2>2, <2>7, <3>2 DEF Understood, Junk, Part, Piece
      <4>2. calls' \in Seq(Piece) /\ calls' # <<>> /\ calls'[1] = Junk
        BY <4>1
      <4> QED BY <2>3, <4>1, <4>2 DEF Stream
    <3>3. CASE Waiting
      <4>1. wire[1] = Junk
        BY <1>1, <2>4, <3>3 DEF Waiting, Spent
      <4>2. Spent(Stream)' /\ Waiting'
        BY <1>1, <3>1, <3>2, <3>3, <4>1, NoneSpoilt DEF Waiting, Replied, Spent
      <4> QED BY <1>1, <2>1, <2>3, <3>1, <3>2, <4>1, <4>2 DEF HInv, Patience, AnswersInOrder
    <3>4. CASE Answering
      <4>1. wire[1] = Junk
        BY <1>1, <2>4, <3>4 DEF Answering, Spent
      <4>2. Answering'
        BY <1>1, <3>1, <3>2, <3>4, <4>1 DEF Answering, Spent
      <4> QED BY <1>1, <2>1, <2>3, <3>1, <3>2, <4>1, <4>2 DEF HInv, Patience, AnswersInOrder
    <3>5. ASSUME NEW k \in 0..Len(Message(asked)) - 1, Underway(k)
          PROVE  HInv'
      <4>1. k = 0 /\ Follows(wire, asked, 0) /\ Len(got) + 1 = asked /\ pending = <<>>
        BY <2>4, <2>7, <3>5 DEF Underway
      <4>2. pending' = <<>> /\ At(asked, 0)' /\ response' = <<>>
        <5>1. PICK r \in Nat : r = asked
          BY <2>1
        <5>2. At(r, 0)'
          BY <3>1, BlankIsStart
        <5>3. At(asked, 0)'
          BY <1>1, <5>1, <5>2
        <5> QED BY <3>1, <4>1, <5>3, NoneSpoilt DEF Blank
      <4>3. calls' \in Seq(Piece) /\ Follows(Stream, asked, 0)'
        <5>1. CASE wire[1] = Junk
          BY <1>1, <2>1, <3>2, <5>1, RefusedFollows DEF Follows
        <5>2. CASE wire[1] # Junk
          <6>1. 1 \in 1..Len(wire) /\ \A j \in 1..1 : wire[j] # Junk
            BY <1>1, <2>1, <5>2
          <6>2. 0 + 1 <= Len(Message(asked)) /\ wire[1] = Message(asked)[0 + 1]
            BY <4>1, <6>1 DEF Follows
          <6>3. 1 \in 1..Len(Message(asked)) /\ wire[1] = Message(asked)[1]
            BY <2>1, <6>2, LengthOfMessage
          <6>4. wire[1].is = "start"
            BY <2>1, <6>3, PlaceOfPiece
          <6>5. calls' = SubSeq(wire, 1, n)
            BY <2>2, <6>4 DEF Understood
          <6>6. Stream' = wire
            BY <2>3, <6>5 DEF Stream
          <6> QED BY <1>1, <2>3, <4>1, <6>5, <6>6 DEF Follows
        <5> QED BY <5>1, <5>2
      <4>4. Underway(0)'
        BY <1>1, <3>1, <4>1, <4>2, <4>3 DEF Underway
      <4>5. 0 \in 0..Len(Message(asked)) - 1
        BY <2>1, LengthOfMessage
      <4> QED BY <1>1, <2>1, <2>3, <3>1, <4>3, <4>4, <4>5 DEF HInv, Patience, AnswersInOrder
    <3> QED BY <2>5, <3>3, <3>4, <3>5
  <2> QED BY <2>6, <2>7
<1> QED BY <1>2, <1>3

\* A peer that waited for the last response asks.
LEMMA AskingKeeps ==
    ASSUME HInv, PeerAsks
    PROVE  HInv'
<1>1. /\ conn = "open" /\ asked < MaxRequests /\ asked' = asked + 1
      /\ patient' = (patient /\ Len(got) = asked) /\ wire' = wire \o Message(asked')
      /\ UNCHANGED <<conn, url, headers, inField, body, complete, response, pending, got, calls>>
  BY DEF PeerAsks, requestVars, messageVars, loopVars
<1>2. CASE ~patient'
  BY <1>1, <1>2 DEF HInv
<1>3. CASE patient'
  <2>1. /\ patient /\ Patience /\ Len(got) = asked
        /\ asked \in 0..MaxRequests /\ asked \in Nat
        /\ wire \in Seq(Piece) /\ calls \in Seq(Piece)
    <3>1. patient /\ Len(got) = asked
      BY <1>1, <1>3, Zenon
    <3>2. Patience
      BY <3>1 DEF HInv
    <3> QED BY <3>1, <3>2, HttpAssumption DEF Patience
  <2>2. Waiting
    BY <1>1, <2>1 DEF Patience, Answering, Underway
  <2>3. PICK r \in Nat : r = asked'
    BY <1>1, <2>1
  <2>4. PICK m \in Seq(Piece) : m = Message(r) /\ wire' = wire \o m
    BY <1>1, <2>3, PiecesOfMessage
  <2>5. wire' \in Seq(Piece) /\ Stream' = calls \o (wire \o m) /\ Stream' \in Seq(Piece)
    <3>1. wire' \in Seq(Piece)
      BY <2>1, <2>4
    <3>2. Stream' = calls \o wire'
      BY <1>1 DEF Stream
    <3> QED BY <2>1, <2>4, <3>1, <3>2
  <2>6. Follows(Stream', r, 0)
    <3>1. CASE calls = <<>> /\ wire = <<>>
      <4>1. wire \o m = m
        BY <3>1
      <4>2. Stream' = m
        BY <2>5, <3>1, <4>1
      <4>3. \A i \in 1..Len(m) : 0 + i = i /\ i <= Len(m)
        OBVIOUS
      <4> QED BY <2>4, <4>2, <4>3 DEF Follows
    <3>2. CASE calls # <<>>
      <4>1. calls[1] = Junk
        <5>1. Stream[1] = calls[1] /\ Stream # <<>>
          BY <2>1, <3>2 DEF Stream
        <5> QED BY <2>2, <5>1 DEF Waiting, Spent
      <4>2. Stream'[1] = Junk
        BY <2>1, <2>4, <2>5, <3>2, <4>1
      <4> QED BY <2>5, <4>2, RefusedFollows
    <3>3. CASE calls = <<>> /\ wire # <<>>
      <4>1. wire[1] = Junk
        <5>1. Stream = wire
          BY <2>1, <3>3 DEF Stream
        <5> QED BY <2>2, <3>3, <5>1 DEF Waiting, Spent
      <4>2. Stream' = wire'
        BY <2>4, <2>5, <3>3
      <4>3. wire'[1] = Junk
        BY <2>1, <2>4, <3>3, <4>1
      <4> QED BY <2>5, <4>2, <4>3, RefusedFollows
    <3> QED BY <3>1, <3>2, <3>3
  <2>7. Len(got') + 1 = asked' /\ pending' = <<>>
    <3>1. Len(got) + 1 = asked'
      BY <1>1, <2>1
    <3> QED BY <1>1, <2>2, <3>1 DEF Waiting
  <2>8. complete => Spent(calls)
    <3> SUFFICES ASSUME calls # <<>> PROVE calls[1] = Junk
      BY DEF Spent
    <3>1. Stream[1] = calls[1] /\ Stream # <<>>
      BY <2>1 DEF Stream
    <3> QED BY <2>2, <3>1 DEF Waiting, Spent
  <2>9. ~complete => response' = <<>> /\ At(asked, 0)'
    <3> SUFFICES ASSUME ~complete PROVE response' = <<>> /\ At(asked, 0)'
      OBVIOUS
    <3>1. Blank'
      BY <1>1, <2>2 DEF Waiting, Blank
    <3>2. At(r, 0)'
      BY <3>1, BlankIsStart
    <3> QED BY <2>3, <3>1, <3>2 DEF Blank, At, UrlAt, BodyAt, HeadersAt
  <2>10. Underway(0)'
    <3>1. Follows(Stream, asked, 0)'
      BY <2>3, <2>6 DEF Follows
    <3> QED BY <1>1, <2>7, <2>8, <2>9, <3>1 DEF Underway, Spent
  <2>11. 0 \in 0..Len(Message(asked')) - 1 /\ asked' \in 0..MaxRequests
    <3>2. 0 \in 0..Len(Message(r)) - 1
      BY LongEnough
    <3>3. asked + 1 \in 0..MaxRequests
      BY <1>1, <2>1, HttpAssumption
    <3> QED BY <1>1, <2>3, <3>2, <3>3
  <2>12. (complete => \E q \in Nat : Whole(q))' /\ AnswersInOrder'
    BY <1>1, <2>1, SameRequest DEF Patience, AnswersInOrder
  <2>13. Patience'
    BY <1>1, <2>1, <2>5, <2>10, <2>11, <2>12 DEF Patience
  <2> QED BY <1>1, <2>13 DEF HInv
<1> QED BY <1>2, <1>3

\* It sends what the parser will refuse.
LEMMA SpoilingKeeps ==
    ASSUME HInv, PeerSpoils
    PROVE  HInv'
<1>1. /\ conn = "open" /\ wire' = Append(wire, Junk)
      /\ UNCHANGED <<conn, asked, patient, url, headers, inField, body, complete, response>>
      /\ UNCHANGED <<pending, got, calls>>
  BY DEF PeerSpoils, requestVars, messageVars, loopVars
<1>2. CASE ~patient
  BY <1>1, <1>2 DEF HInv
<1>3. CASE patient
  <2>1. Patience /\ wire \in Seq(Piece) /\ calls \in Seq(Piece)
    BY <1>3 DEF HInv, Patience
  <2>2. PICK s \in Seq(Piece) : s = Stream
    <3>1. Stream \in Seq(Piece)
      BY <2>1 DEF Stream
    <3> QED BY <3>1
  <2>3. PICK t \in Seq(Piece) : t = Append(wire, Junk)
    <3>1. Junk \in Piece
      BY DEF Junk, Part, Piece
    <3>2. Append(wire, Junk) \in Seq(Piece)
      BY <2>1, <3>1
    <3> QED BY <3>2
  <2>4. PICK u \in Seq(Piece) : u = Stream' /\ u = calls \o t
    <3>1. Stream' = calls \o t
      BY <1>1, <2>3 DEF Stream
    <3>2. calls \o t \in Seq(Piece)
      BY <2>1
    <3> QED BY <3>1, <3>2
  <2>5. /\ Len(u) = Len(s) + 1 /\ u[Len(s) + 1] = Junk
        /\ \A i \in 1..Len(s) : u[i] = s[i]
    <3>1. /\ Len(t) = Len(wire) + 1 /\ t[Len(wire) + 1] = Junk
          /\ \A i \in 1..Len(wire) : t[i] = wire[i]
      BY <2>1, <2>3
    <3>2. s = calls \o wire /\ u = calls \o t
      BY <2>2, <2>4 DEF Stream
    <3> QED BY <2>1, <2>3, <2>4, <2>2, <3>1, <3>2, PutBehind
  <2>6. Spent(Stream) => Spent(Stream')
    <3>1. CASE s = <<>>
      <4>1. u[1] = Junk
        BY <2>5, <3>1
      <4> QED BY <2>4, <4>1 DEF Spent
    <3>2. CASE s # <<>>
      <4>1. 1 \in 1..Len(s)
        BY <3>2
      <4>2. u[1] = s[1]
        BY <2>5, <4>1
      <4> QED BY <2>2, <2>4, <3>2, <4>2 DEF Spent
    <3> QED BY <3>1, <3>2
  <2>7. ASSUME NEW k, Follows(Stream, asked, k) PROVE Follows(Stream', asked, k)
    <3>1. ASSUME NEW i \in 1..Len(u), \A j \in 1..i : u[j] # Junk
          PROVE  k + i <= Len(Message(asked)) /\ u[i] = Message(asked)[k + i]
      <4>1. i # Len(s) + 1
        BY <2>5, <3>1
      <4>2. i \in 1..Len(s) /\ \A j \in 1..i : j \in 1..Len(s)
        BY <2>5, <4>1
      <4>3. \A j \in 1..i : s[j] # Junk
        BY <2>5, <3>1, <4>2
      <4>4. k + i <= Len(Message(asked)) /\ s[i] = Message(asked)[k + i]
        <5>1. Follows(s, asked, k)
          BY <2>2, <2>7
        <5> QED BY <4>2, <4>3, <5>1 DEF Follows
      <4> QED BY <2>5, <4>2, <4>4
    <3> QED BY <2>4, <3>1 DEF Follows
  <2>8. Waiting => Waiting'
    BY <1>1, <2>6 DEF Waiting, Replied, Spent, Blank
  <2>9. Answering => Answering'
    BY <1>1, <2>6 DEF Answering, Spent, Blank
  <2>10. ASSUME NEW k \in 0..Len(Message(asked)) - 1, Underway(k) PROVE Underway(k)'
    <3>1. Follows(Stream', asked, k)
      BY <2>7, <2>10 DEF Underway
    <3>2. At(asked, k) => At(asked, k)'
      BY <1>1, SameRequest
    <3>3. Spent(calls) => Spent(calls')
      BY <1>1
    <3>4. /\ Len(got) + 1 = asked /\ pending = <<>>
          /\ \/ ~complete /\ response = <<>> /\ At(asked, k)
             \/ k = 0 /\ complete /\ Spent(calls)
      BY <2>10 DEF Underway
    <3>5. /\ Len(got') + 1 = asked' /\ pending' = <<>>
          /\ \/ ~complete' /\ response' = <<>> /\ At(asked, k)'
             \/ k = 0 /\ complete' /\ Spent(calls')
      BY <1>1, <3>2, <3>3, <3>4
    <3>6. Follows(Stream, asked, k)'
      BY <1>1, <3>1 DEF Follows
    <3> QED BY <3>5, <3>6 DEF Underway
  <2>11. (complete => \E q \in Nat : Whole(q))' /\ AnswersInOrder'
    BY <1>1, <2>1, SameRequest DEF Patience, AnswersInOrder
  <2>12. Patience'
    BY <1>1, <2>1, <2>3, <2>8, <2>9, <2>10, <2>11 DEF Patience
  <2> QED BY <1>1, <2>12 DEF HInv
<1> QED BY <1>2, <1>3

-----------------------------------------------------------------------------
(* Writing and closing. *)

\* The state that Patience is about, but for the connection, the calls and
\* the writes.
LEMMA PatienceStays ==
    ASSUME Patience, UNCHANGED <<asked, wire, url, headers, inField, body, complete, got>>,
           patient' = patient, calls' = calls \/ calls' = <<>>,
           conn' \in {"none", "open"} => (Waiting \/ Answering)'
                                         \/ \E k \in 0..Len(Message(asked)) - 1 : Underway(k)'
    PROVE  Patience'
<1>1. (complete => \E q \in Nat : Whole(q))' /\ AnswersInOrder'
  BY SameRequest DEF Patience, AnswersInOrder
<1>2. calls' \in Seq(Piece)
  <2>1. <<>> \in Seq(Piece) /\ calls \in Seq(Piece)
    BY DEF Patience
  <2> QED BY <2>1
<1> QED BY <1>1, <1>2 DEF Patience

\* Nothing it is about changes.
LEMMA NothingChanges ==
    ASSUME HInv, UNCHANGED <<conn, asked, patient, wire, requestVars, pending, got, calls>>
    PROVE  HInv'
<1>1. UNCHANGED <<url, headers, inField, body, complete, response>>
  BY DEF requestVars, messageVars
<1>2. /\ Waiting => Waiting'
      /\ Answering => Answering'
      /\ \A k \in 0..Len(Message(asked)) - 1 : Underway(k) => Underway(k)'
  BY <1>1, SamePlace
<1>3. ASSUME patient PROVE Patience'
  <2>1. Patience
    BY <1>3 DEF HInv
  <2>2. conn' \in {"none", "open"} =>
          (Waiting \/ Answering)' \/ \E k \in 0..Len(Message(asked)) - 1 : Underway(k)'
    BY <1>2, <2>1 DEF Patience
  <2> QED BY <1>1, <2>1, <2>2, PatienceStays
<1> QED BY <1>3 DEF HInv

\* The socket takes the response.
LEMMA WrittenKeeps ==
    ASSUME HInv, Written
    PROVE  HInv'
<1>1. /\ calls = <<>> /\ pending # <<>> /\ conn = "open"
      /\ got' = Append(got, Head(pending)) /\ pending' = Tail(pending)
      /\ UNCHANGED <<conn, asked, patient, wire, calls>>
      /\ UNCHANGED <<url, headers, inField, body, complete, response>>
  BY DEF Written, Idle, peerVars, requestVars, messageVars, loopVars
<1>2. CASE ~patient
  BY <1>1, <1>2 DEF HInv
<1>3. CASE patient
  <2>1. Patience
    BY <1>3 DEF HInv
  <2>2. Answering /\ complete /\ pending = <<AnswerTo(asked)>>
    BY <1>1, <2>1 DEF Patience, Waiting, Underway, Answering
  <2>3. Head(pending) = AnswerTo(asked) /\ Tail(pending) = <<>>
    BY <2>2
  <2>4. AnswersInOrder' /\ got' \in Seq(Answer) /\ Replied'
    BY <1>1, <1>3, <2>1, <2>2, <2>3, OneMoreAnswer DEF Answering
  <2>5. Waiting'
    BY <1>1, <2>2, <2>3, <2>4 DEF Waiting, Answering, Spent, Stream
  <2>6. (complete => \E q \in Nat : Whole(q))'
    BY <1>1, <2>1, SameRequest DEF Patience
  <2>7. Patience'
    BY <1>1, <2>1, <2>4, <2>5, <2>6 DEF Patience
  <2> QED BY <1>1, <2>7 DEF HInv
<1> QED BY <1>2, <1>3

\* A connection that ends, with what waits on it.
LEMMA EndingKeeps ==
    ASSUME HInv, ReadEnds \/ WriteFails \/ ClientClosed
    PROVE  HInv'
<1>1. /\ calls = <<>> /\ calls' = <<>>
      /\ UNCHANGED <<asked, patient, wire, url, headers, inField, body, complete, response, got>>
  BY DEF ReadEnds, WriteFails, ClientClosed, TakeClosed, Idle, CloseClient,
     peerVars, requestVars, messageVars
<1>2. conn' \notin {"none", "open"} /\ (conn' = "deleted" => pending' = <<>>)
  <2>1. CASE ReadEnds
    BY <2>1 DEF ReadEnds, CloseClient
  <2>2. CASE ClientClosed
    BY <2>2 DEF ClientClosed
  <2>3. CASE WriteFails
    BY <2>3 DEF WriteFails, CloseClient, HInv
  <2> QED BY <2>1, <2>2, <2>3
<1>3. patient => Patience'
  BY <1>1, <1>2, PatienceStays DEF HInv
<1> QED BY <1>1, <1>2, <1>3 DEF HInv

LEMMA ConnectKeeps ==
    ASSUME HInv, Connect
    PROVE  HInv'
<1>1. /\ calls = <<>> /\ conn = "none" /\ conn' = "open" /\ pending' = pending
      /\ UNCHANGED <<asked, patient, wire, got, calls>>
      /\ UNCHANGED <<url, headers, inField, body, complete, response>>
  BY DEF Connect, Idle, peerVars, requestVars, messageVars, loopVars
<1>2. /\ Waiting => Waiting'
      /\ Answering => Answering'
      /\ \A k \in 0..Len(Message(asked)) - 1 : Underway(k) => Underway(k)'
  BY <1>1, SamePlace
<1>3. ASSUME patient PROVE Patience'
  <2>1. Patience
    BY <1>3 DEF HInv
  <2>2. conn' \in {"none", "open"} =>
          (Waiting \/ Answering)' \/ \E k \in 0..Len(Message(asked)) - 1 : Underway(k)'
    BY <1>1, <1>2, <2>1 DEF Patience
  <2> QED BY <1>1, <2>1, <2>2, PatienceStays
<1> QED BY <1>1, <1>3 DEF HInv

-----------------------------------------------------------------------------
(* The theorems. *)

LEMMA HInvInit == Init => HInv
<1> SUFFICES ASSUME Init PROVE HInv
  OBVIOUS
<1>1. /\ calls = <<>> /\ conn = "none" /\ asked = 0 /\ wire = <<>> /\ pending = <<>> /\ got = <<>>
      /\ Blank /\ ~complete
  BY DEF Init, LoopInit, Blank
<1>2. Stream = <<>> /\ <<>> \in Seq(Piece) /\ <<>> \in Seq(Answer) /\ Len(got) = 0
  BY <1>1 DEF Stream
<1>3. Waiting
  BY <1>1, <1>2 DEF Waiting, Replied, Spent
<1>4. AnswersInOrder
  BY <1>1 DEF AnswersInOrder
<1>5. Patience
  BY <1>1, <1>2, <1>3, <1>4, HttpAssumption DEF Patience
<1> QED BY <1>1, <1>5 DEF HInv

LEMMA HInvStep == HInv /\ [Next]_vars => HInv'
<1> SUFFICES ASSUME HInv, [Next]_vars PROVE HInv'
  OBVIOUS
<1>1. CASE Connect
  BY <1>1, ConnectKeeps
<1>2. CASE PeerAsks
  BY <1>2, AskingKeeps
<1>3. CASE PeerSpoils
  BY <1>3, SpoilingKeeps
<1>4. CASE OnData
  BY <1>4, DataKeeps
<1>5. CASE ParserOnUrl \/ ParserOnHeaderField \/ ParserOnHeaderValue \/ ParserOnBody
  BY <1>5, ParserTakes
<1>6. CASE ParseFails
  BY <1>6, FailureKeeps
<1>7. CASE MessageComplete
  BY <1>7, CompleteKeeps
<1>8. CASE Written
  BY <1>8, WrittenKeeps
<1>9. CASE ReadEnds \/ WriteFails \/ ClientClosed
  BY <1>9, EndingKeeps
<1>10. CASE ServerClosed
  BY <1>10, NothingChanges DEF ServerClosed, peerVars
<1>11. CASE LoopStep
  <2>1. calls' = calls
    BY <1>11 DEF LoopStep, Iterate, RunClosing, RunTimers, RunPoll
  <2> QED BY <1>11, <2>1, NothingChanges DEF LoopStep, peerVars
<1>12. CASE UNCHANGED vars
  BY <1>12, NothingChanges DEF vars, peerVars, loopVars
<1> QED BY <1>1, <1>2, <1>3, <1>4, <1>5, <1>6, <1>7, <1>8, <1>9, <1>10, <1>11, <1>12 DEF Next

\* A peer that waits for each response gets the answers to its requests, in
\* their order and each alone, for every number and kind of requests, wherever
\* TCP cuts them and whenever it sends what the parser refuses
\* (http_server.cc:27-34, 46-54, http_message.cc:53-60, 80-99).
THEOREM PeersGetTheirAnswers == Spec => []AnswersInOrder
<1>1. HInv => AnswersInOrder
  BY DEF HInv, Patience, AnswersInOrder
<1> QED BY <1>1, HInvInit, HInvStep, PTL DEF Spec

\* A request of such a peer is told apart into its url, its headers and its
\* body, with nothing of the requests before it (http_message.cc:9-60, 80-99).
THEOREM RequestsAreToldApart == Spec => []RequestIsWhole
<1>1. HInv => RequestIsWhole
  <2> SUFFICES ASSUME HInv PROVE RequestIsWhole
    OBVIOUS
  <2>2. ASSUME complete, patient PROVE RequestIsWhole
    <3>1. PICK r \in Nat : Whole(r)
      BY <2>2 DEF HInv, Patience
    <3>2. r \in 1..MaxRequests /\ At(r, Len(Message(r)))
      BY <3>1 DEF Whole
    <3>3. CASE r \in EmptyValue
      <4>1. Len(Message(r)) = 9
        BY <3>3, LengthOfMessage
      <4>2. UrlAt(r, 9) /\ BodyAt(r, 9) /\ HeadersWithout(9)
        BY <3>2, <3>3, <4>1 DEF At, HeadersAt
      <4>3. url = <<r, r>> /\ body = <<r, r>> /\ headers = <<Header(<<1, 1, 2>>, <<2>>)>>
        <5>1. 9 >= 2 /\ 9 + 2 > 9 /\ 9 >= 6
          OBVIOUS
        <5> QED BY <4>1, <4>2, <5>1, Zenon DEF UrlAt, BodyAt, HeadersWithout
      <4> QED BY <3>2, <3>3, <4>3 DEF RequestIsWhole, Header
    <3>4. CASE r \notin EmptyValue
      <4>1. Len(Message(r)) = 10
        BY <3>4, LengthOfMessage
      <4>2. UrlAt(r, 10) /\ BodyAt(r, 10) /\ HeadersGiven(10)
        BY <3>2, <3>4, <4>1 DEF At, HeadersAt
      <4>3. /\ url = <<r, r>> /\ body = <<r, r>>
            /\ headers = <<Header(<<1, 1>>, <<1>>), Header(<<2>>, <<2>>)>>
        <5>1. 10 >= 2 /\ 10 + 2 > 10 /\ 10 >= 7
          OBVIOUS
        <5> QED BY <4>1, <4>2, <5>1, Zenon DEF UrlAt, BodyAt, HeadersGiven
      <4> QED BY <3>2, <3>4, <4>3 DEF RequestIsWhole, Header
    <3> QED BY <3>3, <3>4
  <2> QED BY <2>2 DEF RequestIsWhole
<1> QED BY <1>1, HInvInit, HInvStep, PTL DEF Spec

\* libuv never holds the address of a buffer of a Request that was deleted: a
\* Request is deleted in the close callback of its client, and that comes after
\* every write was told its result (http_server.cc:40-42, tcp_client.cc:107-115).
THEOREM WritesEndFirst == Spec => []BuffersOutliveWrites
<1>1. HInv => BuffersOutliveWrites
  BY DEF HInv, BuffersOutliveWrites
<1> QED BY <1>1, HInvInit, HInvStep, PTL DEF Spec
=============================================================================
