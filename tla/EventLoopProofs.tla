--------------------------- MODULE EventLoopProofs ---------------------------
(***************************************************************************)
(* What the loop's two lists of handles that wait for their close          *)
(* callbacks do under uv_close and under the loop, for any set of handles: *)
(* a handle that is given to uv_close once has one close callback.         *)
(***************************************************************************)
EXTENDS EventLoop, SequenceTheorems, TLAPS

In(h, s) == \E i \in DOMAIN s : s[i] = h

\* The close callback of h is still to come, of those on the lists c and b.
Waits(h, c, b) == In(h, c) \/ In(h, b)

\* It comes once.
Once(c, b) ==
    /\ \A i, j \in DOMAIN c : c[i] = c[j] => i = j
    /\ \A i, j \in DOMAIN b : b[i] = b[j] => i = j
    /\ \A i \in DOMAIN c, j \in DOMAIN b : c[i] # b[j]

Queued(h) == Waits(h, closing, batch)

QueueInv(H) ==
    /\ closing \in Seq(H) /\ batch \in Seq(H)
    /\ phase # "closing" => batch = <<>>
    /\ Once(closing, batch)

\* Handles that are not queued, each of them once.
Fresh(s) == /\ \A i, j \in DOMAIN s : s[i] = s[j] => i = j
            /\ \A i \in DOMAIN s : ~Queued(s[i])

-----------------------------------------------------------------------------
(* Lists of handles. *)

\* The positions of two lists joined.
LEMMA Joined ==
    ASSUME NEW H, NEW s \in Seq(H), NEW t \in Seq(H)
    PROVE  /\ s \o t \in Seq(H) /\ Len(s) \in Nat
           /\ \A i \in DOMAIN (s \o t) :
                /\ i \in Int
                /\ \/ i \in DOMAIN s /\ (s \o t)[i] = s[i]
                   \/ i - Len(s) \in DOMAIN t /\ (s \o t)[i] = t[i - Len(s)]
           /\ \A i \in DOMAIN s : i \in DOMAIN (s \o t) /\ (s \o t)[i] = s[i]
           /\ \A i \in DOMAIN t : i + Len(s) \in DOMAIN (s \o t) /\ (s \o t)[i + Len(s)] = t[i]
OBVIOUS

LEMMA JoinedPair ==
    ASSUME NEW H, NEW x \in H, NEW y \in H
    PROVE  <<x>> \o <<y>> = <<x, y>>
<1> DEFINE s == <<x>> \o <<y>>
<1>1. <<x>> \in Seq(H) /\ <<y>> \in Seq(H) /\ <<x, y>> \in Seq(H)
  OBVIOUS
<1>2. s \in Seq(H) /\ Len(s) = 2 /\ s[1] = x /\ s[2] = y
  BY <1>1
<1> HIDE DEF s
<1>3. \A i \in 1..Len(s) : s[i] = <<x, y>>[i]
  BY <1>2
<1> QED BY <1>1, <1>2, <1>3, SeqEqual DEF s

\* What is left of a list without its head.
LEMMA Rest ==
    ASSUME NEW H, NEW s \in Seq(H), s # <<>>
    PROVE  /\ Tail(s) \in Seq(H) /\ 1 \in DOMAIN s /\ Head(s) = s[1]
           /\ \A i \in DOMAIN Tail(s) :
                i \in Nat \ {0} /\ i + 1 \in DOMAIN s /\ Tail(s)[i] = s[i + 1]
           /\ \A i \in DOMAIN s : i # 1 => i - 1 \in DOMAIN Tail(s) /\ Tail(s)[i - 1] = s[i]
OBVIOUS

\* Handles in front of the closing list.
LEMMA Put ==
    ASSUME NEW H, NEW c \in Seq(H), NEW b, NEW s \in Seq(H), Once(c, b),
           \A i, j \in DOMAIN s : s[i] = s[j] => i = j,
           \A i \in DOMAIN s : ~Waits(s[i], c, b)
    PROVE  /\ s \o c \in Seq(H) /\ Once(s \o c, b)
           /\ \A h : Waits(h, s \o c, b) <=> Waits(h, c, b) \/ In(h, s)
<1> DEFINE d == s \o c
<1>1. /\ d \in Seq(H) /\ Len(s) \in Nat
      /\ \A i \in DOMAIN d :
           /\ i \in Int
           /\ \/ i \in DOMAIN s /\ d[i] = s[i]
              \/ i - Len(s) \in DOMAIN c /\ d[i] = c[i - Len(s)]
      /\ \A i \in DOMAIN s : i \in DOMAIN d /\ d[i] = s[i]
      /\ \A i \in DOMAIN c : i + Len(s) \in DOMAIN d /\ d[i + Len(s)] = c[i]
  BY Joined
<1> HIDE DEF d
<1>2. \A h : Waits(h, d, b) <=> Waits(h, c, b) \/ In(h, s)
  BY <1>1 DEF Waits, In
<1>3. \A i \in DOMAIN s : /\ \A j \in DOMAIN c : s[i] # c[j]
                          /\ \A j \in DOMAIN b : s[i] # b[j]
  BY DEF Waits, In
<1>4. ASSUME NEW i \in DOMAIN d, NEW j \in DOMAIN d, d[i] = d[j]
      PROVE  i = j
  <2>1. CASE i \in DOMAIN s /\ d[i] = s[i]
    BY <2>1, <1>1, <1>3, <1>4
  <2>2. CASE i - Len(s) \in DOMAIN c /\ d[i] = c[i - Len(s)]
    <3>1. j - Len(s) \in DOMAIN c /\ d[j] = c[j - Len(s)]
      BY <2>2, <1>1, <1>3, <1>4
    <3>2. i - Len(s) = j - Len(s) /\ i \in Int /\ j \in Int
      BY <2>2, <3>1, <1>1, <1>4 DEF Once
    <3> QED BY <3>2, <1>1
  <2> QED BY <1>1, <2>1, <2>2
<1>5. \A i \in DOMAIN d, j \in DOMAIN b : d[i] # b[j]
  <2> SUFFICES ASSUME NEW i \in DOMAIN d, NEW j \in DOMAIN b PROVE d[i] # b[j]
    OBVIOUS
  <2>1. CASE i \in DOMAIN s /\ d[i] = s[i]
    BY <2>1, <1>3
  <2>2. CASE i - Len(s) \in DOMAIN c /\ d[i] = c[i - Len(s)]
    BY <2>2 DEF Once
  <2> QED BY <1>1, <2>1, <2>2
<1>6. Once(d, b)
  BY <1>4, <1>5 DEF Once
<1> QED BY <1>1, <1>2, <1>6 DEF d

\* The first handle of the batch taken.
LEMMA Taken ==
    ASSUME NEW H, NEW c \in Seq(H), NEW b \in Seq(H), Once(c, b), b # <<>>
    PROVE  /\ Tail(b) \in Seq(H) /\ Once(c, Tail(b))
           /\ Head(b) \in H /\ Waits(Head(b), c, b)
           /\ \A h : Waits(h, c, Tail(b)) <=> Waits(h, c, b) /\ h # Head(b)
<1> DEFINE t == Tail(b)
<1>1. /\ t \in Seq(H) /\ 1 \in DOMAIN b /\ Head(b) = b[1]
      /\ \A i \in DOMAIN t : i \in Nat \ {0} /\ i + 1 \in DOMAIN b /\ t[i] = b[i + 1]
      /\ \A i \in DOMAIN b : i # 1 => i - 1 \in DOMAIN t /\ t[i - 1] = b[i]
  BY Rest
<1> HIDE DEF t
<1>2. Head(b) \in H /\ Waits(Head(b), c, b)
  BY <1>1 DEF Waits, In
<1>3. \A i \in DOMAIN b : b[i] = Head(b) => i = 1
  BY <1>1 DEF Once
<1>4. \A i \in DOMAIN t : t[i] # Head(b)
  <2> SUFFICES ASSUME NEW i \in DOMAIN t, t[i] = Head(b) PROVE FALSE
    OBVIOUS
  <2>1. i + 1 = 1 /\ i \in Nat \ {0}
    BY <1>1, <1>3
  <2> QED BY <2>1
<1>5. \A i \in DOMAIN c : c[i] # Head(b)
  BY <1>1 DEF Once
<1>6. ASSUME NEW h PROVE Waits(h, c, t) <=> Waits(h, c, b) /\ h # Head(b)
  <2>1. Waits(h, c, t) => Waits(h, c, b) /\ h # Head(b)
    BY <1>1, <1>4, <1>5 DEF Waits, In
  <2>2. ASSUME Waits(h, c, b), h # Head(b) PROVE Waits(h, c, t)
    BY <1>1, <2>2 DEF Waits, In
  <2> QED BY <2>1, <2>2
<1>7. ASSUME NEW i \in DOMAIN t, NEW j \in DOMAIN t, t[i] = t[j]
      PROVE  i = j
  <2>1. i + 1 = j + 1 /\ i \in Nat /\ j \in Nat
    BY <1>1, <1>7 DEF Once
  <2> QED BY <2>1
<1>8. Once(c, t)
  BY <1>1, <1>7 DEF Once
<1> QED BY <1>1, <1>2, <1>6, <1>8 DEF t

-----------------------------------------------------------------------------
(* Steps of the loop. *)

\* uv_close of several handles.
LEMMA Closes ==
    ASSUME NEW H, QueueInv(H), NEW s \in Seq(H), Fresh(s),
           CloseHandles(s), phase' = phase, batch' = batch
    PROVE  /\ QueueInv(H)'
           /\ \A h : Queued(h)' <=> Queued(h) \/ In(h, s)
<1>1. /\ s \o closing \in Seq(H) /\ Once(s \o closing, batch)
      /\ \A h : Waits(h, s \o closing, batch) <=> Waits(h, closing, batch) \/ In(h, s)
  BY Put DEF QueueInv, Fresh, Queued
<1> QED BY <1>1 DEF QueueInv, Queued, CloseHandles

\* Nothing is closed.
LEMMA Stays ==
    ASSUME NEW H, QueueInv(H), closing' = closing, phase' = phase, batch' = batch
    PROVE  QueueInv(H)' /\ \A h : Queued(h)' <=> Queued(h)
BY DEF QueueInv, Queued

\* An iteration of the loop only moves the list.
LEMMA Iterates ==
    ASSUME NEW H, QueueInv(H), Iterate
    PROVE  QueueInv(H)' /\ \A h : Queued(h)' <=> Queued(h)
<1>1. <<>> \in Seq(H) /\ DOMAIN <<>> = {}
  OBVIOUS
<1>2. CASE RunClosing
  BY <1>1, <1>2 DEF QueueInv, Once, Waits, In, Queued, RunClosing
<1>3. CASE RunTimers
  BY <1>3 DEF QueueInv, Queued, RunTimers
<1>4. CASE RunPoll
  BY <1>4 DEF QueueInv, Queued, RunPoll
<1> QED BY <1>2, <1>3, <1>4 DEF Iterate

\* A close callback that closes other handles.
LEMMA TakesAndCloses ==
    ASSUME NEW H, QueueInv(H), NEW h, TakeClosed(h), phase' = phase,
           NEW s \in Seq(H), Fresh(s), CloseHandles(s)
    PROVE  /\ QueueInv(H)'
           /\ h \in H /\ Queued(h)
           /\ \A g : Queued(g)' <=> (Queued(g) /\ g # h) \/ In(g, s)
<1> DEFINE b == Tail(batch)
<1>1. /\ batch \in Seq(H) /\ batch # <<>> /\ batch' = b /\ h = Head(batch)
      /\ closing \in Seq(H) /\ closing' = s \o closing /\ phase = "closing"
      /\ Once(closing, batch)
  BY DEF TakeClosed, QueueInv, CloseHandles
<1>2. /\ b \in Seq(H) /\ Once(closing, b) /\ h \in H /\ Waits(h, closing, batch)
      /\ \A g : Waits(g, closing, b) <=> Waits(g, closing, batch) /\ g # h
  BY <1>1, Taken
<1> HIDE DEF b
<1>3. /\ \A i, j \in DOMAIN s : s[i] = s[j] => i = j
      /\ \A i \in DOMAIN s : ~Waits(s[i], closing, b)
  BY <1>2 DEF Fresh, Queued
<1>4. /\ s \o closing \in Seq(H) /\ Once(s \o closing, b)
      /\ \A g : Waits(g, s \o closing, b) <=> Waits(g, closing, b) \/ In(g, s)
  BY <1>1, <1>2, <1>3, Put
<1>5. QueueInv(H)'
  BY <1>1, <1>2, <1>4 DEF QueueInv
<1>6. \A g : Queued(g)' <=> (Queued(g) /\ g # h) \/ In(g, s)
  BY <1>1, <1>2, <1>4 DEF Queued
<1> QED BY <1>2, <1>5, <1>6 DEF Queued

\* One that closes nothing.
LEMMA Takes ==
    ASSUME NEW H, QueueInv(H), NEW h, TakeClosed(h), phase' = phase, closing' = closing
    PROVE  /\ QueueInv(H)'
           /\ h \in H /\ Queued(h)
           /\ \A g : Queued(g)' <=> Queued(g) /\ g # h
<1>1. <<>> \in Seq(H) /\ Fresh(<<>>) /\ \A g : ~In(g, <<>>)
  BY DEF Fresh, In
<1>2. CloseHandles(<<>>)
  BY DEF CloseHandles, QueueInv
<1> QED BY <1>1, <1>2, TakesAndCloses
=============================================================================
