----------------------------- MODULE PartsProofs -----------------------------
(***************************************************************************)
(* Proofs about the parts that are called and never wait.                  *)
(*                                                                         *)
(* Config, for a config of any size and nesting: a name is one app, those  *)
(* that refer to it see its last definition, and no two apps share a       *)
(* checker.  What makes it inductive is that app_map and the names of the  *)
(* Apps are inverse to each other, and that the checkers of the            *)
(* definitions still open belong to no App yet.                            *)
(*                                                                         *)
(* ConfigSections, for any number of keys in any order: each field holds   *)
(* what was said last, a list all that was said.                           *)
(*                                                                         *)
(* StringBuffer, whatever is called in whichever order, and whenever       *)
(* realloc fails: the buffer holds what was written, within its block, and *)
(* nothing behind it; for every unit of growth, every limit and text.      *)
(*                                                                         *)
(* Nexer, for every list of servers: Nexer::Close goes through servers     *)
(* that are there.                                                         *)
(*                                                                         *)
(* Timer, for every interval and resolution and clocks of any distance:    *)
(* which ticks are told while nobody sets the wall clock.                  *)
(*                                                                         *)
(* Logger, for every sequence of entries, levels and files: each entry     *)
(* that is due has its line, at its place.                                 *)
(*                                                                         *)
(* MemoryPool, for any number of blocks and any order of calls: the        *)
(* invariant is that there is an order of the blocks of each list which    *)
(* its links follow.                                                       *)
(*                                                                         *)
(* Url, for all texts put together from texts of bytes: what is read out   *)
(* of a url, a query and an escaped text is what was written into it.  The *)
(* recursions (the fold over a query, decoding, flattening) are followed   *)
(* step by step: some function is what the definition says, so the chosen  *)
(* one is.                                                                 *)
(***************************************************************************)
EXTENDS Parts, SequenceTheorems, FiniteSetTheorems, WellFoundedInduction, TLAPS

-----------------------------------------------------------------------------
(* Config: the registry of apps. *)

App == [name : Name \cup {Anonymous}, preamble : Seq(Nat), checker : Nat]

\* app_map leads to the App of a name and to nothing else.
Registry(made, map) ==
    /\ made \in Seq(App)
    /\ DOMAIN map \subseteq Name
    /\ \A n \in DOMAIN map : map[n] \in 1..Len(made) /\ made[map[n]].name = n
    /\ \A i \in 1..Len(made) :
          made[i].name # Anonymous => made[i].name \in DOMAIN map /\ map[made[i].name] = i

\* The checkers made so far are each held once, by an App or an open definition.
HeldOnce(s, t) ==
    \A i \in 1..Len(s), j \in 1..Len(t) :
        s[i].checker = t[j].checker => s[i].checker = NoChecker
Distinct(s) ==
    \A i, j \in 1..Len(s) :
        s[i].checker = s[j].checker => s[i].checker = NoChecker \/ i = j
UpTo(s, n) == \A i \in 1..Len(s) : s[i].checker <= n

Checkers ==
    /\ checkers \in Nat
    /\ UpTo(apps, checkers) /\ UpTo(open, checkers)
    /\ Distinct(apps) /\ Distinct(open) /\ HeldOnce(apps, open)

ConfigInv ==
    /\ Registry(apps, app_map) /\ open \in Seq(App)
    /\ ReferencesSeeDefinition
    /\ Checkers

-----------------------------------------------------------------------------
(* What the helpers of the parser leave. *)

\* Whoever asked for the app gets its pointer, and keeps name and checker.
LEMMA DeliverKeeps ==
    ASSUME NEW f \in Seq(App), NEW p \in Nat
    PROVE  /\ Deliver(f, p) \in Seq(App) /\ Len(Deliver(f, p)) = Len(f)
           /\ \A i \in 1..Len(f) : Deliver(f, p)[i].checker = f[i].checker
<1>1. CASE f = <<>>
  BY <1>1 DEF Deliver
<1>2. CASE f # <<>>
  <2> DEFINE d == [f EXCEPT ![1].preamble = Append(@, p)]
  <2>1. Deliver(f, p) = d /\ 1 \in 1..Len(f) /\ f[1] \in App
    BY <1>2 DEF Deliver
  <2>2. Append(f[1].preamble, p) \in Seq(Nat)
    BY <2>1 DEF App
  <2>3. [f[1] EXCEPT !.preamble = Append(@, p)] \in App
    BY <2>1, <2>2 DEF App
  <2>4. d = [f EXCEPT ![1] = [f[1] EXCEPT !.preamble = Append(@, p)]]
    OBVIOUS
  <2>5. d \in Seq(App) /\ Len(d) = Len(f)
    BY <2>1, <2>3, <2>4
  <2>6. ASSUME NEW i \in 1..Len(f) PROVE d[i].checker = f[i].checker
    <3>1. f[i] \in App
      OBVIOUS
    <3> QED BY <2>1, <2>4, <3>1 DEF App
  <2> QED BY <2>1, <2>5, <2>6
<1> QED BY <1>1, <1>2

\* GetApp gives the App of the name, which it makes when there is none.
LEMMA GetAppFinds ==
    ASSUME Registry(apps, app_map), NEW n \in Name \cup {Anonymous}
    PROVE  LET found == GetApp(n) IN
           /\ Registry(found.apps, found.map)
           /\ found.app \in 1..Len(found.apps) /\ found.apps[found.app].name = n
           /\ n # Anonymous => n \in DOMAIN found.map /\ found.map[n] = found.app
           /\ Len(apps) <= Len(found.apps)
           /\ \A i \in 1..Len(apps) : found.apps[i] = apps[i]
           /\ \A i \in 1..Len(found.apps) :
                 i \notin 1..Len(apps) => found.apps[i].checker = NoChecker /\ i = found.app
           /\ \A m \in DOMAIN app_map : m \in DOMAIN found.map /\ found.map[m] = app_map[m]
<1> DEFINE found == GetApp(n)
<1>1. CASE n \in DOMAIN app_map
  <2>1. found = [app |-> app_map[n], apps |-> apps, map |-> app_map]
    BY <1>1 DEF GetApp
  <2> QED BY <1>1, <2>1 DEF Registry
<1>2. CASE n \notin DOMAIN app_map
  <2> DEFINE p == Len(apps) + 1
             made == Append(apps, NewApp(n))
             map == IF n = Anonymous THEN app_map
                    ELSE [m \in DOMAIN app_map \cup {n} |-> IF m = n THEN p ELSE app_map[m]]
  <2>1. found.app = p /\ found.apps = made /\ found.map = map
    BY <1>2 DEF GetApp
  <2>2. NewApp(n) \in App /\ NewApp(n).name = n /\ NewApp(n).checker = NoChecker
    BY DEF NewApp, App, NoChecker
  <2>3. apps \in Seq(App) /\ Len(apps) \in Nat
    BY DEF Registry
  <2>4. made \in Seq(App) /\ Len(made) = p /\ made[p] = NewApp(n)
    BY <2>2, <2>3
  <2>5. \A i \in 1..Len(apps) : made[i] = apps[i]
    BY <2>2, <2>3
  <2>6. \A m \in DOMAIN app_map : m \in DOMAIN map /\ map[m] = app_map[m]
    BY <1>2
  <2>7. n # Anonymous => n \in DOMAIN map /\ map[n] = p
    OBVIOUS
  <2>8. DOMAIN map \subseteq Name
    BY DEF Registry
  <2>9. ASSUME NEW m \in DOMAIN map PROVE map[m] \in 1..Len(made) /\ made[map[m]].name = m
    <3>1. CASE m \in DOMAIN app_map
      <4>1. app_map[m] \in 1..Len(apps) /\ apps[app_map[m]].name = m
        BY <3>1 DEF Registry
      <4> QED BY <3>1, <4>1, <2>3, <2>4, <2>5, <2>6
    <3>2. CASE m \notin DOMAIN app_map
      <4>1. m = n /\ map[m] = p
        BY <3>2, <2>9
      <4> QED BY <4>1, <2>2, <2>3, <2>4
    <3> QED BY <3>1, <3>2
  <2>10. ASSUME NEW i \in 1..Len(made), made[i].name # Anonymous
         PROVE  made[i].name \in DOMAIN map /\ map[made[i].name] = i
    <3>1. CASE i \in 1..Len(apps)
      <4>1. apps[i].name \in DOMAIN app_map /\ app_map[apps[i].name] = i
        BY <3>1, <2>10, <2>5 DEF Registry
      <4> QED BY <3>1, <4>1, <2>5, <2>6
    <3>2. CASE i \notin 1..Len(apps)
      <4>1. i = p
        BY <3>2, <2>3, <2>4
      <4>2. made[i].name = n
        BY <4>1, <2>2, <2>4
      <4> QED BY <4>1, <4>2, <2>10, <2>7
    <3> QED BY <3>1, <3>2
  <2>11. Registry(made, map)
    BY <2>4, <2>8, <2>9, <2>10 DEF Registry
  <2>12. \A i \in 1..Len(made) : i \notin 1..Len(apps) => made[i].checker = NoChecker /\ i = p
    BY <2>2, <2>3, <2>4
  <2>13. p \in 1..Len(made) /\ made[p].name = n /\ Len(apps) <= Len(made)
    BY <2>2, <2>3, <2>4
  <2> HIDE DEF found, p, made, map
  <2> QED BY <2>1, <2>5, <2>6, <2>7, <2>11, <2>12, <2>13 DEF found
<1> QED BY <1>1, <1>2

\* An App may be defined anew by its own name.
LEMMA MoveKeepsRegistry ==
    ASSUME NEW made \in Seq(App), NEW map, Registry(made, map),
           NEW p \in 1..Len(made), NEW r \in App, made[p].name = r.name
    PROVE  LET moved == [made EXCEPT ![p] = r] IN
           /\ Registry(moved, map) /\ Len(moved) = Len(made) /\ moved[p] = r
           /\ \A i \in 1..Len(made) : i # p => moved[i] = made[i]
<1> DEFINE moved == [made EXCEPT ![p] = r]
<1>1. moved \in Seq(App) /\ Len(moved) = Len(made) /\ moved[p] = r
  <2>1. p \in DOMAIN made /\ DOMAIN made = 1..Len(made) /\ Len(made) \in Nat
    OBVIOUS
  <2>2. DOMAIN moved = 1..Len(made) /\ moved[p] = r
    BY <2>1
  <2>3. \A i \in 1..Len(made) : moved[i] \in App
    BY <2>1
  <2>4. moved \in Seq(App)
    BY <2>1, <2>2, <2>3
  <2>5. Len(moved) = Len(made)
    BY <2>1, <2>2, <2>4
  <2> QED BY <2>2, <2>4, <2>5
<1>2. \A i \in 1..Len(made) : i # p => moved[i] = made[i]
  OBVIOUS
<1>3. \A i \in 1..Len(made) : moved[i].name = made[i].name
  BY <1>1, <1>2
<1> HIDE DEF moved
<1>4. Registry(moved, map)
  BY <1>1, <1>3 DEF Registry
<1> QED BY <1>1, <1>2, <1>4 DEF moved

-----------------------------------------------------------------------------
(* Every step keeps the invariant. *)

LEMMA ConfigInitHolds == ConfigInit => ConfigInv
BY DEF ConfigInit, ConfigInv, Registry, ReferencesSeeDefinition, Checkers, UpTo, Distinct,
       HeldOnce

\* What is done to an open definition but to give it a checker.
LEMMA OpenKeepsCheckers ==
    ASSUME Checkers, open \in Seq(App), open' \in Seq(App), Len(open') = Len(open),
           \A i \in 1..Len(open) : open'[i].checker = open[i].checker,
           UNCHANGED <<apps, checkers>>
    PROVE  Checkers'
BY DEF Checkers, UpTo, Distinct, HeldOnce

LEMMA ReferKeeps ==
    ASSUME ConfigInv, NEW n \in Name, Refer(n)
    PROVE  ConfigInv'
<1> DEFINE found == GetApp(n)
<1>1. apps' = found.apps /\ app_map' = found.map /\ open' = Deliver(open, found.app)
      /\ checkers' = checkers /\ last' = last
  BY DEF Refer
<1>2. Registry(apps, app_map) /\ open \in Seq(App) /\ apps \in Seq(App)
  BY DEF ConfigInv, Registry
<1>3. /\ Registry(found.apps, found.map) /\ found.app \in 1..Len(found.apps)
      /\ Len(apps) <= Len(found.apps)
      /\ \A i \in 1..Len(apps) : found.apps[i] = apps[i]
      /\ \A i \in 1..Len(found.apps) :
            i \notin 1..Len(apps) => found.apps[i].checker = NoChecker /\ i = found.app
      /\ \A m \in DOMAIN app_map : m \in DOMAIN found.map /\ found.map[m] = app_map[m]
  BY <1>2, GetAppFinds
<1> HIDE DEF found
<1>4. Registry(apps', app_map')
  BY <1>1, <1>3
<1>5. open' \in Seq(App) /\ Len(open') = Len(open)
      /\ \A i \in 1..Len(open) : open'[i].checker = open[i].checker
  BY <1>1, <1>2, <1>3, DeliverKeeps
<1>6. ReferencesSeeDefinition'
  <2> SUFFICES ASSUME NEW m \in DOMAIN last
               PROVE  m \in DOMAIN app_map' /\ apps'[app_map'[m]] = last[m]
    BY <1>1 DEF ReferencesSeeDefinition
  <2>1. m \in DOMAIN app_map /\ apps[app_map[m]] = last[m]
    BY DEF ConfigInv, ReferencesSeeDefinition
  <2>2. app_map[m] \in 1..Len(apps)
    BY <2>1, <1>2 DEF Registry
  <2> QED BY <2>1, <2>2, <1>1, <1>3
<1>7. \A i \in 1..Len(apps') :
         \/ i \in 1..Len(apps) /\ apps'[i] = apps[i]
         \/ apps'[i].checker = NoChecker /\ i = found.app /\ i \notin 1..Len(apps)
  BY <1>1, <1>3
<1>8. Checkers'
  <2>1. Checkers
    BY DEF ConfigInv
  <2>2. UpTo(apps', checkers)
    BY <1>7, <2>1 DEF Checkers, UpTo, NoChecker
  <2>3. Distinct(apps')
    BY <1>7, <2>1 DEF Checkers, Distinct
  <2>4. HeldOnce(apps', open')
    BY <1>5, <1>7, <2>1 DEF Checkers, HeldOnce
  <2>5. UpTo(open', checkers) /\ Distinct(open')
    BY <1>5, <2>1 DEF Checkers, UpTo, Distinct
  <2> QED BY <1>1, <2>1, <2>2, <2>3, <2>4, <2>5 DEF Checkers, UpTo, Distinct, HeldOnce
<1> QED BY <1>4, <1>5, <1>6, <1>8 DEF ConfigInv

LEMMA BeginKeeps ==
    ASSUME ConfigInv, Begin
    PROVE  ConfigInv'
<1> DEFINE new == NewApp(Anonymous)
<1>1. open' = <<new>> \o open /\ UNCHANGED <<apps, app_map, checkers, last>>
  BY DEF Begin
<1>2. new \in App /\ new.checker = NoChecker /\ open \in Seq(App)
  BY DEF NewApp, App, NoChecker, ConfigInv
<1> HIDE DEF new
<1>3. open' \in Seq(App) /\ Len(open') = Len(open) + 1 /\ open'[1] = new
      /\ \A i \in 1..Len(open') : i # 1 => i - 1 \in 1..Len(open) /\ open'[i] = open[i - 1]
  BY <1>1, <1>2
<1>4. Checkers
  BY DEF ConfigInv
<1>5. UpTo(open', checkers)
  BY <1>2, <1>3, <1>4 DEF Checkers, UpTo, NoChecker
<1>6. Distinct(open')
  <2> SUFFICES ASSUME NEW i \in 1..Len(open'), NEW j \in 1..Len(open'),
                      open'[i].checker = open'[j].checker
               PROVE  open'[i].checker = NoChecker \/ i = j
    BY DEF Distinct
  <2>1. CASE i = 1 \/ j = 1
    BY <2>1, <1>2, <1>3
  <2>2. CASE i # 1 /\ j # 1
    <3>1. open[i - 1].checker = NoChecker \/ i - 1 = j - 1
      BY <2>2, <1>3, <1>4 DEF Checkers, Distinct
    <3> QED BY <2>2, <3>1, <1>2, <1>3
  <2> QED BY <2>1, <2>2
<1>7. HeldOnce(apps, open')
  <2> SUFFICES ASSUME NEW i \in 1..Len(apps), NEW j \in 1..Len(open'),
                      apps[i].checker = open'[j].checker
               PROVE  apps[i].checker = NoChecker
    BY DEF HeldOnce
  <2> QED BY <1>2, <1>3, <1>4 DEF Checkers, HeldOnce
<1>8. Checkers'
  BY <1>1, <1>4, <1>5, <1>6, <1>7 DEF Checkers, UpTo, Distinct, HeldOnce
<1> QED BY <1>1, <1>3, <1>8 DEF ConfigInv, Registry, ReferencesSeeDefinition

LEMMA NameIsKeeps ==
    ASSUME ConfigInv, NEW n \in Name, NameIs(n)
    PROVE  ConfigInv'
<1>1. open' = [open EXCEPT ![1].name = n] /\ UNCHANGED <<apps, app_map, checkers, last>>
      /\ open \in Seq(App) /\ 1 \in 1..Len(open)
  BY DEF NameIs, ConfigInv
<1>2. open' = [open EXCEPT ![1] = [open[1] EXCEPT !.name = n]]
  BY <1>1
<1>3. open[1] \in App
  BY <1>1
<1>4. [open[1] EXCEPT !.name = n] \in App /\ [open[1] EXCEPT !.name = n].checker = open[1].checker
  BY <1>3 DEF App
<1>5. open' \in Seq(App) /\ Len(open') = Len(open)
      /\ \A i \in 1..Len(open) : open'[i].checker = open[i].checker
  BY <1>1, <1>2, <1>4
<1>6. Checkers'
  BY <1>1, <1>5, OpenKeepsCheckers DEF ConfigInv
<1> QED BY <1>1, <1>5, <1>6 DEF ConfigInv, Registry, ReferencesSeeDefinition

\* The checker is one that nobody has.
LEMMA CheckerIsKeeps ==
    ASSUME ConfigInv, CheckerIs
    PROVE  ConfigInv'
<1> DEFINE c == checkers + 1
<1>1. open' = [open EXCEPT ![1].checker = c] /\ checkers' = c /\ UNCHANGED <<apps, app_map, last>>
      /\ open \in Seq(App) /\ 1 \in 1..Len(open)
  BY DEF CheckerIs, ConfigInv
<1>2. Checkers /\ checkers \in Nat /\ c \in Nat /\ c > checkers /\ c # NoChecker
  BY DEF ConfigInv, Checkers, NoChecker
<1>3. apps \in Seq(App)
  BY DEF ConfigInv, Registry
<1>4. open' = [open EXCEPT ![1] = [open[1] EXCEPT !.checker = c]]
  BY <1>1
<1>5. [open[1] EXCEPT !.checker = c] \in App /\ [open[1] EXCEPT !.checker = c].checker = c
  <2>1. open[1] \in App
    BY <1>1
  <2> QED BY <2>1, <1>2 DEF App
<1> HIDE DEF c
<1>6. open' \in Seq(App) /\ Len(open') = Len(open) /\ open'[1].checker = c
      /\ \A i \in 1..Len(open) : i # 1 => open'[i] = open[i]
  BY <1>1, <1>4, <1>5
<1>7. \A i \in 1..Len(apps) : apps[i].checker \in Nat
  <2>1. \A i \in 1..Len(apps) : apps[i] \in App
    BY <1>3
  <2> QED BY <2>1 DEF App
<1>8. \A i \in 1..Len(open) : open[i].checker \in Nat
  <2>1. \A i \in 1..Len(open) : open[i] \in App
    BY <1>1
  <2> QED BY <2>1 DEF App
<1>9. UpTo(apps, c) /\ UpTo(open', c)
  BY <1>2, <1>6, <1>7, <1>8 DEF Checkers, UpTo
<1>10. Distinct(open')
  BY <1>2, <1>6, <1>8 DEF Checkers, UpTo, Distinct
<1>11. HeldOnce(apps, open')
  BY <1>2, <1>6, <1>7 DEF Checkers, UpTo, HeldOnce
<1>12. Checkers'
  BY <1>1, <1>2, <1>9, <1>10, <1>11 DEF Checkers, UpTo, Distinct, HeldOnce
<1> QED BY <1>1, <1>6, <1>12 DEF ConfigInv, Registry, ReferencesSeeDefinition

\* The definition moves to its App, with the checker it holds.
LEMMA EndKeeps ==
    ASSUME ConfigInv, End
    PROVE  ConfigInv'
<1> DEFINE tmp == Head(open)
           n == tmp.name
           found == GetApp(n)
           p == found.app
           rest == Tail(open)
           moved == [found.apps EXCEPT ![p] = tmp]
<1>1. /\ open \in Seq(App) /\ open # <<>> /\ apps' = moved /\ app_map' = found.map
      /\ open' = Deliver(rest, p) /\ checkers' = checkers
      /\ last' = IF n = Anonymous THEN last
                 ELSE [m \in DOMAIN last \cup {n} |-> IF m = n THEN tmp ELSE last[m]]
  BY DEF End, ConfigInv
<1>2. tmp \in App /\ tmp = open[1] /\ 1 \in 1..Len(open) /\ n \in Name \cup {Anonymous}
  <2>1. tmp = open[1] /\ 1 \in 1..Len(open)
    BY <1>1
  <2>2. open[1] \in App
    BY <1>1, <2>1
  <2> QED BY <2>1, <2>2 DEF App
<1>3. rest \in Seq(App) /\ Len(rest) = Len(open) - 1
      /\ \A i \in 1..Len(rest) : i + 1 \in 1..Len(open) /\ rest[i] = open[i + 1]
  BY <1>1
<1>4. Registry(apps, app_map) /\ apps \in Seq(App)
  BY DEF ConfigInv, Registry
<1> HIDE DEF tmp, rest
<1>5. /\ Registry(found.apps, found.map) /\ p \in 1..Len(found.apps) /\ found.apps[p].name = n
      /\ n # Anonymous => n \in DOMAIN found.map /\ found.map[n] = p
      /\ Len(apps) <= Len(found.apps)
      /\ \A i \in 1..Len(apps) : found.apps[i] = apps[i]
      /\ \A i \in 1..Len(found.apps) :
            i \notin 1..Len(apps) => found.apps[i].checker = NoChecker /\ i = p
      /\ \A m \in DOMAIN app_map : m \in DOMAIN found.map /\ found.map[m] = app_map[m]
  BY <1>2, <1>4, GetAppFinds
<1> HIDE DEF found, n, p
<1>6. /\ Registry(moved, found.map) /\ Len(moved) = Len(found.apps) /\ moved[p] = tmp
      /\ \A i \in 1..Len(found.apps) : i # p => moved[i] = found.apps[i]
  <2>1. found.apps[p].name = tmp.name /\ found.apps \in Seq(App)
    BY <1>5 DEF n, Registry
  <2> QED BY <1>2, <1>5, <2>1, MoveKeepsRegistry
<1> HIDE DEF moved
<1>7. p \in Nat
  <2>1. Len(found.apps) \in Nat
    BY <1>5 DEF Registry
  <2> QED BY <1>5, <2>1
<1>8. open' \in Seq(App) /\ Len(open') = Len(rest)
      /\ \A i \in 1..Len(rest) : open'[i].checker = rest[i].checker
  BY <1>1, <1>3, <1>7, DeliverKeeps
<1>9. ReferencesSeeDefinition'
  <2> SUFFICES ASSUME NEW m \in DOMAIN last'
               PROVE  m \in DOMAIN app_map' /\ apps'[app_map'[m]] = last'[m]
    BY DEF ReferencesSeeDefinition
  <2>1. CASE m = n /\ n # Anonymous
    <3>1. last'[m] = tmp
      BY <2>1, <1>1
    <3> QED BY <2>1, <3>1, <1>1, <1>5, <1>6
  <2>2. CASE ~(m = n /\ n # Anonymous)
    <3>1. m \in DOMAIN last /\ last'[m] = last[m]
      BY <2>2, <1>1
    <3>2. m \in DOMAIN app_map /\ apps[app_map[m]] = last[m]
      BY <3>1 DEF ConfigInv, ReferencesSeeDefinition
    <3>3. app_map[m] \in 1..Len(apps) /\ apps[app_map[m]].name = m /\ m \in Name
      BY <3>2, <1>4 DEF Registry
    <3>4. m # n
      BY <2>2, <3>3, ConfigAssumption
    <3>5. app_map[m] \in 1..Len(found.apps) /\ found.apps[app_map[m]] = apps[app_map[m]]
      <4>1. found.map[m] = app_map[m] /\ m \in DOMAIN found.map
        BY <3>2, <1>5
      <4> QED BY <3>3, <4>1, <1>5 DEF Registry
    <3>6. app_map[m] # p
      BY <3>3, <3>4, <3>5, <1>5
    <3> QED BY <3>1, <3>2, <3>5, <3>6, <1>1, <1>5, <1>6
  <2> QED BY <2>1, <2>2
<1>10. \A i \in 1..Len(moved) :
          \/ i = p /\ moved[i].checker = open[1].checker
          \/ i # p /\ i \in 1..Len(apps) /\ moved[i] = apps[i]
  BY <1>2, <1>5, <1>6
<1>11. \A i \in 1..Len(open') :
          i + 1 \in 1..Len(open) /\ i + 1 # 1 /\ open'[i].checker = open[i + 1].checker
  BY <1>3, <1>8
<1>12. Checkers /\ Len(open) \in Nat
  BY <1>1 DEF ConfigInv
<1>13. UpTo(moved, checkers) /\ UpTo(open', checkers)
  BY <1>2, <1>10, <1>11, <1>12 DEF Checkers, UpTo
<1>14. Distinct(moved)
  <2> SUFFICES ASSUME NEW i \in 1..Len(moved), NEW j \in 1..Len(moved),
                      moved[i].checker = moved[j].checker
               PROVE  moved[i].checker = NoChecker \/ i = j
    BY DEF Distinct
  <2>1. CASE i # p /\ j # p
    BY <2>1, <1>10, <1>12 DEF Checkers, Distinct
  <2>2. CASE i = p /\ j # p
    BY <2>2, <1>2, <1>10, <1>12 DEF Checkers, HeldOnce
  <2>3. CASE i # p /\ j = p
    BY <2>3, <1>2, <1>10, <1>12 DEF Checkers, HeldOnce
  <2> QED BY <2>1, <2>2, <2>3
<1>15. Distinct(open')
  <2> SUFFICES ASSUME NEW i \in 1..Len(open'), NEW j \in 1..Len(open'),
                      open'[i].checker = open'[j].checker
               PROVE  open'[i].checker = NoChecker \/ i = j
    BY DEF Distinct
  <2>1. open[i + 1].checker = NoChecker \/ i + 1 = j + 1
    BY <1>11, <1>12 DEF Checkers, Distinct
  <2>2. open' \in Seq(App)
    BY <1>8
  <2> QED BY <2>1, <2>2, <1>11
<1>16. HeldOnce(moved, open')
  <2> SUFFICES ASSUME NEW i \in 1..Len(moved), NEW j \in 1..Len(open'),
                      moved[i].checker = open'[j].checker
               PROVE  moved[i].checker = NoChecker
    BY DEF HeldOnce
  <2>1. CASE i = p
    <3>1. open[1].checker = open[j + 1].checker
      BY <2>1, <1>10, <1>11
    <3> QED BY <3>1, <2>1, <1>2, <1>10, <1>11, <1>12 DEF Checkers, Distinct
  <2>2. CASE i # p
    BY <2>2, <1>10, <1>11, <1>12 DEF Checkers, HeldOnce
  <2> QED BY <2>1, <2>2
<1>17. Checkers'
  BY <1>1, <1>12, <1>13, <1>14, <1>15, <1>16 DEF Checkers, UpTo, Distinct, HeldOnce
<1> QED BY <1>1, <1>6, <1>8, <1>9, <1>17 DEF ConfigInv

LEMMA FailKeeps ==
    ASSUME ConfigInv, Fail
    PROVE  ConfigInv'
<1>1. open' = <<>> /\ UNCHANGED <<apps, app_map, checkers, last>>
  BY DEF Fail
<1>2. Checkers'
  BY <1>1 DEF ConfigInv, Checkers, UpTo, Distinct, HeldOnce
<1> QED BY <1>1, <1>2 DEF ConfigInv, Registry, ReferencesSeeDefinition

LEMMA ConfigStepKeeps == ConfigInv /\ [ConfigNext]_configVars => ConfigInv'
<1> SUFFICES ASSUME ConfigInv, [ConfigNext]_configVars PROVE ConfigInv'
  OBVIOUS
<1>1. ASSUME NEW n \in Name, Refer(n) PROVE ConfigInv'
  BY <1>1, ReferKeeps
<1>2. ASSUME NEW n \in Name, NameIs(n) PROVE ConfigInv'
  BY <1>2, NameIsKeeps
<1>3. CASE Begin
  BY <1>3, BeginKeeps
<1>4. CASE CheckerIs
  BY <1>4, CheckerIsKeeps
<1>5. CASE End
  BY <1>5, EndKeeps
<1>6. CASE Fail
  BY <1>6, FailKeeps
<1>7. CASE Succeed \/ UNCHANGED configVars
  BY <1>7 DEF Succeed, configVars, ConfigInv, Registry, ReferencesSeeDefinition, Checkers, UpTo,
              Distinct, HeldOnce
<1> QED BY <1>1, <1>2, <1>3, <1>4, <1>5, <1>6, <1>7 DEF ConfigNext

-----------------------------------------------------------------------------
(* The results. *)

LEMMA Inductive == ConfigSpec => []ConfigInv
BY ConfigInitHolds, ConfigStepKeeps, PTL DEF ConfigSpec

\* A name is one App, and whoever refers to it, before or after it is
\* defined, sees its last definition (ParseApp and GetApp, config.cc:223-243).
THEOREM NamesAlwaysApps == ConfigSpec => []NamesAreApps
<1>1. ConfigInv => NamesAreApps
  <2> SUFFICES ASSUME ConfigInv PROVE NamesAreApps
    OBVIOUS
  <2>1. DOMAIN apps = 1..Len(apps)
    BY DEF ConfigInv, Registry
  <2> QED BY <2>1 DEF ConfigInv, Registry, NamesAreApps, OneAppPerName
<1> QED BY <1>1, Inductive, PTL

\* ~Config deletes the checkers of its apps, each one once.
THEOREM CheckersNeverShared == ConfigSpec => []CheckersNotShared
<1>1. ConfigInv => CheckersNotShared
  <2> SUFFICES ASSUME ConfigInv PROVE CheckersNotShared
    OBVIOUS
  <2>1. DOMAIN apps = 1..Len(apps)
    BY DEF ConfigInv, Registry
  <2> QED BY <2>1 DEF ConfigInv, Checkers, Distinct, CheckersNotShared
<1> QED BY <1>1, Inductive, PTL

-----------------------------------------------------------------------------
(* ConfigSections: what the fields hold. *)

KeysOf(s) == DOMAIN Keys[s]

SectionsInv ==
    /\ section \in DOMAIN Keys
    /\ DOMAIN said = KeysOf(section) /\ DOMAIN fields = KeysOf(section)
    /\ \A key \in KeysOf(section) : said[key] \in Seq(Value) /\ fields[key] \in Seq(Value)
    /\ FieldsAreAsSaid

\* What a field holds after one more value of its key.
FieldIsAsSaid(parse, field, values) ==
    \/ parse = "strings" /\ field = values
    \/ parse # "strings" /\ field = <<>> /\ \A i \in DOMAIN values : NotUsed(parse, values[i])
    \/ /\ parse # "strings"
       /\ \E i \in DOMAIN values :
             /\ field = <<values[i]>> /\ ~NotUsed(parse, values[i])
             /\ \A j \in DOMAIN values : j > i => NotUsed(parse, values[j])

LEMMA SetKeeps ==
    ASSUME NEW parse, NEW field \in Seq(Value), NEW values \in Seq(Value), NEW v \in Value,
           FieldIsAsSaid(parse, field, values), v \in Accepted(parse)
    PROVE  FieldIsAsSaid(parse, Set(parse, field, v), Append(values, v))
<1> DEFINE more == Append(values, v)
           n == Len(values)
<1>1. /\ n \in Nat /\ DOMAIN values = 1..n /\ DOMAIN more = 1..(n + 1)
      /\ more[n + 1] = v /\ \A i \in 1..n : more[i] = values[i]
  OBVIOUS
<1>2. CASE parse = "strings"
  BY <1>2 DEF FieldIsAsSaid, Set
<1>3. ASSUME parse # "strings"
      PROVE  Set(parse, field, v) = IF NotUsed(parse, v) THEN field ELSE <<v>>
  <2>1. CASE parse = "level"
    BY <2>1 DEF Set, ParseLevel, NotUsed
  <2>2. CASE parse = "type"
    BY <2>2 DEF Set, ParseType, NotUsed
  <2>3. CASE parse # "level" /\ parse # "type"
    BY <1>3, <2>3 DEF Set, NotUsed
  <2> QED BY <2>1, <2>2, <2>3
<1>4. CASE parse # "strings" /\ NotUsed(parse, v)
  <2>1. Set(parse, field, v) = field
    BY <1>3, <1>4
  <2>2. CASE field = <<>> /\ \A i \in DOMAIN values : NotUsed(parse, values[i])
    <3>1. \A i \in DOMAIN more : NotUsed(parse, more[i])
      BY <1>1, <1>4, <2>2
    <3> QED BY <1>4, <2>1, <2>2, <3>1 DEF FieldIsAsSaid
  <2>3. ASSUME NEW i \in DOMAIN values,
               field = <<values[i]>> /\ ~NotUsed(parse, values[i]),
               \A j \in DOMAIN values : j > i => NotUsed(parse, values[j])
        PROVE  FieldIsAsSaid(parse, Set(parse, field, v), more)
    <3>1. i \in DOMAIN more /\ more[i] = values[i]
      BY <1>1, <2>3
    <3>2. \A j \in DOMAIN more : j > i => NotUsed(parse, more[j])
      BY <1>1, <1>4, <2>3
    <3> HIDE DEF more
    <3> QED BY <1>4, <2>1, <2>3, <3>1, <3>2 DEF FieldIsAsSaid
  <2> QED BY <1>4, <2>2, <2>3 DEF FieldIsAsSaid
<1>5. CASE parse # "strings" /\ ~NotUsed(parse, v)
  <2>1. Set(parse, field, v) = <<more[n + 1]>> /\ n + 1 \in DOMAIN more
    BY <1>1, <1>3, <1>5
  <2>2. \A j \in DOMAIN more : ~(j > n + 1)
    BY <1>1
  <2>3. ~NotUsed(parse, more[n + 1])
    BY <1>1, <1>5
  <2>4. PICK i \in DOMAIN more :
          /\ Set(parse, field, v) = <<more[i]>> /\ ~NotUsed(parse, more[i])
          /\ \A j \in DOMAIN more : ~(j > i)
    BY <2>1, <2>2, <2>3
  <2> HIDE DEF more
  <2>5. \A j \in DOMAIN more : j > i => NotUsed(parse, more[j])
    BY <2>4
  <2>6. \E k \in DOMAIN more :
          /\ Set(parse, field, v) = <<more[k]>> /\ ~NotUsed(parse, more[k])
          /\ \A j \in DOMAIN more : j > k => NotUsed(parse, more[j])
    BY <2>4, <2>5, Zenon
  <2>7. FieldIsAsSaid(parse, Set(parse, field, v), more)
    BY <1>5, <2>6, Zenon DEF FieldIsAsSaid
  <2> QED BY <2>7 DEF more
<1> QED BY <1>2, <1>4, <1>5

\* Every field but those of cwd.
LEMMA AsSaidByField ==
    FieldsAreAsSaid <=>
        \A key \in DOMAIN said :
            \/ key = "cwd" \/ (key = "env" /\ said["cwd"] # <<>>)
            \/ FieldIsAsSaid(Keys[section][key], fields[key], said[key])
BY Zenon DEF FieldsAreAsSaid, FieldIsAsSaid

\* Only a command has an environment, and it has a working directory too.
LEMMA CommandHasBoth ==
    ASSUME NEW s \in DOMAIN Keys, "env" \in KeysOf(s)
    PROVE  "cwd" \in KeysOf(s)
<1>1. s \in {"admin", "logger", "proxy", "upstream", "command", "app", "dummy"}
  BY DEF Keys
<1>2. CASE s = "command"
  BY <1>2 DEF KeysOf, Keys, CommandKeys
<1>3. CASE s = "admin"
  BY <1>3 DEF KeysOf, Keys, AdminKeys
<1>4. CASE s = "logger"
  BY <1>4 DEF KeysOf, Keys, LoggerKeys
<1>5. CASE s = "proxy"
  BY <1>5 DEF KeysOf, Keys, ProxyKeys
<1>6. CASE s = "upstream"
  BY <1>6 DEF KeysOf, Keys, UpstreamKeys
<1>7. CASE s = "app"
  BY <1>7 DEF KeysOf, Keys, AppKeys
<1>8. CASE s = "dummy"
  BY <1>8 DEF KeysOf, Keys, DummyKeys
<1> QED BY <1>1, <1>2, <1>3, <1>4, <1>5, <1>6, <1>7, <1>8

LEMMA SectionsInvInit == SectionsInit => SectionsInv
<1> SUFFICES ASSUME SectionsInit PROVE SectionsInv
  OBVIOUS
<1>1. /\ section \in DOMAIN Keys
      /\ DOMAIN said = KeysOf(section) /\ DOMAIN fields = KeysOf(section)
      /\ \A key \in KeysOf(section) : said[key] = <<>> /\ fields[key] = <<>>
  BY DEF SectionsInit, KeysOf
<1>2. \A key \in DOMAIN said : FieldIsAsSaid(Keys[section][key], fields[key], said[key])
  BY <1>1 DEF FieldIsAsSaid
<1>3. FieldsAreAsSaid
  BY <1>2, AsSaidByField
<1>4. <<>> \in Seq(Value)
  OBVIOUS
<1> QED BY <1>1, <1>3, <1>4 DEF SectionsInv

LEMMA SectionsInvStep == SectionsInv /\ [SectionsNext]_sectionVars => SectionsInv'
<1> SUFFICES ASSUME SectionsInv, [SectionsNext]_sectionVars PROVE SectionsInv'
  OBVIOUS
<1>1. ASSUME UNCHANGED <<section, fields, said>> PROVE SectionsInv'
  BY <1>1 DEF SectionsInv, FieldsAreAsSaid
<1>2. ASSUME NEW key \in DOMAIN Keys[section], NEW v \in Value, Key(key, v) PROVE SectionsInv'
  <2> DEFINE parse == Keys[section][key]
             field == Field(key)
  <2>1. CASE v \notin Accepted(parse)
    BY <1>1, <1>2, <2>1 DEF Key
  <2>2. CASE v \in Accepted(parse)
    <3>1. /\ fields' = [fields EXCEPT ![field] = Set(parse, @, v)]
          /\ said' = [said EXCEPT ![key] = Append(@, v)] /\ section' = section
      BY <1>2, <2>2 DEF Key
    <3>2. /\ DOMAIN said = KeysOf(section) /\ DOMAIN fields = KeysOf(section)
          /\ \A k \in KeysOf(section) : said[k] \in Seq(Value) /\ fields[k] \in Seq(Value)
          /\ section \in DOMAIN Keys
      BY DEF SectionsInv
    <3>3. key \in KeysOf(section) /\ (key # "cwd" => field = key)
      BY DEF KeysOf, Field
    <3>4. /\ DOMAIN said' = KeysOf(section) /\ DOMAIN fields' = KeysOf(section)
          /\ said'[key] = Append(said[key], v)
          /\ \A k \in KeysOf(section) : k # key => said'[k] = said[k]
          /\ \A k \in KeysOf(section) : k # field => fields'[k] = fields[k]
          /\ field \in KeysOf(section) => fields'[field] = Set(parse, fields[field], v)
      BY <3>1, <3>2, <3>3
    <3>5. \A f \in Seq(Value) : Set(parse, f, v) \in Seq(Value)
      BY DEF Set, ParseLevel, ParseType
    <3>6. \A k \in KeysOf(section) : said'[k] \in Seq(Value) /\ fields'[k] \in Seq(Value)
      <4> SUFFICES ASSUME NEW k \in KeysOf(section)
                   PROVE  said'[k] \in Seq(Value) /\ fields'[k] \in Seq(Value)
        OBVIOUS
      <4>1. said'[k] \in Seq(Value)
        <5>1. said[k] \in Seq(Value) /\ Append(said[k], v) \in Seq(Value)
          BY <3>2
        <5>2. said'[k] = said[k] \/ said'[k] = Append(said[k], v)
          BY <3>4
        <5> QED BY <5>1, <5>2
      <4>2. fields'[k] \in Seq(Value)
        <5>1. fields[k] \in Seq(Value) /\ Set(parse, fields[k], v) \in Seq(Value)
          BY <3>2, <3>5
        <5>2. fields'[k] = fields[k] \/ fields'[k] = Set(parse, fields[k], v)
          BY <3>4
        <5> QED BY <5>1, <5>2
      <4> QED BY <4>1, <4>2
    <3>7. ASSUME NEW k \in KeysOf(section), k # "cwd", ~(k = "env" /\ said'["cwd"] # <<>>)
          PROVE  FieldIsAsSaid(Keys[section][k], fields'[k], said'[k])
      <4>1. ~(k = "env" /\ said["cwd"] # <<>>)
        <5>1. k = "env" => "cwd" \in KeysOf(section)
          BY <3>2, CommandHasBoth
        <5>2. "cwd" \in KeysOf(section) /\ said["cwd"] # <<>> => said'["cwd"] # <<>>
          BY <3>2, <3>4
        <5> QED BY <3>7, <5>1, <5>2
      <4>2. FieldIsAsSaid(Keys[section][k], fields[k], said[k])
        BY <3>2, <3>7, <4>1, AsSaidByField DEF SectionsInv
      <4>3. CASE k = key
        <5>1. /\ fields'[k] = Set(parse, fields[k], v)
              /\ said'[k] = Append(said[k], v)
          BY <3>3, <3>4, <3>7, <4>3
        <5>2. FieldIsAsSaid(parse, Set(parse, fields[k], v), Append(said[k], v))
          BY <2>2, <3>2, <4>2, <4>3, SetKeeps
        <5> QED BY <4>3, <5>1, <5>2
      <4>4. CASE k # key
        <5>1. k # field
          <6>1. CASE key = "cwd"
            <7>1. said'["cwd"] # <<>> /\ field = "env"
              BY <3>2, <3>3, <3>4, <6>1 DEF Field
            <7> QED BY <3>7, <7>1
          <6> QED BY <3>3, <4>4, <6>1
        <5> QED BY <3>4, <4>2, <4>4, <5>1
      <4> QED BY <4>3, <4>4
    <3>8. FieldsAreAsSaid'
      <4>1. DOMAIN said' = KeysOf(section) /\ section' = section
        BY <3>1, <3>4
      <4>2. \A k \in DOMAIN said' :
              \/ k = "cwd" \/ (k = "env" /\ said'["cwd"] # <<>>)
              \/ FieldIsAsSaid(Keys[section'][k], fields'[k], said'[k])
        BY <3>7, <4>1
      <4> QED BY <4>2, Zenon DEF FieldsAreAsSaid, FieldIsAsSaid
    <3> QED BY <3>1, <3>2, <3>4, <3>6, <3>8 DEF SectionsInv
  <2> QED BY <2>1, <2>2
<1>3. ASSUME NEW key \in StrayKeys, UnknownKey(key) PROVE SectionsInv'
  BY <1>1, <1>3 DEF UnknownKey
<1>4. CASE UNCHANGED sectionVars
  BY <1>1, <1>4 DEF sectionVars
<1> QED BY <1>2, <1>3, <1>4 DEF SectionsNext

\* For any number of keys in any order, each field holds what the config said
\* last, and a list all it said (config.cc:137-360).
THEOREM FieldsAlwaysAsSaid == SectionsSpec => []FieldsAreAsSaid
<1>1. SectionsInv => FieldsAreAsSaid
  BY DEF SectionsInv
<1> QED BY <1>1, SectionsInvInit, SectionsInvStep, PTL DEF SectionsSpec

-----------------------------------------------------------------------------
(* StringBuffer: the block and the text. *)

Char == Byte \cup {Nul}

BufferInv ==
    /\ memory \in Seq(Char) /\ text \in Seq(Char) /\ size \in Nat
    /\ HoldsText

-----------------------------------------------------------------------------
(* What the helpers of StringBuffer leave. *)

LEMMA RoundedUp ==
    ASSUME NEW n \in Nat
    PROVE  Rounded(n) \in Nat /\ Rounded(n) >= n
<1>1. MinSize \in Nat /\ MinSize > 0
  BY BufferAssumption
<1> DEFINE q == (n + MinSize - 1) \div MinSize
           m == (n + MinSize - 1) % MinSize
<1>2. q \in Int /\ m \in 0..(MinSize - 1) /\ n + MinSize - 1 = MinSize * q + m
  BY <1>1
<1> HIDE DEF q, m
<1>3. MinSize * q = q * MinSize /\ MinSize * q >= n
  BY <1>1, <1>2
<1> QED BY <1>3, <1>1, <1>2 DEF Rounded, q

LEMMA TextsAreTexts ==
    ASSUME NEW s \in Texts
    PROVE  s \in Seq(Char) /\ Len(s) \in Nat
<1>1. PICK n \in 0..MaxText : s \in [1..n -> Byte]
  BY DEF Texts
<1>2. n \in Nat /\ \A i \in 1..n : s[i] \in Char
  BY <1>1, BufferAssumption DEF Char
<1>3. s \in [1..n -> Char]
  BY <1>1, <1>2
<1> QED BY <1>2, <1>3

\* A block that keeps the text, and has nothing behind it if there was nothing.
Keeps(m) ==
    /\ m \in Seq(Char)
    /\ \A i \in 1..size : m[i] = memory[i]
    /\ state = "clean" => \A i \in size + 1..Len(m) : m[i] = Nul

\* Reserve moves the text, and clears the rest of a block it had to get.
LEMMA GrownKeeps ==
    ASSUME BufferInv, Live, NEW n \in Nat
    PROVE  /\ Keeps(Grown(n)) /\ Len(Grown(n)) >= n /\ Len(Grown(n)) >= cap
           /\ n > cap => \A i \in size + 1..Len(Grown(n)) : Grown(n)[i] = Nul
<1>1. memory \in Seq(Char) /\ size \in Nat /\ size <= cap /\ cap \in Nat
  BY DEF BufferInv, HoldsText, TextIsThere, cap
<1>2. CASE n <= cap
  <2>1. Grown(n) = memory
    BY <1>2 DEF Grown
  <2>2. state = "clean" => \A i \in size + 1..Len(memory) : memory[i] = Nul
    BY DEF BufferInv, HoldsText, NothingBehind, cap
  <2> QED BY <1>1, <1>2, <2>1, <2>2 DEF Keeps, cap
<1>3. CASE n > cap
  <2> DEFINE r == Rounded(n)
             g == [i \in 1..r |-> IF i <= size THEN memory[i] ELSE Nul]
  <2>1. r \in Nat /\ r >= n
    BY RoundedUp
  <2>2. Grown(n) = g
    BY <1>1, <1>3 DEF Grown
  <2> HIDE DEF r
  <2>3. \A i \in 1..r : g[i] \in Char
    BY <1>1, <2>1 DEF Char, cap
  <2>4. g \in Seq(Char) /\ Len(g) = r
    BY <2>1, <2>3
  <2>5. /\ \A i \in 1..size : g[i] = memory[i]
        /\ \A i \in size + 1..r : g[i] = Nul
    BY <1>1, <1>3, <2>1 DEF cap
  <2> HIDE DEF g
  <2> QED BY <1>1, <1>3, <2>1, <2>2, <2>4, <2>5 DEF Keeps
<1> QED BY <1>1, <1>2, <1>3

\* What is put behind the text, as far as it is in the block.
LEMMA CopiedIs ==
    ASSUME NEW m \in Seq(Char), NEW s \in Seq(Char), size \in Nat
    PROVE  /\ Copied(m, s) \in Seq(Char) /\ Len(Copied(m, s)) = Len(m)
           /\ \A i \in 1..Len(m) :
                 Copied(m, s)[i] =
                     IF i > size /\ i <= size + Len(s) THEN s[i - size] ELSE m[i]
<1> DEFINE c == [i \in 1..Len(m) |->
                    IF i > size /\ i <= size + Len(s) THEN s[i - size] ELSE m[i]]
<1>1. Copied(m, s) = c /\ Len(m) \in Nat /\ Len(s) \in Nat
  BY DEF Copied
<1>2. \A i \in 1..Len(m) : c[i] \in Char
  BY <1>1
<1>3. c \in Seq(Char) /\ Len(c) = Len(m)
  BY <1>1, <1>2
<1> QED BY <1>1, <1>3

\* A text that fits is added to the text that is there.
LEMMA ExtendKeeps ==
    ASSUME BufferInv, Live, NEW m, Keeps(m), NEW s \in Seq(Char), size + Len(s) <= Len(m),
           Extend(m, s)
    PROVE  BufferInv'
<1>1. memory' = Copied(m, s) /\ size' = size + Len(s) /\ text' = text \o s /\ state' = state
  BY DEF Extend
<1>2. m \in Seq(Char) /\ size \in Nat /\ text \in Seq(Char) /\ size = Len(text)
      /\ size <= Len(memory)
      /\ Len(s) \in Nat
  BY DEF Keeps, BufferInv, HoldsText, TextIsThere, cap
<1>3. memory' \in Seq(Char) /\ Len(memory') = Len(m)
      /\ \A i \in 1..Len(m) :
            memory'[i] = IF i > size /\ i <= size + Len(s) THEN s[i - size] ELSE m[i]
  BY <1>1, <1>2, CopiedIs
<1>4. text' \in Seq(Char) /\ size' \in Nat /\ size' = Len(text') /\ size' <= Len(memory')
  BY <1>1, <1>2, <1>3
<1>5. ASSUME state \in {"clean", "torn"}, NEW i \in 1..size'
      PROVE  memory'[i] = text'[i]
  <2>1. \A k \in 1..size : memory[k] = text[k] /\ m[k] = memory[k]
    BY <1>5 DEF BufferInv, HoldsText, TextIsThere, Keeps
  <2>2. CASE i <= size
    BY <2>1, <2>2, <1>1, <1>2, <1>3
  <2>3. CASE i > size
    BY <2>3, <1>1, <1>2, <1>3
  <2> QED BY <1>1, <1>2, <2>2, <2>3
<1>6. ASSUME state = "clean", NEW i \in size' + 1..Len(memory')
      PROVE  memory'[i] = Nul
  <2>1. i \in size + 1..Len(m) /\ i \in 1..Len(m) /\ i > size + Len(s)
    BY <1>1, <1>2, <1>3
  <2>2. m[i] = Nul
    BY <1>6, <2>1 DEF Keeps
  <2> QED BY <1>2, <1>3, <2>1, <2>2
<1> QED BY <1>1, <1>3, <1>4, <1>5, <1>6
       DEF BufferInv, HoldsText, TextIsThere, NothingBehind, cap, Live

LEMMA OverrunKeeps ==
    ASSUME BufferInv, Overrun
    PROVE  BufferInv'
BY DEF Overrun, BufferInv, HoldsText, TextIsThere, NothingBehind, cap, Live

-----------------------------------------------------------------------------
(* Every call of StringBuffer keeps the invariant. *)

LEMMA WriteKeeps ==
    ASSUME BufferInv, NEW s \in Texts, Write(s)
    PROVE  BufferInv'
<1>1. Live /\ s \in Seq(Char) /\ Len(s) \in Nat /\ size \in Nat
  BY TextsAreTexts DEF Write, BufferInv
<1> DEFINE n == size + Len(s) + 1
<1>2. CASE Extend(Grown(n), s)
  <2>1. n \in Nat
    BY <1>1
  <2>2. Keeps(Grown(n)) /\ Len(Grown(n)) >= n
    BY <1>1, <2>1, GrownKeeps
  <2>3. size + Len(s) <= Len(Grown(n))
    BY <1>1, <2>2 DEF Keeps
  <2> HIDE DEF n
  <2> QED BY <1>1, <1>2, <2>2, <2>3, ExtendKeeps
<1>3. CASE UNCHANGED bufferVars
  BY <1>3 DEF bufferVars, BufferInv, HoldsText, TextIsThere, NothingBehind, cap, Live
<1> QED BY <1>2, <1>3 DEF Write

LEMMA PutKeeps ==
    ASSUME BufferInv, NEW c \in Byte, Put(c)
    PROVE  BufferInv'
<1>1. Live /\ <<c>> \in Seq(Char) /\ Len(<<c>>) = 1 /\ size \in Nat
  BY DEF Put, BufferInv, Char
<1>2. CASE Extend(Grown(size + 1), <<c>>)
  <2>1. Keeps(Grown(size + 1)) /\ Len(Grown(size + 1)) >= size + 1
    BY <1>1, GrownKeeps
  <2> QED BY <1>1, <1>2, <2>1, ExtendKeeps
<1>3. CASE Overrun
  BY <1>3, OverrunKeeps
<1> QED BY <1>2, <1>3 DEF Put

LEMMA appendedKeeps ==
    ASSUME BufferInv, NEW s \in Texts, appended(s)
    PROVE  BufferInv'
<1>1. Live /\ s \in Seq(Char) /\ size + Len(s) <= Len(memory) /\ Extend(memory, s)
  BY TextsAreTexts DEF appended, cap
<1>2. Keeps(memory)
  BY DEF Keeps, BufferInv, HoldsText, NothingBehind, cap
<1> QED BY <1>1, <1>2, ExtendKeeps

LEMMA ReserveKeeps ==
    ASSUME BufferInv, NEW n \in Nat, Reserve(n)
    PROVE  BufferInv'
<1>1. Live /\ size \in Nat /\ size + n \in Nat /\ size <= cap /\ cap \in Nat
      /\ memory' = Grown(size + n) /\ UNCHANGED <<size, text, state>>
  BY DEF Reserve, BufferInv, HoldsText, TextIsThere, cap
<1>2. Keeps(memory') /\ Len(memory') >= cap
  BY <1>1, GrownKeeps
<1> QED BY <1>1, <1>2 DEF Keeps, BufferInv, HoldsText, TextIsThere, NothingBehind, cap, Live

LEMMA ResizeKeeps ==
    ASSUME BufferInv, NEW n \in Nat, Resize(n)
    PROVE  BufferInv'
<1>1. CASE Overrun
  BY <1>1, OverrunKeeps
<1>2. CASE ~Overrun
  <2> DEFINE g == Grown(n)
             t == [i \in 1..n |-> IF i <= size THEN text[i] ELSE Nul]
  <2>1. /\ Live
        /\ memory' = [i \in DOMAIN g |-> IF n < i /\ i <= size THEN Nul ELSE g[i]]
        /\ size' = n /\ text' = t
        /\ state' = IF size < n /\ n <= cap /\ state = "torn" THEN "exposed" ELSE state
    BY <1>2 DEF Resize
  <2>2. size \in Nat /\ size = Len(text) /\ size <= cap /\ cap \in Nat /\ text \in Seq(Char)
    BY <2>1 DEF BufferInv, HoldsText, TextIsThere, cap
  <2>3. Keeps(g) /\ Len(g) >= n /\ (n > cap => \A i \in size + 1..Len(g) : g[i] = Nul)
    BY <2>1, GrownKeeps
  <2>4. g \in Seq(Char) /\ DOMAIN g = 1..Len(g) /\ Len(g) \in Nat
    BY <2>3 DEF Keeps
  <2> HIDE DEF g
  <2>5. \A i \in 1..Len(g) : memory'[i] = IF n < i /\ i <= size THEN Nul ELSE g[i]
    BY <2>1, <2>4
  <2>6. \A i \in 1..Len(g) : memory'[i] \in Char
    BY <2>4, <2>5 DEF Char
  <2>7. memory' \in Seq(Char) /\ Len(memory') = Len(g)
    BY <2>1, <2>4, <2>6
  <2>8. \A i \in 1..n : t[i] \in Char
    BY <2>2 DEF Char
  <2>9. text' \in Seq(Char) /\ Len(text') = n
    BY <2>1, <2>8
  <2>10. ASSUME state' \in {"clean", "torn"}, NEW i \in 1..n
         PROVE  memory'[i] = text'[i]
    <3>1. state \in {"clean", "torn"} /\ (state = "clean" \/ n <= size \/ n > cap)
      BY <2>1, <2>2, <2>10
    <3>2. \A k \in 1..size : g[k] = text[k]
      BY <2>3, <3>1 DEF Keeps, BufferInv, HoldsText, TextIsThere
    <3>3. CASE i <= size
      BY <2>1, <2>2, <2>3, <2>4, <2>5, <3>2, <3>3
    <3>4. CASE i > size
      <4>1. i \in size + 1..Len(g) /\ n > size
        BY <2>2, <2>3, <2>4, <3>4
      <4>2. g[i] = Nul
        BY <2>2, <2>3, <3>1, <4>1 DEF Keeps
      <4> QED BY <2>1, <2>2, <2>4, <2>5, <4>1, <4>2
    <3> QED BY <2>2, <3>3, <3>4
  <2>11. ASSUME state' = "clean", NEW i \in n + 1..Len(g)
         PROVE  memory'[i] = Nul
    <3>1. state = "clean"
      BY <2>1, <2>11
    <3>2. i \in 1..Len(g) /\ (i \in 1..size \/ i \in size + 1..Len(g))
      BY <2>2, <2>4
    <3> QED BY <2>2, <2>3, <2>5, <3>1, <3>2 DEF Keeps
  <2> QED BY <2>1, <2>3, <2>4, <2>7, <2>9, <2>10, <2>11
            
       DEF BufferInv, HoldsText, TextIsThere, NothingBehind, cap, Live
<1> QED BY <1>1, <1>2

LEMMA ConsumeKeeps ==
    ASSUME BufferInv, NEW n \in 1..size, Consume(n)
    PROVE  BufferInv'
<1> DEFINE m == [i \in 1..cap |->
                    IF i <= size - n THEN memory[i + n] ELSE IF i <= size THEN Nul ELSE memory[i]]
           t == [i \in 1..size - n |-> text[i + n]]
<1>1. Live /\ memory' = m /\ size' = size - n /\ text' = t /\ state' = state
  BY DEF Consume
<1>2. memory \in Seq(Char) /\ text \in Seq(Char) /\ size \in Nat /\ n \in Nat /\ n <= size
      /\ size = Len(text) /\ size <= cap /\ cap \in Nat /\ cap = Len(memory)
  BY <1>1 DEF BufferInv, HoldsText, TextIsThere, cap
<1>3. \A i \in 1..cap : m[i] \in Char
  BY <1>2 DEF Char
<1>4. m \in Seq(Char) /\ Len(m) = cap
  BY <1>2, <1>3
<1>5. \A i \in 1..size - n : t[i] \in Char
  BY <1>2
<1>6. t \in Seq(Char) /\ Len(t) = size - n
  BY <1>2, <1>5
<1>7. ASSUME state \in {"clean", "torn"}, NEW i \in 1..size - n
      PROVE  m[i] = t[i]
  BY <1>2, <1>7 DEF BufferInv, HoldsText, TextIsThere
<1>8. ASSUME state = "clean", NEW i \in (size - n) + 1..cap
      PROVE  m[i] = Nul
  BY <1>2, <1>8 DEF BufferInv, HoldsText, NothingBehind
<1> HIDE DEF m, t
<1> QED BY <1>1, <1>2, <1>4, <1>6, <1>7, <1>8
          
       DEF BufferInv, HoldsText, TextIsThere, NothingBehind, cap, Live

LEMMA ClearKeeps ==
    ASSUME BufferInv, Clear
    PROVE  BufferInv'
<1>1. cap \in Nat
  BY DEF BufferInv, cap
<1>2. memory' = [i \in 1..cap |-> Nul] /\ size' = 0 /\ text' = <<>> /\ state' = "clean"
  BY DEF Clear
<1>3. memory' \in Seq(Char) /\ Len(memory') = cap /\ \A i \in 1..cap : memory'[i] = Nul
  BY <1>1, <1>2 DEF Char
<1> QED BY <1>1, <1>2, <1>3
       DEF BufferInv, HoldsText, TextIsThere, NothingBehind, cap, Live

\* What vsnprintf writes, whole or in part, with the Nul behind it.
LEMMA PrintfKeeps ==
    ASSUME BufferInv, NEW s \in Texts, Printf(s)
    PROVE  BufferInv'
<1> DEFINE room == cap - size
           need == size + Len(s) + 2
           ended == Append(s, Nul)
<1>1. Live /\ s \in Seq(Char) /\ Len(s) \in Nat
  BY TextsAreTexts DEF Printf
<1>2. memory \in Seq(Char) /\ text \in Seq(Char) /\ size \in Nat /\ size = Len(text)
      /\ size <= cap /\ cap \in Nat /\ cap = Len(memory) /\ need \in Nat
  BY <1>1 DEF BufferInv, HoldsText, TextIsThere, cap
<1>3. ended \in Seq(Char) /\ Len(ended) = Len(s) + 1 /\ ended[Len(s) + 1] = Nul
      /\ \A i \in 1..Len(s) : ended[i] = s[i]
  BY <1>1 DEF Char
\* All of it fits into block m.
<1>4. ASSUME NEW m, Keeps(m), size + Len(s) + 1 <= Len(m), memory' = Copied(m, ended),
             size' = size + Len(s), text' = text \o s, state' = state
      PROVE  BufferInv'
  <2>1. m \in Seq(Char) /\ Len(m) \in Nat
    BY <1>4 DEF Keeps
  <2> HIDE DEF ended
  <2>2. memory' \in Seq(Char) /\ Len(memory') = Len(m)
        /\ \A i \in 1..Len(m) :
              memory'[i] = IF i > size /\ i <= size + Len(ended) THEN ended[i - size] ELSE m[i]
    BY <1>2, <1>3, <1>4, <2>1, CopiedIs
  <2>3. text' \in Seq(Char) /\ Len(text') = size' /\ size' \in Nat /\ size' <= Len(memory')
    BY <1>1, <1>2, <1>4, <2>1, <2>2
  <2>4. ASSUME state \in {"clean", "torn"}, NEW i \in 1..size'
        PROVE  memory'[i] = text'[i]
    <3>1. \A k \in 1..size : memory[k] = text[k] /\ m[k] = memory[k]
      BY <1>4, <2>4 DEF BufferInv, HoldsText, TextIsThere, Keeps
    <3>2. CASE i <= size
      BY <3>1, <3>2, <1>1, <1>2, <1>4, <2>1, <2>2
    <3>3. CASE i > size
      <4>1. i - size \in 1..Len(s) /\ i \in 1..Len(m) /\ text'[i] = s[i - size]
        BY <3>3, <1>1, <1>2, <1>4, <2>1
      <4>2. i <= size + Len(ended) /\ ended[i - size] = s[i - size]
        <5>1. PICK k \in Nat : k = Len(s) /\ Len(ended) = k + 1
          BY <1>1, <1>3
        <5>2. i - size \in 1..k /\ i \in Int
          BY <4>1, <5>1
        <5>3. i <= size + (k + 1)
          BY <5>2, <1>2
        <5>4. ended[i - size] = s[i - size]
          BY <1>3, <4>1
        <5> QED BY <5>1, <5>3, <5>4
      <4>3. memory'[i] = ended[i - size]
        BY <4>1, <4>2, <3>3, <2>2
      <4> QED BY <4>1, <4>2, <4>3
    <3> QED BY <1>1, <1>2, <1>4, <3>2, <3>3
  <2>5. ASSUME state = "clean", NEW i \in size' + 1..Len(memory')
        PROVE  memory'[i] = Nul
    <3>1. CASE i = size' + 1
      <4>1. i \in 1..Len(m) /\ i > size /\ i - size = Len(s) + 1 /\ i <= size + Len(ended)
        BY <3>1, <1>1, <1>2, <1>3, <1>4, <2>1
      <4> QED BY <4>1, <1>3, <2>2
    <3>2. CASE i > size' + 1
      <4>1. i \in size + 1..Len(m) /\ i \in 1..Len(m) /\ i > size + Len(ended)
        BY <3>2, <1>1, <1>2, <1>3, <1>4, <2>1, <2>2
      <4>2. m[i] = Nul
        BY <4>1, <1>4, <2>5 DEF Keeps
      <4> QED BY <4>1, <4>2, <1>2, <1>3, <2>2
    <3> QED BY <1>1, <1>2, <1>4, <2>1, <2>2, <3>1, <3>2
  <2> QED BY <1>4, <2>2, <2>3, <2>4, <2>5
            
       DEF BufferInv, HoldsText, TextIsThere, NothingBehind, cap, Live
<1>5. CASE Len(s) < room /\ memory' = Copied(memory, ended)
           /\ size' = size + Len(s) /\ text' = text \o s /\ UNCHANGED state
  <2>1. Keeps(memory)
    BY DEF Keeps, BufferInv, HoldsText, NothingBehind, cap
  <2> QED BY <1>1, <1>2, <1>4, <1>5, <2>1
<1>6. CASE memory' = Copied(Grown(need), ended)
           /\ size' = size + Len(s) /\ text' = text \o s /\ UNCHANGED state
  <2>1. Keeps(Grown(need)) /\ Len(Grown(need)) >= need
    BY <1>1, <1>2, GrownKeeps
  <2>2. Len(Grown(need)) \in Nat
    BY <2>1 DEF Keeps
  <2> HIDE DEF ended
  <2> QED BY <1>1, <1>2, <1>4, <1>6, <2>1, <2>2
\* Only a part, which is behind the text.
<1>7. CASE /\ Len(s) >= room
           /\ memory' = Copied(memory, Append(SubSeq(s, 1, room - 1), Nul))
           /\ state' = IF room > 1 /\ state = "clean" THEN "torn" ELSE state
           /\ UNCHANGED <<size, text>>
  <2> DEFINE part == Append(SubSeq(s, 1, room - 1), Nul)
  <2>1. room \in Nat
    BY <1>2
  <2>2. SubSeq(s, 1, room - 1) \in Seq(Char)
    BY <1>1, <1>7, <2>1
  <2>3. part \in Seq(Char)
    BY <2>2 DEF Char
  <2>4. room <= 1 => Len(part) = 1 /\ part[1] = Nul
    <3> SUFFICES ASSUME room <= 1 PROVE Len(part) = 1 /\ part[1] = Nul
      OBVIOUS
    <3>1. room - 1 \in Int /\ room - 1 < 1
      BY <2>1
    <3>2. Len(SubSeq(s, 1, room - 1)) = 0
      BY <1>1, <3>1
    <3>3. \A u \in Seq(Char) :
             Len(u) = 0 => Len(Append(u, Nul)) = 1 /\ Append(u, Nul)[1] = Nul
      <4> SUFFICES ASSUME NEW u \in Seq(Char), Len(u) = 0
                   PROVE  Len(Append(u, Nul)) = 1 /\ Append(u, Nul)[1] = Nul
        OBVIOUS
      <4>1. Nul \in Char
        BY DEF Char
      <4>2. Append(u, Nul)[Len(u) + 1] = Nul
        BY <4>1
      <4> QED BY <4>1, <4>2
    <3> QED BY <2>2, <3>2, <3>3
  <2> HIDE DEF part, room
  <2>5. memory' \in Seq(Char) /\ Len(memory') = cap
        /\ \A i \in 1..cap :
              memory'[i] = IF i > size /\ i <= size + Len(part) THEN part[i - size] ELSE memory[i]
    BY <1>2, <1>7, <2>3, CopiedIs DEF part
  <2>6. ASSUME NEW i \in 1..size PROVE memory'[i] = memory[i]
    BY <1>2, <2>3, <2>5
  <2>7. ASSUME state' = "clean", NEW i \in size + 1..cap
        PROVE  memory'[i] = Nul
    <3>1. state = "clean" /\ room <= 1
      BY <1>7, <2>1, <2>7
    <3>2. i = size + 1 /\ Len(part) = 1 /\ part[1] = Nul
      BY <1>2, <2>4, <3>1 DEF room
    <3> QED BY <1>2, <2>5, <3>2
  <2> QED BY <1>2, <1>7, <2>5, <2>6, <2>7
            
       DEF BufferInv, HoldsText, TextIsThere, NothingBehind, cap, Live
<1> QED BY <1>5, <1>6, <1>7 DEF Printf

LEMMA LoadKeeps ==
    ASSUME BufferInv, NEW s \in Texts, NEW k \in 0..Len(s), Load(s, k)
    PROVE  BufferInv'
<1>1. s \in Seq(Char) /\ Len(s) \in Nat /\ k \in Nat /\ k <= Len(s)
  BY TextsAreTexts
<1>2. cap \in Nat /\ Rounded(Len(s)) \in Nat
  BY <1>1, RoundedUp DEF BufferInv, cap
<1>3. PICK room \in Nat :
        \/ Overrun
        \/ /\ k <= room
           /\ memory' = [i \in 1..room |-> IF i <= k THEN s[i] ELSE Nul]
           /\ size' = IF k = Len(s) THEN k ELSE 0
           /\ text' = IF k = Len(s) THEN s ELSE <<>>
           /\ state' = IF k = Len(s) \/ k = 0 THEN "clean" ELSE "torn"
  <2>1. PICK enough \in BOOLEAN :
          LET room == IF ~enough \/ Len(s) <= cap THEN cap ELSE Rounded(Len(s))
              all == k = Len(s)
          IN IF k > room THEN Overrun
             ELSE /\ memory' = [i \in 1..room |-> IF i <= k THEN s[i] ELSE Nul]
                  /\ size' = IF all THEN k ELSE 0
                  /\ text' = IF all THEN s ELSE <<>>
                  /\ state' = IF all \/ k = 0 THEN "clean" ELSE "torn"
    BY DEF Load
  <2> DEFINE r == IF ~enough \/ Len(s) <= cap THEN cap ELSE Rounded(Len(s))
  <2>2. r \in Nat
    BY <1>2
  <2> QED BY <1>1, <2>1, <2>2
<1>4. CASE Overrun
  BY <1>4, OverrunKeeps
<1>5. CASE ~Overrun
  <2>1. \A i \in 1..room : (IF i <= k THEN s[i] ELSE Nul) \in Char
    BY <1>1 DEF Char
  <2>2. memory' \in Seq(Char) /\ Len(memory') = room
        /\ \A i \in 1..room : memory'[i] = IF i <= k THEN s[i] ELSE Nul
    BY <1>3, <1>5, <2>1
  <2>3. text' \in Seq(Char) /\ size' \in Nat /\ Len(text') = size' /\ size' <= room
        /\ \A i \in 1..size' : memory'[i] = text'[i]
    <3>1. CASE k = Len(s)
      BY <3>1, <1>1, <1>3, <1>5, <2>2
    <3>2. CASE k # Len(s)
      <4>1. text' = <<>> /\ size' = 0
        BY <3>2, <1>3, <1>5
      <4> QED BY <4>1
    <3> QED BY <3>1, <3>2
  <2>4. ASSUME state' = "clean", NEW i \in size' + 1..room
        PROVE  memory'[i] = Nul
    BY <1>1, <1>3, <1>5, <2>2, <2>4
  <2> QED BY <2>2, <2>3, <2>4
       DEF BufferInv, HoldsText, TextIsThere, NothingBehind, cap, Live
<1> QED BY <1>4, <1>5

LEMMA BufferInitHolds == BufferInit => BufferInv
BY DEF BufferInit, BufferInv, HoldsText, TextIsThere, NothingBehind, cap, Live

LEMMA BufferStepKeeps == BufferInv /\ [BufferNext]_bufferVars => BufferInv'
<1> SUFFICES ASSUME BufferInv, [BufferNext]_bufferVars PROVE BufferInv'
  OBVIOUS
<1>1. ASSUME NEW s \in Texts, Write(s) \/ Printf(s) \/ appended(s) PROVE BufferInv'
  BY <1>1, WriteKeeps, PrintfKeeps, appendedKeeps
<1>2. ASSUME NEW s \in Texts, NEW k \in 0..Len(s), Load(s, k) PROVE BufferInv'
  BY <1>2, LoadKeeps
<1>3. ASSUME NEW c \in Byte, Put(c) PROVE BufferInv'
  BY <1>3, PutKeeps
<1>4. ASSUME NEW n \in 0..MaxSize, Resize(n) \/ Reserve(n) PROVE BufferInv'
  <2>1. n \in Nat
    BY BufferAssumption
  <2> QED BY <1>4, <2>1, ResizeKeeps, ReserveKeeps
<1>5. ASSUME NEW n \in 1..size, Consume(n) PROVE BufferInv'
  BY <1>5, ConsumeKeeps
<1>6. CASE Clear
  BY <1>6, ClearKeeps
<1>7. CASE UNCHANGED bufferVars
  BY <1>7 DEF bufferVars, BufferInv, HoldsText, TextIsThere, NothingBehind, cap, Live
<1> QED BY <1>1, <1>2, <1>3, <1>4, <1>5, <1>6, <1>7 DEF BufferNext

-----------------------------------------------------------------------------
(* The result. *)

\* After any sequence of calls the text is what they wrote, and Nul follows it
\* unless a Printf or a Load failed (string_buffer.h:35, 82).
THEOREM AlwaysHoldsText == BufferSpec => []HoldsText
<1>1. BufferInv => HoldsText
  BY DEF BufferInv
<1> QED BY <1>1, BufferInitHolds, BufferStepKeeps, PTL DEF BufferSpec

-----------------------------------------------------------------------------
(* Nexer: the servers it can close. *)

\* A server that Nexer points to was never closed.
Pointed(S, a, handle) ==
    \A i \in S \cup {a} : i # 0 => i \in DOMAIN handle /\ handle[i] \in {"listening", "unused"}

NexerInv ==
    /\ server = [i \in Server |-> server[i]]
    /\ Pointed(proxies_, admin_server_, server)

LEMMA NexerInvInit == NexerInit => NexerInv
BY DEF NexerInit, NexerInv, Pointed, Server

LEMMA NexerInvStep == NexerInv /\ [NexerNext]_nexerVars => NexerInv'
<1> SUFFICES ASSUME NexerInv, [NexerNext]_nexerVars PROVE NexerInv'
  OBVIOUS
<1>1. ASSUME NEW i \in Server, Listen(i) \/ ListenFails(i) PROVE NexerInv'
  <2>1. PICK s \in {"listening", "unused"} :
          server' = [server EXCEPT ![i] = s] /\ plan' = plan
    BY <1>1 DEF Listen, ListenFails
  <2>2. /\ proxies_' \subseteq proxies_ \cup {i}
        /\ admin_server_' \in {admin_server_, i}
    BY <1>1 DEF Listen, ListenFails, Kept
  <2>3. \A j \in proxies_' \cup {admin_server_'} : j = i \/ j \in proxies_ \cup {admin_server_}
    BY <2>2
  <2>4. server' = [j \in Server |-> server'[j]] /\ server'[i] = s
        /\ \A j \in Server : j # i => server'[j] = server[j]
    BY <2>1 DEF NexerInv
  <2> QED BY <2>1, <2>3, <2>4 DEF NexerInv, Pointed, Server
<1>2. ASSUME NEW i \in Server, ServerClosed(i) PROVE NexerInv'
  <2>1. /\ server[i] = "closing" /\ server' = [server EXCEPT ![i] = "deleted"]
        /\ UNCHANGED <<plan, proxies_, admin_server_>>
    BY <1>2 DEF ServerClosed
  <2>2. server' = [j \in Server |-> server'[j]] /\ \A j \in Server : j # i => server'[j] = server[j]
    BY <2>1 DEF NexerInv
  <2> QED BY <2>1, <2>2 DEF NexerInv, Pointed, Server
<1>3. ASSUME UNCHANGED <<plan, server, proxies_, admin_server_>> PROVE NexerInv'
  BY <1>3 DEF NexerInv, Pointed, Server
<1>4. ASSUME NEW S, server' = Closing(server, S), plan' = plan, proxies_' = {}, admin_server_' = 0
      PROVE  NexerInv'
  <2>1. server' = [j \in Server |-> server'[j]]
    BY <1>4 DEF NexerInv, Closing
  <2> QED BY <1>4, <2>1 DEF NexerInv, Pointed, Server
<1>5. ASSUME NEW i \in Server, NEW c \in Conn, OnConnection(i, c) PROVE NexerInv'
  BY <1>3, <1>5 DEF OnConnection
<1>6. ASSUME NEW i \in Server, AppEnds(i) PROVE NexerInv'
  BY <1>3, <1>6 DEF AppEnds
<1>7. ASSUME NEW c \in Conn, Shutdown(c) PROVE NexerInv'
  BY <1>4, <1>7 DEF Shutdown, Close
<1>8. ASSUME NEW c \in Conn, Ends(c) \/ ClientClosed(c) PROVE NexerInv'
  BY <1>3, <1>8 DEF Ends, ClientClosed
<1>9. CASE RunReturns
  BY <1>3, <1>9 DEF RunReturns
<1>10. CASE Leave
  BY <1>4, <1>10 DEF Leave
<1>11. CASE UNCHANGED nexerVars
  BY <1>3, <1>11 DEF nexerVars
<1> QED BY <1>1, <1>2, <1>5, <1>6, <1>7, <1>8, <1>9, <1>10, <1>11 DEF NexerNext

\* Whatever servers are started, and however often a shutdown is asked for,
\* Nexer::Close and the destructor never go through a server that was deleted
\* (nexer.cc:53-62).
THEOREM ServersAreThere == NexerSpec => []PointersAreLive
<1>1. NexerInv => PointersAreLive
  BY DEF NexerInv, Pointed, PointersAreLive
<1> QED BY <1>1, NexerInvInit, NexerInvStep, PTL DEF NexerSpec

-----------------------------------------------------------------------------
(* Timer: which ticks are told. *)

\* While nobody set the clock, Start read both clocks at one moment, and what
\* libuv has done since says when it fires next.
TimerInv ==
    /\ now \in 0..MaxTime /\ begun \in 0..now /\ offset \in Nat /\ start \in Nat
    /\ due \in Nat \cup {Stopped}
    /\ due # Stopped /\ ~stepped =>
         /\ start = begun + offset
         /\ fired = "once" => due >= Ms(begun) + Interval
         /\ fired = "again" => due >= Ms(begun) + 2 * Interval
    /\ fired \in {"none", "once", "again"}
    /\ due # Stopped => due >= Ms(begun)

\* Ms cuts off less than a millisecond.
LEMMA MsRounds ==
    ASSUME NEW t \in Int
    PROVE  Ms(t) \in Int /\ Sub * Ms(t) <= t /\ t < Sub * Ms(t) + Sub
BY TimerAssumption DEF Ms

\* Milliseconds are moments times Sub.
LEMMA ScaleKeepsOrder ==
    ASSUME NEW a \in Int, NEW b \in Int
    PROVE  /\ Sub * a \in Int /\ a * Sub = Sub * a
           /\ a <= b => Sub * a <= Sub * b
           /\ Sub * a < Sub * b => a < b
           /\ Sub * (a + b) = Sub * a + Sub * b /\ Sub * (a - b) = Sub * a - Sub * b
BY TimerAssumption

\* Two moments are as far apart as their milliseconds say, but for one.
LEMMA MsApart ==
    ASSUME NEW s \in Int, NEW t \in Int, NEW n \in Int
    PROVE  /\ Ms(t) >= Ms(s) + n => t - s > (n - 1) * Sub
           /\ t - s >= n * Sub => Ms(t) >= Ms(s) + n
           /\ t >= s => Ms(t) >= Ms(s) /\ Ms(t) - Ms(s) <= t - s
<1> DEFINE a == Ms(s)
           b == Ms(t)
<1>1. /\ a \in Int /\ Sub * a <= s /\ s < Sub * a + Sub
      /\ b \in Int /\ Sub * b <= t /\ t < Sub * b + Sub
  BY MsRounds
<1>2. Sub \in Int /\ Sub >= 1
  BY TimerAssumption
<1> HIDE DEF a, b
<1>3. ASSUME b >= a + n PROVE t - s > (n - 1) * Sub
  <2>1. Sub * (a + n) = Sub * a + Sub * n
    BY <1>1, ScaleKeepsOrder
  <2>3. Sub * (a + n) <= Sub * b
    <3>1. a + n \in Int /\ a + n <= b
      BY <1>1, <1>3
    <3> QED BY <1>1, <3>1, ScaleKeepsOrder
  <2>2. (n - 1) * Sub = Sub * n - Sub /\ Sub * n \in Int /\ Sub * a \in Int /\ Sub * b \in Int
    BY <1>1, <1>2, ScaleKeepsOrder
  <2> QED BY <1>1, <1>2, <2>1, <2>2, <2>3
<1>4. ASSUME t - s >= n * Sub PROVE b >= a + n
  <2>1. /\ Sub * (a + n) = Sub * a + Sub * n /\ n * Sub = Sub * n
        /\ Sub * (b + 1) = Sub * b + Sub * 1 /\ Sub * 1 = Sub
        /\ Sub * n \in Int /\ Sub * a \in Int /\ Sub * b \in Int
    BY <1>1, <1>2, ScaleKeepsOrder
  <2>2. Sub * (a + n) < Sub * (b + 1)
    BY <1>1, <1>2, <1>4, <2>1
  <2>3. a + n < b + 1
    BY <1>1, <2>2, ScaleKeepsOrder
  <2> QED BY <1>1, <2>3
<1>5. ASSUME t >= s PROVE b >= a /\ b - a <= t - s
  <2>1. /\ Sub * (a - 1) = Sub * a - Sub * 1 /\ Sub * 1 = Sub
        /\ Sub * (b + 1) = Sub * b + Sub * 1 
        /\ Sub * a \in Int /\ Sub * b \in Int
    BY <1>1, <1>2, ScaleKeepsOrder
  <2>2. Sub * a < Sub * (b + 1)
    BY <1>1, <1>2, <1>5, <2>1
  <2>3. a < b + 1
    BY <1>1, <2>2, ScaleKeepsOrder
  <2>4. CASE b = a
    BY <1>1, <1>5, <2>4
  <2>5. CASE b > a
    <3>1. Sub * (b - a - 1) = Sub * (b - a) - Sub /\ Sub * (b - a) = Sub * b - Sub * a
      BY <1>1, <1>2, <2>1, ScaleKeepsOrder
    <3>2. b - a - 1 <= Sub * (b - a - 1)
      <4>1. b - a - 1 \in Nat
        BY <1>1, <2>5
      <4> QED BY <4>1, <1>2
    <3> QED BY <1>1, <1>2, <2>1, <3>1, <3>2, <1>5
  <2> QED BY <1>1, <2>3, <2>4, <2>5
<1> QED BY <1>3, <1>4, <1>5 DEF a, b

\* What OnTick is told is the time since Start: the arithmetic does not wrap.
LEMMA ElapsedSinceStart ==
    ASSUME TimerInv, due # Stopped, ~stepped
    PROVE  GetElapsedTime = Ms(Wall) - Ms(start) /\ Wall - start = now - begun
           /\ Wall \in Int /\ start \in Int
<1>1. Wall \in Int /\ start \in Int /\ Wall - start = now - begun /\ now - begun \in 0..MaxTime
  BY TimerAssumption DEF TimerInv, Wall
<1>2. Ms(Wall) - Ms(start) \in 0..MaxTime
  <2>1. Wall >= start
    BY <1>1
  <2>2. Ms(Wall) >= Ms(start) /\ Ms(Wall) - Ms(start) <= Wall - start
    BY <1>1, <2>1, 0 \in Int, MsApart
  <2>3. Ms(Wall) \in Int /\ Ms(start) \in Int /\ MaxTime \in Nat
    BY <1>1, MsRounds, TimerAssumption
  <2> QED BY <1>1, <2>2, <2>3
<1>3. Word \in Nat /\ MaxTime \in Nat /\ MaxTime < Word
  BY TimerAssumption
<1>4. \A d \in 0..MaxTime : d % Word = d
  BY <1>3
<1> QED BY <1>1, <1>2, <1>4 DEF GetElapsedTime

LEMMA TimerInvInit == TimerInit => TimerInv
BY TimerAssumption DEF TimerInit, TimerInv, Stopped

LEMMA TimerInvStep == TimerInv /\ [TimerNext]_timerVars => TimerInv'
<1> SUFFICES ASSUME TimerInv, [TimerNext]_timerVars PROVE TimerInv'
  OBVIOUS
<1>1. CASE Start
  <2>1. Ms(now) \in Nat /\ Wall \in Nat
    <3>1. now \in Int /\ now >= 0 /\ 0 \in Int
      BY TimerAssumption DEF TimerInv
    <3>2. Ms(now) >= Ms(0)
      BY <3>1, MsApart
    <3>3. Ms(0) = 0
      BY TimerAssumption DEF Ms
    <3> QED BY <3>1, <3>2, <3>3, MsRounds DEF TimerInv, Wall
  <2> QED BY <1>1, <2>1 DEF Start, TimerInv, Wall, Ms
<1>2. CASE Stop
  BY <1>2 DEF Stop, TimerInv
<1>3. CASE OnTick
  <2>1. Ms(now) \in Int /\ Ms(begun) \in Int /\ Ms(now) >= Ms(begun)
    <3>1. now \in Int /\ begun \in Int /\ now >= begun /\ 0 \in Int
      BY TimerAssumption DEF TimerInv
    <3> QED BY <3>1, MsApart, MsRounds
  <2>2. Interval \in Nat /\ Interval >= 1
    BY TimerAssumption
  <2>3. due \in Nat /\ due <= Ms(now) /\ due' = Ms(now) + Interval
        /\ fired' = (IF fired = "none" THEN "once" ELSE "again")
        /\ UNCHANGED <<now, offset, stepped, start, begun>>
    BY <1>3 DEF OnTick, TimerInv
  <2>4. Ms(begun)' = Ms(begun)
    BY <2>3 DEF Ms
  <2>5. fired # "none" /\ ~stepped => due >= Ms(begun) + Interval
    BY <2>1, <2>2, <2>3 DEF TimerInv, Stopped
  <2> QED BY <2>1, <2>2, <2>3, <2>4, <2>5 DEF TimerInv, Stopped
<1>4. CASE TimePasses
  <2>1. Ms(begun)' = Ms(begun)
    BY <1>4 DEF TimePasses, Ms
  <2> QED BY <1>4, <2>1, TimerAssumption DEF TimePasses, TimerInv
<1>5. CASE SetClock
  BY <1>5, TimerAssumption DEF SetClock, TimerInv, Ms
<1>6. CASE UNCHANGED timerVars
  BY <1>6 DEF timerVars, TimerInv, Ms
<1> QED BY <1>1, <1>2, <1>3, <1>4, <1>5, <1>6 DEF TimerNext

\* For every interval, resolution and distance of the clocks: while nobody sets
\* the wall clock, OnTick drops the tick at once and those that come too early,
\* and tells every other one but at most the second (timer.cc:18, 46-56).
THEOREM TicksAreAlwaysFiltered == TimerSpec => TicksAreFiltered
<1> DEFINE Filtered == OnTick /\ ~stepped =>
                         /\ called' => now - begun > (Interval - 1) * Sub
                         /\ fired = "again" \/ now - begun >= Interval * Sub => called'
<1>1. TimerInv => Filtered
  <2> SUFFICES ASSUME TimerInv, OnTick, ~stepped PROVE Filtered
    OBVIOUS
  <2>1. /\ GetElapsedTime = Ms(Wall) - Ms(start) /\ Wall - start = now - begun
        /\ Wall \in Int /\ start \in Int
    BY ElapsedSinceStart DEF OnTick
  <2>2. called' <=> Ms(Wall) >= Ms(start) + Interval
    <3>1. called' = (GetElapsedTime >= Interval)
      BY DEF OnTick
    <3>2. GetElapsedTime >= Interval <=> Ms(Wall) >= Ms(start) + Interval
      BY <2>1, MsRounds, TimerAssumption
    <3> QED BY <3>1, <3>2, Zenon
  <2>3. Interval \in Int /\ Sub \in Int /\ Interval >= 1 /\ Sub >= 1 /\ now \in Int /\ begun \in Int
    BY TimerAssumption DEF TimerInv
  <2>4. ASSUME called' PROVE now - begun > (Interval - 1) * Sub
    BY <2>1, <2>2, <2>3, <2>4, MsApart
  <2>5. ASSUME now - begun >= Interval * Sub PROVE called'
    <3>1. Ms(Wall) >= Ms(start) + Interval
      BY <2>1, <2>3, <2>5, MsApart
    <3> QED BY <2>2, <3>1, Zenon
  <2>6. ASSUME fired = "again" PROVE now - begun >= Interval * Sub
    <3>1. Ms(now) >= Ms(begun) + 2 * Interval
      <4>1. due >= Ms(begun) + 2 * Interval /\ due \in Nat /\ due <= Ms(now)
        BY <2>6 DEF TimerInv, OnTick
      <4> QED BY <4>1, <2>3, MsRounds
    <3>2. now - begun > (2 * Interval - 1) * Sub
      BY <2>3, <3>1, MsApart
    <3>3. (2 * Interval - 1) * Sub >= Interval * Sub
      <4>1. Interval <= 2 * Interval - 1
        BY <2>3
      <4> QED BY <2>3, <4>1, ScaleKeepsOrder
    <3>4. (2 * Interval - 1) * Sub \in Int /\ Interval * Sub \in Int
      BY <2>3
    <3> QED BY <2>3, <3>2, <3>3, <3>4
  <2> QED BY <2>4, <2>5, <2>6, Zenon
<1>2. TimerInv /\ [TimerNext]_timerVars => [Filtered]_timerVars
  BY <1>1, Zenon
<1> QED BY <1>2, TimerInvInit, TimerInvStep, PTL DEF TimerSpec, TicksAreFiltered

-----------------------------------------------------------------------------
(* Logger: what is in the log. *)

Entry == [level : Level, len : Nat, set : 0..6, file : File]
LogLine == [level : Level, kept : Int, cut : BOOLEAN, bytes : Int]

LogInv ==
    /\ fd_ \in File /\ level_ \in 0..6
    /\ entries \in Seq(Entry) /\ log \in [File -> Seq(LogLine)] /\ stderr \in Seq(Nat)
    /\ LogIsComplete

\* The place of an entry is among those counted, and one of the lines.
LEMMA PlaceIsThere ==
    ASSUME NEW n \in Nat, NEW S \in SUBSET (1..n), NEW i \in S
    PROVE  /\ IsFiniteSet(S) /\ Cardinality(S) \in Nat
           /\ Place(i, S) \in 1..Cardinality(S)
<1>1. IsFiniteSet(1..n)
  BY FS_Interval, 1 \in Int
<1>2. IsFiniteSet(S) /\ Cardinality(S) \in Nat
  BY <1>1, FS_Subset, FS_CardinalityType
<1> DEFINE T == S \cap 1..i
<1>3. IsFiniteSet(T) /\ Cardinality(T) \in Nat /\ Cardinality(T) <= Cardinality(S)
  BY <1>2, T \in SUBSET S, FS_Subset, FS_CardinalityType
<1>4. Cardinality(T) # 0
  BY <1>3, i \in T, FS_EmptySet
<1> QED BY <1>2, <1>3, <1>4 DEF Place

\* One more entry that is counted has the next place, and nobody's changes.
LEMMA OneMorePlace ==
    ASSUME NEW n \in Nat, NEW S \in SUBSET (1..n)
    PROVE  /\ IsFiniteSet(S) /\ Cardinality(S) \in Nat
           /\ Cardinality(S \cup {n + 1}) = Cardinality(S) + 1
           /\ Place(n + 1, S \cup {n + 1}) = Cardinality(S) + 1
           /\ \A i \in S : Place(i, S \cup {n + 1}) = Place(i, S)
<1>1. IsFiniteSet(1..n)
  BY FS_Interval, 1 \in Int
<1>2. IsFiniteSet(S) /\ Cardinality(S) \in Nat
  BY <1>1, FS_Subset, FS_CardinalityType
<1>3. n + 1 \notin S
  OBVIOUS
<1>4. Cardinality(S \cup {n + 1}) = Cardinality(S) + 1
  BY <1>2, <1>3, FS_AddElement
<1>5. (S \cup {n + 1}) \cap 1..(n + 1) = S \cup {n + 1}
  <2>1. S \cup {n + 1} \subseteq 1..(n + 1)
    OBVIOUS
  <2> QED BY <2>1
<1>6. ASSUME NEW i \in S PROVE Place(i, S \cup {n + 1}) = Place(i, S)
  <2>1. (S \cup {n + 1}) \cap 1..i = S \cap 1..i
    OBVIOUS
  <2> QED BY <2>1 DEF Place
<1> QED BY <1>2, <1>4, <1>5, <1>6 DEF Place

LEMMA NameLengths == \A level \in Level : level_name_lengths[level + 1] \in 5..9
BY DEF Level, TRACE, CRITICAL, level_name_lengths

\* What vprint writes of an entry.
LineIsRight(line, e) ==
    /\ line.level = e.level /\ line.bytes <= Size
    /\ IF HasRoom(e) THEN line.kept = e.len ELSE line.cut /\ line.kept < e.len

LEMMA LineFits ==
    ASSUME NEW e \in Entry
    PROVE  /\ Line(e.level, e.len) \in LogLine
           /\ LineIsRight(Line(e.level, e.len), e)
           /\ Line(e.level, e.len).cut <=> ~HasRoom(e)
<1> DEFINE before == Stamp + level_name_lengths[e.level + 1]
           line == Line(e.level, e.len)
<1>1. /\ before \in Int /\ Size \in Int /\ e.len \in Int /\ e.level \in Level
      /\ HasRoom(e) <=> before + e.len <= Size - 1
  BY NameLengths, LoggerAssumption DEF Entry, HasRoom
<1> HIDE DEF before
<1>2. line = IF before + e.len < Size
             THEN [level |-> e.level, kept |-> e.len, cut |-> FALSE, bytes |-> before + e.len + 1]
             ELSE [level |-> e.level, kept |-> Size - 4 - before, cut |-> TRUE, bytes |-> Size]
  BY DEF Line, before
<1> HIDE DEF line
<1>3. CASE before + e.len < Size
  <2>1. HasRoom(e)
    BY <1>1, <1>3
  <2>2. line = [level |-> e.level, kept |-> e.len, cut |-> FALSE, bytes |-> before + e.len + 1]
    BY <1>2, <1>3
  <2>3. /\ line \in LogLine /\ line.level = e.level /\ line.bytes <= Size /\ line.kept = e.len
        /\ line.cut = FALSE
    BY <1>1, <1>3, <2>2 DEF LogLine
  <2> QED BY <2>1, <2>3 DEF LineIsRight, line
<1>4. CASE ~(before + e.len < Size)
  <2>1. ~HasRoom(e)
    BY <1>1, <1>4
  <2>2. line = [level |-> e.level, kept |-> Size - 4 - before, cut |-> TRUE, bytes |-> Size]
    BY <1>2, <1>4
  <2>3. /\ line \in LogLine /\ line.level = e.level /\ line.bytes <= Size /\ line.kept < e.len
        /\ line.cut = TRUE
    BY <1>1, <1>4, <2>2 DEF LogLine
  <2> QED BY <2>1, <2>3 DEF LineIsRight, line
<1> QED BY <1>3, <1>4

\* An entry is written if and only if it is due.
LEMMA LoggedIfDue ==
    ASSUME level_ \in 0..6, NEW e \in Entry, e.set = level_
    PROVE  IsLogged(e.level) /\ e.len > 0 <=> IsDue(e)
<1>1. e.level \in 0..6 /\ e.set \in 0..6 /\ e.len \in Nat
  BY DEF Entry, Level, TRACE, CRITICAL
<1>2. CASE e.level = FATAL
  <2>1. IsLogged(e.level) /\ e.level # CRITICAL
    BY <1>2 DEF IsLogged, FATAL, CRITICAL
  <2> QED BY <1>2, <2>1 DEF IsDue
<1>3. CASE e.level = CRITICAL
  <2>1. e.level # FATAL
    BY <1>3 DEF CRITICAL, FATAL
  <2>2. IsLogged(e.level) <=> level_ <= TRACE
    BY <1>3, <2>1 DEF IsLogged
  <2>3. level_ <= TRACE <=> e.set = TRACE /\ e.set <= e.level
    BY <1>1, <1>3 DEF TRACE, CRITICAL
  <2> QED BY <1>3, <2>1, <2>2, <2>3 DEF IsDue
<1>4. CASE e.level # FATAL /\ e.level # CRITICAL
  <2>1. IsLogged(e.level) <=> level_ <= e.level
    BY <1>4 DEF IsLogged
  <2> QED BY <1>4, <2>1 DEF IsDue
<1> QED BY <1>2, <1>3, <1>4

LEMMA LogInvInit == LoggerInit => LogInv
<1> SUFFICES ASSUME LoggerInit PROVE LogInv
  OBVIOUS
<1>1. entries = <<>> /\ stderr = <<>> /\ log = [f \in File |-> <<>>]
      /\ fd_ = "stdout" /\ level_ = INFO
  BY DEF LoggerInit
<1>2. DOMAIN entries = {}
  BY <1>1
<1>3. Cut = {} /\ \A f \in File : DueIn(f) = {}
  BY <1>2 DEF Cut, DueIn
<1>4. LogIsComplete
  BY <1>1, <1>3, FS_EmptySet DEF LogIsComplete
<1> QED BY <1>1, <1>4 DEF LogInv, INFO, File

\* The entries counted after a call.
LEMMA OneMoreDue ==
    ASSUME LogInv, NEW e \in Entry, entries' = Append(entries, e)
    PROVE  /\ \A i \in DOMAIN entries : entries'[i] = entries[i]
           /\ entries'[Len(entries) + 1] = e
           /\ \A f \in File : DueIn(f) \subseteq 1..Len(entries)
           /\ Cut \subseteq 1..Len(entries)
           /\ \A f \in File : DueIn(f)' = IF IsDue(e) /\ e.file = f
                                          THEN DueIn(f) \cup {Len(entries) + 1} ELSE DueIn(f)
           /\ Cut' = IF IsDue(e) /\ ~HasRoom(e) THEN Cut \cup {Len(entries) + 1} ELSE Cut
<1> DEFINE n == Len(entries)
<1>1. n \in Nat /\ DOMAIN entries = 1..n /\ DOMAIN entries' = (1..n) \cup {n + 1}
  BY DEF LogInv
<1>2. (\A i \in 1..n : entries'[i] = entries[i]) /\ entries'[n + 1] = e
  BY DEF LogInv
<1> HIDE DEF n
<1>3. ASSUME NEW f \in File
      PROVE  DueIn(f)' = IF IsDue(e) /\ e.file = f THEN DueIn(f) \cup {n + 1} ELSE DueIn(f)
  <2>1. DueIn(f)' = {i \in DOMAIN entries' : IsDue(entries'[i]) /\ entries'[i].file = f}
    BY DEF DueIn, IsDue
  <2>2. DueIn(f) = {i \in DOMAIN entries : IsDue(entries[i]) /\ entries[i].file = f}
    BY DEF DueIn
  <2>3. \A i \in 1..n : i \in DueIn(f)' <=> i \in DueIn(f)
    BY <1>1, <1>2, <2>1, <2>2
  <2>4. n + 1 \in DueIn(f)' <=> IsDue(e) /\ e.file = f
    BY <1>1, <1>2, <2>1
  <2>5. DueIn(f) \subseteq 1..n /\ DueIn(f)' \subseteq (1..n) \cup {n + 1}
    BY <1>1, <2>1, <2>2
  <2>6. CASE IsDue(e) /\ e.file = f
    BY <2>3, <2>4, <2>5, <2>6, Zenon
  <2>7. CASE ~(IsDue(e) /\ e.file = f)
    <3>1. DueIn(f)' \subseteq DueIn(f) /\ DueIn(f) \subseteq DueIn(f)'
      BY <2>3, <2>4, <2>5, <2>7
    <3> QED BY <3>1, <2>7, Zenon
  <2> QED BY <2>6, <2>7
<1>4. Cut' = IF IsDue(e) /\ ~HasRoom(e) THEN Cut \cup {n + 1} ELSE Cut
  <2>1. Cut' = {i \in DOMAIN entries' : IsDue(entries'[i]) /\ ~HasRoom(entries'[i])}
    BY DEF Cut, IsDue, HasRoom
  <2>2. Cut = {i \in DOMAIN entries : IsDue(entries[i]) /\ ~HasRoom(entries[i])}
    BY DEF Cut
  <2>3. \A i \in 1..n : i \in Cut' <=> i \in Cut
    BY <1>1, <1>2, <2>1, <2>2
  <2>4. n + 1 \in Cut' <=> IsDue(e) /\ ~HasRoom(e)
    BY <1>1, <1>2, <2>1
  <2>5. Cut \subseteq 1..n /\ Cut' \subseteq (1..n) \cup {n + 1}
    BY <1>1, <2>1, <2>2
  <2>6. CASE IsDue(e) /\ ~HasRoom(e)
    BY <2>3, <2>4, <2>5, <2>6, Zenon
  <2>7. CASE ~(IsDue(e) /\ ~HasRoom(e))
    <3>1. Cut' \subseteq Cut /\ Cut \subseteq Cut'
      BY <2>3, <2>4, <2>5, <2>7
    <3> QED BY <3>1, <2>7, Zenon
  <2> QED BY <2>6, <2>7
<1>5. Cut \subseteq 1..n /\ \A f \in File : DueIn(f) \subseteq 1..n
  BY <1>1 DEF Cut, DueIn
<1> QED BY <1>1, <1>2, <1>3, <1>4, <1>5 DEF n

\* The lines of a file are those of the entries counted in it, which stay what
\* they are while it grows by a line for each.
Lines(file, S, of) ==
    /\ Len(file) = Cardinality(S)
    /\ \A i \in S : LineIsRight(file[Place(i, S)], of[i])
Copies(told, S, of) ==
    /\ Len(told) = Cardinality(S)
    /\ \A i \in S : told[Place(i, S)] = of[i].len

LEMMA CompleteByParts ==
    LogIsComplete <=>
        (\A f \in File : Lines(log[f], DueIn(f), entries)) /\ Copies(stderr, Cut, entries)
BY Zenon DEF LogIsComplete, Lines, Copies, LineIsRight

LEMMA LinesGrow ==
    ASSUME NEW file \in Seq(LogLine), NEW of \in Seq(Entry), NEW e \in Entry, NEW line \in LogLine,
           NEW S \in SUBSET (1..Len(of)), Lines(file, S, of), LineIsRight(line, e)
    PROVE  Lines(Append(file, line), S \cup {Len(of) + 1}, Append(of, e))
<1> DEFINE n == Len(of)
           more == Append(file, line)
           T == S \cup {n + 1}
<1>1. n \in Nat /\ S \in SUBSET (1..n)
  OBVIOUS
<1>2. /\ Cardinality(S) \in Nat /\ Cardinality(T) = Cardinality(S) + 1
      /\ Place(n + 1, T) = Cardinality(S) + 1
      /\ \A i \in S : Place(i, T) = Place(i, S)
  BY <1>1, OneMorePlace
<1>3. Len(file) = Cardinality(S) /\ \A i \in S : LineIsRight(file[Place(i, S)], of[i])
  BY DEF Lines
<1>4. /\ Len(more) = Len(file) + 1 /\ more[Len(file) + 1] = line
      /\ \A j \in 1..Len(file) : more[j] = file[j]
  OBVIOUS
<1>5. (\A i \in S : Append(of, e)[i] = of[i]) /\ Append(of, e)[n + 1] = e
  OBVIOUS
<1>6. ASSUME NEW i \in S PROVE LineIsRight(more[Place(i, T)], Append(of, e)[i])
  <2>1. Place(i, S) \in 1..Len(file)
    BY <1>1, <1>3, PlaceIsThere
  <2> QED BY <1>2, <1>3, <1>4, <1>5, <2>1
<1>7. LineIsRight(more[Place(n + 1, T)], Append(of, e)[n + 1])
  BY <1>2, <1>3, <1>4, <1>5
<1>8. Len(more) = Cardinality(T)
  BY <1>2, <1>3, <1>4
<1> QED BY <1>6, <1>7, <1>8 DEF Lines

LEMMA LinesStay ==
    ASSUME NEW file, NEW of \in Seq(Entry), NEW e \in Entry,
           NEW S \in SUBSET (1..Len(of)), Lines(file, S, of)
    PROVE  Lines(file, S, Append(of, e))
<1>1. \A i \in S : Append(of, e)[i] = of[i]
  OBVIOUS
<1> QED BY <1>1 DEF Lines

LEMMA CopiesGrow ==
    ASSUME NEW told \in Seq(Nat), NEW of \in Seq(Entry), NEW e \in Entry,
           NEW S \in SUBSET (1..Len(of)), Copies(told, S, of)
    PROVE  /\ Copies(Append(told, e.len), S \cup {Len(of) + 1}, Append(of, e))
           /\ Copies(told, S, Append(of, e))
<1> DEFINE n == Len(of)
           more == Append(told, e.len)
           T == S \cup {n + 1}
<1>1. n \in Nat /\ S \in SUBSET (1..n) /\ e.len \in Nat
  BY DEF Entry
<1>2. /\ Cardinality(S) \in Nat /\ Cardinality(T) = Cardinality(S) + 1
      /\ Place(n + 1, T) = Cardinality(S) + 1
      /\ \A i \in S : Place(i, T) = Place(i, S)
  BY <1>1, OneMorePlace
<1>3. Len(told) = Cardinality(S) /\ \A i \in S : told[Place(i, S)] = of[i].len
  BY DEF Copies
<1>4. /\ Len(more) = Len(told) + 1 /\ more[Len(told) + 1] = e.len
      /\ \A j \in 1..Len(told) : more[j] = told[j]
  BY <1>1
<1>5. (\A i \in S : Append(of, e)[i] = of[i]) /\ Append(of, e)[n + 1] = e
  OBVIOUS
<1>6. ASSUME NEW i \in S PROVE more[Place(i, T)] = Append(of, e)[i].len
  <2>1. Place(i, S) \in 1..Len(told)
    BY <1>1, <1>3, PlaceIsThere
  <2> QED BY <1>2, <1>3, <1>4, <1>5, <2>1
<1>7. more[Place(n + 1, T)] = Append(of, e)[n + 1].len
  BY <1>2, <1>3, <1>4, <1>5
<1>8. Len(more) = Cardinality(T)
  BY <1>2, <1>3, <1>4
<1>9. Copies(told, S, Append(of, e))
  BY <1>3, <1>5 DEF Copies
<1> QED BY <1>6, <1>7, <1>8, <1>9 DEF Copies

LEMMA LogInvStep == LogInv /\ [LoggerNext]_loggerVars => LogInv'
<1> SUFFICES ASSUME LogInv, [LoggerNext]_loggerVars PROVE LogInv'
  OBVIOUS
<1>1. ASSUME UNCHANGED <<entries, log, stderr>>, fd_' \in File, level_' \in 0..6 PROVE LogInv'
  <2>1. Cut' = Cut /\ \A f \in File : DueIn(f)' = DueIn(f)
    BY <1>1 DEF DueIn, Cut, IsDue, HasRoom
  <2>2. /\ \A f \in File : Lines(log'[f], DueIn(f)', entries')
        /\ Copies(stderr', Cut', entries')
    BY <1>1, <2>1, CompleteByParts DEF LogInv
  <2>3. LogIsComplete'
    BY <2>2, Zenon DEF LogIsComplete, Lines, Copies, LineIsRight
  <2> QED BY <1>1, <2>3 DEF LogInv
<1>2. CASE open_log
  BY <1>1, <1>2, LoggerAssumption DEF open_log
<1>3. ASSUME NEW level \in Level, NEW len \in Lengths, vprint(level, len) PROVE LogInv'
  <2> DEFINE e == [level |-> level, len |-> len, set |-> level_, file |-> fd_]
             line == Line(level, len)
             n == Len(entries)
  <2>1. /\ e \in Entry /\ e.level = level /\ e.len = len /\ e.set = level_ /\ e.file = fd_
        /\ fd_ \in File /\ level_ \in 0..6
    BY LoggerAssumption DEF LogInv, Entry
  <2>2. entries' = Append(entries, e) /\ UNCHANGED <<fd_, level_>>
    BY <1>3 DEF vprint
  <2>3. /\ entries \in Seq(Entry) /\ log \in [File -> Seq(LogLine)] /\ stderr \in Seq(Nat)
        /\ entries' \in Seq(Entry)
    BY <2>1, <2>2 DEF LogInv
  <2> HIDE DEF e
  <2>4. line \in LogLine /\ LineIsRight(line, e) /\ (line.cut <=> ~HasRoom(e))
    BY <2>1, LineFits
  <2>5. IsLogged(level) /\ len > 0 <=> IsDue(e)
    BY <2>1, LoggedIfDue
  <2> HIDE DEF line
  <2>6. /\ \A f \in File : Lines(log[f], DueIn(f), entries)
        /\ Copies(stderr, Cut, entries)
    BY CompleteByParts DEF LogInv
  <2>7. /\ \A f \in File : DueIn(f) \in SUBSET (1..n)
        /\ Cut \in SUBSET (1..n)
        /\ \A f \in File : DueIn(f)' = IF IsDue(e) /\ e.file = f
                                       THEN DueIn(f) \cup {n + 1} ELSE DueIn(f)
        /\ Cut' = IF IsDue(e) /\ ~HasRoom(e) THEN Cut \cup {n + 1} ELSE Cut
    BY <2>1, <2>2, OneMoreDue
  <2>8. CASE IsDue(e)
    <3>1. /\ log' = [log EXCEPT ![fd_] = Append(@, line)]
          /\ stderr' = IF line.cut THEN Append(stderr, len) ELSE stderr
      BY <1>3, <2>5, <2>8 DEF vprint, line
    <3>2. log'[fd_] = Append(log[fd_], line) /\ \A f \in File : f # fd_ => log'[f] = log[f]
      BY <2>1, <2>3, <3>1
    <3>3. log' \in [File -> Seq(LogLine)] /\ stderr' \in Seq(Nat)
      <4>1. Append(log[fd_], line) \in Seq(LogLine) /\ len \in Nat
        BY <2>1, <2>3, <2>4, LoggerAssumption
      <4>2. log' \in [File -> Seq(LogLine)]
        BY <2>1, <2>3, <3>1, <4>1
      <4>3. stderr' \in Seq(Nat)
        BY <2>3, <3>1, <4>1
      <4> QED BY <4>2, <4>3
    <3>4. ASSUME NEW f \in File PROVE Lines(log'[f], DueIn(f)', entries')
      <4>1. CASE f = fd_
        <5>1. DueIn(f)' = DueIn(f) \cup {n + 1}
          BY <2>1, <2>7, <2>8, <4>1
        <5>2. log[f] \in Seq(LogLine)
          BY <2>3
        <5>3. Lines(Append(log[f], line), DueIn(f) \cup {n + 1}, Append(entries, e))
          BY <2>1, <2>3, <2>4, <2>6, <2>7, <5>2, LinesGrow
        <5> QED BY <2>2, <3>2, <4>1, <5>1, <5>3
      <4>2. CASE f # fd_
        <5>1. DueIn(f)' = DueIn(f)
          BY <2>1, <2>7, <4>2
        <5>2. Lines(log[f], DueIn(f), Append(entries, e))
          BY <2>1, <2>3, <2>6, <2>7, LinesStay
        <5> QED BY <2>2, <3>2, <4>2, <5>1, <5>2
      <4> QED BY <4>1, <4>2
    <3>5. Copies(stderr', Cut', entries')
      <4>1. /\ Copies(Append(stderr, e.len), Cut \cup {n + 1}, Append(entries, e))
            /\ Copies(stderr, Cut, Append(entries, e))
        BY <2>1, <2>3, <2>6, <2>7, CopiesGrow
      <4>2. CASE HasRoom(e)
        BY <2>2, <2>4, <2>7, <3>1, <4>1, <4>2
      <4>3. CASE ~HasRoom(e)
        <5>1. stderr' = Append(stderr, e.len) /\ Cut' = Cut \cup {n + 1}
          BY <2>1, <2>4, <2>7, <2>8, <3>1, <4>3
        <5> QED BY <2>2, <4>1, <5>1
      <4> QED BY <4>2, <4>3
    <3>6. LogIsComplete'
      BY <3>4, <3>5, Zenon DEF LogIsComplete, Lines, Copies, LineIsRight
    <3> QED BY <2>1, <2>2, <2>3, <3>3, <3>6 DEF LogInv
  <2>9. CASE ~IsDue(e)
    <3>1. UNCHANGED <<log, stderr>>
      BY <1>3, <2>5, <2>9 DEF vprint
    <3>2. Cut' = Cut /\ \A f \in File : DueIn(f)' = DueIn(f)
      BY <2>7, <2>9
    <3>3. /\ \A f \in File : Lines(log[f], DueIn(f), Append(entries, e))
          /\ Copies(stderr, Cut, Append(entries, e))
      BY <2>1, <2>3, <2>6, <2>7, LinesStay, CopiesGrow
    <3>4. /\ \A f \in File : Lines(log'[f], DueIn(f)', entries')
          /\ Copies(stderr', Cut', entries')
      BY <2>2, <3>1, <3>2, <3>3
    <3>5. LogIsComplete'
      BY <3>4, Zenon DEF LogIsComplete, Lines, Copies, LineIsRight
    <3> QED BY <2>1, <2>2, <2>3, <3>1, <3>5 DEF LogInv
  <2> QED BY <2>8, <2>9
<1>4. CASE UNCHANGED loggerVars
  BY <1>1, <1>4 DEF loggerVars, LogInv
<1> QED BY <1>2, <1>3, <1>4 DEF LoggerNext

\* Every entry of a level that is logged is in the log, in its file and its
\* place, and what did not fit is told and on stderr, for every sequence of
\* calls and every change of the file and the level between them
\* (logger.cc:97-130).
THEOREM LogIsAlwaysComplete == LoggerSpec => []LogIsComplete
<1>1. LogInv => LogIsComplete
  BY DEF LogInv
<1> QED BY <1>1, LogInvInit, LogInvStep, PTL DEF LoggerSpec

-----------------------------------------------------------------------------
(* MemoryPool: the two lists. *)

\* The blocks of S in a row, linked by nx and back by pv; what comes before the
\* first is no block.
Row(l, n, head, S, nx, pv) ==
    /\ \A b \in S : \E i \in 1..n : l[i] = b
    /\ \A i, j \in 1..n : l[i] = l[j] => i = j
    /\ head = IF n = 0 THEN Null ELSE l[1]
    /\ \A i \in 1..n : nx[l[i]] = IF i < n THEN l[i + 1] ELSE Null
    /\ \A i \in 1..n : i > 1 => pv[l[i]] = l[i - 1]
    /\ n > 0 => pv[l[1]] \notin Block

IsList(head, S, nx, pv) ==
    \E n \in Nat : \E l \in [1..n -> S] : Row(l, n, head, S, nx, pv)

PoolInv ==
    /\ used \subseteq owned /\ owned \subseteq Block
    /\ prev \in [Block -> Block \cup {Null, Wild}] /\ next \in [Block -> Block \cup {Null}]
    /\ IsList(allocated, used, next, prev)
    /\ IsList(free, owned \ used, next, prev)

\* What a row says of its first block and of the others.
LEMMA InRow ==
    ASSUME NEW S \in SUBSET Block, NEW nx, NEW pv, NEW head, IsList(head, S, nx, pv)
    PROVE  /\ head \in S \cup {Null} /\ (head = Null <=> S = {})
           /\ head # Null => pv[head] \notin Block
           /\ \A b \in S : /\ nx[b] \in S \cup {Null} /\ nx[b] # b /\ nx[b] # head
                           /\ nx[b] # Null => pv[nx[b]] = b
                           /\ b # head => pv[b] \in S /\ pv[b] # b /\ nx[pv[b]] = b
<1>0. PICK n \in Nat : \E l \in [1..n -> S] : Row(l, n, head, S, nx, pv)
  BY Zenon DEF IsList
<1>1. PICK l \in [1..n -> S] : Row(l, n, head, S, nx, pv)
  BY <1>0
<1>2. Null \notin Block
  BY PoolAssumption
<1>3. head \in S \cup {Null} /\ (head = Null <=> S = {})
  BY <1>1, <1>2 DEF Row
<1>4. head # Null => pv[head] \notin Block
  BY <1>1 DEF Row
<1>5. ASSUME NEW b \in S
      PROVE  /\ nx[b] \in S \cup {Null} /\ nx[b] # b /\ nx[b] # head
             /\ nx[b] # Null => pv[nx[b]] = b
             /\ b # head => pv[b] \in S /\ pv[b] # b /\ nx[pv[b]] = b
  <2>1. PICK i \in 1..n : l[i] = b
    BY <1>1 DEF Row
  <2>2. n # 0 /\ head = l[1] /\ 1 \in 1..n
    BY <1>1, <2>1 DEF Row
  <2>3. /\ nx[b] = IF i < n THEN l[i + 1] ELSE Null
        /\ \A j, k \in 1..n : l[j] = l[k] => j = k
    BY <1>1, <2>1 DEF Row
  <2>4. nx[b] \in S \cup {Null} /\ nx[b] # b /\ nx[b] # head
    <3>1. CASE i < n
      <4>1. i + 1 \in 1..n /\ i + 1 # i /\ i + 1 # 1
        BY <3>1
      <4> QED BY <2>1, <2>2, <2>3, <3>1, <4>1
    <3>2. CASE ~(i < n)
      BY <1>2, <2>2, <2>3, <3>2
    <3> QED BY <3>1, <3>2
  <2>5. ASSUME nx[b] # Null PROVE pv[nx[b]] = b
    <3>1. i < n /\ i + 1 \in 1..n /\ i + 1 > 1 /\ (i + 1) - 1 = i
      BY <2>3, <2>5
    <3>2. pv[l[i + 1]] = l[(i + 1) - 1]
      BY <1>1, <3>1 DEF Row
    <3> QED BY <2>1, <2>3, <3>1, <3>2
  <2>6. ASSUME b # head PROVE pv[b] \in S /\ pv[b] # b /\ nx[pv[b]] = b
    <3>1. i > 1 /\ i - 1 \in 1..n /\ i - 1 < n /\ (i - 1) + 1 = i /\ i - 1 # i
      BY <2>1, <2>2, <2>6
    <3>2. pv[b] = l[i - 1]
      BY <1>1, <2>1, <3>1 DEF Row
    <3>3. nx[l[i - 1]] = l[(i - 1) + 1]
      BY <1>1, <3>1 DEF Row
    <3> QED BY <2>1, <2>3, <3>1, <3>2, <3>3
  <2> QED BY <2>4, <2>5, <2>6
<1> QED BY <1>3, <1>4, <1>5

LEMMA BesidesInRow ==
    ASSUME NEW S \in SUBSET Block, NEW nx, NEW pv, NEW head, IsList(head, S, nx, pv),
           NEW b \in S
    PROVE  /\ nx[b] \in S \cup {Null} /\ nx[b] # b /\ nx[b] # head
           /\ nx[b] # Null => pv[nx[b]] = b
           /\ b # head => pv[b] \in S /\ pv[b] # b /\ nx[pv[b]] = b
<1> QED BY InRow

LEMMA RowKept ==
    ASSUME NEW S \in SUBSET Block, NEW nx, NEW pv, NEW head, IsList(head, S, nx, pv),
           NEW nx2, NEW pv2, \A b \in S : nx2[b] = nx[b] /\ pv2[b] = pv[b]
    PROVE  IsList(head, S, nx2, pv2)
<1>0. PICK n \in Nat : \E l \in [1..n -> S] : Row(l, n, head, S, nx, pv)
  BY Zenon DEF IsList
<1>1. PICK l \in [1..n -> S] : Row(l, n, head, S, nx, pv)
  BY <1>0
<1>2. Row(l, n, head, S, nx2, pv2)
  <2>1. \A i \in 1..n : nx2[l[i]] = nx[l[i]] /\ pv2[l[i]] = pv[l[i]]
    OBVIOUS
  <2>2. n > 0 => 1 \in 1..n
    OBVIOUS
  <2>3. /\ \A b \in S : \E i \in 1..n : l[i] = b
        /\ \A i, j \in 1..n : l[i] = l[j] => i = j
        /\ head = IF n = 0 THEN Null ELSE l[1]
    BY <1>1 DEF Row
  <2>4. \A i \in 1..n : nx2[l[i]] = IF i < n THEN l[i + 1] ELSE Null
    BY <1>1, <2>1 DEF Row
  <2>5. \A i \in 1..n : i > 1 => pv2[l[i]] = l[i - 1]
    BY <1>1, <2>1 DEF Row
  <2>6. n > 0 => pv2[l[1]] \notin Block
    BY <1>1, <2>1, <2>2 DEF Row
  <2> QED BY <2>3, <2>4, <2>5, <2>6 DEF Row
<1> QED BY <1>2 DEF IsList

\* A block is put before the first.
LEMMA RowPushed ==
    ASSUME NEW S \in SUBSET Block, NEW nx, NEW pv, NEW head, IsList(head, S, nx, pv),
           NEW b \in Block, b \notin S,
           NEW nx2, nx2[b] = head, \A c \in S : nx2[c] = nx[c],
           NEW pv2, pv2[b] \notin Block,
           \A c \in S : pv2[c] = IF c = head THEN b ELSE pv[c]
    PROVE  IsList(b, S \cup {b}, nx2, pv2)
<1>0. PICK n \in Nat : \E l \in [1..n -> S] : Row(l, n, head, S, nx, pv)
  BY Zenon DEF IsList
<1>1. PICK l \in [1..n -> S] : Row(l, n, head, S, nx, pv)
  BY <1>0
<1> DEFINE m == n + 1
           k == [i \in 1..m |-> IF i = 1 THEN b ELSE l[i - 1]]
<1>2. m \in Nat /\ 1 \in 1..m /\ m # 0
  OBVIOUS
<1>3. k[1] = b /\ \A i \in 1..m : i # 1 => i - 1 \in 1..n /\ k[i] = l[i - 1] /\ k[i] \in S
  OBVIOUS
<1>4. \A i \in 1..n : i + 1 \in 1..m /\ i + 1 # 1 /\ (i + 1) - 1 = i /\ k[i + 1] = l[i]
  BY <1>3
<1>5. k \in [1..m -> S \cup {b}]
  BY <1>3
<1> HIDE DEF k
<1>6. \A c \in S \cup {b} : \E i \in 1..m : k[i] = c
  <2> SUFFICES ASSUME NEW c \in S \cup {b} PROVE \E i \in 1..m : k[i] = c
    OBVIOUS
  <2>1. CASE c = b
    BY <1>2, <1>3, <2>1
  <2>2. CASE c \in S
    <3>1. PICK i \in 1..n : l[i] = c
      BY <1>1, <2>2 DEF Row
    <3> QED BY <1>4, <3>1
  <2> QED BY <2>1, <2>2
<1>7. \A i, j \in 1..m : k[i] = k[j] => i = j
  <2> SUFFICES ASSUME NEW i \in 1..m, NEW j \in 1..m, k[i] = k[j] PROVE i = j
    OBVIOUS
  <2>1. CASE i # 1 /\ j # 1
    <3>1. i - 1 = j - 1
      BY <1>1, <1>3, <2>1 DEF Row
    <3> QED BY <3>1
  <2> QED BY <1>3, <2>1
<1>8. ASSUME NEW i \in 1..m PROVE nx2[k[i]] = IF i < m THEN k[i + 1] ELSE Null
  <2>1. CASE i = 1
    <3>1. CASE n = 0
      BY <1>1, <1>3, <2>1, <3>1 DEF Row
    <3>2. CASE n # 0
      <4>1. 1 \in 1..n /\ 1 < m
        BY <3>2
      <4> QED BY <1>1, <1>3, <1>4, <2>1, <3>2, <4>1 DEF Row
    <3> QED BY <3>1, <3>2
  <2>2. CASE i # 1
    <3>1. i - 1 \in 1..n /\ k[i] = l[i - 1] /\ k[i] \in S
      BY <1>3, <2>2
    <3>2. nx[l[i - 1]] = IF i - 1 < n THEN l[(i - 1) + 1] ELSE Null
      BY <1>1, <3>1 DEF Row
    <3>3. CASE i < m
      <4>1. i - 1 < n /\ (i - 1) + 1 = i /\ i \in 1..n
        BY <3>1, <3>3
      <4>2. k[i + 1] = l[i]
        BY <1>4, <4>1
      <4> QED BY <3>1, <3>2, <3>3, <4>1, <4>2
    <3>4. CASE ~(i < m)
      <4>1. ~(i - 1 < n)
        BY <3>4
      <4> QED BY <3>1, <3>2, <3>4, <4>1
    <3> QED BY <3>3, <3>4
  <2> QED BY <2>1, <2>2
<1>9. ASSUME NEW i \in 1..m, i > 1 PROVE pv2[k[i]] = k[i - 1]
  <2>1. i - 1 \in 1..n /\ k[i] = l[i - 1] /\ k[i] \in S
    BY <1>3, <1>9
  <2>2. CASE i - 1 = 1
    <3>1. head = l[1] /\ i = 2
      BY <1>1, <2>1, <2>2 DEF Row
    <3> QED BY <1>3, <2>1, <2>2, <3>1
  <2>3. CASE i - 1 > 1
    <3>1. pv[l[i - 1]] = l[(i - 1) - 1] /\ head = l[1] /\ 1 \in 1..n
      BY <1>1, <2>1, <2>3 DEF Row
    <3>2. l[i - 1] # head
      BY <1>1, <2>1, <2>3, <3>1 DEF Row
    <3>3. i - 1 \in 1..m /\ i - 1 # 1
      BY <2>1, <2>3
    <3> QED BY <1>3, <2>1, <3>1, <3>2, <3>3
  <2> QED BY <2>1, <2>2, <2>3
<1>10. Row(k, m, b, S \cup {b}, nx2, pv2)
  BY <1>2, <1>3, <1>6, <1>7, <1>8, <1>9 DEF Row
<1> QED BY <1>2, <1>5, <1>10 DEF IsList

\* A block is taken out, from wherever it is.
LEMMA RowWithout ==
    ASSUME NEW S \in SUBSET Block, NEW nx, NEW pv, NEW head, IsList(head, S, nx, pv),
           NEW b \in S,
           NEW head2, head2 = IF b = head THEN nx[b] ELSE head,
           NEW nx2, \A c \in S \ {b} : nx2[c] = IF nx[c] = b THEN nx[b] ELSE nx[c],
           NEW pv2, \A c \in S \ {b} : c # nx[b] => pv2[c] = pv[c],
           nx[b] # Null => IF b = head THEN pv2[nx[b]] \notin Block ELSE pv2[nx[b]] = pv[b]
    PROVE  IsList(head2, S \ {b}, nx2, pv2)
<1>0. PICK n \in Nat : \E l \in [1..n -> S] : Row(l, n, head, S, nx, pv)
  BY Zenon DEF IsList
<1>1. PICK l \in [1..n -> S] : Row(l, n, head, S, nx, pv)
  BY <1>0
<1>2. PICK k \in 1..n : l[k] = b
  BY <1>1 DEF Row
<1>3. /\ \A i, j \in 1..n : l[i] = l[j] => i = j
      /\ \A i \in 1..n : nx[l[i]] = IF i < n THEN l[i + 1] ELSE Null
      /\ \A i \in 1..n : i > 1 => pv[l[i]] = l[i - 1]
      /\ head = l[1] /\ 1 \in 1..n
      /\ \A c \in S : \E i \in 1..n : l[i] = c
      /\ pv[l[1]] \notin Block
  BY <1>1, <1>2 DEF Row
<1>4. \A i \in 1..n : l[i] \in S \cap Block /\ (i # k => l[i] \in S \ {b})
  BY <1>2, <1>3
<1>5. Null \notin Block
  BY PoolAssumption
<1> DEFINE m == n - 1
           r == [i \in 1..m |-> IF i < k THEN l[i] ELSE l[i + 1]]
<1>6. m \in Nat
  BY <1>2
<1>7. /\ \A i \in 1..m : i < k => i \in 1..n /\ i # k /\ r[i] = l[i]
      /\ \A i \in 1..m : ~(i < k) => i + 1 \in 1..n /\ i + 1 # k /\ r[i] = l[i + 1]
  BY <1>2
<1>8. r \in [1..m -> S \ {b}]
  BY <1>4, <1>7
<1> HIDE DEF r
<1>9. \A c \in S \ {b} : \E i \in 1..m : r[i] = c
  <2> SUFFICES ASSUME NEW c \in S \ {b} PROVE \E i \in 1..m : r[i] = c
    OBVIOUS
  <2>1. PICK i \in 1..n : l[i] = c
    BY <1>3
  <2>2. i # k
    BY <1>2, <2>1
  <2>3. CASE i < k
    <3>1. i \in 1..m
      BY <2>3, <1>2
    <3> QED BY <1>7, <2>1, <2>3, <3>1
  <2>4. CASE i > k
    <3>1. i - 1 \in 1..m /\ ~(i - 1 < k) /\ (i - 1) + 1 = i
      BY <2>4, <1>2
    <3>2. r[i - 1] = l[(i - 1) + 1]
      BY <1>7, <3>1
    <3>3. r[i - 1] = c
      BY <2>1, <3>1, <3>2
    <3> QED BY <3>1, <3>3
  <2> QED BY <2>2, <2>3, <2>4
<1>10. \A i, j \in 1..m : r[i] = r[j] => i = j
  <2> SUFFICES ASSUME NEW i \in 1..m, NEW j \in 1..m, r[i] = r[j] PROVE i = j
    OBVIOUS
  <2>1. CASE i < k /\ j < k
    BY <1>3, <1>7, <2>1
  <2>2. CASE i < k /\ ~(j < k)
    <3>1. i = j + 1
      BY <1>3, <1>7, <2>2
    <3> QED BY <2>2, <3>1
  <2>3. CASE ~(i < k) /\ j < k
    <3>1. i + 1 = j
      BY <1>3, <1>7, <2>3
    <3> QED BY <2>3, <3>1
  <2>4. CASE ~(i < k) /\ ~(j < k)
    <3>1. i + 1 = j + 1
      BY <1>3, <1>7, <2>4
    <3> QED BY <3>1
  <2> QED BY <2>1, <2>2, <2>3, <2>4
<1>11. head2 = IF m = 0 THEN Null ELSE r[1]
  <2>1. CASE k = 1
    <3>1. head2 = nx[b] /\ nx[b] = IF 1 < n THEN l[1 + 1] ELSE Null
      BY <1>2, <1>3, <2>1
    <3>2. CASE m = 0
      BY <3>1, <3>2
    <3>3. CASE m # 0
      <4>1. 1 \in 1..m /\ ~(1 < k) /\ 1 < n
        BY <2>1, <3>3, <1>6
      <4> QED BY <1>7, <3>1, <3>3, <4>1
    <3> QED BY <3>2, <3>3
  <2>2. CASE k # 1
    <3>1. head2 = l[1]
      BY <1>2, <1>3, <2>2
    <3>2. 1 \in 1..m /\ 1 < k /\ m # 0
      BY <1>2, <2>2
    <3> QED BY <1>7, <3>1, <3>2
  <2> QED BY <2>1, <2>2
<1>12. ASSUME NEW i \in 1..m PROVE nx2[r[i]] = IF i < m THEN r[i + 1] ELSE Null
  <2>1. r[i] \in S \ {b}
    BY <1>8
  <2>2. CASE i + 1 < k
    <3>1. i + 1 \in 1..m /\ i < m /\ i < k /\ i \in 1..n /\ i < n /\ i + 1 \in 1..n /\ i + 1 # k
      BY <1>2, <2>2
    <3>2. r[i] = l[i] /\ r[i + 1] = l[i + 1] /\ nx[l[i]] = l[i + 1] /\ l[i + 1] # b
      BY <1>3, <1>4, <1>7, <2>2, <3>1
    <3> QED BY <2>1, <3>1, <3>2
  <2>3. CASE i + 1 = k
    <3>1. i < k /\ i \in 1..n /\ i < n
      BY <1>2, <2>3
    <3>2. r[i] = l[i] /\ nx[l[i]] = b
      BY <1>2, <1>3, <1>7, <2>3, <3>1
    <3>3. nx2[r[i]] = nx[b] /\ nx[b] = IF k < n THEN l[k + 1] ELSE Null
      BY <1>2, <1>3, <2>1, <3>2
    <3>4. CASE i < m
      <4>1. k < n /\ i + 1 \in 1..m /\ ~(i + 1 < k) /\ (i + 1) + 1 = k + 1
        BY <2>3, <3>4
      <4> QED BY <1>7, <3>3, <3>4, <4>1
    <3>5. CASE ~(i < m)
      BY <2>3, <3>3, <3>5
    <3> QED BY <3>4, <3>5
  <2>4. CASE ~(i < k)
    <3>1. i + 1 \in 1..n /\ r[i] = l[i + 1]
          /\ nx[l[i + 1]] = IF i + 1 < n THEN l[(i + 1) + 1] ELSE Null
      BY <1>3, <1>7, <2>4
    <3>2. CASE i < m
      <4>1. i + 1 < n /\ i + 1 \in 1..m /\ ~(i + 1 < k) /\ (i + 1) + 1 \in 1..n /\ (i + 1) + 1 # k
        BY <2>4, <3>2
      <4>2. r[i + 1] = l[(i + 1) + 1] /\ l[(i + 1) + 1] # b
        BY <1>4, <1>7, <4>1
      <4> QED BY <2>1, <3>1, <3>2, <4>1, <4>2
    <3>3. CASE ~(i < m)
      <4>1. nx[r[i]] = Null /\ Null # b
        BY <1>5, <3>1, <3>3
      <4> QED BY <2>1, <3>3, <4>1
    <3> QED BY <3>2, <3>3
  <2> QED BY <2>2, <2>3, <2>4
<1>13. ASSUME NEW i \in 1..m, i > 1 PROVE pv2[r[i]] = r[i - 1]
  <2>1. i - 1 \in 1..m /\ (i - 1) + 1 = i /\ i \in 1..n
    BY <1>13
  <2>2. CASE i < k
    <3>1. r[i] = l[i] /\ r[i - 1] = l[i - 1]
      BY <1>7, <2>1, <2>2
    <3>2. l[i] # nx[b]
      <4>1. nx[b] = IF k < n THEN l[k + 1] ELSE Null
        BY <1>2, <1>3
      <4>2. CASE k < n
        <5>1. k + 1 \in 1..n /\ i # k + 1
          BY <1>2, <2>2, <4>2
        <5> QED BY <1>3, <2>1, <4>1, <4>2, <5>1
      <4> QED BY <1>4, <1>5, <2>1, <4>1, <4>2
    <3>3. l[i] \in S \ {b}
      BY <1>4, <2>1, <2>2
    <3>4. pv[l[i]] = l[i - 1]
      BY <1>3, <1>13, <2>1
    <3> QED BY <3>1, <3>2, <3>3, <3>4
  <2>3. CASE i = k
    <3>1. r[i] = l[k + 1] /\ k + 1 \in 1..n /\ k < n
      BY <1>7, <2>1, <2>3
    <3>2. nx[b] = l[k + 1] /\ nx[b] # Null /\ b # head /\ pv[b] = l[k - 1]
      <4>1. nx[b] = l[k + 1]
        BY <1>2, <1>3, <3>1
      <4>2. nx[b] # Null
        BY <1>4, <1>5, <3>1, <4>1
      <4>3. k > 1
        BY <1>13, <2>3
      <4>4. b # head
        BY <1>2, <1>3, <4>3
      <4>5. pv[b] = l[k - 1]
        BY <1>2, <1>3, <4>3
      <4> QED BY <4>1, <4>2, <4>4, <4>5
    <3>3. r[i - 1] = l[i - 1]
      BY <1>7, <2>1, <2>3
    <3> QED BY <2>3, <3>1, <3>2, <3>3
  <2>4. CASE i > k
    <3>1. i + 1 \in 1..n /\ r[i] = l[i + 1] /\ r[i - 1] = l[i]
      BY <1>7, <2>1, <2>4
    <3>2. pv[l[i + 1]] = l[(i + 1) - 1] /\ (i + 1) - 1 = i
      BY <1>3, <1>13, <3>1
    <3>3. l[i + 1] # nx[b]
      <4>1. k < n /\ k + 1 \in 1..n /\ k + 1 # i + 1 /\ nx[b] = l[k + 1]
        BY <1>2, <1>3, <2>4
      <4> QED BY <1>3, <3>1, <4>1
    <3>4. l[i + 1] \in S \ {b}
      BY <1>4, <2>4, <3>1
    <3> QED BY <3>1, <3>2, <3>3, <3>4
  <2> QED BY <2>2, <2>3, <2>4
<1>14. m > 0 => pv2[r[1]] \notin Block
  <2> SUFFICES ASSUME m > 0 PROVE pv2[r[1]] \notin Block
    OBVIOUS
  <2>1. 1 \in 1..m /\ 1 \in 1..n /\ 1 < n
    BY <1>2
  <2>2. CASE k = 1
    <3>1. r[1] = l[1 + 1] /\ nx[b] = l[1 + 1] /\ b = head /\ 1 + 1 \in 1..n
      BY <1>2, <1>3, <1>7, <2>1, <2>2
    <3>2. nx[b] # Null
      BY <1>4, <1>5, <3>1
    <3> QED BY <3>1, <3>2
  <2>3. CASE k # 1
    <3>1. r[1] = l[1] /\ l[1] \in S \ {b}
      BY <1>2, <1>4, <1>7, <2>1, <2>3
    <3>2. l[1] # nx[b]
      <4>1. nx[b] = IF k < n THEN l[k + 1] ELSE Null
        BY <1>2, <1>3
      <4>2. CASE k < n
        <5>1. k + 1 \in 1..n /\ 1 # k + 1
          BY <1>2, <4>2
        <5> QED BY <1>3, <4>1, <4>2, <5>1
      <4> QED BY <1>4, <1>5, <2>1, <4>1, <4>2
    <3> QED BY <1>3, <3>1, <3>2
  <2> QED BY <2>2, <2>3
<1>15. Row(r, m, head2, S \ {b}, nx2, pv2)
  BY <1>6, <1>9, <1>10, <1>11, <1>12, <1>13, <1>14 DEF Row
<1> QED BY <1>6, <1>8, <1>15, Zenon DEF IsList

LEMMA RowWithoutFirst ==
    ASSUME NEW S \in SUBSET Block, NEW nx, NEW pv, NEW b \in S, IsList(b, S, nx, pv),
           NEW nx2, \A c \in S \ {b} : nx2[c] = IF nx[c] = b THEN nx[b] ELSE nx[c],
           NEW pv2, \A c \in S \ {b} : c # nx[b] => pv2[c] = pv[c],
           nx[b] # Null => pv2[nx[b]] \notin Block
    PROVE  IsList(nx[b], S \ {b}, nx2, pv2)
<1> PICK head2 : head2 = nx[b]
  OBVIOUS
<1>1. /\ head2 = IF b = b THEN nx[b] ELSE b
      /\ nx[b] # Null => IF b = b THEN pv2[nx[b]] \notin Block ELSE pv2[nx[b]] = pv[b]
  OBVIOUS
<1>2. IsList(head2, S \ {b}, nx2, pv2)
  BY <1>1, RowWithout
<1> QED BY <1>2

\* p->prev = v.
LEMMA PrevSet ==
    ASSUME NEW f \in [Block -> Block \cup {Null, Wild}], NEW p, NEW v \in Block \cup {Null, Wild}
    PROVE  /\ SetPrev(f, p, v) \in [Block -> Block \cup {Null, Wild}]
           /\ p \in Block => SetPrev(f, p, v)[p] = v
           /\ \A b \in Block : b # p => SetPrev(f, p, v)[b] = f[b]
BY DEF SetPrev

LEMMA PoolInvInit == PoolInit => PoolInv
<1> SUFFICES ASSUME PoolInit PROVE PoolInv
  OBVIOUS
<1>1. IsList(Null, {}, next, prev)
  <2>1. [i \in 1..0 |-> Null] \in [1..0 -> {}]
    OBVIOUS
  <2>2. Row([i \in 1..0 |-> Null], 0, Null, {}, next, prev)
    BY DEF Row
  <2> QED BY <2>1, <2>2, 0 \in Nat, Zenon DEF IsList
<1>2. owned \ used = {}
  BY DEF PoolInit
<1> QED BY <1>1, <1>2 DEF PoolInit, PoolInv

LEMMA FreshKeeps ==
    ASSUME Leftover \cap Block = {}, PoolInv, NEW b \in Block, AllocateFresh(b)
    PROVE  PoolInv'
<1>1. PICK rest \in Leftover : prev' = SetPrev([prev EXCEPT ![b] = rest], allocated, b)
  BY DEF AllocateFresh
<1>2. /\ b \notin owned /\ used' = used \cup {b} /\ owned' = owned \cup {b}
      /\ allocated' = b /\ free' = free /\ next' = [next EXCEPT ![b] = allocated]
  BY DEF AllocateFresh, PushAllocated
<1>3. /\ used \in SUBSET Block /\ owned \in SUBSET Block /\ used \subseteq owned
      /\ prev \in [Block -> Block \cup {Null, Wild}] /\ next \in [Block -> Block \cup {Null}]
      /\ IsList(allocated, used, next, prev) /\ IsList(free, owned \ used, next, prev)
  BY DEF PoolInv
<1>4. rest \in {Null, Wild} /\ rest \notin Block
  BY PoolAssumption
<1>5. allocated \in used \cup {Null} /\ Null \notin Block
  BY <1>3, InRow, PoolAssumption
<1>6. [prev EXCEPT ![b] = rest] \in [Block -> Block \cup {Null, Wild}]
  BY <1>3, <1>4
<1>7. /\ prev' \in [Block -> Block \cup {Null, Wild}]
      /\ \A c \in Block : prev'[c] = IF c = allocated THEN b ELSE IF c = b THEN rest ELSE prev[c]
  <2> DEFINE f == [prev EXCEPT ![b] = rest]
  <2>1. f \in [Block -> Block \cup {Null, Wild}]
    BY <1>6
  <2>2. \A c \in Block : f[c] = IF c = b THEN rest ELSE prev[c]
    BY <1>3
  <2>3. prev' = SetPrev(f, allocated, b) /\ b \in Block \cup {Null, Wild}
    BY <1>1
  <2> HIDE DEF f
  <2> QED BY <2>1, <2>2, <2>3, PrevSet
<1>8. /\ next' \in [Block -> Block \cup {Null}]
      /\ \A c \in Block : next'[c] = IF c = b THEN allocated ELSE next[c]
  BY <1>2, <1>3, <1>5
<1>9. IsList(b, used \cup {b}, next', prev')
  <2>1. b \notin used /\ next'[b] = allocated /\ prev'[b] \notin Block
    BY <1>2, <1>3, <1>4, <1>5, <1>7, <1>8
  <2>2. \A c \in used : next'[c] = next[c] /\ prev'[c] = IF c = allocated THEN b ELSE prev[c]
    BY <1>3, <1>7, <1>8, <2>1
  <2> QED BY <1>3, <2>1, <2>2, RowPushed
<1>10. IsList(free, owned \ used, next', prev')
  <2>1. \A c \in owned \ used : next'[c] = next[c] /\ prev'[c] = prev[c]
    BY <1>2, <1>3, <1>5, <1>7, <1>8
  <2> QED BY <1>3, <2>1, RowKept
<1>11. owned' \ used' = owned \ used /\ used' \subseteq owned' /\ owned' \subseteq Block
  BY <1>2, <1>3
<1> QED BY <1>2, <1>7, <1>8, <1>9, <1>10, <1>11 DEF PoolInv

LEMMA ReuseKeeps ==
    ASSUME PoolInv, AllocateFree
    PROVE  PoolInv'
<1> DEFINE S == owned \ used
           b == free
           after == next[free]
<1>1. /\ used \in SUBSET Block /\ owned \in SUBSET Block /\ used \subseteq owned
      /\ prev \in [Block -> Block \cup {Null, Wild}] /\ next \in [Block -> Block \cup {Null}]
      /\ IsList(allocated, used, next, prev) /\ IsList(b, S, next, prev) /\ S \in SUBSET Block
  BY DEF PoolInv
<1>2. /\ b # Null /\ used' = used \cup {b} /\ owned' = owned
      /\ allocated' = b /\ free' = after /\ next' = [next EXCEPT ![b] = allocated]
      /\ prev' = SetPrev(SetPrev(prev, after, Null), allocated, b)
  BY DEF AllocateFree, PushAllocated
<1> HIDE DEF b, after, S
<1>3. allocated \in used \cup {Null} /\ Null \notin Block
  BY <1>1, InRow, PoolAssumption
<1>4. /\ b \in S /\ prev[b] \notin Block
      /\ after \in S \cup {Null} /\ after # b
      /\ \A c \in S : next[c] # b
  BY <1>1, <1>2, InRow DEF b, after
<1>5. b \in Block /\ b \notin used /\ \A c \in S : c \in Block /\ c \notin used
  BY <1>1, <1>4 DEF S
<1>6. /\ prev' \in [Block -> Block \cup {Null, Wild}]
      /\ \A c \in Block :
            prev'[c] = IF c = allocated THEN b ELSE IF c = after THEN Null ELSE prev[c]
  BY <1>1, <1>2, <1>5, PrevSet
<1>7. /\ next' \in [Block -> Block \cup {Null}]
      /\ \A c \in Block : next'[c] = IF c = b THEN allocated ELSE next[c]
  BY <1>1, <1>2, <1>3
<1>8. IsList(b, used \cup {b}, next', prev')
  <2>1. next'[b] = allocated /\ prev'[b] \notin Block
    BY <1>3, <1>4, <1>5, <1>6, <1>7
  <2>2. \A c \in used : next'[c] = next[c] /\ prev'[c] = IF c = allocated THEN b ELSE prev[c]
    BY <1>1, <1>3, <1>4, <1>5, <1>6, <1>7
  <2> QED BY <1>1, <1>5, <2>1, <2>2, RowPushed
<1>9. IsList(after, S \ {b}, next', prev')
  <2>1. \A c \in S \ {b} : next'[c] = IF next[c] = b THEN next[b] ELSE next[c]
    BY <1>4, <1>5, <1>7
  <2>2. \A c \in S \ {b} : c # next[b] => prev'[c] = prev[c]
    BY <1>3, <1>5, <1>6 DEF after, b
  <2>3. next[b] # Null => prev'[next[b]] \notin Block
    <3> SUFFICES ASSUME after # Null PROVE prev'[after] \notin Block
      BY DEF after, b
    <3>1. after \in S /\ after \in Block /\ after # allocated
      BY <1>3, <1>4, <1>5
    <3> QED BY <1>3, <1>6, <3>1
  <2>4. after = next[b]
    BY DEF after, b
  <2>5. PICK nx, pv : nx = next' /\ pv = prev'
    OBVIOUS
  <2>7. next[b] # Null => pv[next[b]] \notin Block
    BY <2>3, <2>5
  <2>8. /\ \A c \in S \ {b} : nx[c] = IF next[c] = b THEN next[b] ELSE next[c]
        /\ \A c \in S \ {b} : c # next[b] => pv[c] = prev[c]
    BY <2>1, <2>2, <2>5
  <2>9. IsList(next[b], S \ {b}, nx, pv)
    <3>1. S \in SUBSET Block /\ IsList(b, S, next, prev) /\ b \in S
      BY <1>1, <1>4
    <3> QED BY <2>7, <2>8, <3>1, RowWithoutFirst, Zenon
  <2> QED BY <2>4, <2>5, <2>9
<1>10. owned' \ used' = S \ {b} /\ used' \subseteq owned' /\ owned' \subseteq Block
  BY <1>1, <1>2, <1>4 DEF S
<1> QED BY <1>2, <1>6, <1>7, <1>8, <1>9, <1>10 DEF PoolInv

LEMMA FreeKeeps ==
    ASSUME PoolInv, NEW b \in Block, Free(b)
    PROVE  PoolInv'
<1> DEFINE S == owned \ used
           first == b = allocated
           after == next[b]
           before == prev[b]
           head == IF first THEN SetPrev(prev, after, Null) ELSE prev
           bridged == SetPrev(head, after, head[b])
<1>1. /\ used \in SUBSET Block /\ owned \in SUBSET Block /\ used \subseteq owned
      /\ prev \in [Block -> Block \cup {Null, Wild}] /\ next \in [Block -> Block \cup {Null}]
      /\ IsList(allocated, used, next, prev) /\ IsList(free, S, next, prev) /\ S \in SUBSET Block
  BY DEF PoolInv
<1>2. /\ b \in used /\ used' = used \ {b} /\ owned' = owned
      /\ allocated' = (IF b = allocated THEN after ELSE allocated) /\ free' = b
      /\ prev' = SetPrev([bridged EXCEPT ![b] = Null], free, b)
      /\ next' = [SetNext(next, head[b], after) EXCEPT ![b] = free]
  BY DEF Free
<1>3. free \in S \cup {Null} /\ Null \notin Block
  BY <1>1, InRow, PoolAssumption
<1>4. /\ after \in used \cup {Null} /\ after # b
      /\ first => before \notin Block
      /\ ~first => before \in used /\ before # b /\ next[before] = b
      /\ \A c \in used : next[c] # Null => prev[next[c]] = c
      /\ \A c \in used : next[c] # allocated
  <2>1. /\ next[b] \in used \cup {Null} /\ next[b] # b
        /\ b # allocated => prev[b] \in used /\ prev[b] # b /\ next[prev[b]] = b
        /\ \A c \in used : next[c] # Null => prev[next[c]] = c
        /\ \A c \in used : next[c] # allocated
    <3>1. ASSUME NEW c \in used
          PROVE  /\ next[c] \in used \cup {Null} /\ next[c] # c /\ next[c] # allocated
                 /\ next[c] # Null => prev[next[c]] = c
                 /\ c # allocated => prev[c] \in used /\ prev[c] # c /\ next[prev[c]] = c
      <4>1. used \in SUBSET Block /\ IsList(allocated, used, next, prev)
        BY <1>1
      <4> QED BY <4>1, BesidesInRow
    <3> QED BY <1>2, <3>1
  <2>2. b \in Block /\ allocated # Null => prev[allocated] \notin Block
    BY <1>1, InRow
  <2>3. b = allocated => prev[b] \notin Block
    BY <1>3, <2>2
  <2> QED BY <2>1, <2>3
<1>5. /\ head \in [Block -> Block \cup {Null, Wild}] /\ head[b] = before
      /\ \A c \in Block : c # after => head[c] = prev[c]
  BY <1>1, <1>4, PrevSet
<1>6. before \in Block \cup {Null, Wild}
  BY <1>1
<1> HIDE DEF S, first, after, before, head
<1>7. /\ bridged \in [Block -> Block \cup {Null, Wild}]
      /\ \A c \in Block : bridged[c] = IF c = after THEN before ELSE prev[c]
  BY <1>5, <1>6, PrevSet
<1> HIDE DEF bridged
<1>8. /\ [bridged EXCEPT ![b] = Null] \in [Block -> Block \cup {Null, Wild}]
      /\ \A c \in Block : [bridged EXCEPT ![b] = Null][c] = IF c = b THEN Null ELSE bridged[c]
  BY <1>7
<1>9. /\ prev' \in [Block -> Block \cup {Null, Wild}]
      /\ \A c \in Block : prev'[c] = IF c = free THEN b ELSE IF c = b THEN Null
                                     ELSE IF c = after THEN before ELSE prev[c]
  <2> DEFINE f == [bridged EXCEPT ![b] = Null]
  <2>1. f \in [Block -> Block \cup {Null, Wild}] /\ prev' = SetPrev(f, free, b)
    BY <1>2, <1>8
  <2>2. \A c \in Block : f[c] = IF c = b THEN Null ELSE IF c = after THEN before ELSE prev[c]
    BY <1>7, <1>8
  <2> HIDE DEF f
  <2>3. prev' \in [Block -> Block \cup {Null, Wild}]
    BY <2>1, PrevSet
  <2>4. free \in Block => prev'[free] = b
    BY <2>1, PrevSet
  <2>5. \A c \in Block : c # free => prev'[c] = f[c]
    BY <2>1, PrevSet
  <2> QED BY <2>2, <2>3, <2>4, <2>5
<1>10. \A c \in S : c \in Block /\ c \notin used /\ c # b
  BY <1>1, <1>2 DEF S
<1>11. free \in Block \cup {Null} /\ free # b /\ free \notin used
  BY <1>1, <1>2, <1>3, <1>10
<1>12. /\ next' \in [Block -> Block \cup {Null}]
       /\ \A c \in Block : next'[c] = IF c = b THEN free
                                      ELSE IF c = before THEN after ELSE next[c]
  <2>1. next' = [SetNext(next, before, after) EXCEPT ![b] = free]
    BY <1>2, <1>5
  <2>2. after \in Block \cup {Null}
    BY <1>1, <1>4
  <2> QED BY <1>1, <1>11, <2>1, <2>2 DEF SetNext
<1>13. IsList(allocated', used \ {b}, next', prev')
  <2>1. \A c \in used \ {b} : next'[c] = IF next[c] = b THEN next[b] ELSE next[c]
    <3> SUFFICES ASSUME NEW c \in used \ {b}
                 PROVE  next'[c] = IF next[c] = b THEN next[b] ELSE next[c]
      OBVIOUS
    <3>1. c \in Block /\ next'[c] = IF c = before THEN after ELSE next[c]
      BY <1>1, <1>12
    <3>2. next[c] = b => c = before
      BY <1>2, <1>3, <1>4 DEF before
    <3>3. c = before => next[c] = b
      BY <1>4, <3>1
    <3> QED BY <3>1, <3>2, <3>3 DEF after
  <2>2. \A c \in used \ {b} : c # next[b] => prev'[c] = prev[c]
    BY <1>1, <1>9, <1>11 DEF after
  <2>3. next[b] # Null => IF b = allocated THEN prev'[next[b]] \notin Block
                          ELSE prev'[next[b]] = prev[b]
    <3> SUFFICES ASSUME after # Null PROVE prev'[after] = before
      BY <1>4 DEF after, before, first
    <3>1. after \in used /\ after \in Block /\ after # free /\ after # b
      BY <1>1, <1>4, <1>11
    <3> QED BY <1>9, <3>1
  <2>4. allocated' = IF b = allocated THEN next[b] ELSE allocated
    BY <1>2 DEF after
  <2>5. used \in SUBSET Block /\ IsList(allocated, used, next, prev) /\ b \in used
    BY <1>1, <1>2
  <2> DEFINE newHead == allocated'
             nx == next'
             pv == prev'
  <2>6. /\ newHead = IF b = allocated THEN next[b] ELSE allocated
        /\ \A c \in used \ {b} : nx[c] = IF next[c] = b THEN next[b] ELSE next[c]
        /\ \A c \in used \ {b} : c # next[b] => pv[c] = prev[c]
        /\ next[b] # Null => IF b = allocated THEN pv[next[b]] \notin Block
                             ELSE pv[next[b]] = prev[b]
    BY <2>1, <2>2, <2>3, <2>4
  <2> HIDE DEF newHead, nx, pv
  <2>7. IsList(newHead, used \ {b}, nx, pv)
    BY <2>5, <2>6, RowWithout
  <2> QED BY <2>7 DEF newHead, nx, pv
<1>14. IsList(b, S \cup {b}, next', prev')
  <2>1. next'[b] = free /\ prev'[b] = Null
    BY <1>9, <1>11, <1>12
  <2>2. \A c \in S : c # before /\ c # after
    BY <1>3, <1>4, <1>10
  <2>3. \A c \in S : next'[c] = next[c] /\ prev'[c] = IF c = free THEN b ELSE prev[c]
    BY <1>9, <1>10, <1>12, <2>2
  <2> QED BY <1>1, <1>3, <1>10, <2>1, <2>3, RowPushed
<1>15. owned' \ used' = S \cup {b} /\ used' \subseteq owned' /\ owned' \subseteq Block
  BY <1>1, <1>2 DEF S
<1> QED BY <1>2, <1>9, <1>12, <1>13, <1>14, <1>15 DEF PoolInv

LEMMA PoolInvStep ==
    ASSUME Leftover \cap Block = {}
    PROVE  PoolInv /\ [PoolNext]_poolVars => PoolInv'
<1> SUFFICES ASSUME PoolInv, [PoolNext]_poolVars PROVE PoolInv'
  OBVIOUS
<1>1. CASE UNCHANGED poolVars
  BY <1>1 DEF poolVars, PoolInv
<1> QED BY <1>1, FreshKeeps, ReuseKeeps, FreeKeeps DEF PoolNext

\* The step from each natural number to the next, in the form of its least
\* counterexample.
LEMMA LeastNumber ==
    ASSUME NEW S \in SUBSET Nat, S # {}
    PROVE  \E m \in S : \A k \in S : m <= k
<1> DEFINE R == OpToRel(<, Nat)
<1>1. IsWellFoundedOn(R, Nat)
  BY NatLessThanWellFounded
<1>2. \A a, b \in Nat : a < b => <<a, b>> \in R
  BY DEF OpToRel
<1> HIDE DEF R
<1>3. \E m \in S : \A k \in S : ~(<<k, m>> \in R)
  BY <1>1, WFMin
<1>4. \A a, b \in Nat : ~(a < b) => b <= a
  OBVIOUS
<1> QED BY <1>2, <1>3, <1>4

\* The walk is what its definition says, because some function is: the row.
LEMMA WalkAlongRow ==
    ASSUME NEW S \in SUBSET Block, NEW from, NEW n \in Nat, NEW l \in [1..n -> S],
           Row(l, n, from, S, next, prev)
    PROVE  /\ DOMAIN Walk(from) = 0..Cardinality(Block)
           /\ \A i \in 0..Cardinality(Block) : Walk(from)[i] = IF i < n THEN l[i + 1] ELSE Null
<1> DEFINE N == Cardinality(Block)
           Along(g) == [i \in 0..N |-> IF i = 0 THEN from
                                       ELSE IF g[i - 1] \in Block THEN next[g[i - 1]]
                                            ELSE g[i - 1]]
           w == [i \in 0..N |-> IF i < n THEN l[i + 1] ELSE Null]
           W == Walk(from)
<1>1. N \in Nat /\ Null \notin Block
  BY PoolAssumption, FS_CardinalityType
<1>2. W = CHOOSE g : g = Along(g)
  BY DEF Walk
<1> HIDE DEF N
<1>3. /\ from = IF n = 0 THEN Null ELSE l[1]
      /\ \A i \in 1..n : l[i] \in Block /\ next[l[i]] = IF i < n THEN l[i + 1] ELSE Null
  BY DEF Row
<1>4. ASSUME NEW i \in 0..N
      PROVE  w[i] = IF i = 0 THEN from
                    ELSE IF w[i - 1] \in Block THEN next[w[i - 1]] ELSE w[i - 1]
  <2>1. CASE i = 0
    <3>1. w[i] = IF 0 < n THEN l[0 + 1] ELSE Null
      BY <2>1
    <3> QED BY <1>3, <2>1, <3>1
  <2>2. CASE i # 0
    <3>1. i - 1 \in 0..N /\ (i - 1) + 1 = i
      BY <1>1, <2>2
    <3>2. w[i - 1] = IF i - 1 < n THEN l[i] ELSE Null
      BY <3>1
    <3>3. w[i] = IF i < n THEN l[i + 1] ELSE Null
      OBVIOUS
    <3> HIDE DEF w
    <3>4. CASE i - 1 < n
      <4>1. i \in 1..n
        BY <1>1, <2>2, <3>4
      <4> QED BY <1>3, <2>2, <3>2, <3>3, <3>4, <4>1
    <3>5. CASE ~(i - 1 < n)
      <4>1. ~(i < n)
        BY <1>1, <3>5
      <4> QED BY <1>1, <2>2, <3>2, <3>3, <3>5, <4>1
    <3> QED BY <3>4, <3>5
  <2> QED BY <2>1, <2>2
<1>5. w = Along(w)
  BY <1>4
<1>6. W = Along(W)
  BY <1>2, <1>5
<1>7. \A i \in 0..N : W[i] = IF i = 0 THEN from
                             ELSE IF W[i - 1] \in Block THEN next[W[i - 1]] ELSE W[i - 1]
  <2> HIDE DEF W
  <2> QED BY <1>6
<1> HIDE DEF W, w
<1>8. \A i \in 0..N : W[i] = w[i]
  <2> DEFINE Wrong == {i \in 0..N : W[i] # w[i]}
  <2> SUFFICES ASSUME Wrong # {} PROVE FALSE
    OBVIOUS
  <2>1. PICK i \in Wrong : \A k \in Wrong : i <= k
    <3>1. Wrong \in SUBSET Nat
      BY <1>1
    <3> HIDE DEF Wrong
    <3> QED BY <3>1, LeastNumber
  <2>2. CASE i = 0
    BY <1>4, <1>7, <2>2
  <2>3. CASE i # 0
    <3>1. i - 1 \in 0..N /\ i - 1 \notin Wrong
      BY <1>1, <2>1, <2>3
    <3>2. W[i - 1] = w[i - 1]
      BY <3>1
    <3> QED BY <1>4, <1>7, <2>3, <3>2
  <2> QED BY <2>2, <2>3
<1>9. \A i \in 0..N : w[i] = IF i < n THEN l[i + 1] ELSE Null
  BY DEF w
<1>10. DOMAIN W = 0..N
  BY <1>6
<1> QED BY <1>8, <1>9, <1>10 DEF W, N

\* FreeBlock along a list frees its blocks and ends.
LEMMA ListIsWalked ==
    ASSUME NEW S \in SUBSET Block, NEW from, IsList(from, S, next, prev)
    PROVE  Terminates(from) /\ Chain(from) = S
<1>0. PICK n \in Nat : \E l \in [1..n -> S] : Row(l, n, from, S, next, prev)
  BY Zenon DEF IsList
<1>1. PICK l \in [1..n -> S] : Row(l, n, from, S, next, prev)
  BY <1>0
<1> DEFINE N == Cardinality(Block)
           W == Walk(from)
<1>2. N \in Nat /\ Null \notin Block /\ IsFiniteSet(Block)
  BY PoolAssumption, FS_CardinalityType
<1>3. n <= N
  <2> SUFFICES ASSUME N < n PROVE FALSE
    BY <1>2
  <2>1. IsFiniteSet(1..n) /\ Cardinality(1..n) = n
    BY FS_Interval, 1 \in Int
  <2>2. l \in [1..n -> Block]
    OBVIOUS
  <2>3. \E x, y \in 1..n : x # y /\ l[x] = l[y]
    BY <1>2, <2>1, <2>2, FS_PigeonHole
  <2> QED BY <1>1, <2>3 DEF Row
<1>4. \A i \in 0..N : W[i] = IF i < n THEN l[i + 1] ELSE Null
  BY <1>1, WalkAlongRow
<1>5. DOMAIN W = 0..N
  BY <1>1, WalkAlongRow
<1>6. Range(W) = {W[i] : i \in 0..N}
  BY <1>5 DEF Range
<1>7. Terminates(from)
  BY <1>2, <1>3, <1>4 DEF Terminates
<1> HIDE DEF W, N
<1>8. Range(W) \cap Block \subseteq S
  BY <1>2, <1>4, <1>6
<1>9. S \subseteq Range(W) \cap Block
  <2> SUFFICES ASSUME NEW b \in S PROVE b \in Range(W)
    OBVIOUS
  <2>1. PICK i \in 1..n : l[i] = b
    BY <1>1 DEF Row
  <2>2. i - 1 \in 0..N /\ i - 1 < n /\ (i - 1) + 1 = i
    BY <1>2, <1>3
  <2> QED BY <1>4, <1>6, <2>1, <2>2
<1> QED BY <1>7, <1>8, <1>9 DEF Chain, W

\* After any sequence of calls, for any number of blocks, one list holds the
\* blocks in use and the other the rest, both end and are linked both ways, as
\* long as what malloc leaves in a fresh block is no address of another block
\* (memory_pool.h:45-72).
THEOREM ListsStayWhole ==
    ASSUME Leftover \cap Block = {}
    PROVE  PoolSpec => []ListsAreWhole
<1>1. PoolInv => ListsAreWhole
  <2> SUFFICES ASSUME PoolInv PROVE ListsAreWhole
    OBVIOUS
  <2>1. /\ used \in SUBSET Block /\ owned \ used \in SUBSET Block
        /\ IsList(allocated, used, next, prev) /\ IsList(free, owned \ used, next, prev)
    BY DEF PoolInv
  <2>2. EachBlockOnOneList
    BY <2>1, ListIsWalked DEF EachBlockOnOneList
  <2>3. LinkedBothWays
    <3> SUFFICES ASSUME NEW b \in owned, next[b] # Null PROVE prev[next[b]] = b
      BY DEF LinkedBothWays
    <3>0. ASSUME NEW S \in SUBSET Block, NEW from, IsList(from, S, next, prev)
          PROVE  \A c \in S : next[c] # Null => prev[next[c]] = c
      BY <3>0, InRow
    <3>1. \A c \in used : next[c] # Null => prev[next[c]] = c
      BY <2>1, <3>0
    <3>2. \A c \in owned \ used : next[c] # Null => prev[next[c]] = c
      BY <2>1, <3>0
    <3> QED BY <3>1, <3>2
  <2> QED BY <2>2, <2>3 DEF ListsAreWhole
<1> QED BY <1>1, PoolInvInit, PoolInvStep, PTL DEF PoolSpec

-----------------------------------------------------------------------------
(* Url: how a text is divided. *)

Letter == 1..255

\* A loop leaves off at the first of the characters it stops at.
LEMMA UntilStops ==
    ASSUME NEW s \in Seq(Letter), NEW i \in 1..Len(s) + 1, NEW stops
    PROVE  /\ Until(s, i, stops) \in i..Len(s) + 1
           /\ Until(s, i, stops) = Len(s) + 1 \/ s[Until(s, i, stops)] \in stops
           /\ \A k \in i..Until(s, i, stops) - 1 : s[k] \notin stops
<1> DEFINE Stops(j) == j = Len(s) + 1 \/ s[j] \in stops
           Places == {j \in i..Len(s) + 1 : Stops(j)}
<1>1. Len(s) + 1 \in Places /\ Places \in SUBSET Nat
  OBVIOUS
<1>2. PICK j \in Places : \A k \in Places : j <= k
  <2> HIDE DEF Places
  <2> QED BY <1>1, LeastNumber
<1>3. \A k \in i..j - 1 : s[k] \notin stops
  <2> SUFFICES ASSUME NEW k \in i..j - 1, s[k] \in stops PROVE FALSE
    OBVIOUS
  <2>1. k \in Places
    BY <1>2
  <2> QED BY <1>2, <2>1
<1>4. \E j_1 \in i..Len(s) + 1 : /\ j_1 = Len(s) + 1 \/ s[j_1] \in stops
                                 /\ \A k \in i..j_1 - 1 : s[k] \notin stops
  BY <1>2, <1>3
<1> QED BY <1>4 DEF Until

\* What is read between two places, and what it is put together again from.
LEMMA BetweenReads ==
    ASSUME NEW s \in Seq(Letter), NEW i \in 1..Len(s) + 2, NEW j \in 1..Len(s) + 1
    PROVE  /\ Between(s, i, j) \in Seq(Letter)
           /\ j <= i => Between(s, i, j) = <<>>
           /\ i <= j => Len(Between(s, i, j)) = j - i
           /\ \A k \in 1..j - i : Between(s, i, j)[k] = s[i + k - 1]
<1>1. SubSeq(s, i, j - 1) \in Seq(Letter)
  BY SubSeqProperties
<1>2. Len(SubSeq(s, i, j - 1)) = IF i <= j - 1 THEN j - 1 - i + 1 ELSE 0
  BY SubSeqProperties
<1>3. \A k \in 1..j - 1 - i + 1 : SubSeq(s, i, j - 1)[k] = s[i + k - 1]
  BY SubSeqProperties
<1> QED BY <1>1, <1>2, <1>3 DEF Between

LEMMA BetweenHolds ==
    ASSUME NEW s \in Seq(Letter), NEW i \in 1..Len(s) + 2, NEW j \in 1..Len(s) + 1,
           NEW stops, \A k \in i..j - 1 : s[k] \notin stops
    PROVE  ToSet(Between(s, i, j)) \cap stops = {}
<1> SUFFICES ASSUME NEW k \in DOMAIN Between(s, i, j) PROVE Between(s, i, j)[k] \notin stops
  BY DEF ToSet
<1>1. CASE j <= i
  BY <1>1, BetweenReads
<1>2. CASE i <= j
  <2>1. Between(s, i, j) \in Seq(Letter) /\ Len(Between(s, i, j)) = j - i
    BY <1>2, BetweenReads
  <2>2. k \in 1..j - i
    BY <2>1
  <2>3. Between(s, i, j)[k] = s[i + k - 1]
    BY <2>2, BetweenReads
  <2> QED BY <2>2, <2>3
<1> QED BY <1>1, <1>2

LEMMA BetweenJoined ==
    ASSUME NEW s \in Seq(Letter), NEW i \in 1..Len(s) + 1, NEW j \in i..Len(s) + 1,
           NEW k \in j..Len(s) + 1
    PROVE  Between(s, i, j) \o Between(s, j, k) = Between(s, i, k)
<1>1. j - 1 \in i - 1..Len(s) /\ k - 1 \in j - 1..Len(s)
  OBVIOUS
<1>2. SubSeq(s, i, j - 1) \o SubSeq(s, (j - 1) + 1, k - 1) = SubSeq(s, i, k - 1)
  BY <1>1, ConcatAdjacentSubSeq
<1> QED BY <1>2 DEF Between

LEMMA BetweenMarked ==
    ASSUME NEW s \in Seq(Letter), NEW i \in 1..Len(s), NEW k \in i + 1..Len(s) + 1
    PROVE  <<s[i]>> \o Between(s, i + 1, k) = Between(s, i, k)
<1>1. k - 1 \in i..Len(s)
  OBVIOUS
<1> QED BY <1>1, SubSeqRecursiveFirst DEF Between

\* strstr finds "://" where it begins first.
LEMMA MarkFound ==
    ASSUME NEW s \in Seq(Letter)
    PROVE  \/ Mark(s) = 0
           \/ /\ Mark(s) \in 1..Len(s) - 2
              /\ Between(s, Mark(s), Mark(s) + 3) = <<Colon, Slash, Slash>>
<1> DEFINE starts == {i \in 1..Len(s) - 2 : SubSeq(s, i, i + 2) = <<Colon, Slash, Slash>>}
           first == CHOOSE i \in starts : \A j \in starts : i <= j
<1>1. Mark(s) = IF starts = {} THEN 0 ELSE first
  BY Zenon DEF Mark
<1>2. CASE starts = {}
  BY <1>1, <1>2, Zenon
<1>3. CASE starts # {}
  <2>1. starts \in SUBSET Nat
    OBVIOUS
  <2>2. \E i \in starts : \A j \in starts : i <= j
    <3> HIDE DEF starts
    <3> QED BY <1>3, <2>1, LeastNumber
  <2>3. first \in starts
    <3> HIDE DEF starts
    <3> QED BY <2>2
  <2>4. Mark(s) \in starts
    BY <1>1, <1>3, <2>3, Zenon
  <2>5. Mark(s) \in 1..Len(s) - 2 /\ SubSeq(s, Mark(s), Mark(s) + 2) = <<Colon, Slash, Slash>>
    BY <2>4
  <2>6. (Mark(s) + 3) - 1 = Mark(s) + 2
    BY <2>5
  <2> QED BY <2>5, <2>6 DEF Between
<1> QED BY <1>2, <1>3

\* Each field begins where the one before it ended, and ends before the
\* first character that begins another one.
LEMMA FieldsInOrder ==
    ASSUME NEW s \in Seq(Letter)
    PROVE  /\ HostAt(s) \in 1..Len(s) + 1 /\ PortAt(s) \in HostAt(s)..Len(s) + 1
           /\ PathAt(s) \in PortAt(s)..Len(s) + 1 /\ QueryAt(s) \in PathAt(s)..Len(s) + 1
           /\ FragmentAt(s) \in QueryAt(s)..Len(s) + 1
           /\ Mark(s) = 0 => PathAt(s) = 1 /\ PortAt(s) = 1 /\ HostAt(s) = 1
           /\ Mark(s) # 0 => \A k \in HostAt(s)..PortAt(s) - 1 : s[k] \notin {Colon, Slash, Question, Hash}
           /\ \/ PathAt(s) = PortAt(s)
              \/ /\ PortAt(s) < PathAt(s) /\ s[PortAt(s)] = Colon
                 /\ \A k \in PortAt(s) + 1..PathAt(s) - 1 : s[k] \notin {Slash, Question, Hash}
           /\ \A k \in PathAt(s)..QueryAt(s) - 1 : s[k] \notin {Question, Hash}
           /\ \/ FragmentAt(s) = QueryAt(s)
              \/ /\ QueryAt(s) < FragmentAt(s) /\ s[QueryAt(s)] = Question
                 /\ \A k \in QueryAt(s) + 1..FragmentAt(s) - 1 : s[k] # Hash
           /\ FragmentAt(s) = Len(s) + 1 \/ s[FragmentAt(s)] = Hash
<1> DEFINE h == HostAt(s)
           p == PortAt(s)
           a == PathAt(s)
           q == QueryAt(s)
           f == FragmentAt(s)
           toPort == Until(s, h, {Colon, Slash, Question, Hash})
           toPath == Until(s, p + 1, {Slash, Question, Hash})
           toFragment == Until(s, q + 1, {Hash})
<1>1. h \in 1..Len(s) + 1 /\ h = IF Mark(s) = 0 THEN 1 ELSE Mark(s) + 3
  BY MarkFound DEF HostAt
<1>2. p = IF Mark(s) = 0 THEN 1 ELSE toPort
  BY DEF PortAt
<1>3. a = IF Mark(s) # 0 /\ At(s, p) = Colon THEN toPath ELSE p
  BY DEF PathAt
<1>4. q = Until(s, a, {Question, Hash})
  BY DEF QueryAt
<1>5. f = IF At(s, q) = Question THEN toFragment ELSE q
  BY DEF FragmentAt
<1> HIDE DEF h, p, a, q, f
<1>6. /\ toPort \in h..Len(s) + 1
      /\ \A k \in h..toPort - 1 : s[k] \notin {Colon, Slash, Question, Hash}
  BY <1>1, UntilStops
<1>7. p \in 1..Len(s) + 1 /\ p \in h..Len(s) + 1
  <2> HIDE DEF toPort
  <2> QED BY <1>1, <1>2, <1>6
<1>8. \A c \in {Colon, Question}, i \in 1..Len(s) + 1 : At(s, i) = c => i \in 1..Len(s) /\ s[i] = c
  BY DEF At, Colon, Question
<1>9. At(s, p) = Colon => /\ toPath \in p + 1..Len(s) + 1
                          /\ \A k \in p + 1..toPath - 1 : s[k] \notin {Slash, Question, Hash}
  <2> SUFFICES ASSUME At(s, p) = Colon
               PROVE  /\ toPath \in p + 1..Len(s) + 1
                      /\ \A k \in p + 1..toPath - 1 : s[k] \notin {Slash, Question, Hash}
    BY Zenon
  <2>1. p + 1 \in 1..Len(s) + 1
    BY <1>7, <1>8
  <2> QED BY <2>1, UntilStops
<1>10. /\ a \in 1..Len(s) + 1 /\ a \in p..Len(s) + 1
       /\ \/ a = p
          \/ /\ p < a /\ s[p] = Colon
             /\ \A k \in p + 1..a - 1 : s[k] \notin {Slash, Question, Hash}
  <2> HIDE DEF toPath
  <2>1. CASE Mark(s) # 0 /\ At(s, p) = Colon
    <3>1. a = toPath /\ s[p] = Colon
      BY <1>3, <1>7, <1>8, <2>1
    <3> QED BY <1>7, <1>9, <2>1, <3>1
  <2>2. CASE ~(Mark(s) # 0 /\ At(s, p) = Colon)
    BY <1>3, <1>7, <2>2
  <2> QED BY <2>1, <2>2
<1>11. /\ q \in a..Len(s) + 1 /\ q \in 1..Len(s) + 1
       /\ \A k \in a..q - 1 : s[k] \notin {Question, Hash}
       /\ q = Len(s) + 1 \/ s[q] \in {Question, Hash}
  <2>1. /\ q \in a..Len(s) + 1 /\ (q = Len(s) + 1 \/ s[q] \in {Question, Hash})
        /\ \A k \in a..q - 1 : s[k] \notin {Question, Hash}
    BY <1>4, <1>10, UntilStops
  <2> QED BY <1>10, <2>1
<1>12. /\ f \in q..Len(s) + 1 /\ (f = Len(s) + 1 \/ s[f] = Hash)
       /\ f = q \/ (q < f /\ s[q] = Question /\ \A k \in q + 1..f - 1 : s[k] # Hash)
  <2>1. CASE At(s, q) = Question
    <3>1. q + 1 \in 1..Len(s) + 1 /\ s[q] = Question
      BY <1>8, <1>11, <2>1
    <3>2. /\ f \in q + 1..Len(s) + 1 /\ (f = Len(s) + 1 \/ s[f] \in {Hash})
          /\ \A k \in q + 1..f - 1 : s[k] \notin {Hash}
      BY <1>5, <2>1, <3>1, UntilStops
    <3> QED BY <1>11, <3>1, <3>2
  <2>2. CASE At(s, q) # Question
    <3>1. f = q
      BY <1>5, <2>2
    <3>2. q = Len(s) + 1 \/ s[q] = Hash
      BY <1>11, <2>2 DEF At
    <3> QED BY <1>11, <3>1, <3>2
  <2> QED BY <2>1, <2>2
<1>13. Mark(s) = 0 => a = 1 /\ p = 1 /\ h = 1
  BY <1>1, <1>2, <1>3
<1>14. Mark(s) # 0 => \A k \in h..p - 1 : s[k] \notin {Colon, Slash, Question, Hash}
  <2> HIDE DEF toPort
  <2> QED BY <1>2, <1>6
<1> QED BY <1>1, <1>7, <1>10, <1>11, <1>12, <1>13, <1>14, Zenon DEF h, p, a, q, f

\* What stands before the path, put together again.
LEMMA BeforeIsSpelt ==
    ASSUME NEW s \in Seq(Letter)
    PROVE  LET u == ParseUrl(s)
               ports == {<<Colon>> \o u.port} \cup (IF u.port = <<>> THEN {<<>>} ELSE {})
           IN Between(s, 1, PathAt(s)) \in
                IF Mark(s) = 0 THEN {<<>>}
                ELSE {u.scheme \o <<Colon, Slash, Slash>> \o u.host \o p : p \in ports}
<1> DEFINE u == ParseUrl(s)
           ports == {<<Colon>> \o u.port} \cup (IF u.port = <<>> THEN {<<>>} ELSE {})
           m == Mark(s)
           h == HostAt(s)
           p == PortAt(s)
           a == PathAt(s)
<1>1. /\ h \in 1..Len(s) + 1 /\ p \in h..Len(s) + 1 /\ a \in p..Len(s) + 1
      /\ m = 0 => a = 1
      /\ a = p \/ (p < a /\ s[p] = Colon)
  BY FieldsInOrder, Zenon
<1>2. /\ u.scheme = Between(s, 1, m) /\ u.host = Between(s, h, p)
      /\ u.port = Between(s, p + 1, a)
  BY DEF ParseUrl
<1>3. CASE m = 0
  <2>1. Between(s, 1, a) = <<>>
    BY <1>1, <1>3, BetweenReads
  <2> QED BY <1>3, <2>1
<1>4. CASE m # 0
  <2>1. /\ m \in 1..Len(s) - 2 /\ h = m + 3
        /\ Between(s, m, h) = <<Colon, Slash, Slash>>
    BY <1>4, MarkFound DEF HostAt
  <2> HIDE DEF u, m, h, p, a
  <2>2. Between(s, p, a) \in ports
    <3>1. CASE a = p
      <4>1. p + 1 \in 1..Len(s) + 2 /\ a \in 1..Len(s) + 1 /\ p \in 1..Len(s) + 2
        BY <1>1
      <4>2. Between(s, p + 1, a) = <<>> /\ Between(s, p, a) = <<>>
        BY <1>1, <3>1, <4>1, BetweenReads
      <4> QED BY <1>2, <4>2
    <3>2. CASE p < a /\ s[p] = Colon
      <4>1. p \in 1..Len(s) /\ a \in p + 1..Len(s) + 1
        BY <1>1, <3>2
      <4>2. <<s[p]>> \o Between(s, p + 1, a) = Between(s, p, a)
        BY <4>1, BetweenMarked
      <4> QED BY <1>2, <3>2, <4>2
    <3> QED BY <1>1, <3>1, <3>2
  <2>3. /\ Between(s, 1, m) \o Between(s, m, h) = Between(s, 1, h)
        /\ Between(s, 1, h) \o Between(s, h, p) = Between(s, 1, p)
        /\ Between(s, 1, p) \o Between(s, p, a) = Between(s, 1, a)
    <3>1. 1 \in 1..Len(s) + 1 /\ m \in 1..Len(s) + 1 /\ h \in m..Len(s) + 1
      BY <2>1
    <3>2. h \in 1..Len(s) + 1 /\ p \in 1..Len(s) + 1
      BY <1>1
    <3> QED BY <1>1, <3>1, <3>2, BetweenJoined
  <2> DEFINE tail == Between(s, p, a)
  <2>4. Between(s, 1, a) = u.scheme \o <<Colon, Slash, Slash>> \o u.host \o tail
    BY <1>2, <2>1, <2>3
  <2> HIDE DEF ports, tail
  <2>5. Between(s, 1, a) \in {u.scheme \o <<Colon, Slash, Slash>> \o u.host \o x : x \in ports}
    BY <2>2, <2>4 DEF tail
  <2> QED BY <1>4, <2>5 DEF u, m, a, ports
<1> QED BY <1>3, <1>4

LEMMA PathIsSpelt ==
    ASSUME NEW s \in Seq(Letter)
    PROVE  LET u == ParseUrl(s)
           IN /\ Between(s, PathAt(s), QueryAt(s)) \in
                   {u.path} \cup (IF At(u.path, 1) = Slash /\ At(u.path, 2) # Slash
                                  THEN {Tail(u.path)} ELSE {})
              /\ ToSet(u.path) \cap {Question, Hash} = {}
              /\ u.path # <<>> => Head(u.path) = Slash
<1> DEFINE u == ParseUrl(s)
           a == PathAt(s)
           q == QueryAt(s)
           read == Between(s, a, q)
<1>1. /\ a \in 1..Len(s) + 1 /\ q \in a..Len(s) + 1 /\ q \in 1..Len(s) + 1
      /\ \A k \in a..q - 1 : s[k] \notin {Question, Hash}
  <2>1. /\ PortAt(s) \in HostAt(s)..Len(s) + 1 /\ HostAt(s) \in 1..Len(s) + 1
        /\ a \in PortAt(s)..Len(s) + 1 /\ q \in a..Len(s) + 1
        /\ \A k \in a..q - 1 : s[k] \notin {Question, Hash}
    BY FieldsInOrder, Zenon
  <2> HIDE DEF a, q
  <2> QED BY <2>1
<1>2. u.path = Rooted(s) \o read
  BY DEF ParseUrl
<1>3. Rooted(s) = IF At(s, a) \in {Slash, 0} THEN <<>> ELSE <<Slash>>
  BY DEF Rooted
<1> HIDE DEF u, a, q
<1>4. /\ read \in Seq(Letter) /\ Len(read) = q - a
      /\ \A k \in 1..q - a : read[k] = s[a + k - 1]
  <2>1. a \in 1..Len(s) + 2 /\ a <= q
    BY <1>1
  <2> QED BY <1>1, <2>1, BetweenReads
<1>5. ToSet(read) \cap {Question, Hash} = {}
  <2>1. a \in 1..Len(s) + 2
    BY <1>1
  <2> QED BY <1>1, <2>1, BetweenHolds
<1>6. q - a # 0 => read[1] = s[a] /\ a \in 1..Len(s) /\ s[a] \in Letter
  BY <1>1, <1>4
<1> HIDE DEF read
<1>7. CASE At(s, a) \in {Slash, 0}
  <2>1. u.path = read
    BY <1>2, <1>3, <1>4, <1>7
  <2>2. read # <<>> => Head(read) = Slash
    <3> SUFFICES ASSUME read # <<>> PROVE Head(read) = Slash
      OBVIOUS
    <3>1. q - a # 0
      BY <1>1, <1>4
    <3>2. a \in DOMAIN s /\ s[a] # 0
      <4>1. a \in 1..Len(s) /\ s[a] \in Letter
        BY <1>6, <3>1
      <4>2. a \in DOMAIN s
        BY <4>1
      <4>3. 0 \notin Letter
        BY DEF Letter
      <4> QED BY <4>1, <4>2, <4>3
    <3>3. s[a] = Slash
      BY <1>7, <3>2 DEF At
    <3> QED BY <1>4, <1>6, <3>1, <3>3
  <2> QED BY <1>5, <2>1, <2>2 DEF read, u, a, q
<1>8. CASE At(s, a) \notin {Slash, 0}
  <2>1. u.path = <<Slash>> \o read
    BY <1>2, <1>3, <1>8
  <2>2. Slash \in Letter /\ Slash \notin {Question, Hash}
    BY DEF Slash, Letter, Question, Hash
  <2>3. <<Slash>> \in Seq(Letter) /\ Len(<<Slash>>) = 1 /\ <<Slash>>[1] = Slash
    BY <2>2
  <2>4. /\ u.path \in Seq(Letter) /\ Len(u.path) = 1 + Len(read) /\ u.path[1] = Slash
        /\ \A k \in 1..Len(read) : u.path[k + 1] = read[k]
    BY <1>4, <2>1, <2>3, ConcatProperties
  <2>5. Head(u.path) = Slash /\ u.path # <<>>
    BY <1>1, <1>4, <2>4
  <2>6. Tail(u.path) = read
    <3>1. /\ Tail(u.path) \in Seq(Letter) /\ Len(Tail(u.path)) = Len(u.path) - 1
          /\ \A i \in 1..Len(Tail(u.path)) : Tail(u.path)[i] = u.path[i + 1]
      BY <2>4, <2>5, HeadTailProperties
    <3>2. Len(Tail(u.path)) = Len(read) /\ \A i \in 1..Len(read) : Tail(u.path)[i] = read[i]
      BY <1>4, <2>4, <3>1
    <3> QED BY <1>4, <3>1, <3>2, SeqEqual
  <2>7. At(u.path, 1) = Slash
    BY <1>1, <1>4, <2>4 DEF At
  <2>8. At(u.path, 2) # Slash
    <3>1. CASE q - a = 0
      <4>1. 2 \notin DOMAIN u.path
        BY <1>4, <2>4, <3>1
      <4> QED BY <4>1 DEF At, Slash
    <3>2. CASE q - a # 0
      <4>1. u.path[2] = read[1] /\ 2 \in DOMAIN u.path
        BY <1>1, <1>4, <2>4, <3>2
      <4>2. s[a] # Slash
        BY <1>6, <1>8, <3>2 DEF At
      <4> QED BY <1>6, <3>2, <4>1, <4>2 DEF At
    <3> QED BY <3>1, <3>2
  <2>9. ToSet(u.path) \cap {Question, Hash} = {}
    <3> SUFFICES ASSUME NEW k \in DOMAIN u.path PROVE u.path[k] \notin {Question, Hash}
      BY DEF ToSet
    <3>1. CASE k = 1
      BY <2>2, <2>4, <3>1
    <3>2. CASE k # 1
      <4>1. k \in 1..Len(u.path) /\ Len(read) \in Nat
        BY <1>4, <2>4
      <4>2. k - 1 \in 1..Len(read) /\ (k - 1) + 1 = k
        BY <2>4, <3>2, <4>1
      <4>3. k - 1 \in DOMAIN read /\ u.path[k] = read[k - 1]
        BY <1>4, <2>4, <4>2
      <4> QED BY <1>5, <4>3 DEF ToSet
    <3> QED BY <3>1, <3>2
  <2> QED BY <2>5, <2>6, <2>7, <2>8, <2>9 DEF read, u, a, q
<1> QED BY <1>7, <1>8

LEMMA AfterIsSpelt ==
    ASSUME NEW s \in Seq(Letter)
    PROVE  LET u == ParseUrl(s)
               queries == {<<Question>> \o u.query} \cup (IF u.query = <<>> THEN {<<>>} ELSE {})
               fragments == {<<Hash>> \o u.fragment} \cup (IF u.fragment = <<>> THEN {<<>>} ELSE {})
           IN /\ \E x \in queries, y \in fragments : Between(s, QueryAt(s), Len(s) + 1) = x \o y
              /\ ToSet(u.query) \cap {Hash} = {}
<1> DEFINE u == ParseUrl(s)
           queries == {<<Question>> \o u.query} \cup (IF u.query = <<>> THEN {<<>>} ELSE {})
           fragments == {<<Hash>> \o u.fragment} \cup (IF u.fragment = <<>> THEN {<<>>} ELSE {})
           q == QueryAt(s)
           f == FragmentAt(s)
           end == Len(s) + 1
<1>1. /\ q \in 1..end /\ f \in q..end /\ f \in 1..end /\ end \in Nat
      /\ \/ f = q
         \/ q < f /\ s[q] = Question /\ \A k \in q + 1..f - 1 : s[k] # Hash
      /\ f = end \/ s[f] = Hash
  <2>1. /\ HostAt(s) \in 1..end /\ PortAt(s) \in HostAt(s)..end
        /\ PathAt(s) \in PortAt(s)..end /\ q \in PathAt(s)..end /\ f \in q..end
        /\ \/ f = q
           \/ q < f /\ s[q] = Question /\ \A k \in q + 1..f - 1 : s[k] # Hash
        /\ f = end \/ s[f] = Hash
    BY FieldsInOrder, Zenon
  <2> HIDE DEF q, f
  <2> QED BY <2>1
<1>2. u.query = Between(s, q + 1, f) /\ u.fragment = Between(s, f + 1, end)
  BY DEF ParseUrl
<1> HIDE DEF u, q, f
<1>3. q + 1 \in 1..Len(s) + 2 /\ f + 1 \in 1..Len(s) + 2
  BY <1>1
<1>4. Between(s, q, f) \in queries /\ ToSet(u.query) \cap {Hash} = {}
  <2>1. CASE f = q
    <3>1. Between(s, q, f) = <<>> /\ Between(s, q + 1, f) = <<>>
      <4>1. q \in 1..Len(s) + 2 /\ f \in 1..Len(s) + 1 /\ f <= q /\ f <= q + 1
        BY <1>1, <2>1
      <4> QED BY <1>3, <4>1, BetweenReads
    <3>2. ToSet(<<>>) = {}
      BY DEF ToSet
    <3> QED BY <1>2, <3>1, <3>2
  <2>2. CASE q < f /\ s[q] = Question /\ \A k \in q + 1..f - 1 : s[k] # Hash
    <3>1. q \in 1..Len(s) /\ f \in q + 1..Len(s) + 1
      BY <1>1, <2>2
    <3>2. <<s[q]>> \o Between(s, q + 1, f) = Between(s, q, f)
      BY <3>1, BetweenMarked
    <3>3. \A k \in q + 1..f - 1 : s[k] \notin {Hash}
      BY <2>2
    <3>4. ToSet(u.query) \cap {Hash} = {}
      BY <1>1, <1>2, <1>3, <3>3, BetweenHolds
    <3> QED BY <1>2, <2>2, <3>2, <3>4
  <2> QED BY <1>1, <2>1, <2>2
<1>5. Between(s, f, end) \in fragments
  <2>1. CASE f = end
    <3>1. Between(s, f, end) = <<>> /\ Between(s, f + 1, end) = <<>>
      <4>1. f \in 1..Len(s) + 2 /\ end \in 1..Len(s) + 1 /\ end <= f /\ end <= f + 1
        BY <1>1, <2>1
      <4> QED BY <1>3, <4>1, BetweenReads
    <3> QED BY <1>2, <3>1
  <2>2. CASE f # end
    <3>1. f \in 1..Len(s) /\ end \in f + 1..Len(s) + 1 /\ s[f] = Hash
      BY <1>1, <2>2
    <3>2. <<s[f]>> \o Between(s, f + 1, end) = Between(s, f, end)
      BY <3>1, BetweenMarked
    <3> QED BY <1>2, <3>1, <3>2
  <2> QED BY <2>1, <2>2
<1>6. Between(s, q, end) = Between(s, q, f) \o Between(s, f, end)
  <2>1. q \in 1..Len(s) + 1 /\ f \in q..Len(s) + 1 /\ end \in f..Len(s) + 1
    BY <1>1
  <2> HIDE DEF end
  <2> QED BY <2>1, BetweenJoined
<1> HIDE DEF queries, fragments
<1>7. \E x \in queries, y \in fragments : Between(s, q, end) = x \o y
  BY <1>4, <1>5, <1>6
<1> QED BY <1>4, <1>7, Zenon DEF u, q, queries, fragments

LEMMA UrlIsSpelt ==
    ASSUME NEW s \in Seq(Letter)
    PROVE  Spells(s, ParseUrl(s))
<1> DEFINE u == ParseUrl(s)
           marked(mark, field) == {<<mark>> \o field} \cup (IF field = <<>> THEN {<<>>} ELSE {})
           before == IF Mark(s) = 0 THEN {<<>>}
                     ELSE {u.scheme \o <<Colon, Slash, Slash>> \o u.host \o p : p \in marked(Colon, u.port)}
           path == {u.path} \cup (IF At(u.path, 1) = Slash /\ At(u.path, 2) # Slash THEN {Tail(u.path)} ELSE {})
           queries == marked(Question, u.query)
           fragments == marked(Hash, u.fragment)
           end == Len(s) + 1
<1>1. Between(s, 1, PathAt(s)) \in before
  BY BeforeIsSpelt, Zenon
<1>2. Between(s, PathAt(s), QueryAt(s)) \in path
  BY PathIsSpelt, Zenon
<1>3. PICK q \in queries, f \in fragments : Between(s, QueryAt(s), end) = q \o f
  BY AfterIsSpelt, Zenon
<1>4. s = Between(s, 1, PathAt(s)) \o Between(s, PathAt(s), QueryAt(s)) \o Between(s, QueryAt(s), end)
  <2>1. /\ HostAt(s) \in 1..end /\ PortAt(s) \in HostAt(s)..end
        /\ PathAt(s) \in PortAt(s)..end /\ QueryAt(s) \in PathAt(s)..end
    BY FieldsInOrder, Zenon
  <2>2. PathAt(s) \in 1..end /\ QueryAt(s) \in 1..end /\ end \in Nat /\ 1 \in 1..end
    BY <2>1
  <2>3. Between(s, 1, PathAt(s)) \o Between(s, PathAt(s), QueryAt(s)) = Between(s, 1, QueryAt(s))
    BY <2>1, <2>2, BetweenJoined
  <2>4. Between(s, 1, QueryAt(s)) \o Between(s, QueryAt(s), end) = Between(s, 1, end)
    <3>1. 1 \in 1..Len(s) + 1 /\ QueryAt(s) \in 1..Len(s) + 1 /\ end \in QueryAt(s)..Len(s) + 1
      BY <2>2
    <3> HIDE DEF end
    <3> QED BY <3>1, BetweenJoined
  <2>5. Between(s, 1, end) = s
    BY SubSeqFull DEF Between
  <2> QED BY <2>3, <2>4, <2>5
<1>5. PICK b \in before, p \in path : b = Between(s, 1, PathAt(s)) /\ p = Between(s, PathAt(s), QueryAt(s))
  BY <1>1, <1>2, Zenon
<1>6. s = b \o p \o (q \o f)
  <2> HIDE DEF before, path, queries, fragments, end
  <2> QED BY <1>3, <1>4, <1>5
<1> HIDE DEF before, path, queries, fragments, u
<1>7. \E b_1 \in before, p_1 \in path, q_1 \in queries, f_1 \in fragments : s = b_1 \o p_1 \o (q_1 \o f_1)
  BY <1>6, Zenon
<1> QED BY <1>7, Zenon DEF Spells, before, path, queries, fragments, u

LEMMA UrlDivided ==
    ASSUME input \in Seq(Letter)
    PROVE  UrlIsDivided
<1> DEFINE u == ParseUrl(input)
           end == Len(input) + 1
<1>1. Spells(input, u) /\ ToSet(u.query) \cap {Hash} = {}
  BY UrlIsSpelt, AfterIsSpelt, Zenon
<1>2. ToSet(u.path) \cap {Question, Hash} = {} /\ (u.path # <<>> => Head(u.path) = Slash)
  BY PathIsSpelt, Zenon
<1>3. /\ HostAt(input) \in 1..end /\ PortAt(input) \in HostAt(input)..end
      /\ PathAt(input) \in PortAt(input)..end
      /\ Mark(input) = 0 => PathAt(input) = 1 /\ PortAt(input) = 1 /\ HostAt(input) = 1
      /\ Mark(input) # 0 => \A k \in HostAt(input)..PortAt(input) - 1 :
                               input[k] \notin {Colon, Slash, Question, Hash}
      /\ \/ PathAt(input) = PortAt(input)
         \/ /\ PortAt(input) < PathAt(input) /\ input[PortAt(input)] = Colon
            /\ \A k \in PortAt(input) + 1..PathAt(input) - 1 : input[k] \notin {Slash, Question, Hash}
  BY FieldsInOrder, Zenon
<1>4. /\ u.host = Between(input, HostAt(input), PortAt(input))
      /\ u.port = Between(input, PortAt(input) + 1, PathAt(input))
  BY DEF ParseUrl
<1>5. ToSet(u.host) \cap {Colon, Slash, Question, Hash} = {}
  <2>1. \A k \in HostAt(input)..PortAt(input) - 1 : input[k] \notin {Colon, Slash, Question, Hash}
    BY <1>3
  <2>2. HostAt(input) \in 1..Len(input) + 2 /\ PortAt(input) \in 1..Len(input) + 1
    BY <1>3
  <2> QED BY <1>4, <2>1, <2>2, BetweenHolds
<1>6. ToSet(u.port) \cap {Slash, Question, Hash} = {}
  <2>1. PortAt(input) + 1 \in 1..Len(input) + 2 /\ PathAt(input) \in 1..Len(input) + 1
    BY <1>3
  <2>2. \A k \in PortAt(input) + 1..PathAt(input) - 1 : input[k] \notin {Slash, Question, Hash}
    BY <1>3
  <2> QED BY <1>4, <2>1, <2>2, BetweenHolds
<1> QED BY <1>1, <1>2, <1>5, <1>6 DEF UrlIsDivided

-----------------------------------------------------------------------------
(* Url: how a query is split. *)

\* Induction, as a statement about a set.
LEMMA AllNumbers ==
    ASSUME NEW S \in SUBSET Nat, 0 \in S, \A n \in S : n + 1 \in S
    PROVE  \A n \in Nat : n \in S
<1> DEFINE Rest == Nat \ S
<1> SUFFICES ASSUME Rest # {} PROVE FALSE
  OBVIOUS
<1>1. PICK m \in Rest : \A k \in Rest : m <= k
  <2>1. Rest \in SUBSET Nat
    OBVIOUS
  <2> HIDE DEF Rest
  <2> QED BY <2>1, LeastNumber
<1>2. m # 0 /\ m \in Nat
  BY <1>1
<1>3. m - 1 \in Nat /\ m - 1 \notin Rest
  BY <1>1, <1>2
<1>4. m - 1 \in S /\ (m - 1) + 1 = m
  BY <1>2, <1>3
<1> QED BY <1>1, <1>4

LEMMA GreatestOf ==
    ASSUME NEW n \in Nat, NEW T \in SUBSET (1..n), T # {}
    PROVE  Max(T) \in T /\ \A x \in T : x <= Max(T)
<1> DEFINE S == {n - x : x \in T}
<1>1. PICK m \in S : \A k \in S : m <= k
  <2>1. S \in SUBSET Nat
    <3>1. \A x \in T : x \in 1..n
      OBVIOUS
    <3>2. \A x \in 1..n : n - x \in Nat
      OBVIOUS
    <3> QED BY <3>1, <3>2
  <2>2. S # {}
    OBVIOUS
  <2> HIDE DEF S
  <2> QED BY <2>1, <2>2, LeastNumber
<1>2. PICK x \in T : m = n - x
  BY <1>1
<1>3. \A y \in T : x >= y
  <2> SUFFICES ASSUME NEW y \in T PROVE x >= y
    OBVIOUS
  <2>1. n - y \in S
    OBVIOUS
  <2>2. n - x <= n - y /\ x \in 1..n /\ y \in 1..n
    BY <1>1, <1>2, <2>1
  <2> QED BY <2>2
<1>4. Max(T) \in T /\ \A y \in T : Max(T) >= y
  BY <1>2, <1>3 DEF Max
<1> QED BY <1>4

\* A fold over a text goes from one character to the next: some function is
\* what its definition says.
LEMMA FoldGoesOn ==
    ASSUME NEW s \in Seq(Letter), NEW base
    PROVE  \E turn : /\ turn[0] = base
                     /\ \A k \in 1..Len(s) : turn[k] = QueryChar(turn[k - 1], s[k])
                     /\ turn[Len(s)] = FoldLeft(QueryChar, base, s)
<1> DEFINE D == DOMAIN s
           Turn(g, T) == IF T = {} THEN base ELSE QueryChar(g[T \ {Max(T)}], s[Max(T)])
           Along(g) == [T \in SUBSET D |-> Turn(g, T)]
           Ok(g, n) == g = [T \in SUBSET D |-> g[T]] /\ \A T \in SUBSET D : T \subseteq 1..n => g[T] = Turn(g, T)
           Good == {n \in Nat : \E g : Ok(g, n)}
           iter == CHOOSE g : g = Along(g)
<1>1. FoldLeft(QueryChar, base, s) = iter[D]
  BY DEF FoldLeft, MapThenFoldSet
<1>2. D = 1..Len(s) /\ Len(s) \in Nat
  OBVIOUS
<1>3. \A n \in Nat : n \in Good
  <2>1. 0 \in Good
    <3> DEFINE g == [T \in SUBSET D |-> base]
    <3>1. Ok(g, 0)
      OBVIOUS
    <3> QED BY <3>1
  <2>2. ASSUME NEW n \in Good PROVE n + 1 \in Good
    <3>1. n \in Nat
      OBVIOUS
    <3>2. PICK g : Ok(g, n)
      OBVIOUS
    <3> DEFINE h == [T \in SUBSET D |-> IF T \subseteq 1..n THEN g[T] ELSE Turn(g, T)]
    <3>3. ASSUME NEW T \in SUBSET D, T \subseteq 1..n + 1 PROVE h[T] = Turn(h, T)
      <4>1. CASE T = {}
        <5>1. T \subseteq 1..n
          BY <4>1
        <5> QED BY <3>2, <4>1, <5>1
      <4>2. CASE T # {}
        <5> DEFINE rest == T \ {Max(T)}
        <5>1. Max(T) \in T /\ \A x \in T : x <= Max(T)
          <6>1. T \in SUBSET (1..n + 1) /\ n + 1 \in Nat
            BY <3>1, <3>3
          <6> QED BY <4>2, <6>1, GreatestOf
        <5>2. rest \in SUBSET D /\ rest \subseteq 1..n
          BY <3>1, <3>3, <5>1
        <5>3. h[rest] = g[rest]
          BY <5>2
        <5>4. h[T] = IF T \subseteq 1..n THEN g[T] ELSE Turn(g, T)
          OBVIOUS
        <5>5. g[T] = Turn(g, T) \/ ~(T \subseteq 1..n)
          BY <3>2
        <5> HIDE DEF h
        <5> QED BY <4>2, <5>3, <5>4, <5>5, Zenon
      <4> QED BY <4>1, <4>2
    <3>4. h = [T \in SUBSET D |-> h[T]]
      OBVIOUS
    <3> HIDE DEF h
    <3>5. Ok(h, n + 1)
      BY <3>3, <3>4, Zenon
    <3> HIDE DEF Ok
    <3> QED BY <3>1, <3>5
  <2>3. Good \in SUBSET Nat
    OBVIOUS
  <2> HIDE DEF Good
  <2> QED BY <2>1, <2>2, <2>3, AllNumbers
<1>4. \E g : g = Along(g)
  <2>1. PICK g : Ok(g, Len(s))
    BY <1>2, <1>3
  <2>2. \A T \in SUBSET D : g[T] = Turn(g, T)
    BY <1>2, <2>1
  <2>3. g = [T \in SUBSET D |-> g[T]]
    BY <2>1
  <2>4. g = Along(g)
    BY <2>2, <2>3
  <2> QED BY <2>4, Zenon
<1>5. iter = Along(iter)
  <2> HIDE DEF Along
  <2> QED BY <1>4
<1> HIDE DEF iter
<1>6. \A T \in SUBSET D : iter[T] = Turn(iter, T)
  BY <1>5, Zenon
<1> DEFINE turn == [k \in 0..Len(s) |-> iter[1..k]]
<1>7. turn[0] = base
  <2>1. 1..0 = {} /\ {} \in SUBSET D
    OBVIOUS
  <2>2. iter[1..0] = base
    BY <1>6, <2>1
  <2> QED BY <2>2
<1>8. ASSUME NEW k \in 1..Len(s) PROVE turn[k] = QueryChar(turn[k - 1], s[k])
  <2>1. 1..k \in SUBSET D /\ 1..k # {} /\ k \in Nat
    <3>1. k \in Nat /\ k \in 1..k /\ \A i \in 1..k : i \in 1..Len(s)
      BY <1>2
    <3> QED BY <1>2, <3>1
  <2>2. Max(1..k) = k
    <3>1. Max(1..k) \in 1..k /\ \A x \in 1..k : x <= Max(1..k)
      BY <2>1, GreatestOf
    <3> QED BY <2>1, <3>1
  <2>3. (1..k) \ {k} = 1..k - 1
    BY <2>1
  <2>4. iter[1..k] = QueryChar(iter[1..k - 1], s[k])
    BY <1>6, <2>1, <2>2, <2>3
  <2>5. turn[k] = iter[1..k] /\ turn[k - 1] = iter[1..k - 1]
    OBVIOUS
  <2> HIDE DEF turn
  <2> QED BY <2>4, <2>5
<1>9. turn[Len(s)] = FoldLeft(QueryChar, base, s)
  BY <1>1, <1>2
<1> HIDE DEF turn
<1> QED BY <1>7, <1>8, <1>9

Pair == [key : Seq(Letter), value : Seq(Letter)]
QueryState == [inValue : BOOLEAN, pair : Pair, out : Seq(Pair)]

\* What was read of the piece that begins at b when the next place is k.
Reading(s, b, k, q) ==
    /\ \A j \in b..k - 1 : s[j] # Ampersand
    /\ \/ /\ ~q.inValue /\ \A j \in b..k - 1 : s[j] # Equal
          /\ q.pair = [key |-> Between(s, b, k), value |-> <<>>]
       \/ /\ q.inValue
          /\ \E e \in b..k - 1 :
                /\ s[e] = Equal /\ \A j \in b..e - 1 : s[j] # Equal
                /\ q.pair = [key |-> Between(s, b, e), value |-> Between(s, e + 1, k)]

\* What begins before b is told.
ToldBefore(s, b, q) == Tell(q.out, s, {i \in Filled(s) : i < b})

LEMMA UntilIs ==
    ASSUME NEW s \in Seq(Letter), NEW i \in 1..Len(s) + 1, NEW stops, NEW j \in i..Len(s) + 1,
           j = Len(s) + 1 \/ s[j] \in stops, \A k \in i..j - 1 : s[k] \notin stops
    PROVE  Until(s, i, stops) = j
<1> DEFINE u == Until(s, i, stops)
<1>1. /\ u \in i..Len(s) + 1 /\ (u = Len(s) + 1 \/ s[u] \in stops)
      /\ \A k \in i..u - 1 : s[k] \notin stops
  BY UntilStops
<1> HIDE DEF u
<1>2. ~(u < j)
  <2> SUFFICES ASSUME u < j PROVE FALSE
    OBVIOUS
  <2>1. u \in i..j - 1 /\ u # Len(s) + 1
    BY <1>1
  <2> QED BY <1>1, <2>1
<1>3. ~(j < u)
  <2> SUFFICES ASSUME j < u PROVE FALSE
    OBVIOUS
  <2>1. j \in i..u - 1 /\ j # Len(s) + 1
    BY <1>1
  <2> QED BY <1>1, <2>1
<1>4. u = j
  BY <1>1, <1>2, <1>3
<1> QED BY <1>4 DEF u

\* A piece that was read to its end is the pair it stands for.
LEMMA PieceIsPair ==
    ASSUME NEW s \in Seq(Letter), NEW b \in 1..Len(s) + 1, NEW k \in b..Len(s) + 1, NEW q,
           Reading(s, b, k, q), k = Len(s) + 1 \/ s[k] = Ampersand
    PROVE  q.pair = PairAt(s, b)
<1>1. Until(s, b, {Ampersand}) = k
  <2>1. \A j \in b..k - 1 : s[j] \notin {Ampersand}
    BY DEF Reading
  <2>2. k = Len(s) + 1 \/ s[k] \in {Ampersand}
    OBVIOUS
  <2> QED BY <2>1, <2>2, UntilIs
<1>2. CASE /\ \A j \in b..k - 1 : s[j] # Equal
           /\ q.pair = [key |-> Between(s, b, k), value |-> <<>>]
  <2>1. \A j \in b..k - 1 : s[j] \notin {Ampersand, Equal}
    BY <1>2 DEF Reading
  <2>2. k = Len(s) + 1 \/ s[k] \in {Ampersand, Equal}
    OBVIOUS
  <2>3. Until(s, b, {Ampersand, Equal}) = k
    BY <2>1, <2>2, UntilIs
  <2>4. Between(s, k + 1, k) = <<>>
    <3>1. k + 1 \in 1..Len(s) + 2 /\ k \in 1..Len(s) + 1 /\ k <= k + 1
      OBVIOUS
    <3> QED BY <3>1, BetweenReads
  <2> QED BY <1>1, <1>2, <2>3, <2>4 DEF PairAt
<1>3. ASSUME NEW e \in b..k - 1, s[e] = Equal, \A j \in b..e - 1 : s[j] # Equal,
             q.pair = [key |-> Between(s, b, e), value |-> Between(s, e + 1, k)]
      PROVE  q.pair = PairAt(s, b)
  <2>1. \A j \in b..e - 1 : s[j] \notin {Ampersand, Equal}
    <3>1. \A j \in b..e - 1 : j \in b..k - 1
      OBVIOUS
    <3> QED BY <1>3, <3>1 DEF Reading
  <2>2. e \in b..Len(s) + 1 /\ s[e] \in {Ampersand, Equal}
    BY <1>3
  <2>3. Until(s, b, {Ampersand, Equal}) = e
    BY <2>1, <2>2, UntilIs
  <2> QED BY <1>1, <1>3, <2>3 DEF PairAt
<1> QED BY <1>2, <1>3 DEF Reading

LEMMA PairsArePairs ==
    ASSUME NEW s \in Seq(Letter), NEW b \in 1..Len(s) + 1
    PROVE  PairAt(s, b) \in Pair
<1> DEFINE end == Until(s, b, {Ampersand})
           eq == Until(s, b, {Ampersand, Equal})
<1>1. end \in b..Len(s) + 1 /\ eq \in b..Len(s) + 1
  BY UntilStops
<1>2. PairAt(s, b) = [key |-> Between(s, b, eq), value |-> Between(s, eq + 1, end)]
  BY DEF PairAt
<1> HIDE DEF end, eq
<1>3. /\ b \in 1..Len(s) + 2 /\ eq \in 1..Len(s) + 1 /\ eq + 1 \in 1..Len(s) + 2
      /\ end \in 1..Len(s) + 1
  BY <1>1
<1>4. Between(s, b, eq) \in Seq(Letter) /\ Between(s, eq + 1, end) \in Seq(Letter)
  BY <1>3, BetweenReads
<1> QED BY <1>2, <1>4 DEF Pair

\* One more pair, behind those that begin before it.
LEMMA OneMoreTold ==
    ASSUME NEW s \in Seq(Letter), NEW b \in 1..Len(s) + 1, NEW K \in SUBSET (1..b - 1),
           NEW out \in Seq(Pair), Tell(out, s, K)
    PROVE  Tell(Append(out, PairAt(s, b)), s, K \cup {b})
<1> DEFINE p == PairAt(s, b)
           more == Append(out, p)
<1>1. p \in Pair
  BY PairsArePairs
<1> HIDE DEF p
<1>2. b \in Nat /\ b - 1 \in Int /\ \A i \in K : i < b /\ i \in 1..b - 1
  OBVIOUS
<1>3. IsFiniteSet(1..b - 1) /\ IsFiniteSet(K)
  BY <1>2, FS_Interval, FS_Subset, 1 \in Int
<1>4. Cardinality(K \cup {b}) = Cardinality(K) + 1 /\ Cardinality(K) \in Nat
  <2>1. b \notin K
    BY <1>2
  <2>2. Cardinality(K) \in Nat
    BY <1>3, FS_CardinalityType
  <2>3. Cardinality(K \cup {b}) = Cardinality(K) + 1
    BY <1>3, <2>1, FS_AddElement
  <2> QED BY <2>2, <2>3
<1>5. /\ more \in Seq(Pair) /\ Len(more) = Len(out) + 1 /\ more[Len(out) + 1] = p
      /\ \A i \in 1..Len(out) : more[i] = out[i]
  BY <1>1, AppendProperties
<1>6. Len(out) = Cardinality(K) /\ \A i \in K : out[Cardinality(K \cap 1..i)] = PairAt(s, i)
  BY DEF Tell
<1> HIDE DEF more
<1>7. ASSUME NEW i \in K PROVE more[Cardinality((K \cup {b}) \cap 1..i)] = PairAt(s, i)
  <2>1. (K \cup {b}) \cap 1..i = K \cap 1..i
    BY <1>2
  <2>2. Cardinality(K \cap 1..i) \in 1..Len(out)
    <3>1. IsFiniteSet(K \cap 1..i) /\ K \cap 1..i \subseteq K /\ i \in K \cap 1..i
      BY <1>2, <1>3, FS_Subset
    <3>2. /\ Cardinality(K \cap 1..i) \in Nat /\ Cardinality(K \cap 1..i) <= Cardinality(K)
          /\ Cardinality(K \cap 1..i) # 0
      BY <1>3, <3>1, FS_CardinalityType, FS_Subset, FS_EmptySet
    <3> QED BY <1>4, <1>6, <3>2
  <2>3. more[Cardinality(K \cap 1..i)] = out[Cardinality(K \cap 1..i)]
    BY <1>5, <2>2
  <2> QED BY <1>6, <2>1, <2>3
<1>8. more[Cardinality((K \cup {b}) \cap 1..b)] = p
  <2>1. (K \cup {b}) \cap 1..b = K \cup {b}
    <3>1. b \in 1..b /\ \A i \in K : i \in 1..b
      BY <1>2
    <3> QED BY <3>1
  <2> QED BY <1>4, <1>5, <1>6, <2>1
<1>9. \A i \in K \cup {b} : more[Cardinality((K \cup {b}) \cap 1..i)] = PairAt(s, i)
  BY <1>7, <1>8 DEF p
<1>10. Len(more) = Cardinality(K \cup {b})
  BY <1>4, <1>5, <1>6
<1> QED BY <1>9, <1>10 DEF Tell, more, p

\* The piece that was read is told, unless it is empty.
LEMMA RunCbTells ==
    ASSUME NEW s \in Seq(Letter), NEW b \in Begins(s), b \in 1..Len(s) + 1, NEW k \in b..Len(s) + 1,
           NEW q \in QueryState, Reading(s, b, k, q), k = Len(s) + 1 \/ s[k] = Ampersand,
           ToldBefore(s, b, q)
    PROVE  /\ RunCb(q) \in QueryState /\ RunCb(q).pair = NoPair
           /\ RunCb(q).inValue = q.inValue
           /\ ToldBefore(s, k + 1, RunCb(q))
<1> DEFINE K == {i \in Filled(s) : i < b}
           then == {i \in Filled(s) : i < k + 1}
           r == RunCb(q)
<1>1. q.pair = PairAt(s, b) /\ q.pair \in Pair /\ q.out \in Seq(Pair) /\ q.inValue \in BOOLEAN
  BY PieceIsPair DEF QueryState
<1>2. NoPair \in Pair
  BY DEF NoPair, Pair
<1>3. /\ r = [inValue |-> q.inValue, pair |-> NoPair,
              out |-> IF q.pair = NoPair THEN q.out ELSE Append(q.out, q.pair)]
      /\ r.inValue = q.inValue /\ r.pair = NoPair
      /\ r.out = IF q.pair = NoPair THEN q.out ELSE Append(q.out, q.pair)
  BY DEF RunCb
<1> HIDE DEF r
<1>4. r \in QueryState
  <2>1. Append(q.out, q.pair) \in Seq(Pair)
    BY <1>1
  <2> QED BY <1>1, <1>2, <1>3, <2>1 DEF QueryState
<1>5. \A i \in Filled(s) : i \in Begins(s) /\ PairAt(s, i) # NoPair
  BY DEF Filled
<1>6. \A i \in Begins(s) : i \in 1..Len(s) + 1
  BY DEF Begins
<1>7. \A i \in Begins(s) : ~(b < i /\ i < k + 1)
  <2> SUFFICES ASSUME NEW i \in Begins(s), b < i, i < k + 1 PROVE FALSE
    OBVIOUS
  <2>1. i \in Nat /\ i # 1
    BY <1>6
  <2>2. i - 1 \in b..k - 1
    BY <2>1
  <2>3. s[i - 1] = Ampersand
    <3>1. PICK j \in DOMAIN s : s[j] = Ampersand /\ i = j + 1
      BY <2>1 DEF Begins
    <3>2. j = i - 1
      BY <3>1
    <3> QED BY <3>1, <3>2
  <2> QED BY <2>2, <2>3 DEF Reading
<1>8. K \in SUBSET (1..b - 1)
  <2> SUFFICES ASSUME NEW i \in Filled(s), i < b PROVE i \in 1..b - 1
    OBVIOUS
  <2>1. i \in 1..Len(s) + 1
    BY <1>5, <1>6
  <2> QED BY <2>1
<1>9. Tell(q.out, s, K)
  BY DEF ToldBefore
<1>10. CASE PairAt(s, b) = NoPair
  <2>1. b \notin Filled(s)
    BY <1>5, <1>10
  <2>2. ASSUME NEW i \in Filled(s) PROVE i < k + 1 <=> i < b
    <3>1. i \in 1..Len(s) + 1 /\ i # b /\ ~(b < i /\ i < k + 1)
      BY <1>5, <1>6, <1>7, <2>1
    <3> QED BY <3>1
  <2>3. then = K
    BY <2>2
  <2>4. r.out = q.out
    BY <1>1, <1>3, <1>10
  <2> HIDE DEF K, then
  <2>5. Tell(r.out, s, then)
    BY <1>9, <2>3, <2>4
  <2> QED BY <1>3, <1>4, <2>5 DEF r, then, ToldBefore
<1>11. CASE PairAt(s, b) # NoPair
  <2>1. b \in Filled(s)
    BY <1>11 DEF Filled
  <2>2. ASSUME NEW i \in Filled(s) PROVE i < k + 1 <=> i < b \/ i = b
    <3>1. i \in 1..Len(s) + 1 /\ ~(b < i /\ i < k + 1)
      BY <1>5, <1>6, <1>7
    <3> QED BY <3>1
  <2>3. then = K \cup {b}
    BY <2>1, <2>2
  <2>4. r.out = Append(q.out, PairAt(s, b))
    BY <1>1, <1>3, <1>11
  <2> HIDE DEF K, then
  <2>5. Tell(r.out, s, then)
    BY <1>1, <1>8, <1>9, <2>3, <2>4, OneMoreTold
  <2> QED BY <1>3, <1>4, <2>5 DEF r, then, ToldBefore
<1> QED BY <1>10, <1>11

\* What the first k characters have come to.
ReadUpTo(s, k, q) ==
    /\ q \in QueryState
    /\ \E b \in 1..k + 1 : b \in Begins(s) /\ Reading(s, b, k + 1, q) /\ ToldBefore(s, b, q)

LEMMA CharIsRead ==
    ASSUME NEW s \in Seq(Letter), NEW k \in 1..Len(s), NEW q, ReadUpTo(s, k - 1, q)
    PROVE  ReadUpTo(s, k, QueryChar(q, s[k]))
<1> DEFINE c == s[k]
           r == QueryChar(q, c)
<1>1. PICK b \in 1..k : b \in Begins(s) /\ Reading(s, b, k, q) /\ ToldBefore(s, b, q)
  <2>1. (k - 1) + 1 = k
    OBVIOUS
  <2> QED BY <2>1 DEF ReadUpTo
<1>2. q \in QueryState /\ c \in Letter
  BY DEF ReadUpTo
<1>3. q.inValue \in BOOLEAN /\ q.pair \in Pair /\ q.out \in Seq(Pair)
  BY <1>2 DEF QueryState
<1>4. q.pair.key \in Seq(Letter) /\ q.pair.value \in Seq(Letter)
  BY <1>3 DEF Pair
<1>5. b \in 1..Len(s) + 1 /\ k \in b..Len(s) + 1
  OBVIOUS
<1>6. CASE c = Ampersand
  <2> DEFINE told == RunCb(q)
  <2>1. r = [told EXCEPT !.inValue = FALSE]
    BY <1>6 DEF QueryChar, Ampersand, Equal
  <2>2. told \in QueryState /\ told.pair = NoPair /\ ToldBefore(s, k + 1, told)
    BY <1>1, <1>2, <1>5, <1>6, RunCbTells
  <2> HIDE DEF told, r
  <2>3. r \in QueryState /\ ~r.inValue /\ r.pair = NoPair /\ r.out = told.out
    BY <2>1, <2>2 DEF QueryState
  <2>4. ToldBefore(s, k + 1, r)
    BY <2>2, <2>3 DEF ToldBefore
  <2>5. k + 1 \in Begins(s)
    BY <1>6 DEF Begins
  <2>6. Reading(s, k + 1, k + 1, r)
    <3>1. Between(s, k + 1, k + 1) = <<>>
      <4>1. k + 1 \in 1..Len(s) + 2 /\ k + 1 \in 1..Len(s) + 1 /\ k + 1 <= k + 1
        OBVIOUS
      <4> QED BY <4>1, BetweenReads
    <3>2. (k + 1)..(k + 1) - 1 = {}
      OBVIOUS
    <3> QED BY <2>3, <3>1, <3>2 DEF Reading, NoPair
  <2>7. k + 1 \in 1..k + 1
    OBVIOUS
  <2> QED BY <2>3, <2>4, <2>5, <2>6, <2>7 DEF ReadUpTo, r
<1>7. ASSUME r \in QueryState, r.out = q.out, Reading(s, b, k + 1, r)
      PROVE  ReadUpTo(s, k, r)
  <2>1. ToldBefore(s, b, r)
    BY <1>1, <1>7 DEF ToldBefore
  <2>2. b \in 1..k + 1
    OBVIOUS
  <2> QED BY <1>1, <1>7, <2>1, <2>2 DEF ReadUpTo
<1>8. c # Ampersand => \A j \in b..(k + 1) - 1 : s[j] # Ampersand
  <2>1. \A j \in b..(k + 1) - 1 : j \in b..k - 1 \/ j = k
    OBVIOUS
  <2> QED BY <1>1, <2>1 DEF Reading
<1>9. \A i \in 1..k : Append(Between(s, i, k), c) = Between(s, i, k + 1)
  <2> SUFFICES ASSUME NEW i \in 1..k PROVE Append(Between(s, i, k), c) = Between(s, i, k + 1)
    OBVIOUS
  <2>1. SubSeq(s, i, k) = SubSeq(s, i, k - 1) \o <<s[k]>>
    BY SubSeqRecursiveSecond
  <2>2. Between(s, i, k) \in Seq(Letter)
    BY BetweenReads
  <2>3. Append(Between(s, i, k), c) = Between(s, i, k) \o <<c>>
    BY <1>2, <2>2, AppendIsConcat
  <2>4. (k + 1) - 1 = k
    OBVIOUS
  <2> QED BY <2>1, <2>3, <2>4 DEF Between
<1>10. \A i, j \in Int : j \in i..(k + 1) - 1 => j \in i..k - 1 \/ j = k
  OBVIOUS
<1>11. CASE c = Equal /\ ~q.inValue
  <2>1. r = [q EXCEPT !.inValue = TRUE] /\ c # Ampersand
    BY <1>11 DEF QueryChar, Equal, Ampersand
  <2> HIDE DEF r
  <2>2. r \in QueryState /\ r.inValue /\ r.pair = q.pair /\ r.out = q.out
    BY <1>2, <2>1 DEF QueryState
  <2>3. /\ \A j \in b..k - 1 : s[j] # Equal
        /\ q.pair = [key |-> Between(s, b, k), value |-> <<>>]
    BY <1>1, <1>11 DEF Reading
  <2>4. Between(s, k + 1, k + 1) = <<>> /\ k \in b..(k + 1) - 1
    <3>1. k + 1 \in 1..Len(s) + 2 /\ k + 1 \in 1..Len(s) + 1 /\ k + 1 <= k + 1
      OBVIOUS
    <3> QED BY <3>1, BetweenReads
  <2>5. Reading(s, b, k + 1, r)
    BY <1>8, <1>11, <2>1, <2>2, <2>3, <2>4 DEF Reading
  <2> QED BY <1>7, <2>2, <2>5 DEF r
<1>12. CASE c # Ampersand /\ q.inValue
  <2>1. r = [q EXCEPT !.pair.value = Append(@, c)]
    BY <1>12 DEF QueryChar, Equal, Ampersand
  <2>2. PICK e \in b..k - 1 : /\ s[e] = Equal /\ \A j \in b..e - 1 : s[j] # Equal
                              /\ q.pair = [key |-> Between(s, b, e), value |-> Between(s, e + 1, k)]
    BY <1>1, <1>12 DEF Reading
  <2> HIDE DEF r
  <2> DEFINE p == [key |-> Between(s, b, e), value |-> Between(s, e + 1, k + 1)]
  <2>3. q.pair.key = Between(s, b, e) /\ Append(q.pair.value, c) = Between(s, e + 1, k + 1)
    <3>1. e + 1 \in 1..k
      OBVIOUS
    <3>2. Append(Between(s, e + 1, k), c) = Between(s, e + 1, k + 1)
      BY <1>9, <3>1
    <3>3. q.pair.key = Between(s, b, e) /\ q.pair.value = Between(s, e + 1, k)
      BY <2>2
    <3> QED BY <3>2, <3>3
  <2>4. [q.pair EXCEPT !.value = Append(@, c)] = p
    <3>1. PICK old : old = q.pair
      OBVIOUS
    <3>2. PICK key, value : key = old.key /\ value = old.value
      OBVIOUS
    <3>3. old = [key |-> key, value |-> value]
      BY <1>3, <3>1, <3>2 DEF Pair
    <3>4. [old EXCEPT !.value = Append(@, c)] = [key |-> key, value |-> Append(value, c)]
      <4>1. old.value = value
        BY <3>3
      <4>2. \A x : [old EXCEPT !.value = x] = [key |-> key, value |-> x]
        BY <3>3
      <4> QED BY <4>1, <4>2
    <3> QED BY <2>3, <3>1, <3>2, <3>4
  <2>5. p \in Pair
    <3>1. Append(q.pair.value, c) \in Seq(Letter)
      BY <1>2, <1>4
    <3> QED BY <1>4, <2>3, <3>1 DEF Pair
  <2> HIDE DEF p
  <2>6. r \in QueryState /\ r.inValue /\ r.pair = p /\ r.out = q.out
    BY <1>2, <1>12, <2>1, <2>4, <2>5 DEF QueryState
  <2>7. Reading(s, b, k + 1, r)
    <3>1. e \in b..(k + 1) - 1
      OBVIOUS
    <3> QED BY <1>8, <1>12, <2>2, <2>6, <3>1 DEF Reading, p
  <2> QED BY <1>7, <2>6, <2>7 DEF r
<1>13. CASE c # Ampersand /\ c # Equal /\ ~q.inValue
  <2>1. r = [q EXCEPT !.pair.key = Append(@, c)]
    BY <1>13 DEF QueryChar
  <2>2. /\ \A j \in b..k - 1 : s[j] # Equal
        /\ q.pair = [key |-> Between(s, b, k), value |-> <<>>]
    BY <1>1, <1>13 DEF Reading
  <2> HIDE DEF r
  <2> DEFINE p == [key |-> Between(s, b, k + 1), value |-> <<>>]
  <2>3. q.pair.value = <<>> /\ Append(q.pair.key, c) = Between(s, b, k + 1)
    BY <1>9, <2>2
  <2>4. [q.pair EXCEPT !.key = Append(@, c)] = p
    <3>1. PICK old : old = q.pair
      OBVIOUS
    <3>2. PICK key, value : key = old.key /\ value = old.value
      OBVIOUS
    <3>3. old = [key |-> key, value |-> value]
      BY <1>3, <3>1, <3>2 DEF Pair
    <3>4. [old EXCEPT !.key = Append(@, c)] = [key |-> Append(key, c), value |-> value]
      <4>1. old.key = key
        BY <3>3
      <4>2. \A x : [old EXCEPT !.key = x] = [key |-> x, value |-> value]
        BY <3>3
      <4> QED BY <4>1, <4>2
    <3> QED BY <2>3, <3>1, <3>2, <3>4
  <2>5. p \in Pair
    <3>1. Append(q.pair.key, c) \in Seq(Letter)
      BY <1>2, <1>4
    <3> QED BY <1>4, <2>3, <3>1 DEF Pair
  <2> HIDE DEF p
  <2>6. r \in QueryState /\ ~r.inValue /\ r.pair = p /\ r.out = q.out
    BY <1>2, <1>13, <2>1, <2>4, <2>5 DEF QueryState
  <2>7. \A j \in b..(k + 1) - 1 : s[j] # Equal
    BY <1>10, <1>13, <2>2
  <2>8. Reading(s, b, k + 1, r)
    BY <1>8, <1>13, <2>6, <2>7 DEF Reading, p
  <2> QED BY <1>7, <2>6, <2>8 DEF r
<1> QED BY <1>3, <1>6, <1>11, <1>12, <1>13

LEMMA QuerySplit ==
    ASSUME NEW s \in Seq(Letter)
    PROVE  Tell(ParseQueryString(s), s, Filled(s))
<1> DEFINE base == [inValue |-> FALSE, pair |-> NoPair, out |-> <<>>]
           L == Len(s)
           after == FoldLeft(QueryChar, base, s)
<1>0. L \in Nat
  OBVIOUS
<1>1. PICK turn : /\ turn[0] = base
                  /\ \A k \in 1..L : turn[k] = QueryChar(turn[k - 1], s[k])
                  /\ turn[L] = after
  BY FoldGoesOn, Zenon
<1>2. ReadUpTo(s, 0, base)
  <2>1. base \in QueryState
    BY DEF QueryState, Pair, NoPair
  <2>2. 1 \in Begins(s) /\ 1 \in 1..0 + 1
    BY DEF Begins
  <2>3. Reading(s, 1, 0 + 1, base)
    <3>1. Between(s, 1, 0 + 1) = <<>>
      <4>1. 1 \in 1..Len(s) + 2 /\ 0 + 1 \in 1..Len(s) + 1 /\ 0 + 1 <= 1
        BY <1>0
      <4> QED BY <4>1, BetweenReads
    <3>2. 1..(0 + 1) - 1 = {}
      OBVIOUS
    <3> QED BY <3>1, <3>2 DEF Reading, NoPair
  <2>4. ToldBefore(s, 1, base)
    <3>1. \A i \in Filled(s) : ~(i < 1)
      BY DEF Filled, Begins
    <3>2. {i \in Filled(s) : i < 1} = {}
      BY <3>1
    <3>3. Tell(<<>>, s, {})
      BY FS_EmptySet DEF Tell
    <3> QED BY <3>2, <3>3 DEF ToldBefore
  <2> QED BY <2>1, <2>2, <2>3, <2>4 DEF ReadUpTo
<1> HIDE DEF base, after
<1>3. ReadUpTo(s, L, after)
  <2> DEFINE Good == {k \in Nat : k <= L => ReadUpTo(s, k, turn[k])}
  <2>1. 0 \in Good
    BY <1>1, <1>2
  <2>2. ASSUME NEW k \in Good PROVE k + 1 \in Good
    <3> SUFFICES ASSUME k + 1 <= L PROVE ReadUpTo(s, k + 1, turn[k + 1])
      OBVIOUS
    <3>1. k + 1 \in 1..L /\ (k + 1) - 1 = k /\ k <= L
      BY <1>0
    <3>2. ReadUpTo(s, (k + 1) - 1, turn[k]) /\ turn[k + 1] = QueryChar(turn[k], s[k + 1])
      BY <1>1, <3>1
    <3> QED BY <3>1, <3>2, CharIsRead
  <2>3. Good \in SUBSET Nat
    OBVIOUS
  <2>4. L \in Good
    <3> HIDE DEF Good
    <3> QED BY <1>0, <2>1, <2>2, <2>3, AllNumbers
  <2> QED BY <1>0, <1>1, <2>4
<1>4. PICK b \in 1..L + 1 : b \in Begins(s) /\ Reading(s, b, L + 1, after) /\ ToldBefore(s, b, after)
  BY <1>3 DEF ReadUpTo
<1>5. after \in QueryState
  BY <1>3 DEF ReadUpTo
<1>6. ToldBefore(s, (L + 1) + 1, RunCb(after))
  <2>1. b \in 1..Len(s) + 1 /\ L + 1 \in b..Len(s) + 1
    BY <1>0
  <2> HIDE DEF L
  <2>2. L + 1 = Len(s) + 1
    BY DEF L
  <2> QED BY <1>4, <1>5, <2>1, <2>2, RunCbTells
<1>7. {i \in Filled(s) : i < (L + 1) + 1} = Filled(s)
  <2>1. \A i \in Filled(s) : i \in 1..L + 1
    BY DEF Filled, Begins
  <2> QED BY <1>0, <2>1
<1>8. ParseQueryString(s) = RunCb(after).out
  BY DEF ParseQueryString, after, base
<1> QED BY <1>6, <1>7, <1>8 DEF ToldBefore

-----------------------------------------------------------------------------
(* Url: how escapes are decoded. *)

\* What decoding gives from place i on, if it gives g from the later ones.
DecodedAt(s, g, i) ==
    IF i > Len(s) THEN <<>>
    ELSE IF IsEscape(s, i)
         THEN <<Digit(s[i + 1]) * 16 + Digit(s[i + 2])>> \o g[i + 3]
         ELSE <<IF s[i] = Plus THEN Space ELSE s[i]>> \o g[i + 1]

LEMMA DecodeGoesOn ==
    ASSUME NEW s \in Seq(Letter)
    PROVE  \E from : /\ \A i \in 1..Len(s) + 3 : from[i] = DecodedAt(s, from, i)
                     /\ from[1] = DecodeUrlComponent(s)
<1> DEFINE L == Len(s)
           D == 1..L + 3
           Along(g) == [i \in D |-> DecodedAt(s, g, i)]
           Ok(g, n) == g = [i \in D |-> g[i]] /\ \A i \in D : i > L - n => g[i] = DecodedAt(s, g, i)
           Good == {n \in Nat : \E g : Ok(g, n)}
           from == CHOOSE g : g = Along(g)
<1>0. L \in Nat
  OBVIOUS
<1>1. DecodeUrlComponent(s) = from[1]
  BY DEF DecodeUrlComponent, DecodedAt
<1>2. 0 \in Good
  <2> DEFINE g == [i \in D |-> <<>>]
  <2>1. \A i \in D : i > L - 0 => g[i] = DecodedAt(s, g, i)
    BY <1>0 DEF DecodedAt
  <2>2. g = [i \in D |-> g[i]]
    OBVIOUS
  <2> HIDE DEF g
  <2>3. Ok(g, 0)
    BY <2>1, <2>2
  <2> HIDE DEF Ok
  <2> QED BY <2>3
<1>3. ASSUME NEW n \in Good PROVE n + 1 \in Good
  <2>1. n \in Nat
    OBVIOUS
  <2>2. PICK g : Ok(g, n)
    OBVIOUS
  <2> DEFINE h == [i \in D |-> IF i > L - n THEN g[i] ELSE DecodedAt(s, g, i)]
  <2>3. ASSUME NEW i \in D, i > L - (n + 1) PROVE h[i] = DecodedAt(s, h, i)
    <3>1. h[i] = DecodedAt(s, g, i)
      BY <2>2
    <3>2. CASE i > L
      BY <3>1, <3>2 DEF DecodedAt
    <3>3. CASE ~(i > L)
      <4>1. i + 1 \in D /\ i + 3 \in D /\ i + 1 > L - n /\ i + 3 > L - n
        BY <1>0, <2>1, <2>3, <3>3
      <4>2. h[i + 1] = g[i + 1] /\ h[i + 3] = g[i + 3]
        BY <4>1
      <4> HIDE DEF h
      <4> QED BY <3>1, <3>3, <4>2, Zenon DEF DecodedAt
    <3> QED BY <3>2, <3>3
  <2>4. h = [i \in D |-> h[i]]
    OBVIOUS
  <2> HIDE DEF h
  <2>5. Ok(h, n + 1)
    BY <2>3, <2>4, Zenon
  <2> HIDE DEF Ok
  <2> QED BY <2>1, <2>5
<1>4. PICK g : Ok(g, L)
  <2>1. Good \in SUBSET Nat
    OBVIOUS
  <2>2. L \in Good
    <3> HIDE DEF Good
    <3> QED BY <1>0, <1>2, <1>3, <2>1, AllNumbers
  <2> QED BY <2>2
<1>5. g = Along(g)
  <2>1. \A i \in D : g[i] = DecodedAt(s, g, i)
    BY <1>0, <1>4
  <2>2. g = [i \in D |-> g[i]]
    BY <1>4
  <2> QED BY <2>1, <2>2
<1>6. from = Along(from)
  <2> HIDE DEF Along
  <2> QED BY <1>5
<1> HIDE DEF from
<1>7. \A i \in D : from[i] = DecodedAt(s, from, i)
  BY <1>6, Zenon
<1> QED BY <1>1, <1>7

\* What is decoded is no longer than what it is decoded from.
LEMMA DecodedFits ==
    ASSUME NEW s \in Seq(Letter)
    PROVE  Len(DecodeUrlComponent(s)) <= Len(s)
<1> DEFINE L == Len(s)
<1>0. L \in Nat
  OBVIOUS
<1>1. PICK from : /\ \A i \in 1..L + 3 : from[i] = DecodedAt(s, from, i)
                  /\ from[1] = DecodeUrlComponent(s)
  BY DecodeGoesOn, Zenon
<1> DEFINE Shorter(i) == from[i] \in Seq(Int) /\ (i <= L + 1 => Len(from[i]) <= L + 1 - i)
           Good == {n \in Nat : \A i \in 1..L + 3 : i > L - n => Shorter(i)}
<1>2. 0 \in Good
  <2> SUFFICES ASSUME NEW i \in 1..L + 3, i > L PROVE Shorter(i)
    BY <1>0
  <2>1. from[i] = <<>>
    BY <1>1 DEF DecodedAt
  <2> QED BY <1>0, <2>1
<1>3. ASSUME NEW n \in Good PROVE n + 1 \in Good
  <2>1. n \in Nat
    OBVIOUS
  <2> SUFFICES ASSUME NEW i \in 1..L + 3, i > L - (n + 1) PROVE Shorter(i)
    BY <2>1
  <2>2. CASE i > L - n
    BY <2>2
  <2>3. CASE i > L
    BY <1>1, <2>3, <1>0 DEF DecodedAt
  <2>4. CASE ~(i > L)
    <3>1. i \in 1..L /\ i + 1 \in 1..L + 3 /\ i + 3 \in 1..L + 3 /\ i + 1 > L - n /\ i + 3 > L - n
      BY <1>0, <2>1, <2>4
    <3>2. Shorter(i + 1) /\ Shorter(i + 3)
      BY <3>1
    <3>3. from[i] = DecodedAt(s, from, i)
      BY <1>1
    <3>4. CASE IsEscape(s, i)
      <4>1. isxdigit(At(s, i + 1)) /\ isxdigit(At(s, i + 2))
        BY <3>4 DEF IsEscape
      <4>2. i + 1 \in DOMAIN s /\ i + 2 \in DOMAIN s
        BY <4>1 DEF At, isxdigit, Zero, UpperA, LowerA
      <4>3. s[i + 1] \in Letter /\ s[i + 2] \in Letter /\ i + 2 <= L
        BY <4>2
      <4>4. \A c \in Letter : Digit(c) \in Int
        BY DEF Letter, Digit, toupper, Zero, UpperA, LowerA
      <4>5. PICK d \in Int : d = Digit(s[i + 1]) * 16 + Digit(s[i + 2])
        BY <4>3, <4>4
      <4>6. from[i] = <<d>> \o from[i + 3]
        BY <2>4, <3>3, <3>4, <4>5 DEF DecodedAt
      <4>7. /\ from[i] \in Seq(Int) /\ Len(from[i]) = 1 + Len(from[i + 3])
            /\ Len(from[i + 3]) <= L + 1 - (i + 3)
        BY <1>0, <3>1, <3>2, <4>3, <4>6
      <4>8. Len(from[i + 3]) \in Nat
        BY <3>2
      <4> QED BY <1>0, <3>1, <4>7, <4>8
    <3>5. CASE ~IsEscape(s, i)
      <4>1. PICK c \in Int : c = IF s[i] = Plus THEN Space ELSE s[i]
        <5>1. s[i] \in Letter
          BY <3>1
        <5>2. Space \in Int /\ \A x \in Letter : x \in Int
          BY DEF Space, Letter
        <5> QED BY <5>1, <5>2
      <4>2. from[i] = <<c>> \o from[i + 1]
        BY <2>4, <3>3, <3>5, <4>1 DEF DecodedAt
      <4>3. /\ from[i] \in Seq(Int) /\ Len(from[i]) = 1 + Len(from[i + 1])
            /\ Len(from[i + 1]) <= L + 1 - (i + 1)
        BY <1>0, <3>1, <3>2, <4>2
      <4>4. Len(from[i + 1]) \in Nat
        BY <3>2
      <4> QED BY <1>0, <3>1, <4>3, <4>4
    <3> QED BY <3>4, <3>5
  <2> QED BY <2>3, <2>4
<1>4. Shorter(1)
  <2>1. Good \in SUBSET Nat
    OBVIOUS
  <2>2. L \in Good
    <3> HIDE DEF Good
    <3> QED BY <1>0, <1>2, <1>3, <2>1, AllNumbers
  <2>3. 1 \in 1..L + 3 /\ 1 > L - L
    BY <1>0
  <2> QED BY <2>2, <2>3
<1> QED BY <1>0, <1>1, <1>4

\* What Encoded makes of one character.
HexDigit(d, a) == IF d < 10 THEN Zero + d ELSE a + d - 10
Code(c, a) ==
    IF c >= UpperA THEN <<c>> ELSE IF c = Space THEN <<Plus>>
    ELSE <<Percent, HexDigit(c \div 16, a), HexDigit(c % 16, a)>>

LEMMA DigitOfHexDigit ==
    ASSUME NEW d \in 0..15, NEW a \in {UpperA, LowerA}
    PROVE  /\ HexDigit(d, a) \in Letter /\ isxdigit(HexDigit(d, a)) /\ Digit(HexDigit(d, a)) = d
<1>1. CASE d < 10
  <2>1. HexDigit(d, a) = 48 + d
    BY <1>1 DEF HexDigit, Zero
  <2> QED BY <1>1, <2>1 DEF Letter, isxdigit, Digit, Zero, UpperA
<1>2. CASE ~(d < 10) /\ a = UpperA
  <2>1. HexDigit(d, a) = 55 + d
    BY <1>2 DEF HexDigit, UpperA
  <2> QED BY <1>2, <2>1 DEF Letter, isxdigit, Digit, toupper, UpperA, LowerA
<1>3. CASE ~(d < 10) /\ a = LowerA
  <2>1. HexDigit(d, a) = 87 + d
    BY <1>3 DEF HexDigit, LowerA
  <2> QED BY <1>3, <2>1 DEF Letter, isxdigit, Digit, toupper, UpperA, LowerA
<1> QED BY <1>1, <1>2, <1>3

LEMMA CodesAreTexts ==
    ASSUME NEW c \in Letter, NEW a \in {UpperA, LowerA}
    PROVE  Code(c, a) \in Seq(Letter)
<1>1. CASE c >= UpperA
  BY <1>1 DEF Code
<1>2. CASE ~(c >= UpperA) /\ c = Space
  <2>1. Plus \in Letter
    BY DEF Plus, Letter
  <2> QED BY <1>2, <2>1 DEF Code
<1>3. CASE ~(c >= UpperA) /\ c # Space
  <2>1. c \div 16 \in 0..15 /\ c % 16 \in 0..15
    BY <1>3 DEF Letter, UpperA
  <2>2. HexDigit(c \div 16, a) \in Letter /\ HexDigit(c % 16, a) \in Letter
    BY <2>1, DigitOfHexDigit
  <2>3. Percent \in Letter
    BY DEF Percent, Letter
  <2> QED BY <1>3, <2>2, <2>3 DEF Code
<1> QED BY <1>1, <1>2, <1>3

\* Where the code of a character stands, decoding gives the character.
LEMMA CodeIsDecoded ==
    ASSUME NEW e \in Seq(Letter), NEW c \in Letter, NEW a \in {UpperA, LowerA}, NEW i \in 1..Len(e),
           i + Len(Code(c, a)) <= Len(e) + 1,
           \A j \in 1..Len(Code(c, a)) : e[i + j - 1] = Code(c, a)[j],
           NEW from
    PROVE  DecodedAt(e, from, i) = <<c>> \o from[i + Len(Code(c, a))]
<1>0. ~(i > Len(e))
  OBVIOUS
<1>1. CASE c >= UpperA
  <2>1. Code(c, a) = <<c>>
    BY <1>1 DEF Code
  <2>2. Len(Code(c, a)) = 1 /\ e[i + 1 - 1] = c
    BY <2>1
  <2>3. e[i] = c
    BY <2>2
  <2>4. ~IsEscape(e, i) /\ e[i] # Plus
    BY <1>1, <2>3 DEF IsEscape, Percent, Plus, UpperA, Letter
  <2> QED BY <1>0, <2>2, <2>3, <2>4 DEF DecodedAt
<1>2. CASE ~(c >= UpperA) /\ c = Space
  <2>1. Code(c, a) = <<Plus>>
    BY <1>2 DEF Code
  <2>2. Len(Code(c, a)) = 1 /\ e[i + 1 - 1] = Plus
    BY <2>1
  <2>3. e[i] = Plus
    BY <2>2
  <2>4. ~IsEscape(e, i)
    BY <2>3 DEF IsEscape, Percent, Plus
  <2> QED BY <1>0, <1>2, <2>2, <2>3, <2>4 DEF DecodedAt
<1>3. CASE ~(c >= UpperA) /\ c # Space
  <2> DEFINE x == HexDigit(c \div 16, a)
             y == HexDigit(c % 16, a)
  <2>1. c \div 16 \in 0..15 /\ c % 16 \in 0..15 /\ (c \div 16) * 16 + (c % 16) = c
    BY <1>3 DEF Letter, UpperA
  <2>2. isxdigit(x) /\ Digit(x) = c \div 16 /\ isxdigit(y) /\ Digit(y) = c % 16
    BY <2>1, DigitOfHexDigit
  <2>3. Code(c, a) = <<Percent, x, y>>
    BY <1>3 DEF Code
  <2> HIDE DEF x, y
  <2>4. /\ Len(Code(c, a)) = 3 /\ Code(c, a)[1] = Percent /\ Code(c, a)[2] = x /\ Code(c, a)[3] = y
    BY <2>3
  <2>5. e[i + 1 - 1] = Percent /\ e[i + 2 - 1] = x /\ e[i + 3 - 1] = y
    BY <2>4
  <2>6. e[i] = Percent /\ e[i + 1] = x /\ e[i + 2] = y
    BY <2>5
  <2>7. At(e, i + 1) = x /\ At(e, i + 2) = y
    <3>1. i + 1 \in DOMAIN e /\ i + 2 \in DOMAIN e
      BY <2>4
    <3> QED BY <2>6, <3>1 DEF At
  <2>8. IsEscape(e, i)
    BY <2>2, <2>6, <2>7 DEF IsEscape
  <2>9. Digit(e[i + 1]) * 16 + Digit(e[i + 2]) = c
    BY <2>1, <2>2, <2>6
  <2> QED BY <1>0, <2>4, <2>8, <2>9, Zenon DEF DecodedAt
<1> QED BY <1>1, <1>2, <1>3

\* A concatenation of texts, and where each of them stands in it.
LEMMA FlattenGoesOn ==
    ASSUME NEW cs \in Seq(Seq(Letter))
    PROVE  \E flat : /\ flat[0] = <<>>
                     /\ \A k \in 1..Len(cs) : flat[k] = flat[k - 1] \o cs[k]
                     /\ flat[Len(cs)] = FlattenSeq(cs)
<1> DEFINE n == Len(cs)
           Turn(g, i) == IF i = 1 THEN cs[i] ELSE g[i - 1] \o cs[i]
           Along(g) == [i \in 1..n |-> Turn(g, i)]
           Ok(g, m) == g = [i \in 1..n |-> g[i]] /\ \A i \in 1..n : i <= m => g[i] = Turn(g, i)
           Good == {m \in Nat : \E g : Ok(g, m)}
           flatten == CHOOSE g : g = Along(g)
           flat == [k \in 0..n |-> IF k = 0 THEN <<>> ELSE flatten[k]]
<1>0. n \in Nat
  OBVIOUS
<1>1. FlattenSeq(cs) = IF n = 0 THEN cs ELSE flatten[n]
  BY DEF FlattenSeq
<1>2. 0 \in Good
  <2> DEFINE g == [i \in 1..n |-> <<>>]
  <2>1. g = [i \in 1..n |-> g[i]] /\ \A i \in 1..n : ~(i <= 0)
    OBVIOUS
  <2> HIDE DEF g
  <2>2. Ok(g, 0)
    BY <2>1
  <2> HIDE DEF Ok
  <2> QED BY <2>2
<1>3. ASSUME NEW m \in Good PROVE m + 1 \in Good
  <2>1. m \in Nat
    OBVIOUS
  <2>2. PICK g : Ok(g, m)
    OBVIOUS
  <2> DEFINE h == [i \in 1..n |-> IF i <= m THEN g[i] ELSE Turn(g, i)]
  <2>3. ASSUME NEW i \in 1..n, i <= m + 1 PROVE h[i] = Turn(h, i)
    <3>1. h[i] = Turn(g, i)
      BY <2>2
    <3>2. CASE i = 1
      BY <3>1, <3>2
    <3>3. CASE i # 1
      <4>1. i - 1 \in 1..n /\ i - 1 <= m
        BY <1>0, <2>1, <2>3, <3>3
      <4>2. h[i - 1] = g[i - 1]
        BY <4>1
      <4> HIDE DEF h
      <4> QED BY <3>1, <3>3, <4>2, Zenon
    <3> QED BY <3>2, <3>3
  <2>4. h = [i \in 1..n |-> h[i]]
    OBVIOUS
  <2> HIDE DEF h
  <2>5. Ok(h, m + 1)
    BY <2>3, <2>4, Zenon
  <2> HIDE DEF Ok
  <2> QED BY <2>1, <2>5
<1>4. PICK g : Ok(g, n)
  <2>1. Good \in SUBSET Nat
    OBVIOUS
  <2>2. n \in Good
    <3> HIDE DEF Good
    <3> QED BY <1>0, <1>2, <1>3, <2>1, AllNumbers
  <2> QED BY <2>2
<1>5. g = Along(g)
  <2>1. ASSUME NEW i \in 1..n PROVE g[i] = Turn(g, i)
    <3>1. i <= n
      BY <1>0
    <3> HIDE DEF Turn
    <3> QED BY <1>4, <3>1
  <2>2. g = [i \in 1..n |-> g[i]]
    BY <1>4
  <2> QED BY <2>1, <2>2
<1>6. flatten = Along(flatten)
  <2> HIDE DEF Along
  <2> QED BY <1>5
<1> HIDE DEF flatten
<1>7. \A i \in 1..n : flatten[i] = Turn(flatten, i)
  BY <1>6, Zenon
<1>8. flat[0] = <<>> /\ flat[n] = FlattenSeq(cs)
  <2>1. n = 0 => cs = <<>>
    OBVIOUS
  <2>2. 0 \in 0..n /\ n \in 0..n
    BY <1>0
  <2> QED BY <1>1, <2>1, <2>2
<1>9. ASSUME NEW k \in 1..n PROVE flat[k] = flat[k - 1] \o cs[k]
  <2>1. k \in 0..n /\ k # 0 /\ k - 1 \in 0..n
    BY <1>0
  <2>2. flat[k] = Turn(flatten, k)
    BY <1>7, <2>1
  <2>3. CASE k = 1
    <3>1. flat[k - 1] = <<>> /\ cs[k] \in Seq(Letter)
      BY <1>8, <2>3
    <3> HIDE DEF flat
    <3> QED BY <2>2, <2>3, <3>1
  <2>4. CASE k # 1
    <3>1. k - 1 # 0 /\ flat[k - 1] = flatten[k - 1]
      BY <2>1, <2>4
    <3> HIDE DEF flat
    <3> QED BY <2>2, <2>4, <3>1
  <2> QED BY <2>3, <2>4
<1> HIDE DEF flat
<1> QED BY <1>8, <1>9

Extends(t, s) == Len(s) <= Len(t) /\ \A j \in 1..Len(s) : t[j] = s[j]

LEMMA JoinedExtends ==
    ASSUME NEW x \in Seq(Letter), NEW y \in Seq(Letter)
    PROVE  /\ x \o y \in Seq(Letter) /\ Len(x \o y) = Len(x) + Len(y) /\ Extends(x \o y, x)
           /\ \A j \in 1..Len(y) : Len(x) + j \in 1..Len(x \o y) /\ (x \o y)[Len(x) + j] = y[j]
<1>1. /\ x \o y \in Seq(Letter) /\ Len(x \o y) = Len(x) + Len(y)
      /\ \A j \in 1..Len(x) + Len(y) : (x \o y)[j] = IF j <= Len(x) THEN x[j] ELSE y[j - Len(x)]
  BY ConcatProperties
<1>2. Len(x) \in Nat /\ Len(y) \in Nat
  OBVIOUS
<1>3. Extends(x \o y, x)
  BY <1>1, <1>2 DEF Extends
<1>4. ASSUME NEW j \in 1..Len(y) PROVE Len(x) + j \in 1..Len(x \o y) /\ (x \o y)[Len(x) + j] = y[j]
  <2>1. /\ Len(x) + j \in 1..Len(x) + Len(y) /\ ~(Len(x) + j <= Len(x))
        /\ (Len(x) + j) - Len(x) = j
    BY <1>2
  <2> QED BY <1>1, <2>1
<1> QED BY <1>1, <1>3, <1>4

LEMMA ExtendsTrans ==
    ASSUME NEW x \in Seq(Letter), NEW y \in Seq(Letter), NEW z \in Seq(Letter), Extends(z, y), Extends(y, x)
    PROVE  Extends(z, x)
<1>1. \A j \in 1..Len(x) : j \in 1..Len(y)
  BY DEF Extends
<1> QED BY <1>1 DEF Extends

\* flat says what is put together up to each text of cs, and in the end all of it.
PutTogether(flat, cs) ==
    /\ \A k \in 0..Len(cs) : flat[k] \in Seq(Letter)
    /\ \A k \in 1..Len(cs) :
          /\ Len(flat[k]) = Len(flat[k - 1]) + Len(cs[k])
          /\ Len(flat[k]) <= Len(flat[Len(cs)])
          /\ \A j \in 1..Len(cs[k]) : flat[Len(cs)][Len(flat[k - 1]) + j] = cs[k][j]

LEMMA TextsStandThere ==
    ASSUME NEW cs \in Seq(Seq(Letter)), NEW flat, flat[0] = <<>>,
           \A k \in 1..Len(cs) : flat[k] = flat[k - 1] \o cs[k]
    PROVE  PutTogether(flat, cs)
<1> DEFINE n == Len(cs)
           Read == {m \in Nat : m <= n => flat[m] \in Seq(Letter)}
           ExtendsAll(m) == \A k \in 0..m : Extends(flat[m], flat[k])
           Growing == {m \in Nat : m <= n => ExtendsAll(m)}
<1>0. n \in Nat
  OBVIOUS
<1>1. ASSUME NEW m \in Nat, m + 1 <= n
      PROVE  m <= n /\ m + 1 \in 1..n /\ cs[m + 1] \in Seq(Letter) /\ flat[m + 1] = flat[m] \o cs[m + 1]
  <2>1. m <= n /\ m + 1 \in 1..n /\ (m + 1) - 1 = m
    BY <1>0, <1>1
  <2>2. flat[m + 1] = flat[(m + 1) - 1] \o cs[m + 1]
    BY <2>1
  <2>3. cs[m + 1] \in Seq(Letter)
    BY <2>1
  <2> QED BY <2>1, <2>2, <2>3
<1>2. \A m \in Nat : m \in Read
  <2>1. 0 \in Read
    <3>1. <<>> \in Seq(Letter)
      OBVIOUS
    <3> QED BY <3>1
  <2>2. ASSUME NEW m \in Read PROVE m + 1 \in Read
    <3>1. m \in Nat
      OBVIOUS
    <3> SUFFICES ASSUME m + 1 <= n PROVE flat[m + 1] \in Seq(Letter)
      BY <3>1
    <3>2. flat[m] \in Seq(Letter) /\ cs[m + 1] \in Seq(Letter) /\ flat[m + 1] = flat[m] \o cs[m + 1]
      BY <1>1, <3>1
    <3> QED BY <3>2, JoinedExtends
  <2>3. Read \in SUBSET Nat
    OBVIOUS
  <2> HIDE DEF Read
  <2> QED BY <2>1, <2>2, <2>3, AllNumbers
<1>3. \A k \in 0..n : flat[k] \in Seq(Letter)
  BY <1>0, <1>2
<1>4. ASSUME NEW k \in 0..n PROVE Extends(flat[k], flat[k])
  <2>1. PICK x \in Seq(Letter) : x = flat[k]
    BY <1>3
  <2>2. Extends(x, x)
    BY DEF Extends
  <2> QED BY <2>1, <2>2
<1>5. \A m \in Nat : m \in Growing
  <2>1. 0 \in Growing
    <3> SUFFICES ASSUME NEW k \in 0..0 PROVE Extends(flat[0], flat[k])
      OBVIOUS
    <3>1. k = 0 /\ 0 \in 0..n
      BY <1>0
    <3> QED BY <1>4, <3>1
  <2>2. ASSUME NEW m \in Growing PROVE m + 1 \in Growing
    <3>1. m \in Nat
      OBVIOUS
    <3>2. ASSUME m + 1 <= n PROVE ExtendsAll(m + 1)
      <4> SUFFICES ASSUME NEW k \in 0..m + 1 PROVE Extends(flat[m + 1], flat[k])
        OBVIOUS
      <4>1. /\ m <= n /\ m \in 0..n /\ m + 1 \in 0..n /\ cs[m + 1] \in Seq(Letter)
            /\ flat[m + 1] = flat[m] \o cs[m + 1]
        <5>1. /\ m <= n /\ cs[m + 1] \in Seq(Letter) /\ flat[m + 1] = flat[m] \o cs[m + 1]
          BY <1>1, <3>1, <3>2
        <5>2. m \in 0..n /\ m + 1 \in 0..n
          BY <1>0, <3>1, <3>2
        <5> QED BY <5>1, <5>2
      <4>2. CASE k = m + 1
        BY <1>4, <4>1, <4>2
      <4>3. CASE k # m + 1
        <5>1. k \in 0..m /\ k \in 0..n
          BY <3>1, <4>1, <4>3
        <5>2. Extends(flat[m], flat[k])
          BY <4>1, <5>1
        <5>3. flat[m] \in Seq(Letter) /\ flat[k] \in Seq(Letter) /\ flat[m + 1] \in Seq(Letter)
          BY <1>3, <4>1, <5>1
        <5>4. Extends(flat[m + 1], flat[m])
          BY <4>1, <5>3, JoinedExtends
        <5> QED BY <5>2, <5>3, <5>4, ExtendsTrans
      <4> QED BY <4>2, <4>3
    <3> HIDE DEF ExtendsAll, n
    <3> QED BY <3>1, <3>2
  <2>3. Growing \in SUBSET Nat
    OBVIOUS
  <2> HIDE DEF Growing
  <2> QED BY <2>1, <2>2, <2>3, AllNumbers
<1>6. \A k \in 0..n : Extends(flat[n], flat[k])
  BY <1>0, <1>5
<1>7. ASSUME NEW k \in 1..n
      PROVE  /\ Len(flat[k]) = Len(flat[k - 1]) + Len(cs[k])
             /\ Len(flat[k]) <= Len(flat[n])
             /\ \A j \in 1..Len(cs[k]) : flat[n][Len(flat[k - 1]) + j] = cs[k][j]
  <2>1. k \in 0..n /\ k - 1 \in 0..n
    BY <1>0
  <2>2. PICK x, y, z, w : x = flat[k - 1] /\ y = cs[k] /\ z = flat[k] /\ w = flat[n]
    OBVIOUS
  <2>3. x \in Seq(Letter) /\ y \in Seq(Letter) /\ z = x \o y /\ Extends(w, z)
    <3>1. flat[k - 1] \in Seq(Letter) /\ cs[k] \in Seq(Letter)
      BY <1>3, <2>1
    <3>2. flat[k] = flat[k - 1] \o cs[k]
      OBVIOUS
    <3>3. Extends(flat[n], flat[k])
      BY <1>6, <2>1
    <3> QED BY <2>2, <3>1, <3>2, <3>3
  <2>4. /\ Len(x \o y) = Len(x) + Len(y)
        /\ \A j \in 1..Len(y) : Len(x) + j \in 1..Len(x \o y) /\ (x \o y)[Len(x) + j] = y[j]
    BY <2>3, JoinedExtends
  <2>5. Len(z) <= Len(w) /\ \A j \in 1..Len(z) : w[j] = z[j]
    BY <2>3 DEF Extends
  <2>6. \A j \in 1..Len(y) : w[Len(x) + j] = y[j]
    BY <2>3, <2>4, <2>5
  <2>7. Len(z) = Len(x) + Len(y)
    BY <2>3, <2>4
  <2> QED BY <2>2, <2>5, <2>6, <2>7, Zenon
<1> QED BY <1>3, <1>7 DEF PutTogether

LEMMA DecodedIsEncoded ==
    ASSUME NEW s \in Seq(Letter), NEW a \in {UpperA, LowerA}
    PROVE  DecodeUrlComponent(Encoded(s, a)) = s
<1> DEFINE n == Len(s)
           cs == [i \in DOMAIN s |-> Code(s[i], a)]
           e == FlattenSeq(cs)
<1>1. Encoded(s, a) = e
  BY DEF Encoded, Code, HexDigit
<1>2. cs \in Seq(Seq(Letter)) /\ Len(cs) = n /\ \A k \in 1..n : cs[k] = Code(s[k], a)
  <2>1. \A k \in 1..n : s[k] \in Letter
    OBVIOUS
  <2>2. \A k \in 1..n : Code(s[k], a) \in Seq(Letter)
    BY <2>1, CodesAreTexts
  <2>3. DOMAIN s = 1..n /\ n \in Nat
    OBVIOUS
  <2>4. cs \in [1..n -> Seq(Letter)]
    BY <2>2, <2>3
  <2>5. cs \in Seq(Seq(Letter)) /\ Len(cs) = n
    <3> HIDE DEF cs
    <3> QED BY <2>3, <2>4
  <2> QED BY <2>3, <2>5
<1> HIDE DEF cs
<1>3. PICK flat : /\ flat[0] = <<>>
                  /\ \A k \in 1..n : flat[k] = flat[k - 1] \o cs[k]
                  /\ flat[n] = e
  BY <1>2, FlattenGoesOn
<1>4. /\ \A k \in 0..n : flat[k] \in Seq(Letter)
      /\ \A k \in 1..n : /\ Len(flat[k]) = Len(flat[k - 1]) + Len(cs[k])
                         /\ Len(flat[k]) <= Len(e)
                         /\ \A j \in 1..Len(cs[k]) : e[Len(flat[k - 1]) + j] = cs[k][j]
  <2> HIDE DEF n, e
  <2>1. \A k \in 1..Len(cs) : flat[k] = flat[k - 1] \o cs[k]
    BY <1>2, <1>3
  <2>2. PutTogether(flat, cs)
    <3>1. cs \in Seq(Seq(Letter)) /\ flat[0] = <<>>
      BY <1>2, <1>3
    <3> QED BY <2>1, <3>1, TextsStandThere, Zenon
  <2> QED BY <1>2, <1>3, <2>2 DEF PutTogether
<1> HIDE DEF e
<1>5. n \in Nat /\ e \in Seq(Letter) /\ Len(flat[0]) = 0
  <2>1. n \in Nat /\ n \in 0..n
    OBVIOUS
  <2> QED BY <1>3, <1>4, <2>1
<1>6. PICK from : /\ \A i \in 1..Len(e) + 3 : from[i] = DecodedAt(e, from, i)
                  /\ from[1] = DecodeUrlComponent(e)
  BY <1>5, DecodeGoesOn
<1> DEFINE Good == {m \in Nat : m <= n => from[Len(flat[n - m]) + 1] = Between(s, n - m + 1, n + 1)}
<1>7. 0 \in Good
  <2>1. n - 0 = n /\ Len(e) + 1 \in 1..Len(e) + 3 /\ Len(e) + 1 > Len(e)
    BY <1>5
  <2>2. from[Len(e) + 1] = <<>>
    BY <1>6, <2>1 DEF DecodedAt
  <2>3. Between(s, n + 1, n + 1) = <<>>
    <3>1. n + 1 \in 1..Len(s) + 2 /\ n + 1 \in 1..Len(s) + 1 /\ n + 1 <= n + 1
      BY <1>5
    <3> QED BY <3>1, BetweenReads
  <2>4. from[Len(flat[n - 0]) + 1] = Between(s, n - 0 + 1, n + 1)
    BY <1>3, <2>1, <2>2, <2>3
  <2> QED BY <2>4
<1>8. ASSUME NEW m \in Good PROVE m + 1 \in Good
  <2>1. m \in Nat
    OBVIOUS
  <2> SUFFICES ASSUME m + 1 <= n
               PROVE  from[Len(flat[n - (m + 1)]) + 1] = Between(s, n - (m + 1) + 1, n + 1)
    BY <2>1
  <2> DEFINE k == n - m
             i == Len(flat[k - 1]) + 1
             c == s[k]
  <2>2. /\ k \in 1..n /\ n - (m + 1) = k - 1 /\ k - 1 \in 0..n /\ (k - 1) + 1 = k
        /\ m <= n /\ n - m + 1 = k + 1
    BY <1>5, <2>1
  <2>3. from[Len(flat[k]) + 1] = Between(s, k + 1, n + 1)
    BY <2>2
  <2> HIDE DEF k
  <2>4. c \in Letter /\ cs[k] = Code(c, a)
    BY <1>2, <2>2
  <2>5. /\ Len(flat[k]) = Len(flat[k - 1]) + Len(Code(c, a)) /\ Len(flat[k]) <= Len(e)
        /\ \A j \in 1..Len(Code(c, a)) : e[Len(flat[k - 1]) + j] = Code(c, a)[j]
    BY <1>4, <2>2, <2>4
  <2>6. PICK before, long, all, to : /\ before = Len(flat[k - 1]) /\ long = Len(Code(c, a))
                                     /\ all = Len(e) /\ to = Len(flat[k])
    OBVIOUS
  <2>7. /\ i \in 1..Len(e) /\ i + Len(Code(c, a)) <= Len(e) + 1 /\ i \in 1..Len(e) + 3
        /\ i + Len(Code(c, a)) = Len(flat[k]) + 1 /\ Len(flat[k - 1]) \in Nat
    <3>1. before \in Nat /\ all \in Nat
      <4>1. flat[k - 1] \in Seq(Letter)
        BY <1>4, <2>2
      <4> QED BY <1>5, <2>6, <4>1
    <3>2. long \in {1, 3}
      BY <2>6 DEF Code
    <3>3. to = before + long /\ to <= all
      BY <2>5, <2>6
    <3>4. /\ before + 1 \in 1..all /\ (before + 1) + long <= all + 1 /\ before + 1 \in 1..all + 3
          /\ (before + 1) + long = to + 1
      BY <3>1, <3>2, <3>3
    <3> QED BY <2>6, <3>1, <3>4
  <2>8. \A j \in 1..Len(Code(c, a)) : e[i + j - 1] = Code(c, a)[j]
    <3>1. \A j \in 1..Len(Code(c, a)) : i + j - 1 = Len(flat[k - 1]) + j
      BY <2>7
    <3> HIDE DEF i, c
    <3> QED BY <2>5, <3>1
  <2> HIDE DEF i
  <2>9. DecodedAt(e, from, i) = <<c>> \o from[i + Len(Code(c, a))]
    <3> HIDE DEF c
    <3> QED BY <1>5, <2>4, <2>7, <2>8, CodeIsDecoded
  <2>10. from[i] = <<c>> \o Between(s, k + 1, n + 1)
    BY <1>6, <2>3, <2>7, <2>9
  <2>11. <<s[k]>> \o Between(s, k + 1, n + 1) = Between(s, k, n + 1)
    <3>1. k \in 1..Len(s) /\ n + 1 \in k + 1..Len(s) + 1
      BY <1>5, <2>2
    <3> QED BY <3>1, BetweenMarked
  <2> QED BY <2>2, <2>10, <2>11 DEF i
<1>9. from[1] = s
  <2>1. Good \in SUBSET Nat
    OBVIOUS
  <2>2. n \in Good
    <3> HIDE DEF Good
    <3> QED BY <1>5, <1>7, <1>8, <2>1, AllNumbers
  <2>3. n - n = 0 /\ n <= n /\ 0 + 1 = 1
    BY <1>5
  <2>4. from[Len(flat[0]) + 1] = Between(s, 0 + 1, n + 1)
    BY <2>2, <2>3
  <2>5. Between(s, 1, n + 1) = s
    BY SubSeqFull DEF Between
  <2> QED BY <1>5, <2>3, <2>4, <2>5
<1> QED BY <1>1, <1>6, <1>9

UrlInv == input \in Seq(Letter) /\ alphabet \in Alphabets

\* Whatever text is put together, it is read as what was written: url.cc's
\* three parsers, for every text without a NUL.
THEOREM UrlIsRead == UrlSpec => []ReadsWhatIsWritten
<1>1. UrlInit => UrlInv
  BY DEF UrlInit, UrlInv
<1>2. UrlInv /\ [UrlNext]_urlVars => UrlInv'
  <2> SUFFICES ASSUME UrlInv, [UrlNext]_urlVars PROVE UrlInv'
    OBVIOUS
  <2>1. CASE UNCHANGED urlVars
    BY <2>1 DEF UrlInv, urlVars
  <2>2. CASE UrlNext
    <3>1. PICK p \in alphabet : input' = input \o p
      BY <2>2 DEF UrlNext
    <3>2. p \in Seq(Letter)
      BY UrlAssumption DEF UrlInv, Letter
    <3>3. input' \in Seq(Letter)
      BY <3>1, <3>2 DEF UrlInv
    <3> QED BY <2>2, <3>3 DEF UrlInv, UrlNext
  <2> QED BY <2>1, <2>2
<1>3. UrlInv => ReadsWhatIsWritten
  <2> SUFFICES ASSUME input \in Seq(Letter) PROVE ReadsWhatIsWritten
    BY DEF UrlInv
  <2>1. UrlIsDivided
    BY UrlDivided
  <2>2. QueryIsSplit
    BY QuerySplit DEF QueryIsSplit
  <2>3. DecodeUndoesEncode
    BY DecodedIsEncoded, DecodedFits DEF DecodeUndoesEncode
  <2> QED BY <2>1, <2>2, <2>3 DEF ReadsWhatIsWritten
<1> QED BY <1>1, <1>2, <1>3, PTL DEF UrlSpec
=============================================================================
