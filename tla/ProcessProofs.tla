---------------------------- MODULE ProcessProofs ----------------------------
(***************************************************************************)
(* Whatever the child, its owner, other children and the loop do, and also *)
(* where a Start that fails lets OnProcessExit run twice: what the Process *)
(* itself signals is its child, the exit that on_exit_ is told is the      *)
(* child's and is told once, after its output unless another child's end   *)
(* had it reaped, and the timer does not outlive the Process.              *)
(***************************************************************************)
EXTENDS Process, EventLoopProofs

-----------------------------------------------------------------------------
(* The inductive invariant. *)

ChildHandle == {"process", "stdin", "stdout", "stderr"}
Handle == ChildHandle \cup {"timer"}

\* The close callback of the process handle is still to come.
Closing == Queued("process")

\* Handles are closed once: those of the child when it ended, the timer by
\* ~Process.
Lists ==
    /\ QueueInv(Handle)
    /\ \A h \in ChildHandle : Queued(h) => tried /\ ~running
    /\ Queued("timer") => timer = "closed"

RunningHasChild ==
    /\ running <=> child \in {"alive", "zombie"}
    /\ running => tried /\ object = "open"

SignalsArrive ==
    /\ signal \in [Sender -> {"none", "sent", "stray"}]
    /\ OwnSignalsReachTheChild

UntriedHasNone == ~tried => child = "none" /\ ~Closing

\* The end of the child is known, and what status_ says of it is true.
Ended == ~running /\ child \in {"none", "reaped"} /\ (exit = "child" <=> child = "reaped")

EndedWhenClosing ==
    /\ Closing => object = "open"
    /\ Closing \/ object = "deleted" => Ended

ObjectInv ==
    /\ object \in {"none", "open", "deleted"}
    /\ object = "none" => ~tried /\ timer = "none"

Life ==
    /\ RunningHasChild /\ UntriedHasNone /\ EndedWhenClosing /\ ObjectInv
    /\ TimerFindsProcess /\ SignalsArrive

\* on_exit_ is owed from Start, or from SetTimeout, to the deletion.
OwedWhileOpen ==
    owed = [w \in Owner |-> IF object = "open" /\ (tried \/ timer # "none") THEN 1 ELSE 0]

\* Both streams of a child are read until one fails.  When epoll_wait returned
\* with the SIGCHLD of the child it also returned every stream that has
\* something left, and there comes no more; these are read before the child is
\* reaped.
OutputInv ==
    /\ written \in [Stream -> Nat] /\ delivered \in [Stream -> Nat]
    /\ erred \in BOOLEAN /\ sigchld \in {"none", "own", "other"}
    /\ child = "none" => delivered = written
    /\ running => erred \/ reading = Stream
    /\ sigchld = "own" => child \in {"zombie", "reaped"}
    /\ sigchld = "own" /\ child = "zombie" => \A s \in reading \ ready : delivered[s] = written[s]
    /\ child = "reaped" => erred \/ sigchld = "other" \/ delivered = written

IInv == Lists /\ Life /\ OwedWhileOpen /\ OutputInv

-----------------------------------------------------------------------------
(* The lists of the loop. *)

\* OnProcessExit closes all handles of a child that was not ended before.
LEMMA CloseAll ==
    ASSUME Lists, running \/ ~tried, CloseHandles(<<"process">> \o Pipes),
           UNCHANGED <<phase, batch, timer>>, tried', ~running'
    PROVE  Lists'
<1> DEFINE s == <<"process">> \o Pipes
<1>1. /\ <<"process">> \in Seq(Handle) /\ Pipes \in Seq(Handle) /\ Len(<<"process">>) = 1
      /\ DOMAIN <<"process">> = {1} /\ DOMAIN Pipes = {1, 2, 3}
  BY DEF Pipes, Handle, ChildHandle
<1>2. /\ s \in Seq(Handle) /\ Len(s) = 4
      /\ s[1] = "process" /\ s[2] = "stderr" /\ s[3] = "stdout" /\ s[4] = "stdin"
  BY <1>1 DEF Pipes
<1> HIDE DEF s
<1>3. DOMAIN s = {1, 2, 3, 4}
  BY <1>2
<1>4. \A i \in DOMAIN s : s[i] \in ChildHandle
  BY <1>2, <1>3 DEF ChildHandle
<1>5. Fresh(s)
  BY <1>2, <1>3, <1>4 DEF Fresh, Lists
<1>6. QueueInv(Handle)' /\ \A h : Queued(h)' <=> Queued(h) \/ In(h, s)
  BY <1>2, <1>5, Closes DEF Lists, s
<1>7. ~In("timer", s)
  BY <1>4 DEF In, ChildHandle
<1> QED BY <1>6, <1>7 DEF Lists

\* ~Process closes the timer, if there is one that is open.
LEMMA TimerIsFresh ==
    ASSUME Lists
    PROVE  /\ TimerToClose \in Seq(Handle) /\ Fresh(TimerToClose)
           /\ \A h : In(h, TimerToClose) <=> h = "timer" /\ timer \in {"armed", "stopped"}
<1>1. CASE timer \in {"armed", "stopped"}
  <2>1. TimerToClose = <<"timer">> /\ ~Queued("timer")
    BY <1>1 DEF TimerToClose, Lists
  <2> QED BY <1>1, <2>1 DEF Fresh, In, Handle
<1>2. CASE timer \notin {"armed", "stopped"}
  <2>1. TimerToClose = <<>>
    BY <1>2 DEF TimerToClose
  <2> QED BY <1>2, <2>1 DEF Fresh, In
<1> QED BY <1>1, <1>2

\* The process handle is closed once, by its own callback or with none.
LEMMA Deletes ==
    ASSUME Lists, CloseTimer, CloseHandles(TimerToClose), UNCHANGED <<phase, tried, running>>,
           TakeClosed("process") \/ (batch' = batch /\ ~Closing)
    PROVE  Lists' /\ ~Closing'
<1>1. /\ TimerToClose \in Seq(Handle) /\ Fresh(TimerToClose)
      /\ \A h : In(h, TimerToClose) <=> h = "timer" /\ timer \in {"armed", "stopped"}
  BY TimerIsFresh
<1>2. /\ QueueInv(Handle)'
      /\ \A h : Queued(h)' <=> (Queued(h) /\ h # "process") \/ In(h, TimerToClose)
  <2>1. CASE TakeClosed("process")
    BY <1>1, <2>1, TakesAndCloses DEF Lists
  <2>2. CASE batch' = batch /\ ~Closing
    BY <1>1, <2>2, Closes DEF Lists, Closing
  <2> QED BY <2>1, <2>2
<1>3. Queued("timer")' => timer' = "closed"
  BY <1>1, <1>2 DEF CloseTimer, Lists
<1>4. \A h \in ChildHandle : Queued(h)' => Queued(h)
  BY <1>1, <1>2 DEF ChildHandle
<1> QED BY <1>1, <1>2, <1>3, <1>4 DEF Lists, Closing

-----------------------------------------------------------------------------
(* The steps. *)

\* What the loop's lists take no part in.
Frame == UNCHANGED <<phase, closing, batch>>

LEMMA FrameKeepsLists ==
    ASSUME Lists, Frame, ~tried \/ UNCHANGED <<tried, running>>, timer = "closed" => timer' = "closed"
    PROVE  Lists' /\ (Closing' <=> Closing)
BY Stays DEF Lists, Frame, Closing

\* A step that only moves handles from list to list, or takes one.
LEMMA LessKeepsLists ==
    ASSUME Lists, UNCHANGED <<tried, running, timer>>, QueueInv(Handle)',
           \A h : Queued(h)' => Queued(h)
    PROVE  Lists' /\ (Closing' => Closing)
BY DEF Lists, Closing

LEMMA LifeGoesOn ==
    ASSUME Life, UNCHANGED <<object, tried, running, exit, timer, child, signal>>, Closing' => Closing
    PROVE  Life'
BY DEF Life, RunningHasChild, UntriedHasNone, EndedWhenClosing,
       Ended, ObjectInv, TimerFindsProcess, SignalsArrive, OwnSignalsReachTheChild

LEMMA Initially == Init => IInv
<1> SUFFICES ASSUME Init PROVE IInv
  OBVIOUS
<1>1. <<>> \in Seq(Handle) /\ DOMAIN <<>> = {}
  OBVIOUS
<1>2. Lists /\ ~Closing
  BY <1>1 DEF Init, LoopInit, Lists, Closing, QueueInv, Once, Queued, Waits, In
<1>3. Life
  <2>1. SignalsArrive
    BY DEF Init, Sender, SignalsArrive, OwnSignalsReachTheChild
  <2> QED BY <1>2, <2>1 DEF Init, Life, RunningHasChild, UntriedHasNone, EndedWhenClosing,
       Ended, ObjectInv, TimerFindsProcess
<1>4. OwedWhileOpen
  BY DEF Init, Promise!Init, OwedWhileOpen
<1>5. OutputInv
  BY DEF Init, OutputInv
<1> QED BY <1>2, <1>3, <1>4, <1>5 DEF IInv

-----------------------------------------------------------------------------
(* The lists and the life of the Process. *)

\* The owner's calls.
LEMMA OwnerSteps ==
    ASSUME Lists, Life, Create \/ StartSucceeds \/ StartFailsToRead \/ OwnerKills \/ Input
    PROVE  Lists' /\ Life'
<1>1. /\ Frame
      /\ ~tried \/ UNCHANGED <<tried, running>>
      /\ timer = "closed" => timer' = "closed"
  BY DEF Create, StartSucceeds, StartFailsToRead, Starting, OwnerKills, Input, Frame, loopVars,
         Life, ObjectInv
<1>2. Lists' /\ (Closing' <=> Closing)
  BY <1>1, FrameKeepsLists
<1>3. CASE Create
  BY <1>2, <1>3 DEF Create, childVars, Life, RunningHasChild, UntriedHasNone,
     EndedWhenClosing, Ended, ObjectInv, TimerFindsProcess, SignalsArrive, OwnSignalsReachTheChild
<1>4. CASE StartSucceeds
  BY <1>2, <1>4 DEF StartSucceeds, Starting, Life, RunningHasChild, UntriedHasNone,
     EndedWhenClosing, Ended, ObjectInv, TimerFindsProcess, SignalsArrive, OwnSignalsReachTheChild
<1>5. CASE StartFailsToRead
  BY <1>2, <1>5 DEF StartFailsToRead, Starting, Life, RunningHasChild, UntriedHasNone,
     EndedWhenClosing, Ended, ObjectInv, TimerFindsProcess, SignalsArrive, OwnSignalsReachTheChild
<1>6. CASE OwnerKills
  <2>1. UNCHANGED <<object, tried, running, exit, timer, child>>
    BY <1>6 DEF OwnerKills
  <2>2. SignalsArrive'
    BY <1>6 DEF OwnerKills, Kill, Sender, Life, SignalsArrive, OwnSignalsReachTheChild
  <2> QED BY <1>2, <2>1, <2>2 DEF Life, RunningHasChild, UntriedHasNone,
     EndedWhenClosing, Ended, ObjectInv, TimerFindsProcess
<1>7. CASE Input
  <2>1. UNCHANGED <<object, tried, running, exit, timer, child, signal>>
    BY <1>7 DEF Input, childVars
  <2> QED BY <1>2, <2>1, LifeGoesOn
<1> QED BY <1>2, <1>3, <1>4, <1>5, <1>6, <1>7

\* What the child does, what the loop reads and writes, and the limit of a
\* Process that was started.
LEMMA PlainSteps ==
    ASSUME Lists, Life,
           \/ \E s \in Stream : ChildWrites(s) \/ Read(s) \/ ReadFails(s)
           \/ ChildDies \/ Written \/ OthersReaped \/ Expire \/ TickKills
    PROVE  Lists' /\ Life'
<1>1. Frame /\ UNCHANGED <<tried, running>> /\ (timer = "closed" => timer' = "closed")
  BY DEF ChildWrites, Read, ChildDies, ReadFails, Written, OthersReaped, Expire, TickKills,
         Ticking, Frame, loopVars
<1>2. Lists' /\ (Closing' <=> Closing)
  BY <1>1, FrameKeepsLists
<1>3. CASE \/ \E s \in Stream : ChildWrites(s) \/ Read(s) \/ ReadFails(s)
           \/ Written \/ OthersReaped \/ Expire
  <2>1. UNCHANGED <<object, tried, running, exit, timer, child, signal>>
    BY <1>3 DEF ChildWrites, Read, ReadFails, Written, OthersReaped, Expire, childVars
  <2> QED BY <1>2, <2>1, LifeGoesOn
<1>4. CASE ChildDies
  BY <1>2, <1>4 DEF ChildDies, Life, RunningHasChild, UntriedHasNone,
     EndedWhenClosing, Ended, ObjectInv, TimerFindsProcess, SignalsArrive, OwnSignalsReachTheChild
<1>5. CASE TickKills
  BY <1>2, <1>5 DEF TickKills, Ticking, Kill, Life, RunningHasChild, UntriedHasNone,
     EndedWhenClosing, Ended, ObjectInv, TimerFindsProcess, SignalsArrive, OwnSignalsReachTheChild
<1> QED BY <1>2, <1>3, <1>4, <1>5

\* The program ends between two close phases.
LEMMA AbortStep ==
    ASSUME Lists, Life, TickAborts
    PROVE  Lists' /\ Life'
<1>1. QueueInv(Handle)' /\ \A h : Queued(h)' <=> Queued(h)
  BY DEF TickAborts, Ticking, Lists, QueueInv, Queued
<1>2. UNCHANGED <<object, tried, running, exit, timer, child, signal>>
  BY DEF TickAborts, childVars
<1> QED BY <1>1, <1>2, LessKeepsLists, LifeGoesOn

\* OnProcessExit, for a child that ended or one that never was.
LEMMA ExitSteps ==
    ASSUME Lists, Life, StartFailsToSpawn \/ ChildExited
    PROVE  Lists' /\ Life'
<1>1. CASE StartFailsToSpawn
  <2>1. child = "none" /\ ~running /\ ~tried
    BY <1>1 DEF Life, StartFailsToSpawn, Starting, UntriedHasNone, RunningHasChild
  <2>2. Ended' /\ tried' /\ object' = "open"
    BY <1>1, <2>1 DEF StartFailsToSpawn, Starting, childVars, Ended
  <2>3. /\ UNCHANGED <<object, timer, child, signal, running, phase, batch>>
        /\ CloseHandles(<<"process">> \o Pipes)
    BY <1>1 DEF StartFailsToSpawn, childVars
  <2>4. Lists'
    BY <2>1, <2>2, <2>3, CloseAll
  <2> QED BY <2>1, <2>2, <2>3, <2>4 DEF Life, RunningHasChild, UntriedHasNone,
     EndedWhenClosing, ObjectInv, TimerFindsProcess, SignalsArrive, OwnSignalsReachTheChild
<1>2. CASE ChildExited
  <2>1. Ended' /\ tried' /\ object' = "open" /\ running /\ ~running' /\ child' = "reaped"
    BY <1>2 DEF Life, ChildExited, RunningHasChild, Ended
  <2>2. /\ UNCHANGED <<object, timer, signal, phase, batch>>
        /\ CloseHandles(<<"process">> \o Pipes)
    BY <1>2 DEF ChildExited
  <2>3. Lists'
    BY <2>1, <2>2, CloseAll
  <2> QED BY <2>1, <2>2, <2>3 DEF Life, RunningHasChild, UntriedHasNone,
     EndedWhenClosing, ObjectInv, TimerFindsProcess, SignalsArrive, OwnSignalsReachTheChild
<1> QED BY <1>1, <1>2

\* The close callback of the process handle finds the Process.
LEMMA Deleting == Lists /\ Life /\ HandleClosed => Closing /\ object = "open" /\ tried
<1> SUFFICES ASSUME Lists, Life, HandleClosed PROVE Closing /\ object = "open" /\ tried
  OBVIOUS
<1>1. 1 \in DOMAIN batch /\ batch[1] = "process"
  BY Rest DEF HandleClosed, TakeClosed, Lists, QueueInv
<1>2. Closing
  BY <1>1 DEF Closing, Queued, Waits, In
<1> QED BY <1>2 DEF Life, EndedWhenClosing, UntriedHasNone

\* OnProcessHandleClose, as the close callback and for a Process that was
\* not started.
LEMMA DeleteSteps ==
    ASSUME Lists, Life, HandleClosed \/ TickEndsUnstarted
    PROVE  Lists' /\ Life' /\ object = "open"
<1>1. /\ CloseTimer /\ CloseHandles(TimerToClose) /\ UNCHANGED <<phase, tried, running, child, signal>>
      /\ object' = "deleted"
  BY DEF HandleClosed, TickEndsUnstarted, childVars
<1>2. CASE HandleClosed
  <2>1. TakeClosed("process") /\ exit' = exit
    BY <1>2 DEF HandleClosed
  <2>2. Closing
    BY <1>2, Deleting
  <2>3. object = "open" /\ Ended /\ tried /\ Ended'
    BY <1>1, <2>1, <2>2 DEF Life, EndedWhenClosing, UntriedHasNone, Ended
  <2>4. Lists' /\ ~Closing'
    BY <1>1, <2>1, Deletes
  <2> QED BY <1>1, <2>1, <2>3, <2>4 DEF Life, RunningHasChild, UntriedHasNone, EndedWhenClosing,
     ObjectInv, TimerFindsProcess, SignalsArrive, OwnSignalsReachTheChild, Ended, CloseTimer
<1>3. CASE TickEndsUnstarted
  <2>1. /\ ~tried /\ ~running /\ child = "none" /\ ~Closing /\ object = "open"
        /\ exit' = "limit" /\ batch' = batch
    BY <1>3 DEF TickEndsUnstarted, Ticking, Life, UntriedHasNone, ObjectInv, TimerFindsProcess,
       EndedWhenClosing
  <2>2. Lists' /\ ~Closing'
    BY <1>1, <2>1, Deletes
  <2>3. Ended'
    BY <1>1, <2>1 DEF Ended
  <2> QED BY <1>1, <2>1, <2>2, <2>3 DEF Life, RunningHasChild, UntriedHasNone, EndedWhenClosing,
     ObjectInv, TimerFindsProcess, SignalsArrive, OwnSignalsReachTheChild, CloseTimer
<1> QED BY <1>2, <1>3

\* The loop, and the close callbacks of the pipes and of the timer.
LEMMA LoopSteps ==
    ASSUME Lists, Life, LoopStep \/ PipeClosed \/ TimerClosed
    PROVE  Lists' /\ Life'
<1>1. UNCHANGED <<object, tried, running, exit, timer, child, signal>>
  BY DEF LoopStep, PipeClosed, TimerClosed, childVars
<1>2. QueueInv(Handle)' /\ \A h : Queued(h)' => Queued(h)
  <2>1. CASE LoopStep
    BY <2>1, Iterates DEF LoopStep, Lists
  <2>2. CASE PipeClosed \/ TimerClosed
    <3>1. PICK h : TakeClosed(h)
      BY <2>2 DEF PipeClosed, TimerClosed
    <3>2. phase' = phase /\ closing' = closing
      BY <2>2 DEF PipeClosed, TimerClosed
    <3> QED BY <3>1, <3>2, Takes DEF Lists
  <2> QED BY <2>1, <2>2
<1> QED BY <1>1, <1>2, LessKeepsLists, LifeGoesOn

-----------------------------------------------------------------------------
(* What on_exit_ and on_data_ are owed. *)

\* on_exit_ is told by the step that deletes the Process, and asked for once.
LEMMA OwedSteps ==
    ASSUME Life, OwedWhileOpen, [Next]_vars,
           HandleClosed => object = "open" /\ tried
    PROVE  /\ OwedWhileOpen'
           /\ [Promise!Next]_owed
           /\ \A w \in Owner : owed'[w] < owed[w] => object = "open" /\ object' = "deleted"
<1> DEFINE Goal == /\ OwedWhileOpen'
                   /\ Promise!Next \/ owed' = owed
                   /\ \A w \in Owner : owed'[w] < owed[w] => object = "open" /\ object' = "deleted"
<1> SUFFICES Goal
  OBVIOUS
<1>1. ASSUME UNCHANGED <<owed, object, tried>>, timer # "none" <=> timer' # "none"
      PROVE  Goal
  <2>1. OwedWhileOpen'
    BY <1>1 DEF OwedWhileOpen
  <2>2. \A w \in Owner : ~(owed[w] < owed[w])
    BY DEF OwedWhileOpen
  <2> QED BY <1>1, <2>1, <2>2
<1>2. CASE Create
  <2>1. object = "none" /\ object' = "open" /\ ~tried /\ ~tried' /\ timer = "none"
    BY <1>2 DEF Create, Life, ObjectInv
  <2>2. owed = [w \in Owner |-> 0]
    BY <2>1 DEF OwedWhileOpen
  <2>3. CASE timer' = "none" /\ owed' = owed
    BY <2>1, <2>2, <2>3 DEF OwedWhileOpen
  <2>4. CASE timer' = "armed" /\ \E w \in Owner : Promise!Ask(w)
    <3>1. owed' = [owed EXCEPT !["owner"] = 1]
      BY <2>4 DEF Promise!Ask, Owner
    <3>2. owed' = [w \in Owner |-> 1]
      BY <2>2, <3>1 DEF Owner
    <3>3. OwedWhileOpen'
      BY <2>1, <2>4, <3>2 DEF OwedWhileOpen
    <3>4. Promise!Next
      BY <2>4 DEF Promise!Next
    <3> QED BY <2>2, <3>2, <3>3, <3>4
  <2> QED BY <1>2, <2>3, <2>4 DEF Create
<1>3. ASSUME Starting, UNCHANGED <<object, timer>>
      PROVE  Goal
  <2>1. object = "open" /\ object' = "open" /\ tried' /\ owed' = [w \in Owner |-> 1]
    BY <1>3 DEF Starting, AskOnce
  <2>2. OwedWhileOpen'
    BY <2>1 DEF OwedWhileOpen
  <2>3. \A w \in Owner : ~(owed'[w] < owed[w])
    BY <2>1 DEF OwedWhileOpen
  <2>4. CASE owed = [w \in Owner |-> 0]
    <3>1. owed' = [owed EXCEPT !["owner"] = 1]
      BY <2>1, <2>4 DEF Owner
    <3>2. "owner" \in Owner /\ owed["owner"] = 0
      BY <2>4 DEF Owner
    <3>3. Promise!Ask("owner")
      BY <3>1, <3>2 DEF Promise!Ask
    <3>4. Promise!Next
      BY <3>2, <3>3 DEF Promise!Next
    <3> QED BY <2>2, <2>3, <3>4
  <2>5. CASE owed = [w \in Owner |-> 1]
    BY <2>1, <2>2, <2>3, <2>5
  <2> QED BY <2>4, <2>5 DEF OwedWhileOpen
<1>4. ASSUME object = "open", tried \/ timer # "none", object' = "deleted", Exited
      PROVE  Goal
  <2>1. owed = [w \in Owner |-> 1]
    BY <1>4 DEF OwedWhileOpen
  <2>2. owed' = [w \in Owner |-> 0]
    BY <1>4, <2>1 DEF Exited
  <2>3. OwedWhileOpen'
    BY <1>4, <2>2 DEF OwedWhileOpen
  <2>4. "owner" \in Owner /\ owed["owner"] = 1 /\ owed' = [owed EXCEPT !["owner"] = 0]
    BY <2>1, <2>2 DEF Owner
  <2> QED BY <1>4, <2>3, <2>4 DEF Promise!Next, Promise!Answer
<1>5. CASE StartSucceeds \/ StartFailsToSpawn \/ StartFailsToRead
  BY <1>3, <1>5 DEF StartSucceeds, StartFailsToSpawn, StartFailsToRead
<1>6. CASE HandleClosed
  BY <1>4, <1>6 DEF HandleClosed
<1>7. CASE TickEndsUnstarted
  <2>1. timer = "armed" /\ object = "open"
    BY <1>7 DEF TickEndsUnstarted, Ticking, Life, ObjectInv, TimerFindsProcess
  <2> QED BY <1>4, <1>7, <2>1 DEF TickEndsUnstarted
<1>8. CASE \/ OwnerKills \/ Input \/ ChildDies \/ Written \/ ChildExited \/ OthersReaped \/ Expire
           \/ TickAborts \/ LoopStep \/ PipeClosed \/ TimerClosed \/ UNCHANGED vars
           \/ \E s \in Stream : ChildWrites(s) \/ Read(s) \/ ReadFails(s)
  <2>1. UNCHANGED <<owed, object, tried, timer>>
    BY <1>8 DEF OwnerKills, Input, ChildDies, ReadFails, Written, ChildExited, OthersReaped, Expire,
       TickAborts, LoopStep, PipeClosed, TimerClosed, vars, ChildWrites, Read
  <2> QED BY <1>1, <2>1
<1>9. CASE TickKills
  BY <1>1, <1>9 DEF TickKills, Ticking
<1> QED BY <1>2, <1>5, <1>6, <1>7, <1>8, <1>9 DEF Next

\* The child is reaped after its output was read, if both streams are and it
\* was its own SIGCHLD.
LEMMA OutputSteps ==
    ASSUME Life, OutputInv, [Next]_vars
    PROVE  OutputInv'
<1>0. /\ running <=> child \in {"alive", "zombie"}
      /\ ~tried => child = "none"
  BY DEF Life, RunningHasChild, UntriedHasNone
<1>1. CASE StartSucceeds \/ StartFailsToRead
  <2>1. child = "none" /\ sigchld # "own"
    BY <1>0, <1>1 DEF StartSucceeds, StartFailsToRead, Starting, OutputInv
  <2> QED BY <1>1, <2>1 DEF StartSucceeds, StartFailsToRead, pollVars, OutputInv
<1>2. ASSUME NEW s \in Stream, ChildWrites(s)
      PROVE  OutputInv'
  BY <1>2 DEF ChildWrites, streamVars, pollVars, OutputInv
<1>3. ASSUME NEW s \in Stream, Read(s)
      PROVE  OutputInv'
  <2>1. delivered' = [delivered EXCEPT ![s] = written[s]] /\ ready' = ready \ {s}
    BY <1>3 DEF Read
  <2>2. UNCHANGED <<running, child, written, erred, reading, sigchld>>
    BY <1>3 DEF Read, childVars
  <2>3. \A r \in Stream : delivered[r] = written[r] \/ r = s => delivered'[r] = written[r]
    BY <2>1 DEF OutputInv
  <2>4. delivered' \in [Stream -> Nat] /\ (delivered = written => delivered' = written)
    BY <2>1 DEF OutputInv
  <2>5. ASSUME sigchld = "own", child = "zombie", NEW r \in reading \ ready'
        PROVE  delivered'[r] = written[r]
    BY <2>1, <2>5 DEF OutputInv
  <2> QED BY <2>2, <2>4, <2>5 DEF OutputInv
<1>4. ASSUME NEW s \in Stream, ReadFails(s)
      PROVE  OutputInv'
  <2>1. /\ erred' /\ reading' \subseteq reading /\ ready' = ready \cap reading'
        /\ UNCHANGED <<running, child, written, delivered, sigchld>>
    BY <1>4 DEF ReadFails, childVars
  <2>2. \A r \in reading' \ ready' : r \in reading \ ready
    BY <2>1
  <2> QED BY <2>1, <2>2 DEF OutputInv
<1>5. CASE ChildDies
  BY <1>5 DEF ChildDies, streamVars, pollVars, OutputInv
<1>6. CASE ChildExited
  <2>1. /\ ready = {} /\ child = "zombie" /\ running /\ sigchld # "none"
        /\ child' = "reaped" /\ ~running' /\ UNCHANGED <<erred, written, delivered, sigchld>>
    BY <1>0, <1>6 DEF ChildExited, Reaping, pollVars
  <2>2. ASSUME ~erred, sigchld # "other" PROVE delivered = written
    <3>1. reading = Stream /\ sigchld = "own"
      BY <2>1, <2>2 DEF OutputInv
    <3>2. \A s \in Stream : delivered[s] = written[s]
      BY <2>1, <3>1 DEF OutputInv
    <3> QED BY <3>2 DEF OutputInv
  <2> QED BY <2>1, <2>2 DEF OutputInv
<1>7. CASE LoopStep
  <2>1. UNCHANGED <<running, child, written, delivered, erred, reading>>
    BY <1>7 DEF LoopStep, childVars
  <2>2. CASE phase = "timers"
    <3>1. Polled
      BY <1>7, <2>2 DEF LoopStep
    <3>2. /\ sigchld' \in {"none", "own", "other"}
          /\ sigchld' = "own" => child \in {"zombie", "reaped"}
          /\ child = "reaped" => sigchld' = sigchld
      BY <3>1 DEF Polled, OutputInv
    <3>3. \A s \in reading \ ready' : delivered[s] = written[s]
      BY <3>1 DEF Polled
    <3> QED BY <2>1, <3>2, <3>3 DEF OutputInv
  <2>3. CASE phase # "timers"
    <3>1. UNCHANGED <<ready, sigchld>>
      BY <1>7, <2>3 DEF LoopStep, pollVars
    <3> QED BY <2>1, <3>1 DEF OutputInv
  <2> QED BY <2>2, <2>3
<1>8. CASE OthersReaped
  BY <1>8 DEF OthersReaped, Reaping, childVars, OutputInv
<1>9. CASE \/ StartFailsToSpawn \/ Create \/ OwnerKills \/ Input \/ Written \/ Expire
           \/ TickKills \/ TickAborts \/ TickEndsUnstarted
           \/ HandleClosed \/ PipeClosed \/ TimerClosed \/ UNCHANGED vars
  <2>1. UNCHANGED <<running, written, delivered, reading, ready, sigchld, child>>
    BY <1>9 DEF StartFailsToSpawn, Create, OwnerKills, Input, Written, Expire, TickKills, TickAborts,
       TickEndsUnstarted, HandleClosed, PipeClosed, TimerClosed, vars,
       childVars, streamVars, pollVars
  <2>2. erred' \in BOOLEAN /\ (erred => erred')
    BY <1>9 DEF StartFailsToSpawn, Create, OwnerKills, Input, Written, Expire, TickKills, TickAborts,
       TickEndsUnstarted, HandleClosed, PipeClosed, TimerClosed, vars, OutputInv
  <2> QED BY <2>1, <2>2 DEF OutputInv
<1> QED BY <1>1, <1>2, <1>3, <1>4, <1>5, <1>6, <1>7, <1>8, <1>9 DEF Next

-----------------------------------------------------------------------------

LEMMA Inductive == IInv /\ [Next]_vars => IInv'
<1> SUFFICES ASSUME IInv, [Next]_vars PROVE IInv'
  OBVIOUS
<1>1. Lists /\ Life
  BY DEF IInv
<1>2. Lists' /\ Life'
  <2>1. CASE UNCHANGED vars
    <3>1. Frame /\ UNCHANGED <<object, tried, running, exit, timer, child, signal>>
      BY <2>1 DEF vars, loopVars, childVars, Frame
    <3> QED BY <1>1, <3>1, FrameKeepsLists, LifeGoesOn
  <2>2. CASE Create \/ StartSucceeds \/ StartFailsToRead \/ OwnerKills \/ Input
    BY <1>1, <2>2, OwnerSteps
  <2>3. CASE \/ \E s \in Stream : ChildWrites(s) \/ Read(s) \/ ReadFails(s)
             \/ ChildDies \/ Written \/ OthersReaped \/ Expire \/ TickKills
    BY <1>1, <2>3, PlainSteps
  <2>4. CASE TickAborts
    BY <1>1, <2>4, AbortStep
  <2>5. CASE StartFailsToSpawn \/ ChildExited
    BY <1>1, <2>5, ExitSteps
  <2>6. CASE HandleClosed \/ TickEndsUnstarted
    BY <1>1, <2>6, DeleteSteps
  <2>7. CASE LoopStep \/ PipeClosed \/ TimerClosed
    BY <1>1, <2>7, LoopSteps
  <2> QED BY <2>1, <2>2, <2>3, <2>4, <2>5, <2>6, <2>7 DEF Next
<1>3. OwedWhileOpen'
  BY <1>1, Deleting, OwedSteps DEF IInv
<1>4. OutputInv'
  BY <1>1, OutputSteps DEF IInv
<1> QED BY <1>2, <1>3, <1>4 DEF IInv

-----------------------------------------------------------------------------

\* Whoever else kills, and whenever, the limit and a Start that failed call
\* uv_process_kill with the pid of the child that is there: the limit asks
\* IsRunning first, and OnProcessExit resets it (process.cc:63-97, 209-213).
THEOREM OwnSignalsAlwaysArrive == Spec => []OwnSignalsReachTheChild
<1>1. IInv => OwnSignalsReachTheChild
  BY DEF IInv, Life, SignalsArrive
<1> QED BY <1>1, Initially, Inductive, PTL DEF Spec

\* on_exit_ is told of a child's end only after it was reaped, and of nothing
\* else if there was a child (process.cc:57-77, 200-216).
THEOREM ExitIsTruthful == Spec => []ExitIsTheChilds
<1>1. IInv => ExitIsTheChilds
  BY DEF IInv, Life, EndedWhenClosing, Ended, ExitIsTheChilds
<1> QED BY <1>1, Initially, Inductive, PTL DEF Spec

\* The closure of the limit's timer never finds its Process deleted
\* (process.cc:41-55, 90-105).
THEOREM TimerNeverOutlives == Spec => []TimerFindsProcess
<1>1. IInv => TimerFindsProcess
  BY DEF IInv, Life
<1> QED BY <1>1, Initially, Inductive, PTL DEF Spec

\* When on_exit_ was called, on_data_ had all that the child wrote to stdout
\* and stderr, unless on_error_ was told or the child was reaped when another
\* ended: the streams that epoll_wait returned are read before the signal
\* watcher reaps (process.cc:63-77, 117-136, 139-152, 189-195).
THEOREM OutputComesFirst == Spec => []OutputBeforeExit
<1>1. IInv => OutputBeforeExit
  BY DEF IInv, Life, EndedWhenClosing, Ended, OutputInv, OutputBeforeExit
<1> QED BY <1>1, Initially, Inductive, PTL DEF Spec

\* No other child, no exception: of a program's only child on_data_ has all
\* output before on_exit_, unless on_error_ was told.
THEOREM OutputOfOnlyChildComesFirst ==
    ASSUME ~Siblings
    PROVE  Spec => [](object = "deleted" => erred \/ delivered = written)
<1> DEFINE Alone == sigchld # "other"
<1>1. Init => Alone
  BY DEF Init
<1>2. Alone /\ [Next]_vars => Alone'
  <2> SUFFICES ASSUME Alone, [Next]_vars PROVE Alone'
    OBVIOUS
  <2>1. CASE LoopStep
    BY <2>1 DEF LoopStep, Polled, pollVars
  <2>2. CASE OthersReaped
    BY <2>2 DEF OthersReaped
  <2>3. CASE \/ StartSucceeds \/ StartFailsToRead \/ StartFailsToSpawn \/ ChildExited
             \/ \E s \in Stream : ChildWrites(s) \/ Read(s) \/ ReadFails(s)
             \/ ChildDies \/ Create \/ OwnerKills \/ Input \/ Written \/ Expire
             \/ TickKills \/ TickAborts \/ TickEndsUnstarted
             \/ HandleClosed \/ PipeClosed \/ TimerClosed \/ UNCHANGED vars
    <3>1. sigchld' = sigchld
      BY <2>3 DEF StartSucceeds, StartFailsToRead, StartFailsToSpawn, ChildExited, ChildWrites,
         Read, ReadFails, ChildDies, Create, OwnerKills, Input, Written, Expire, TickKills,
         TickAborts, TickEndsUnstarted, HandleClosed, PipeClosed, TimerClosed, vars,
         streamVars, pollVars
    <3> QED BY <3>1
  <2> QED BY <2>1, <2>2, <2>3 DEF Next
<1>3. OutputBeforeExit /\ Alone => (object = "deleted" => erred \/ delivered = written)
  BY DEF OutputBeforeExit
<1> QED BY <1>1, <1>2, <1>3, OutputComesFirst, PTL DEF Spec

\* The safety part of ExitsOnce: on_exit_ is called by the step that deletes
\* the Process, at most once for what Start or SetTimeout asked, also where a
\* tick of the limit meets a Start that failed (process.cc:57-77, 90-105,
\* 200-216).
THEOREM ExitIsToldOnce ==
    Spec => /\ Promise!Init /\ [][Promise!Next]_owed
            /\ [][\A w \in Owner : owed'[w] < owed[w] => object = "open" /\ object' = "deleted"]_vars
<1>1. Init => Promise!Init
  BY DEF Init
<1>2. IInv /\ [Next]_vars =>
        /\ [Promise!Next]_owed
        /\ [\A w \in Owner : owed'[w] < owed[w] => object = "open" /\ object' = "deleted"]_vars
  BY Deleting, OwedSteps DEF IInv
<1> QED BY <1>1, <1>2, Initially, Inductive, PTL DEF Spec
=============================================================================
