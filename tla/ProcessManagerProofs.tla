------------------------ MODULE ProcessManagerProofs ------------------------
(***************************************************************************)
(* For any number of apps, callers and objects, and whatever spawns, exits *)
(* and reads do: the state keeps its types, and App::process never points  *)
(* to a Process that was deleted or that belongs to another app.  If       *)
(* preambles do not need each other in a circle, every closure given to    *)
(* Require is kept in one place until it is called, once.  If also apps    *)
(* and checkers can be spawned, and apps end with an error, an app has one *)
(* process that runs and whoever waits for it has exactly one thing under  *)
(* way that will answer.                                                   *)
(***************************************************************************)
EXTENDS ProcessManager, SequenceTheorems, FiniteSetTheorems, TLAPS

-----------------------------------------------------------------------------
(* The inductive invariant. *)

\* The handle waits for its close callback.
Queued(h) == \/ \E i \in DOMAIN closing : closing[i] = h
             \/ \E i \in DOMAIN batch : batch[i] = h

\* A process is closed once: its close callback deletes it.
QueuedOnce ==
    /\ \A i, j \in DOMAIN closing : closing[i] = closing[j] /\ closing[i] \in Proc => i = j
    /\ \A i, j \in DOMAIN batch : batch[i] = batch[j] /\ batch[i] \in Proc => i = j
    /\ \A i \in DOMAIN closing, j \in DOMAIN batch :
         closing[i] \in Proc => closing[i] # batch[j]

BatchOnlyClosing == phase # "closing" => batch = <<>>

ProcInv == \A p \in Proc :
    /\ proc[p].role # "free" => proc[p].app \in App
    /\ proc[p].status = "running" => proc[p].role # "free"
    /\ Queued(p) => proc[p].role # "free" /\ proc[p].status \in ExitStatus

TimerInv == \A t \in Timer : timer[t].status = "open" => timer[t].app \in App

\* `delete process` is the last thing its close callback does, and what
\* Process::Start does after an error is done to a live object.
StackInv == \A i \in DOMAIN calls :
    /\ calls[i].op = "Delete" =>
         LET p == calls[i].process IN
         i = Len(calls) /\ proc[p].role # "free"
           /\ proc[p].status \in ExitStatus /\ ~Queued(p)
    /\ calls[i].op = "StartFailed" => proc[calls[i].process].role # "free"

IInv == /\ TypeOK /\ QueuedOnce /\ BatchOnlyClosing
        /\ ProcInv /\ TimerInv /\ StackInv /\ NoDanglingProcess

-----------------------------------------------------------------------------
(* Frames and the stack. *)

\* What a frame of each kind carries.
LEMMA FrameFields ==
    ASSUME NEW f \in Frame
    PROVE  /\ f.op \in {"Require", "Check", "CheckThen", "Start", "StartThen", "AppError",
                        "Clear", "Cleared", "Invoke", "SetChecking"} => f.app \in App
           /\ f.op \in {"Require", "Invoke"} => f.then \in Waiter
           /\ f.op \in {"Check", "CheckThen"} => f.timer \in Timer \cup {Null}
           /\ f.op \in {"CheckThen", "StartThen", "AppError", "Clear", "Invoke"}
                => f.error \in Error
           /\ f.op \in {"StartFailed", "Delete"} => f.process \in Proc
           /\ f.op = "SetChecking" => f.to \in BOOLEAN
BY DEF Frame

\* The frames the functions and closures push are frames.
LEMMA FramesMade ==
    ASSUME NEW a \in App
    PROVE  /\ Start(a) \in Frame /\ Cleared(a) \in Frame
           /\ \A w \in Waiter : Require(a, w) \in Frame
           /\ \A t \in Timer \cup {Null} : Check(a, t) \in Frame
           /\ \A e \in Error :
                /\ \A t \in Timer \cup {Null} : CheckThen(a, t, e) \in Frame
                /\ \A w \in Waiter : Invoke(a, w, e) \in Frame
                /\ StartThen(a, e) \in Frame /\ AppError(a, e) \in Frame
                /\ Clear(a, e) \in Frame
           /\ \A b \in BOOLEAN : SetChecking(a, b) \in Frame
           /\ \A p \in Proc : StartFailed(p) \in Frame /\ Delete(p) \in Frame
BY DEF Frame, Require, Check, CheckThen, Start, StartThen, AppError, StartFailed,
       Delete, Clear, Cleared, Invoke, SetChecking

\* A frame runs and is replaced, or an event starts a callback.
Pushes(fs) == (calls # <<>> /\ Continue(fs)) \/ Dispatch(fs)

\* A frame of the new stack was pushed, or was on the old one, and the last
\* of the old one stays the last.
LEMMA StackChange ==
    ASSUME calls \in Seq(Frame), NEW fs \in Seq(Frame), Pushes(fs)
    PROVE  /\ calls' \in Seq(Frame)
           /\ \A i \in DOMAIN calls' :
                \/ i \in DOMAIN fs /\ calls'[i] = fs[i]
                \/ \E j \in DOMAIN calls :
                      /\ j # 1 /\ calls'[i] = calls[j]
                      /\ j = Len(calls) => i = Len(calls')
<1>1. CASE Dispatch(fs)
  BY <1>1 DEF Dispatch
<1>2. CASE calls # <<>> /\ Continue(fs)
  <2>1. calls' = fs \o Tail(calls)
    BY <1>2 DEF Continue
  <2>2. /\ Tail(calls) \in Seq(Frame) /\ Len(Tail(calls)) = Len(calls) - 1
        /\ Len(calls) \in Nat /\ Len(fs) \in Nat
        /\ \A k \in 1..Len(calls) - 1 : Tail(calls)[k] = calls[k + 1]
    BY <1>2
  <2>3. /\ calls' \in Seq(Frame) /\ Len(calls') = Len(fs) + Len(calls) - 1
        /\ \A i \in 1..Len(calls') :
             calls'[i] = IF i <= Len(fs) THEN fs[i] ELSE Tail(calls)[i - Len(fs)]
    BY <2>1, <2>2
  <2>4. ASSUME NEW i \in DOMAIN calls'
        PROVE  \/ i \in DOMAIN fs /\ calls'[i] = fs[i]
               \/ \E j \in DOMAIN calls :
                     /\ j # 1 /\ calls'[i] = calls[j]
                     /\ j = Len(calls) => i = Len(calls')
    <3>1. i \in 1..Len(calls') /\ i \in Int
      BY <2>3
    <3>2. CASE i <= Len(fs)
      BY <3>1, <3>2, <2>2, <2>3
    <3>3. CASE ~(i <= Len(fs))
      <4> DEFINE j == i - Len(fs) + 1
      <4>1. j \in 2..Len(calls) /\ i - Len(fs) \in 1..Len(calls) - 1
        BY <3>1, <3>3, <2>2, <2>3
      <4>2. calls'[i] = calls[j]
        BY <4>1, <3>1, <3>3, <2>2, <2>3
      <4>3. j = Len(calls) => i = Len(calls')
        BY <3>1, <2>2, <2>3
      <4> QED BY <4>1, <4>2, <4>3, <2>2
    <3> QED BY <3>2, <3>3
  <2> QED BY <2>3, <2>4
<1> QED BY <1>1, <1>2 DEF Pushes

\* Frames that neither delete nor end a process.
Plain(fs) == /\ fs \in Seq(Frame)
             /\ \A i \in DOMAIN fs : fs[i].op \notin {"Delete", "StartFailed"}
PlainFrame == {f \in Frame : f.op \notin {"Delete", "StartFailed"}}

LEMMA PlainFrames ==
    ASSUME NEW f \in PlainFrame, NEW g \in PlainFrame
    PROVE  Plain(<<>>) /\ Plain(<<f>>) /\ Plain(<<f, g>>)
<1>1. Plain(<<>>)
  BY DEF Plain
<1>2. Plain(<<f>>)
  BY DEF Plain, PlainFrame
<1>3. Plain(<<f, g>>)
  BY DEF Plain, PlainFrame
<1> QED BY <1>1, <1>2, <1>3

LEMMA PlainFramesMade ==
    ASSUME NEW a \in App
    PROVE  /\ Start(a) \in PlainFrame /\ Cleared(a) \in PlainFrame
           /\ \A w \in Waiter : Require(a, w) \in PlainFrame
           /\ \A t \in Timer \cup {Null} : Check(a, t) \in PlainFrame
           /\ \A e \in Error :
                /\ \A t \in Timer \cup {Null} : CheckThen(a, t, e) \in PlainFrame
                /\ \A w \in Waiter : Invoke(a, w, e) \in PlainFrame
                /\ StartThen(a, e) \in PlainFrame /\ AppError(a, e) \in PlainFrame
                /\ Clear(a, e) \in PlainFrame
           /\ \A b \in BOOLEAN : SetChecking(a, b) \in PlainFrame
BY FramesMade DEF PlainFrame, Require, Check, CheckThen, Start, StartThen, AppError,
                  Clear, Cleared, Invoke, SetChecking

\* Pushing frames that delete nothing keeps what the stack knows of objects.
LEMMA StackKept ==
    ASSUME calls \in Seq(Frame), StackInv,
           NEW fs \in Seq(Frame), Pushes(fs),
           \A i \in DOMAIN fs :
             /\ fs[i].op # "Delete"
             /\ fs[i].op = "StartFailed" => (proc[fs[i].process].role # "free")',
           \A p \in Proc : proc[p].role # "free" => (proc[p].role # "free")',
           \A p \in Proc : proc[p].role # "free" /\ proc[p].status \in ExitStatus /\ ~Queued(p)
                             => (proc[p].status \in ExitStatus /\ ~Queued(p))'
    PROVE  /\ calls' \in Seq(Frame)
           /\ StackInv'
           /\ \A p \in Proc : Deleting(p)' => Deleting(p)
<1>1. /\ calls' \in Seq(Frame)
      /\ \A i \in DOMAIN calls' :
           \/ i \in DOMAIN fs /\ calls'[i] = fs[i]
           \/ \E j \in DOMAIN calls :
                 /\ j # 1 /\ calls'[i] = calls[j]
                 /\ j = Len(calls) => i = Len(calls')
  BY StackChange
<1>2. ASSUME NEW j \in DOMAIN calls
      PROVE  calls[j] \in Frame /\ (calls[j].op \in {"StartFailed", "Delete"}
                                      => calls[j].process \in Proc)
  BY <1>2, FrameFields
<1>3. ASSUME NEW i \in DOMAIN calls'
      PROVE  /\ (calls[i].op)' = "Delete" =>
                  (LET p == calls[i].process IN
                    i = Len(calls) /\ proc[p].role # "free"
                      /\ proc[p].status \in ExitStatus /\ ~Queued(p))'
             /\ (calls[i].op)' = "StartFailed" => (proc[calls[i].process].role # "free")'
  <2>1. CASE i \in DOMAIN fs /\ calls'[i] = fs[i]
    BY <2>1
  <2>2. ASSUME NEW j \in DOMAIN calls, calls'[i] = calls[j],
               j = Len(calls) => i = Len(calls')
        PROVE  <1>3!2
    BY <1>2, <2>2 DEF StackInv
  <2> QED BY <1>1, <2>1, <2>2
<1>4. StackInv'
  BY <1>3 DEF StackInv
<1>5. ASSUME NEW p \in Proc, Deleting(p)' PROVE Deleting(p)
  <2>1. PICK i \in DOMAIN calls' : calls'[i] = Delete(p)
    BY <1>5 DEF Deleting, Delete
  <2>2. calls'[i].op = "Delete"
    BY <2>1 DEF Delete
  <2> QED BY <1>1, <2>1, <2>2 DEF Deleting
<1> QED BY <1>1, <1>4, <1>5

-----------------------------------------------------------------------------
(* The queue of closed handles. *)

\* uv_close of a handle that is not in the queue.
LEMMA PushKeepsQueue ==
    ASSUME TypeOK, QueuedOnce, NEW h \in Proc \cup Timer, h \in Proc => ~Queued(h),
           CloseHandles(<<h>>), UNCHANGED batch
    PROVE  /\ closing' \in Seq(Proc \cup Timer)
           /\ QueuedOnce'
           /\ \A x : Queued(x)' <=> Queued(x) \/ x = h
<1>1. /\ closing \in Seq(Proc \cup Timer) /\ batch \in Seq(Proc \cup Timer)
      /\ closing' = <<h>> \o closing
  BY DEF TypeOK, CloseHandles
<1>2. /\ closing' \in Seq(Proc \cup Timer) /\ Len(closing') = Len(closing) + 1
      /\ Len(closing) \in Nat
      /\ \A i \in 1..Len(closing') :
           closing'[i] = IF i = 1 THEN h ELSE closing[i - 1]
  BY <1>1
<1>3. closing'[1] = h /\ 1 \in DOMAIN closing'
  BY <1>2
<1>4. ASSUME NEW i \in DOMAIN closing', i # 1
      PROVE  i - 1 \in DOMAIN closing /\ closing'[i] = closing[i - 1]
  BY <1>1, <1>2, <1>4
<1>5. ASSUME NEW i \in DOMAIN closing
      PROVE  i + 1 \in DOMAIN closing' /\ closing'[i + 1] = closing[i]
  BY <1>1, <1>2, <1>5
<1>6. \A x : Queued(x)' <=> Queued(x) \/ x = h
  BY <1>3, <1>4, <1>5 DEF Queued
<1>7. ASSUME NEW i \in DOMAIN closing', NEW j \in DOMAIN closing',
             closing'[i] = closing'[j], closing'[i] \in Proc
      PROVE  i = j
  <2>1. CASE i = 1 /\ j = 1
    BY <2>1
  <2>2. CASE i = 1 /\ j # 1
    BY <2>2, <1>3, <1>4, <1>7 DEF Queued
  <2>3. CASE i # 1 /\ j = 1
    BY <2>3, <1>3, <1>4, <1>7 DEF Queued
  <2>4. CASE i # 1 /\ j # 1
    <3>1. i - 1 = j - 1
      BY <2>4, <1>4, <1>7 DEF QueuedOnce
    <3> QED BY <3>1, <1>2
  <2> QED BY <2>1, <2>2, <2>3, <2>4
<1>8. ASSUME NEW i \in DOMAIN closing', NEW j \in DOMAIN batch, closing'[i] \in Proc
      PROVE  closing'[i] # batch[j]
  BY <1>3, <1>4, <1>8 DEF Queued, QueuedOnce
<1> QED BY <1>2, <1>6, <1>7, <1>8 DEF QueuedOnce

\* The close callback of the next handle takes it out of the queue.
LEMMA TakeKeepsQueue ==
    ASSUME TypeOK, QueuedOnce, NEW h \in Proc \cup Timer, TakeClosed(h), UNCHANGED closing
    PROVE  /\ batch' \in Seq(Proc \cup Timer)
           /\ QueuedOnce'
           /\ Queued(h)
           /\ \A x : Queued(x)' => Queued(x)
           /\ h \in Proc => ~Queued(h)'
<1>1. /\ closing \in Seq(Proc \cup Timer) /\ batch \in Seq(Proc \cup Timer)
      /\ batch # <<>> /\ h = batch[1] /\ batch' = Tail(batch)
  BY DEF TypeOK, TakeClosed
<1>2. /\ batch' \in Seq(Proc \cup Timer)
      /\ \A i \in DOMAIN batch' : i + 1 \in DOMAIN batch /\ i + 1 # 1
                                    /\ batch'[i] = batch[i + 1]
      /\ 1 \in DOMAIN batch
  BY <1>1
<1>3. QueuedOnce'
  <2>1. ASSUME NEW i \in DOMAIN batch', NEW j \in DOMAIN batch',
               batch'[i] = batch'[j], batch'[i] \in Proc
        PROVE  i = j
    <3>1. i + 1 = j + 1
      BY <1>2, <2>1 DEF QueuedOnce
    <3> QED BY <3>1, <1>2
  <2>2. ASSUME NEW i \in DOMAIN closing, NEW j \in DOMAIN batch', closing[i] \in Proc
        PROVE  closing[i] # batch'[j]
    BY <1>2, <2>2 DEF QueuedOnce
  <2> QED BY <2>1, <2>2 DEF QueuedOnce
<1>4. Queued(h) /\ \A x : Queued(x)' => Queued(x)
  BY <1>1, <1>2 DEF Queued
<1>5. ASSUME h \in Proc PROVE ~Queued(h)'
  BY <1>1, <1>2, <1>5 DEF Queued, QueuedOnce
<1> QED BY <1>2, <1>3, <1>4, <1>5

-----------------------------------------------------------------------------
(* Steps of the running callback. *)

\* Typed apps, whose processes are as before or forgotten.
NothingNew(apps) == /\ apps \in [App -> AppState]
                    /\ \A a \in App : apps[a].process \in {app[a].process, Null}

\* A step that makes, deletes and ends no process keeps the invariant, if
\* what it assigns is typed and it points App::process nowhere new.
LEMMA PlainStep ==
    ASSUME IInv, NEW fs, Plain(fs), Pushes(fs),
           NothingNew(app'), timer' \in [Timer -> TimerState],
           owed' \in [Request -> Int], proc' \in [Proc -> Process],
           \A p \in Proc : /\ proc'[p].role = proc[p].role
                           /\ proc'[p].app = proc[p].app
                           /\ proc'[p].status = proc[p].status,
           \A t \in Timer : timer'[t].status = "open" => timer'[t].app \in App,
           UNCHANGED closing \/ \E t \in Timer : CloseHandles(<<t>>),
           UNCHANGED <<phase, batch>>
    PROVE  IInv'
<1>1. /\ closing' \in Seq(Proc \cup Timer)
      /\ QueuedOnce'
      /\ \A p \in Proc : Queued(p)' <=> Queued(p)
  <2>1. CASE UNCHANGED closing
    BY <2>1 DEF IInv, TypeOK, QueuedOnce, Queued
  <2>2. ASSUME NEW t \in Timer, CloseHandles(<<t>>)
        PROVE  <1>1
    BY <2>2, PushKeepsQueue, ConfigAssumption DEF IInv
  <2> QED BY <2>1, <2>2
<1>2. /\ calls' \in Seq(Frame) /\ StackInv'
      /\ \A p \in Proc : Deleting(p)' => Deleting(p)
  <2>1. calls \in Seq(Frame) /\ StackInv
    BY DEF IInv, TypeOK
  <2>2. /\ fs \in Seq(Frame)
        /\ \A i \in DOMAIN fs :
             /\ fs[i].op # "Delete"
             /\ fs[i].op = "StartFailed" => (proc[fs[i].process].role # "free")'
    BY DEF Plain
  <2> QED BY <1>1, <2>1, <2>2, StackKept
<1>3. TypeOK'
  BY <1>1, <1>2 DEF IInv, TypeOK, NothingNew
<1>4. ProcInv' /\ TimerInv' /\ BatchOnlyClosing'
  BY <1>1 DEF IInv, ProcInv, TimerInv, BatchOnlyClosing
<1>5. NoDanglingProcess'
  <2>1. ASSUME NEW a \in App, (app[a].process # Null)'
        PROVE  (LET p == app[a].process IN
                 proc[p].role = "app" /\ proc[p].app = a /\ ~Deleting(p))'
    <3> DEFINE p == app[a].process
    <3>1. app'[a].process = p /\ p \in Proc
      BY <2>1 DEF IInv, TypeOK, AppState, NothingNew
    <3>2. proc[p].role = "app" /\ proc[p].app = a /\ ~Deleting(p)
      BY <2>1, <3>1 DEF IInv, NoDanglingProcess
    <3>3. (Deleting(p) <=> Deleting(app[a].process))'
      BY <3>1 DEF Deleting
    <3> QED BY <3>1, <3>2, <3>3, <1>2
  <2> QED BY <2>1 DEF NoDanglingProcess
<1> QED BY <1>1, <1>2, <1>3, <1>4, <1>5 DEF IInv

LEMMA PlainCall ==
    ASSUME IInv, calls # <<>>, NEW fs, Plain(fs), Continue(fs),
           NothingNew(app'), timer' \in [Timer -> TimerState],
           owed' \in [Request -> Int], proc' \in [Proc -> Process],
           \A p \in Proc : /\ proc'[p].role = proc[p].role
                           /\ proc'[p].app = proc[p].app
                           /\ proc'[p].status = proc[p].status,
           \A t \in Timer : timer'[t].status = "open" => timer'[t].app \in App,
           UNCHANGED closing \/ \E t \in Timer : CloseHandles(<<t>>),
           UNCHANGED <<phase, batch>>
    PROVE  IInv'
<1>1. Pushes(fs)
  BY DEF Pushes
<1> QED BY <1>1, PlainStep

\* The frame a step runs, and what the invariant says of it.
LEMMA TopFrame ==
    ASSUME IInv, calls # <<>>
    PROVE  Head(calls) \in Frame /\ Head(calls) = calls[1] /\ 1 \in DOMAIN calls
BY DEF IInv, TypeOK

\* Kill changes nothing else of a Process.
LEMMA KilledProcess ==
    ASSUME TypeOK, NEW p \in Proc
    PROVE  /\ Killed(p) \in [Proc -> Process]
           /\ \A q \in Proc : /\ Killed(p)[q].role = proc[q].role
                              /\ Killed(p)[q].app = proc[q].app
                              /\ Killed(p)[q].timer = proc[q].timer
                              /\ Killed(p)[q].status = proc[q].status
<1>1. proc \in [Proc -> Process]
  BY DEF TypeOK
<1>2. PICK r \in Process : r = proc[p]
  BY <1>1
<1>3. PICK x \in BOOLEAN : x = (r.killed \/ r.status = "running")
  OBVIOUS
<1>4. PICK s : s = [r EXCEPT !.killed = x]
  OBVIOUS
<1>5. /\ s \in Process
      /\ s.role = r.role /\ s.app = r.app /\ s.timer = r.timer /\ s.status = r.status
  BY <1>2, <1>3, <1>4 DEF Process
<1>6. Killed(p) = [proc EXCEPT ![p] = s]
  BY <1>2, <1>3, <1>4 DEF Killed
<1>7. Killed(p) \in [Proc -> Process]
  BY <1>1, <1>5, <1>6
<1>8. ASSUME NEW q \in Proc PROVE Killed(p)[q] = IF q = p THEN s ELSE proc[q]
  BY <1>1, <1>6
<1> QED BY <1>2, <1>5, <1>7, <1>8

\* The assignments to the fields of an App are typed.
LEMMA AppAssigned ==
    ASSUME app \in [App -> AppState], NEW a \in App
    PROVE  /\ \A w \in Waiter :
                [app EXCEPT ![a].callbacks = Append(@, w)] \in [App -> AppState]
           /\ [app EXCEPT ![a].callbacks = <<>>] \in [App -> AppState]
           /\ \A b \in BOOLEAN :
                /\ [app EXCEPT ![a].late = b] \in [App -> AppState]
                /\ [app EXCEPT ![a].restart = b] \in [App -> AppState]
                /\ [app EXCEPT ![a].checking = b] \in [App -> AppState]
           /\ \A p \in Proc \cup {Null}, b \in BOOLEAN :
                /\ [app EXCEPT ![a].process = p] \in [App -> AppState]
                /\ [app EXCEPT ![a].process = p, ![a].checking = b] \in [App -> AppState]
                /\ [app EXCEPT ![a].process = p, ![a].restart = b] \in [App -> AppState]
           /\ \A n \in Int, b \in BOOLEAN :
                [app EXCEPT ![a].pending = n, ![a].errors = b] \in [App -> AppState]
<1>1. app[a] \in AppState
  OBVIOUS
<1>2. ASSUME NEW w \in Waiter
      PROVE  [app EXCEPT ![a].callbacks = Append(@, w)] \in [App -> AppState]
  <2>1. Append(app[a].callbacks, w) \in Seq(Waiter)
    BY <1>1 DEF AppState
  <2>2. [app[a] EXCEPT !.callbacks = Append(@, w)] \in AppState
    BY <1>1, <2>1 DEF AppState
  <2> QED BY <2>2
<1>3. [app EXCEPT ![a].callbacks = <<>>] \in [App -> AppState]
  <2>1. <<>> \in Seq(Waiter)
    OBVIOUS
  <2>2. [app[a] EXCEPT !.callbacks = <<>>] \in AppState
    BY <1>1, <2>1 DEF AppState
  <2> QED BY <2>2
<1>4. ASSUME NEW b \in BOOLEAN
      PROVE  /\ [app EXCEPT ![a].late = b] \in [App -> AppState]
             /\ [app EXCEPT ![a].restart = b] \in [App -> AppState]
             /\ [app EXCEPT ![a].checking = b] \in [App -> AppState]
  BY <1>1 DEF AppState
<1>5. ASSUME NEW p \in Proc \cup {Null}, NEW b \in BOOLEAN
      PROVE  /\ [app EXCEPT ![a].process = p] \in [App -> AppState]
             /\ [app EXCEPT ![a].process = p, ![a].checking = b] \in [App -> AppState]
             /\ [app EXCEPT ![a].process = p, ![a].restart = b] \in [App -> AppState]
  BY <1>1 DEF AppState
<1>6. ASSUME NEW n \in Int, NEW b \in BOOLEAN
      PROVE  [app EXCEPT ![a].pending = n, ![a].errors = b] \in [App -> AppState]
  BY <1>1 DEF AppState
<1> QED BY <1>2, <1>3, <1>4, <1>5, <1>6

LEMMA NothingNewAssigned ==
    ASSUME app \in [App -> AppState], NEW a \in App
    PROVE  /\ NothingNew(app)
           /\ \A w \in Waiter : NothingNew([app EXCEPT ![a].callbacks = Append(@, w)])
           /\ NothingNew([app EXCEPT ![a].callbacks = <<>>])
           /\ NothingNew([app EXCEPT ![a].process = Null])
           /\ \A b \in BOOLEAN :
                /\ NothingNew([app EXCEPT ![a].late = b])
                /\ NothingNew([app EXCEPT ![a].restart = b])
                /\ NothingNew([app EXCEPT ![a].checking = b])
                /\ NothingNew([app EXCEPT ![a].process = Null, ![a].restart = b])
           /\ \A n \in Int, b \in BOOLEAN :
                NothingNew([app EXCEPT ![a].pending = n, ![a].errors = b])
<1>1. ASSUME NEW d \in App
      PROVE  /\ \A x : [app EXCEPT ![a].callbacks = x][d].process = app[d].process
             /\ \A x : [app EXCEPT ![a].late = x][d].process = app[d].process
             /\ \A x : [app EXCEPT ![a].restart = x][d].process = app[d].process
             /\ \A x : [app EXCEPT ![a].checking = x][d].process = app[d].process
             /\ \A x, y : [app EXCEPT ![a].pending = x, ![a].errors = y][d].process
                            = app[d].process
             /\ [app EXCEPT ![a].process = Null][d].process \in {app[d].process, Null}
             /\ \A x : [app EXCEPT ![a].process = Null, ![a].restart = x][d].process
                         \in {app[d].process, Null}
  BY <1>1 DEF AppState
<1>2. NothingNew(app)
  BY DEF NothingNew
<1>3. /\ \A w \in Waiter : NothingNew([app EXCEPT ![a].callbacks = Append(@, w)])
      /\ NothingNew([app EXCEPT ![a].callbacks = <<>>])
  BY <1>1, AppAssigned DEF NothingNew
<1>4. \A b \in BOOLEAN :
        /\ NothingNew([app EXCEPT ![a].late = b])
        /\ NothingNew([app EXCEPT ![a].restart = b])
        /\ NothingNew([app EXCEPT ![a].checking = b])
  <2> TAKE b \in BOOLEAN
  <2>1. NothingNew([app EXCEPT ![a].late = b])
    BY <1>1, AppAssigned DEF NothingNew
  <2>2. NothingNew([app EXCEPT ![a].restart = b])
    BY <1>1, AppAssigned DEF NothingNew
  <2>3. NothingNew([app EXCEPT ![a].checking = b])
    BY <1>1, AppAssigned DEF NothingNew
  <2> QED BY <2>1, <2>2, <2>3
<1>5. /\ NothingNew([app EXCEPT ![a].process = Null])
      /\ \A b \in BOOLEAN : NothingNew([app EXCEPT ![a].process = Null, ![a].restart = b])
  BY <1>1, AppAssigned DEF NothingNew
<1>6. ASSUME NEW n \in Int, NEW b \in BOOLEAN
      PROVE  NothingNew([app EXCEPT ![a].pending = n, ![a].errors = b])
  <2>1. [app EXCEPT ![a].pending = n, ![a].errors = b] \in [App -> AppState]
    BY AppAssigned
  <2>2. \A d \in App : [app EXCEPT ![a].pending = n, ![a].errors = b][d].process
                          = app[d].process
    BY <1>1
  <2> QED BY <2>1, <2>2 DEF NothingNew
<1> QED BY <1>2, <1>3, <1>4, <1>5, <1>6

\* Require and its check.
LEMMA RequireSteps ==
    ASSUME IInv, DoRequire \/ DoCheckNothing \/ RequireThenOk \/ RequireThenError
    PROVE  IInv'
<1> DEFINE f == Head(calls)
<1>1. /\ app \in [App -> AppState] /\ timer \in [Timer -> TimerState]
      /\ owed \in [Request -> Int] /\ proc \in [Proc -> Process]
      /\ \A t \in Timer : timer[t].status = "open" => timer[t].app \in App
  BY DEF IInv, TypeOK, TimerInv
<1>2. CASE DoRequire
  <2>1. calls # <<>> /\ f.op = "Require"
    BY <1>2 DEF DoRequire, Top
  <2>2. f.app \in App /\ f.then \in Waiter
    BY <2>1, TopFrame, FrameFields
  <2>3. PICK fs : Plain(fs) /\ Continue(fs)
    <3>1. Plain(<<Check(f.app, Null)>>) /\ Plain(<<>>)
      BY <2>2, PlainFramesMade, PlainFrames
    <3> QED BY <1>2, <3>1 DEF DoRequire
  <2>4. NothingNew(app')
    <3>1. app' = [app EXCEPT ![f.app].callbacks = Append(@, f.then)]
      BY <1>2 DEF DoRequire
    <3>2. NothingNew([app EXCEPT ![f.app].callbacks = Append(@, f.then)])
      <4>1. \A w \in Waiter : NothingNew([app EXCEPT ![f.app].callbacks = Append(@, w)])
        BY <1>1, <2>2, NothingNewAssigned
      <4> QED BY <4>1, <2>2, Zenon
    <3> QED BY <3>1, <3>2, Zenon
  <2> QED BY <1>1, <1>2, <2>1, <2>3, <2>4, PlainCall DEF DoRequire
<1>3. CASE DoCheckNothing
  <2>1. calls # <<>> /\ f.op = "Check"
    BY <1>3 DEF DoCheckNothing, Top
  <2>2. f.app \in App /\ f.timer \in Timer \cup {Null}
    BY <2>1, TopFrame, FrameFields
  <2>3. PICK fs : Plain(fs) /\ Continue(fs)
    <3>1. Plain(<<CheckThen(f.app, f.timer, "ok")>>)
      BY <2>2, PlainFramesMade, PlainFrames DEF Error
    <3> QED BY <1>3, <3>1 DEF DoCheckNothing
  <2>4. NothingNew(app')
    BY <1>1, <1>3, <2>2, NothingNewAssigned DEF DoCheckNothing
  <2> QED BY <1>1, <1>3, <2>1, <2>3, <2>4, PlainCall DEF DoCheckNothing
<1>4. CASE RequireThenOk
  <2>1. calls # <<>> /\ f.op = "CheckThen"
    BY <1>4 DEF RequireThenOk, Top
  <2>2. f.app \in App
    BY <2>1, TopFrame, FrameFields
  <2>3. PICK fs : Plain(fs) /\ Continue(fs)
    <3>1. Plain(<<Clear(f.app, "ok")>>) /\ Plain(<<Start(f.app)>>)
      BY <2>2, PlainFramesMade, PlainFrames DEF Error
    <3> QED BY <1>4, <3>1 DEF RequireThenOk
  <2>4. NothingNew(app')
    <3>1. NothingNew(app) /\ NothingNew([app EXCEPT ![f.app].late = FALSE])
      BY <1>1, <2>2, NothingNewAssigned
    <3> QED BY <1>4, <3>1 DEF RequireThenOk
  <2> QED BY <1>1, <1>4, <2>1, <2>3, <2>4, PlainCall DEF RequireThenOk
<1>5. CASE RequireThenError
  <2>1. calls # <<>> /\ f.op = "CheckThen"
    BY <1>5 DEF RequireThenError, Top
  <2>2. f.app \in App
    BY <2>1, TopFrame, FrameFields
  <2>3. PICK fs : Plain(fs) /\ Continue(fs)
    <3>1. Plain(<<>>) /\ Plain(<<Start(f.app)>>)
      BY <2>2, PlainFramesMade, PlainFrames
    <3> QED BY <1>5, <3>1 DEF RequireThenError
  <2>4. NothingNew(app')
    <3>1. /\ NothingNew([app EXCEPT ![f.app].restart = TRUE])
          /\ NothingNew([app EXCEPT ![f.app].late = FALSE])
      BY <1>1, <2>2, NothingNewAssigned
    <3> QED BY <1>5, <3>1 DEF RequireThenError
  <2>5. /\ proc' \in [Proc -> Process]
        /\ \A p \in Proc : /\ proc'[p].role = proc[p].role
                           /\ proc'[p].app = proc[p].app
                           /\ proc'[p].status = proc[p].status
    <3>1. app[f.app].process \in Proc \cup {Null}
      BY <1>1, <2>2 DEF AppState
    <3>2. CASE proc' = proc
      BY <1>1, <3>2
    <3>3. CASE app[f.app].process # Null /\ proc' = Killed(app[f.app].process)
      BY <3>1, <3>3, KilledProcess DEF IInv
    <3> QED BY <1>5, <3>2, <3>3 DEF RequireThenError
  <2> QED BY <1>1, <1>5, <2>1, <2>3, <2>4, <2>5, PlainCall DEF RequireThenError
<1> QED BY <1>2, <1>3, <1>4, <1>5

\* Plain frames made one by one.
LEMMA PlainSequence ==
    ASSUME NEW n \in Nat, NEW fs \in [1..n -> PlainFrame]
    PROVE  /\ Plain(fs)
           /\ \A g \in PlainFrame : Plain(fs \o <<g>>)
<1>1. /\ fs \in Seq(PlainFrame) /\ Len(fs) = n
      /\ \A i \in 1..n : fs[i] \in PlainFrame
  OBVIOUS
<1>2. fs \in Seq(Frame)
  BY <1>1 DEF PlainFrame
<1>3. Plain(fs)
  BY <1>1, <1>2 DEF Plain, PlainFrame
<1>4. ASSUME NEW g \in PlainFrame
      PROVE  Plain(fs \o <<g>>)
  <2>1. /\ fs \o <<g>> \in Seq(Frame) /\ Len(fs \o <<g>>) = n + 1
        /\ \A i \in 1..n + 1 : (fs \o <<g>>)[i] = IF i <= n THEN fs[i] ELSE g
    BY <1>1, <1>2 DEF PlainFrame
  <2>2. \A i \in 1..n + 1 : (fs \o <<g>>)[i] \in PlainFrame
    BY <1>1, <2>1
  <2> QED BY <2>1, <2>2 DEF Plain, PlainFrame
<1> QED BY <1>3, <1>4

LEMMA CloseTimerTyped ==
    ASSUME timer \in [Timer -> TimerState],
           \A t \in Timer : timer[t].status = "open" => timer[t].app \in App,
           NEW u \in Timer, CloseTimer(u)
    PROVE  /\ timer' \in [Timer -> TimerState]
           /\ \A t \in Timer : timer'[t].status = "open" => timer'[t].app \in App
           /\ UNCHANGED closing \/ \E t \in Timer : CloseHandles(<<t>>)
<1>1. CASE timer[u].status = "open"
  <2>1. timer' = [timer EXCEPT ![u].status = "closing"] /\ CloseHandles(<<u>>)
    BY <1>1 DEF CloseTimer
  <2>2. timer' \in [Timer -> TimerState]
    BY <2>1 DEF TimerState
  <2>3. \A t \in Timer : timer'[t].status = "open" => timer'[t].app \in App
    BY <2>1 DEF TimerState
  <2> QED BY <2>1, <2>2, <2>3
<1>2. CASE timer[u].status # "open"
  BY <1>2 DEF CloseTimer
<1> QED BY <1>1, <1>2

\* Starting an app, and the timer's check, up to what makes an object.
LEMMA StartSteps ==
    ASSUME IInv, DoStart \/ StartThenError \/ DoAppError \/ PostStartThen \/ DoSetChecking
    PROVE  IInv'
<1> DEFINE f == Head(calls)
<1>1. /\ app \in [App -> AppState] /\ timer \in [Timer -> TimerState]
      /\ owed \in [Request -> Int] /\ proc \in [Proc -> Process]
      /\ \A t \in Timer : timer[t].status = "open" => timer[t].app \in App
  BY DEF IInv, TypeOK, TimerInv
<1>2. CASE DoStart
  <2>1. calls # <<>> /\ f.op = "Start"
    BY <1>2 DEF DoStart, Top
  <2>2. f.app \in App
    BY <2>1, TopFrame, FrameFields
  <2> DEFINE needed == Preamble[f.app]
             requires == [i \in 1..Len(needed) |-> Require(needed[i], f.app)]
  <2>3. /\ needed \in Seq(App) /\ Len(needed) \in Nat
        /\ \A i \in 1..Len(needed) : needed[i] \in App
    BY <2>2, ConfigAssumption
  <2>4. Plain(requires)
    <3>1. \A i \in 1..Len(needed) : Require(needed[i], f.app) \in PlainFrame
      BY <2>2, <2>3, PlainFramesMade DEF Waiter
    <3>2. requires \in [1..Len(needed) -> PlainFrame]
      BY <3>1
    <3> HIDE DEF requires
    <3> QED BY <2>3, <3>2, PlainSequence
  <2>5. PICK fs : Plain(fs) /\ Continue(fs)
    <3>1. Plain(<<StartThen(f.app, "ok")>>)
      BY <2>2, PlainFramesMade, PlainFrames DEF Error
    <3> QED BY <1>2, <2>4, <3>1 DEF DoStart
  <2>6. NothingNew(app')
    <3>1. app' = [app EXCEPT ![f.app].pending = Len(needed), ![f.app].errors = FALSE]
      BY <1>2 DEF DoStart
    <3> HIDE DEF needed
    <3>2. Len(needed) \in Int
      BY <2>3
    <3>3. NothingNew([app EXCEPT ![f.app].pending = Len(needed), ![f.app].errors = FALSE])
      BY <1>1, <2>2, <3>2, NothingNewAssigned
    <3> QED BY <3>1, <3>3
  <2> QED BY <1>1, <1>2, <2>1, <2>5, <2>6, PlainCall DEF DoStart
<1>3. CASE StartThenError
  <2>1. calls # <<>> /\ f.op = "StartThen"
    BY <1>3 DEF StartThenError, Top
  <2>2. f.app \in App /\ f.error \in Error
    BY <2>1, TopFrame, FrameFields
  <2>3. PICK fs : Plain(fs) /\ Continue(fs)
    <3>1. Plain(<<Clear(f.app, f.error)>>)
      BY <2>2, PlainFramesMade, PlainFrames
    <3> QED BY <1>3, <3>1 DEF StartThenError
  <2>4. NothingNew(app')
    BY <1>1, <1>3, <2>2, NothingNewAssigned DEF StartThenError
  <2> QED BY <1>1, <1>3, <2>1, <2>3, <2>4, PlainCall DEF StartThenError
<1>4. CASE DoAppError
  <2>1. calls # <<>> /\ f.op = "AppError"
    BY <1>4 DEF DoAppError, Top
  <2>2. f.app \in App /\ f.error \in Error
    BY <2>1, TopFrame, FrameFields
  <2>3. PICK fs : Plain(fs) /\ Continue(fs)
    <3>1. Plain(<<Clear(f.app, f.error)>>)
      BY <2>2, PlainFramesMade, PlainFrames
    <3> QED BY <1>4, <3>1 DEF DoAppError
  <2>4. NothingNew(app')
    <3>1. NothingNew([app EXCEPT ![f.app].process = Null])
      BY <1>1, <2>2, NothingNewAssigned
    <3> QED BY <1>4, <3>1 DEF DoAppError
  <2> QED BY <1>1, <1>4, <2>1, <2>3, <2>4, PlainCall DEF DoAppError
<1>5. CASE PostStartThen
  <2>1. calls # <<>> /\ f.op = "CheckThen" /\ f.timer # Null
    BY <1>5 DEF PostStartThen, Top
  <2>2. f.app \in App /\ f.error \in Error /\ f.timer \in Timer
    BY <2>1, TopFrame, FrameFields
  <2>3. PICK fs : Plain(fs) /\ Continue(fs)
    <3>1. Plain(<<Clear(f.app, f.error), SetChecking(f.app, FALSE)>>) /\ Plain(<<>>)
      BY <2>2, PlainFramesMade, PlainFrames
    <3> QED BY <1>5, <3>1 DEF PostStartThen
  <2>4. NothingNew(app')
    <3>1. NothingNew([app EXCEPT ![f.app].checking = FALSE]) /\ NothingNew(app)
      BY <1>1, <2>2, NothingNewAssigned
    <3> QED BY <1>5, <3>1 DEF PostStartThen
  <2>5. /\ timer' \in [Timer -> TimerState]
        /\ \A t \in Timer : timer'[t].status = "open" => timer'[t].app \in App
        /\ UNCHANGED closing \/ \E t \in Timer : CloseHandles(<<t>>)
    <3>1. CASE CloseTimer(f.timer)
      BY <1>1, <2>2, <3>1, CloseTimerTyped
    <3>2. CASE UNCHANGED <<timer, closing>>
      BY <1>1, <3>2
    <3> QED BY <1>5, <3>1, <3>2 DEF PostStartThen
  <2> QED BY <1>1, <1>5, <2>1, <2>3, <2>4, <2>5, PlainCall DEF PostStartThen
<1>6. CASE DoSetChecking
  <2>1. calls # <<>> /\ f.op = "SetChecking"
    BY <1>6 DEF DoSetChecking, Top
  <2>2. f.app \in App /\ f.to \in BOOLEAN
    BY <2>1, TopFrame, FrameFields
  <2>3. PICK fs : Plain(fs) /\ Continue(fs)
    <3>1. Plain(<<>>)
      BY <2>2, PlainFramesMade, PlainFrames
    <3> QED BY <1>6, <3>1 DEF DoSetChecking
  <2>4. NothingNew(app')
    <3>1. NothingNew([app EXCEPT ![f.app].checking = f.to])
      BY <1>1, <2>2, NothingNewAssigned
    <3> QED BY <1>6, <3>1 DEF DoSetChecking
  <2> QED BY <1>1, <1>6, <2>1, <2>3, <2>4, PlainCall DEF DoSetChecking
<1> QED BY <1>2, <1>3, <1>4, <1>5, <1>6

\* Answering callers.
LEMMA AnswerSteps ==
    ASSUME IInv, DoClear \/ DoCleared \/ AnswerClient \/ AnswerPreamble
    PROVE  IInv'
<1> DEFINE f == Head(calls)
<1>1. /\ app \in [App -> AppState] /\ timer \in [Timer -> TimerState]
      /\ owed \in [Request -> Int] /\ proc \in [Proc -> Process]
      /\ \A t \in Timer : timer[t].status = "open" => timer[t].app \in App
  BY DEF IInv, TypeOK, TimerInv
<1>2. CASE DoClear
  <2>1. calls # <<>> /\ f.op = "Clear"
    BY <1>2 DEF DoClear, Top
  <2>2. f.app \in App /\ f.error \in Error
    BY <2>1, TopFrame, FrameFields
  <2> DEFINE waiting == app[f.app].callbacks
             invokes == [i \in 1..Len(waiting) |-> Invoke(f.app, waiting[i], f.error)]
  <2>3. /\ waiting \in Seq(Waiter) /\ Len(waiting) \in Nat
        /\ \A i \in 1..Len(waiting) : waiting[i] \in Waiter
    BY <1>1, <2>2 DEF AppState
  <2>4. Plain(invokes \o <<Cleared(f.app)>>)
    <3>1. \A i \in 1..Len(waiting) : Invoke(f.app, waiting[i], f.error) \in PlainFrame
      BY <2>2, <2>3, PlainFramesMade
    <3>2. invokes \in [1..Len(waiting) -> PlainFrame]
      BY <3>1
    <3>3. Cleared(f.app) \in PlainFrame
      BY <2>2, PlainFramesMade
    <3> HIDE DEF invokes
    <3> QED BY <2>3, <3>2, <3>3, PlainSequence
  <2>5. PICK fs : Plain(fs) /\ Continue(fs)
    BY <1>2, <2>4 DEF DoClear
  <2>6. NothingNew(app')
    BY <1>1, <1>2, <2>2, NothingNewAssigned DEF DoClear
  <2> QED BY <1>1, <1>2, <2>1, <2>5, <2>6, PlainCall DEF DoClear
<1>3. CASE DoCleared
  <2>1. calls # <<>> /\ f.op = "Cleared"
    BY <1>3 DEF DoCleared, Top
  <2>2. f.app \in App
    BY <2>1, TopFrame, FrameFields
  <2>3. PICK fs : Plain(fs) /\ Continue(fs)
    <3>1. Plain(<<>>)
      BY <2>2, PlainFramesMade, PlainFrames
    <3> QED BY <1>3, <3>1 DEF DoCleared
  <2>4. NothingNew(app')
    <3>1. NothingNew([app EXCEPT ![f.app].callbacks = <<>>])
      BY <1>1, <2>2, NothingNewAssigned
    <3> QED BY <1>3, <3>1 DEF DoCleared
  <2> QED BY <1>1, <1>3, <2>1, <2>3, <2>4, PlainCall DEF DoCleared
<1>4. CASE AnswerClient
  <2>1. calls # <<>> /\ f.op = "Invoke"
    BY <1>4 DEF AnswerClient, Top
  <2>2. f.app \in App
    BY <2>1, TopFrame, FrameFields
  <2>3. PICK fs : Plain(fs) /\ Continue(fs)
    <3>1. Plain(<<>>)
      BY <2>2, PlainFramesMade, PlainFrames
    <3> QED BY <1>4, <3>1 DEF AnswerClient
  <2>4. NothingNew(app')
    BY <1>1, <1>4, <2>2, NothingNewAssigned DEF AnswerClient
  <2>5. owed' \in [Request -> Int]
    BY <1>1, <1>4 DEF AnswerClient
  <2> QED BY <1>1, <1>4, <2>1, <2>3, <2>4, <2>5, PlainCall DEF AnswerClient
<1>5. CASE AnswerPreamble
  <2>1. calls # <<>> /\ f.op = "Invoke"
    BY <1>5 DEF AnswerPreamble, Top
  <2> DEFINE a == f.then
             left == app[a].pending - 1
             errors == app[a].errors \/ f.error # "ok"
  <2>2. /\ a \in App
        /\ app' = [app EXCEPT ![a].pending = left, ![a].errors = errors]
        /\ Continue(IF left = 0
                    THEN <<StartThen(a, IF errors THEN "failed" ELSE "ok")>>
                    ELSE <<>>)
    BY <1>5 DEF AnswerPreamble
  <2>3. left \in Int /\ errors \in BOOLEAN
    BY <1>1, <2>2 DEF AppState
  <2>4. PICK fs : Plain(fs) /\ Continue(fs)
    <3>1. /\ Plain(<<StartThen(a, IF errors THEN "failed" ELSE "ok")>>)
          /\ Plain(<<>>)
      BY <2>2, PlainFramesMade, PlainFrames DEF Error
    <3> QED BY <2>2, <3>1
  <2>5. NothingNew(app')
    <3> HIDE DEF left, errors
    <3>1. NothingNew([app EXCEPT ![a].pending = left, ![a].errors = errors])
      BY <1>1, <2>2, <2>3, NothingNewAssigned
    <3> QED BY <2>2, <3>1
  <2> QED BY <1>1, <1>5, <2>1, <2>4, <2>5, PlainCall DEF AnswerPreamble
<1> QED BY <1>2, <1>3, <1>4, <1>5

-----------------------------------------------------------------------------
(* Steps that make, end or delete a process. *)

LEMMA Allocation ==
    ASSUME IInv, NEW p, FreeProc # {}, p = CHOOSE q \in FreeProc : TRUE
    PROVE  /\ p \in Proc /\ proc[p].role = "free"
           /\ ~Queued(p) /\ ~Deleting(p)
           /\ \A a \in App : app[a].process # p
<1>1. p \in Proc /\ proc[p].role = "free"
  BY DEF FreeProc
<1>2. ~Queued(p)
  BY <1>1 DEF IInv, ProcInv
<1>3. ~Deleting(p)
  <2>1. ASSUME NEW i \in DOMAIN calls, calls[i] = Delete(p)
        PROVE  FALSE
    <3>1. calls[i].op = "Delete" /\ calls[i].process = p
      BY <2>1 DEF Delete
    <3> QED BY <1>1, <3>1 DEF IInv, StackInv
  <2> QED BY <2>1 DEF Deleting
<1>4. ASSUME NEW a \in App, app[a].process = p PROVE FALSE
  <2>1. NoDanglingProcess /\ p # Null
    BY <1>1, ConfigAssumption DEF IInv
  <2>2. proc[p].role = "app"
    BY <1>4, <2>1 DEF NoDanglingProcess
  <2> QED BY <1>1, <2>2
<1> QED BY <1>1, <1>2, <1>3, <1>4

\* App::process changes only for the app of a new process x at p.
PointsToNew(p, x) ==
    \A a \in App : \/ app'[a].process = app[a].process
                   \/ app'[a].process = p /\ x.role = "app" /\ x.app = a

\* A new Process: nothing knew its address.
LEMMA NewProcess ==
    ASSUME IInv, NEW p, FreeProc # {}, p = CHOOSE q \in FreeProc : TRUE,
           NEW x \in Process, x.role # "free", x.app \in App,
           proc' = [proc EXCEPT ![p] = x],
           NEW fs \in Seq(Frame), Pushes(fs),
           \A i \in DOMAIN fs : /\ fs[i].op # "Delete"
                                /\ fs[i].op = "StartFailed" => fs[i].process = p,
           app' \in [App -> AppState],
           PointsToNew(p, x),
           timer' \in [Timer -> TimerState],
           \A t \in Timer : timer'[t].status = "open" => timer'[t].app \in App,
           UNCHANGED <<owed, phase, closing, batch>>
    PROVE  IInv'
<1>1. /\ p \in Proc /\ proc[p].role = "free" /\ ~Queued(p) /\ ~Deleting(p)
      /\ \A a \in App : app[a].process # p
  BY Allocation
<1>2. /\ proc \in [Proc -> Process] /\ calls \in Seq(Frame) /\ StackInv
  BY DEF IInv, TypeOK
<1>3. /\ proc' \in [Proc -> Process] /\ proc'[p] = x
      /\ \A q \in Proc : q # p => proc'[q] = proc[q]
  BY <1>1, <1>2
<1>4. \A h : Queued(h)' <=> Queued(h)
  BY DEF Queued
<1>5. /\ calls' \in Seq(Frame) /\ StackInv'
      /\ \A q \in Proc : Deleting(q)' => Deleting(q)
  <2>1. \A i \in DOMAIN fs :
          /\ fs[i].op # "Delete"
          /\ fs[i].op = "StartFailed" => (proc[fs[i].process].role # "free")'
    BY <1>3
  <2>2. \A q \in Proc : proc[q].role # "free" => (proc[q].role # "free")'
    BY <1>3
  <2>3. \A q \in Proc : proc[q].role # "free" /\ proc[q].status \in ExitStatus /\ ~Queued(q)
                           => (proc[q].status \in ExitStatus /\ ~Queued(q))'
    BY <1>1, <1>3, <1>4
  <2> QED BY <1>2, <2>1, <2>2, <2>3, StackKept
<1>6. TypeOK' /\ QueuedOnce' /\ BatchOnlyClosing' /\ TimerInv'
  BY <1>3, <1>5 DEF IInv, TypeOK, QueuedOnce, BatchOnlyClosing, TimerInv
<1>7. ProcInv'
  BY <1>1, <1>3, <1>4 DEF IInv, ProcInv
<1>8. NoDanglingProcess'
  <2>1. ASSUME NEW a \in App, (app[a].process # Null)'
        PROVE  (LET q == app[a].process IN
                 proc[q].role = "app" /\ proc[q].app = a /\ ~Deleting(q))'
    <3>1. CASE app'[a].process = p /\ x.role = "app" /\ x.app = a
      <4>1. (Deleting(p) <=> Deleting(app[a].process))'
        BY <3>1 DEF Deleting
      <4> QED BY <1>1, <1>3, <1>5, <3>1, <4>1
    <3>2. CASE app'[a].process = app[a].process
      <4> DEFINE q == app[a].process
      <4>1. q \in Proc /\ q # p
        BY <1>1, <2>1, <3>2 DEF IInv, TypeOK, AppState
      <4>2. proc[q].role = "app" /\ proc[q].app = a /\ ~Deleting(q)
        BY <2>1, <3>2 DEF IInv, NoDanglingProcess
      <4>3. (Deleting(q) <=> Deleting(app[a].process))'
        BY <3>2 DEF Deleting
      <4> QED BY <1>3, <1>5, <3>2, <4>1, <4>2, <4>3
    <3> QED BY <3>1, <3>2 DEF PointsToNew
  <2> QED BY <2>1 DEF NoDanglingProcess
<1> QED BY <1>5, <1>6, <1>7, <1>8 DEF IInv

\* The checker and the app's process are made; a Start that fails at once
\* leaves the rest of its work on the stack.
LEMMA MakeSteps ==
    ASSUME IInv, DoCheck \/ StartThenOk
    PROVE  IInv'
<1> DEFINE f == Head(calls)
<1>1. /\ app \in [App -> AppState] /\ timer \in [Timer -> TimerState]
      /\ \A t \in Timer : timer[t].status = "open" => timer[t].app \in App
  BY DEF IInv, TypeOK, TimerInv
<1>2. ASSUME NEW outcome \in Spawn
      PROVE  /\ SpawnStatus(outcome) \in {"running", "unspawned"}
             /\ SpawnError(outcome) \in Error
  BY <1>2 DEF SpawnStatus, SpawnError, Spawn, Error
<1>3. ASSUME NEW g \in PlainFrame, NEW p \in Proc
      PROVE  /\ <<g, StartFailed(p)>> \in Seq(Frame)
             /\ \A i \in DOMAIN <<g, StartFailed(p)>> :
                  /\ <<g, StartFailed(p)>>[i].op # "Delete"
                  /\ <<g, StartFailed(p)>>[i].op = "StartFailed"
                       => <<g, StartFailed(p)>>[i].process = p
  <2>1. /\ g \in Frame /\ g.op \notin {"Delete", "StartFailed"}
        /\ StartFailed(p) \in Frame /\ StartFailed(p).process = p
        /\ StartFailed(p).op = "StartFailed"
    BY DEF PlainFrame, Frame, StartFailed
  <2> QED BY <2>1
<1>4. CASE DoCheck
  <2>1. calls # <<>> /\ f.op = "Check"
    BY <1>4 DEF DoCheck, Top
  <2>2. f.app \in App /\ f.timer \in Timer \cup {Null}
    BY <2>1, TopFrame, FrameFields
  <2>3. PICK outcome \in Spawn, p \in Proc :
          /\ FreeProc # {} /\ p = CHOOSE q \in FreeProc : TRUE
          /\ proc' = [proc EXCEPT ![p] =
                        [role |-> "checker", app |-> f.app, timer |-> f.timer,
                         status |-> SpawnStatus(outcome), killed |-> FALSE]]
          /\ Continue(IF outcome = "ok" THEN <<>>
                      ELSE <<CheckThen(f.app, f.timer, SpawnError(outcome)),
                             StartFailed(p)>>)
    BY <1>4, EnvironmentAssumption DEF DoCheck
  <2> DEFINE x == [role |-> "checker", app |-> f.app, timer |-> f.timer,
                   status |-> SpawnStatus(outcome), killed |-> FALSE]
  <2>4. x \in Process /\ x.role # "free" /\ x.app \in App
    BY <1>2, <2>2 DEF Process
  <2>5. CheckThen(f.app, f.timer, SpawnError(outcome)) \in PlainFrame
    BY <1>2, <2>2, PlainFramesMade
  <2>6. PICK fs \in Seq(Frame) :
          /\ Continue(fs)
          /\ \A i \in DOMAIN fs : /\ fs[i].op # "Delete"
                                  /\ fs[i].op = "StartFailed" => fs[i].process = p
    <3>1. CASE outcome = "ok"
      <4>1. <<>> \in Seq(Frame) /\ DOMAIN <<>> = {} /\ Continue(<<>>)
        BY <2>3, <3>1
      <4> QED BY <4>1
    <3>2. CASE outcome # "ok"
      <4> DEFINE fs == <<CheckThen(f.app, f.timer, SpawnError(outcome)), StartFailed(p)>>
      <4>1. Continue(fs)
        BY <2>3, <3>2
      <4>2. /\ fs \in Seq(Frame)
            /\ \A i \in DOMAIN fs : /\ fs[i].op # "Delete"
                                    /\ fs[i].op = "StartFailed" => fs[i].process = p
        BY <1>3, <2>5
      <4> HIDE DEF fs
      <4> QED BY <4>1, <4>2
    <3> QED BY <3>1, <3>2
  <2>7. app' = app /\ timer' = timer /\ UNCHANGED <<owed, phase, closing, batch>>
    BY <1>4 DEF DoCheck
  <2>8. Pushes(fs)
    BY <2>1, <2>6 DEF Pushes
  <2> HIDE DEF f
  <2>9. PointsToNew(p, x)
    BY <2>7 DEF PointsToNew
  <2> QED BY <1>1, <2>3, <2>4, <2>6, <2>7, <2>8, <2>9, NewProcess
<1>5. CASE StartThenOk
  <2>1. calls # <<>> /\ f.op = "StartThen"
    BY <1>5 DEF StartThenOk, Top
  <2>2. f.app \in App
    BY <2>1, TopFrame, FrameFields
  <2>3. PICK outcome \in Spawn, p \in Proc, u \in Timer :
          /\ FreeProc # {} /\ p = CHOOSE q \in FreeProc : TRUE
          /\ proc' = [proc EXCEPT ![p] =
                        [role |-> "app", app |-> f.app, timer |-> Null,
                         status |-> SpawnStatus(outcome), killed |-> FALSE]]
          /\ timer' = [timer EXCEPT ![u] = [app |-> f.app, status |-> "open"]]
          /\ app' = [app EXCEPT ![f.app].process = p, ![f.app].checking = FALSE]
          /\ Continue(IF outcome = "ok" THEN <<>>
                      ELSE <<AppError(f.app, SpawnError(outcome)), StartFailed(p)>>)
    BY <1>5, EnvironmentAssumption DEF StartThenOk
  <2> DEFINE x == [role |-> "app", app |-> f.app, timer |-> Null,
                   status |-> SpawnStatus(outcome), killed |-> FALSE]
  <2>4. x \in Process /\ x.role = "app" /\ x.app = f.app
    BY <1>2, <2>2 DEF Process
  <2>5. AppError(f.app, SpawnError(outcome)) \in PlainFrame
    BY <1>2, <2>2, PlainFramesMade
  <2>6. PICK fs \in Seq(Frame) :
          /\ Continue(fs)
          /\ \A i \in DOMAIN fs : /\ fs[i].op # "Delete"
                                  /\ fs[i].op = "StartFailed" => fs[i].process = p
    <3>1. CASE outcome = "ok"
      <4>1. <<>> \in Seq(Frame) /\ DOMAIN <<>> = {} /\ Continue(<<>>)
        BY <2>3, <3>1
      <4> QED BY <4>1
    <3>2. CASE outcome # "ok"
      <4> DEFINE fs == <<AppError(f.app, SpawnError(outcome)), StartFailed(p)>>
      <4>1. Continue(fs)
        BY <2>3, <3>2
      <4>2. /\ fs \in Seq(Frame)
            /\ \A i \in DOMAIN fs : /\ fs[i].op # "Delete"
                                    /\ fs[i].op = "StartFailed" => fs[i].process = p
        BY <1>3, <2>5
      <4> HIDE DEF fs
      <4> QED BY <4>1, <4>2
    <3> QED BY <3>1, <3>2
  <2>7. UNCHANGED <<owed, phase, closing, batch>>
    BY <1>5 DEF StartThenOk
  <2>8. Pushes(fs)
    BY <2>1, <2>6 DEF Pushes
  <2>9. /\ timer' \in [Timer -> TimerState]
        /\ \A t \in Timer : timer'[t].status = "open" => timer'[t].app \in App
    BY <1>1, <2>2, <2>3 DEF TimerState
  <2>10. /\ app' \in [App -> AppState]
         /\ PointsToNew(p, x)
    <3>1. app' \in [App -> AppState]
      BY <1>1, <2>2, <2>3, AppAssigned
    <3>2. app'[f.app].process = p
      BY <1>1, <2>2, <2>3 DEF AppState
    <3>3. \A a \in App : a # f.app => app'[a] = app[a]
      BY <1>1, <2>2, <2>3
    <3> QED BY <2>4, <3>1, <3>2, <3>3 DEF PointsToNew
  <2>11. x.role # "free" /\ x.app \in App
    BY <2>2
  <2>12. proc' = [proc EXCEPT ![p] = x] /\ FreeProc # {} /\ p = CHOOSE q \in FreeProc : TRUE
    BY <2>3
  <2> HIDE DEF f, x
  <2> QED BY <2>4, <2>6, <2>7, <2>8, <2>9, <2>10, <2>11, <2>12, NewProcess
<1> QED BY <1>4, <1>5

\* A process ends and its handle is closed.
LEMMA ProcessEnds ==
    ASSUME IInv, NEW p \in Proc, proc[p].role # "free", proc[p].status \notin ExitStatus,
           NEW s \in ExitStatus, proc' = [proc EXCEPT ![p].status = s],
           CloseHandles(<<p>>), Pushes(<<>>),
           UNCHANGED <<app, timer, owed, phase, batch>>
    PROVE  IInv'
<1>1. ~Queued(p)
  BY DEF IInv, ProcInv
<1>2. /\ proc' \in [Proc -> Process]
      /\ proc'[p].status = s
      /\ \A q \in Proc : /\ proc'[q].role = proc[q].role
                         /\ proc'[q].app = proc[q].app
                         /\ q # p => proc'[q].status = proc[q].status
  BY DEF IInv, TypeOK, Process
<1>3. /\ closing' \in Seq(Proc \cup Timer) /\ QueuedOnce'
      /\ \A x : Queued(x)' <=> Queued(x) \/ x = p
  BY <1>1, PushKeepsQueue DEF IInv
<1>4. /\ calls' \in Seq(Frame) /\ StackInv'
      /\ \A q \in Proc : Deleting(q)' => Deleting(q)
  <2>1. calls \in Seq(Frame) /\ StackInv
    BY DEF IInv, TypeOK
  <2>2. <<>> \in Seq(Frame) /\ \A i \in DOMAIN <<>> :
          /\ <<>>[i].op # "Delete"
          /\ <<>>[i].op = "StartFailed" => (proc[<<>>[i].process].role # "free")'
    OBVIOUS
  <2>3. \A q \in Proc : proc[q].role # "free" => (proc[q].role # "free")'
    BY <1>2
  <2>4. \A q \in Proc : proc[q].role # "free" /\ proc[q].status \in ExitStatus /\ ~Queued(q)
                           => (proc[q].status \in ExitStatus /\ ~Queued(q))'
    BY <1>2, <1>3
  <2> QED BY <2>1, <2>2, <2>3, <2>4, StackKept
<1>5. TypeOK' /\ BatchOnlyClosing' /\ TimerInv'
  BY <1>2, <1>3, <1>4 DEF IInv, TypeOK, BatchOnlyClosing, TimerInv
<1>6. ProcInv'
  BY <1>2, <1>3 DEF IInv, ProcInv
<1>7. NoDanglingProcess'
  <2>1. ASSUME NEW a \in App, (app[a].process # Null)'
        PROVE  (LET q == app[a].process IN
                 proc[q].role = "app" /\ proc[q].app = a /\ ~Deleting(q))'
    <3> DEFINE q == app[a].process
    <3>1. q \in Proc
      BY <2>1 DEF IInv, TypeOK, AppState
    <3>2. proc[q].role = "app" /\ proc[q].app = a /\ ~Deleting(q)
      BY <2>1 DEF IInv, NoDanglingProcess
    <3>3. (Deleting(q) <=> Deleting(app[a].process))'
      BY DEF Deleting
    <3> QED BY <1>2, <1>4, <3>1, <3>2, <3>3
  <2> QED BY <2>1 DEF NoDanglingProcess
<1> QED BY <1>3, <1>4, <1>5, <1>6, <1>7 DEF IInv

\* The rest of a Process::Start that failed: the process is killed, or the
\* exit it never had is reported.
LEMMA StartFailedStep ==
    ASSUME IInv, DoStartFailed
    PROVE  IInv'
<1> DEFINE p == Head(calls).process
<1>1. /\ app \in [App -> AppState] /\ timer \in [Timer -> TimerState]
      /\ owed \in [Request -> Int] /\ proc \in [Proc -> Process]
      /\ \A t \in Timer : timer[t].status = "open" => timer[t].app \in App
  BY DEF IInv, TypeOK, TimerInv
<1>2. calls # <<>> /\ Head(calls).op = "StartFailed"
  BY DEF DoStartFailed, Top
<1>3. p \in Proc /\ proc[p].role # "free"
  <2>1. p \in Proc
    BY <1>2, TopFrame, FrameFields
  <2> QED BY <1>2, <2>1, TopFrame DEF IInv, StackInv
<1>4. CASE proc[p].status = "running" /\ proc' = Killed(p) /\ UNCHANGED closing
  <2>1. Plain(<<>>)
    BY DEF Plain
  <2>2. /\ proc' \in [Proc -> Process]
        /\ \A q \in Proc : /\ proc'[q].role = proc[q].role
                           /\ proc'[q].app = proc[q].app
                           /\ proc'[q].status = proc[q].status
    BY <1>3, <1>4, KilledProcess DEF IInv
  <2>3. NothingNew(app')
    BY <1>1 DEF DoStartFailed, NothingNew
  <2> QED BY <1>1, <1>2, <1>4, <2>1, <2>2, <2>3, PlainCall DEF DoStartFailed
<1>5. CASE /\ proc[p].status = "unspawned"
           /\ proc' = [proc EXCEPT ![p].status = "failed"] /\ CloseHandles(<<p>>)
  <2>1. proc[p].status \notin ExitStatus /\ "failed" \in ExitStatus
    BY <1>5 DEF ExitStatus
  <2>2. Pushes(<<>>)
    BY <1>2 DEF Pushes, DoStartFailed
  <2> QED BY <1>3, <1>5, <2>1, <2>2, ProcessEnds DEF DoStartFailed
<1> QED BY <1>4, <1>5 DEF DoStartFailed

\* The last frame of a close callback frees the process.
LEMMA DeleteStep ==
    ASSUME IInv, DoDelete
    PROVE  IInv'
<1> DEFINE p == Head(calls).process
<1>1. calls # <<>> /\ Head(calls).op = "Delete"
  BY DEF DoDelete, Top
<1>2. p \in Proc
  BY <1>1, TopFrame, FrameFields
<1>3. Len(calls) = 1 /\ proc[p].role # "free" /\ ~Queued(p)
  BY <1>1, TopFrame DEF IInv, StackInv
<1>4. calls' = <<>>
  <2>1. calls' = <<>> \o Tail(calls) /\ calls \in Seq(Frame)
    BY DEF DoDelete, Continue, IInv, TypeOK
  <2>2. Tail(calls) \in Seq(Frame) /\ Len(Tail(calls)) = 0
    BY <1>1, <1>3, <2>1
  <2>3. Tail(calls) = <<>>
    BY <2>2, EmptySeq
  <2> QED BY <2>1, <2>3
<1>5. Deleting(p)
  <2>1. Head(calls) = Delete(p)
    BY <1>1, TopFrame DEF Frame, Delete
  <2> QED BY <1>1, <2>1, TopFrame DEF Deleting
<1>6. /\ proc' \in [Proc -> Process]
      /\ proc'[p].role = "free" /\ proc'[p].status = "unspawned"
      /\ \A q \in Proc : q # p => proc'[q] = proc[q]
  <2>1. /\ NoProcess \in Process
        /\ NoProcess.role = "free" /\ NoProcess.status = "unspawned"
    BY DEF NoProcess, Process
  <2> QED BY <1>2, <2>1 DEF DoDelete, IInv, TypeOK
<1>7. \A h : Queued(h)' <=> Queued(h)
  BY DEF DoDelete, Queued
<1>8. TypeOK' /\ QueuedOnce' /\ BatchOnlyClosing' /\ TimerInv' /\ StackInv'
  BY <1>4, <1>6 DEF DoDelete, IInv, TypeOK, QueuedOnce, BatchOnlyClosing, TimerInv, StackInv
<1>9. ProcInv'
  BY <1>3, <1>6, <1>7 DEF IInv, ProcInv
<1>10. NoDanglingProcess'
  <2>1. ASSUME NEW a \in App, (app[a].process # Null)'
        PROVE  (LET q == app[a].process IN
                 proc[q].role = "app" /\ proc[q].app = a /\ ~Deleting(q))'
    <3> DEFINE q == app[a].process
    <3>1. app' = app
      BY DEF DoDelete
    <3>2. q \in Proc /\ q # Null
      BY <2>1, <3>1 DEF IInv, TypeOK, AppState
    <3>3. proc[q].role = "app" /\ proc[q].app = a /\ ~Deleting(q)
      BY <3>2 DEF IInv, NoDanglingProcess
    <3>4. q # p
      BY <1>5, <3>3
    <3>5. ~Deleting(app[a].process)'
      BY <1>4 DEF Deleting
    <3> QED BY <1>6, <3>1, <3>2, <3>3, <3>4, <3>5
  <2> QED BY <2>1 DEF NoDanglingProcess
<1> QED BY <1>8, <1>9, <1>10 DEF IInv

-----------------------------------------------------------------------------
(* Steps of the loop. *)

\* Events that start a callback and make, end or delete no process.
LEMMA PlainEvents ==
    ASSUME IInv,
           \/ \E r \in Request, a \in App : ClientRequire(r, a)
           \/ \E p \in Proc, e \in ReadErr : ReadError(p, e)
           \/ \E t \in Timer : Tick(t)
           \/ \E a \in App : Expire(a)
    PROVE  IInv'
<1>1. /\ app \in [App -> AppState] /\ timer \in [Timer -> TimerState]
      /\ owed \in [Request -> Int] /\ proc \in [Proc -> Process]
      /\ \A t \in Timer : timer[t].status = "open" => timer[t].app \in App
  BY DEF IInv, TypeOK, TimerInv
<1>2. NothingNew(app)
  BY <1>1 DEF NothingNew
<1>3. ASSUME NEW r \in Request, NEW a \in App, ClientRequire(r, a)
      PROVE  IInv'
  <2>1. Require(a, r) \in PlainFrame
    BY PlainFramesMade DEF Waiter
  <2>2. Plain(<<Require(a, r)>>)
    BY <2>1, PlainFrames
  <2>3. Pushes(<<Require(a, r)>>)
    BY <1>3 DEF ClientRequire, Pushes
  <2>4. owed' \in [Request -> Int]
    BY <1>1, <1>3 DEF ClientRequire
  <2> QED BY <1>1, <1>2, <1>3, <2>2, <2>3, <2>4, PlainStep DEF ClientRequire
<1>4. ASSUME NEW p \in Proc, NEW e \in ReadErr, ReadError(p, e)
      PROVE  IInv'
  <2>1. proc[p].app \in App
    BY <1>4 DEF ReadError, IInv, ProcInv
  <2>2. AppError(proc[p].app, e) \in PlainFrame
    BY <2>1, PlainFramesMade, EnvironmentAssumption DEF Error
  <2>3. Plain(<<AppError(proc[p].app, e)>>)
    BY <2>2, PlainFrames
  <2>4. Pushes(<<AppError(proc[p].app, e)>>)
    BY <1>4 DEF ReadError, Pushes
  <2> QED BY <1>1, <1>2, <1>4, <2>3, <2>4, PlainStep DEF ReadError
<1>5. ASSUME NEW t \in Timer, Tick(t)
      PROVE  IInv'
  <2> DEFINE a == timer[t].app
  <2>1. a \in App /\ calls = <<>>
    BY <1>1, <1>5 DEF Tick, Idle
  <2>2. CASE CloseTimer(t) /\ UNCHANGED calls
    <3>1. Plain(<<>>) /\ Pushes(<<>>)
      BY <2>1, <2>2 DEF Plain, Pushes, Dispatch
    <3>2. /\ timer' \in [Timer -> TimerState]
          /\ \A u \in Timer : timer'[u].status = "open" => timer'[u].app \in App
          /\ UNCHANGED closing \/ \E u \in Timer : CloseHandles(<<u>>)
      BY <1>1, <2>2, CloseTimerTyped
    <3> QED BY <1>1, <1>2, <1>5, <3>1, <3>2, PlainStep DEF Tick
  <2>3. CASE Dispatch(<<Check(a, t), SetChecking(a, TRUE)>>) /\ UNCHANGED <<timer, closing>>
    <3>1. Check(a, t) \in PlainFrame /\ SetChecking(a, TRUE) \in PlainFrame
      BY <2>1, PlainFramesMade
    <3>2. /\ Plain(<<Check(a, t), SetChecking(a, TRUE)>>)
          /\ Pushes(<<Check(a, t), SetChecking(a, TRUE)>>)
      BY <2>3, <3>1, PlainFrames DEF Pushes
    <3> QED BY <1>1, <1>2, <1>5, <2>3, <3>2, PlainStep DEF Tick
  <2> QED BY <1>5, <2>2, <2>3 DEF Tick
<1>6. ASSUME NEW a \in App, Expire(a)
      PROVE  IInv'
  <2>1. Plain(<<>>) /\ Pushes(<<>>)
    BY <1>6 DEF Plain, Pushes, Dispatch, Expire, Idle, loopVars
  <2>2. NothingNew(app')
    <3>1. NothingNew([app EXCEPT ![a].late = TRUE])
      BY <1>1, NothingNewAssigned
    <3> QED BY <1>6, <3>1 DEF Expire
  <2> QED BY <1>1, <1>6, <2>1, <2>2, PlainStep DEF Expire, loopVars
<1> QED BY <1>3, <1>4, <1>5, <1>6

\* SIGCHLD.
LEMMA ExitStep ==
    ASSUME IInv, NEW p \in Proc, NEW s \in ExitStatus, Exit(p, s)
    PROVE  IInv'
<1>1. proc[p].role # "free" /\ proc[p].status \notin ExitStatus
  BY DEF Exit, ExitStatus, IInv, ProcInv
<1>2. Pushes(<<>>)
  BY DEF Exit, Pushes, Dispatch, Idle
<1> QED BY <1>1, <1>2, ProcessEnds DEF Exit

\* Frames of the close callback of a process.
DeletesLast(fs, p) ==
    /\ fs \in Seq(Frame) /\ Len(fs) > 0 /\ fs[Len(fs)] = Delete(p)
    /\ \A i \in DOMAIN fs : i # Len(fs) => fs[i].op \notin {"Delete", "StartFailed"}

\* The close callback of a process starts: the app has forgotten it.
LEMMA ProcessClosed ==
    ASSUME IInv, NEW p \in Proc, TakeClosed(p), NEW fs, DeletesLast(fs, p), Dispatch(fs),
           NothingNew(app'), \A a \in App : app'[a].process # p,
           UNCHANGED <<proc, timer, owed, phase, closing>>
    PROVE  IInv'
<1>1. /\ batch' \in Seq(Proc \cup Timer) /\ QueuedOnce'
      /\ Queued(p) /\ ~Queued(p)' /\ \A x : Queued(x)' => Queued(x)
  BY TakeKeepsQueue DEF IInv
<1>2. calls' = fs /\ fs \in Seq(Frame)
  BY DEF Dispatch, DeletesLast
<1>3. proc[p].role # "free" /\ proc[p].status \in ExitStatus
  BY <1>1 DEF IInv, ProcInv
<1>4. StackInv'
  <2>1. ASSUME NEW i \in DOMAIN fs
        PROVE  /\ fs[i].op = "Delete" => i = Len(fs) /\ fs[i].process = p
               /\ fs[i].op # "StartFailed"
    BY DEF DeletesLast, Delete
  <2> QED BY <1>1, <1>2, <1>3, <2>1 DEF StackInv
<1>5. TypeOK' /\ TimerInv'
  BY <1>1, <1>2 DEF IInv, TypeOK, TimerInv, NothingNew
<1>6. ProcInv' /\ BatchOnlyClosing'
  BY <1>1 DEF IInv, ProcInv, BatchOnlyClosing, TakeClosed
<1>7. NoDanglingProcess'
  <2>1. ASSUME NEW a \in App, (app[a].process # Null)'
        PROVE  (LET q == app[a].process IN
                 proc[q].role = "app" /\ proc[q].app = a /\ ~Deleting(q))'
    <3> DEFINE q == app[a].process
    <3>1. app'[a].process = q /\ q # p
      BY <2>1 DEF NothingNew
    <3>2. proc[q].role = "app" /\ proc[q].app = a
      BY <2>1, <3>1 DEF IInv, NoDanglingProcess
    <3>3. ASSUME NEW i \in DOMAIN fs, fs[i] = Delete(q) PROVE FALSE
      <4>1. fs[i].op = "Delete" /\ fs[i].process = q
        BY <3>3 DEF Delete
      <4>2. i = Len(fs)
        BY <4>1 DEF DeletesLast
      <4> QED BY <3>1, <4>1, <4>2 DEF DeletesLast, Delete
    <3>4. ~Deleting(app[a].process)'
      BY <1>2, <3>1, <3>3 DEF Deleting
    <3> QED BY <3>1, <3>2, <3>4
  <2> QED BY <2>1 DEF NoDanglingProcess
<1> QED BY <1>1, <1>4, <1>5, <1>6, <1>7 DEF IInv

\* Close callbacks of processes and timers.
LEMMA ClosedSteps ==
    ASSUME IInv, HandleClosed
    PROVE  IInv'
<1>1. /\ app \in [App -> AppState] /\ timer \in [Timer -> TimerState]
      /\ \A t \in Timer : timer[t].status = "open" => timer[t].app \in App
  BY DEF IInv, TypeOK, TimerInv
<1>2. ASSUME NEW p \in Proc, NEW g \in PlainFrame
      PROVE  DeletesLast(<<Delete(p)>>, p) /\ DeletesLast(<<g, Delete(p)>>, p)
  <2>1. Delete(p) \in Frame /\ g \in Frame /\ g.op \notin {"Delete", "StartFailed"}
    BY DEF PlainFrame, Frame, Delete
  <2>2. DeletesLast(<<Delete(p)>>, p)
    BY <2>1 DEF DeletesLast
  <2>3. DeletesLast(<<g, Delete(p)>>, p)
    BY <2>1 DEF DeletesLast
  <2> QED BY <2>2, <2>3
<1>3. ASSUME NEW p \in Proc, TakeClosed(p), UNCHANGED closing
      PROVE  proc[p].role # "free" /\ proc[p].status \in ExitStatus /\ proc[p].app \in App
  BY <1>3, TakeKeepsQueue DEF IInv, ProcInv
<1>4. ASSUME NEW p \in Proc, AppClosed(p)
      PROVE  IInv'
  <2> DEFINE a == proc[p].app
             again == proc[p].status # "ok" /\ app[a].restart
             tell == proc[p].status # "ok" /\ ~app[a].restart /\ a \notin Checked
  <2>1. TakeClosed(p) /\ a \in App /\ proc[p].status \in ExitStatus
    BY <1>3, <1>4 DEF AppClosed
  <2>2. PICK fs : DeletesLast(fs, p) /\ Dispatch(fs)
    <3>1. Start(a) \in PlainFrame /\ Clear(a, proc[p].status) \in PlainFrame
      BY <2>1, PlainFramesMade DEF Error, ExitStatus
    <3>2. /\ DeletesLast(<<Start(a), Delete(p)>>, p)
          /\ DeletesLast(<<Clear(a, proc[p].status), Delete(p)>>, p)
          /\ DeletesLast(<<Delete(p)>>, p)
      BY <1>2, <3>1
    <3> QED BY <1>4, <3>2 DEF AppClosed
  <2>3. app' = [app EXCEPT ![a].process = Null, ![a].restart = app[a].restart /\ ~again]
    BY <1>1, <1>4, <2>1 DEF AppClosed, AppState
  <2>4. (app[a].restart /\ ~again) \in BOOLEAN
    OBVIOUS
  <2>5. NothingNew(app')
    <3> HIDE DEF again
    <3>1. NothingNew([app EXCEPT ![a].process = Null, ![a].restart = app[a].restart /\ ~again])
      BY <1>1, <2>1, <2>4, NothingNewAssigned
    <3> QED BY <2>3, <3>1
  <2>6. \A d \in App : app'[d].process # p
    <3>1. app'[a].process = Null /\ \A d \in App : d # a => app'[d] = app[d]
      BY <1>1, <2>1, <2>3 DEF AppState
    <3>2. \A d \in App : d # a => app[d].process # p
      BY ConfigAssumption DEF IInv, NoDanglingProcess
    <3> QED BY <3>1, <3>2, ConfigAssumption
  <2> QED BY <1>4, <2>1, <2>2, <2>5, <2>6, ProcessClosed DEF AppClosed
<1>5. ASSUME NEW p \in Proc, CheckerClosed(p)
      PROVE  IInv'
  <2>1. /\ TakeClosed(p) /\ proc[p].app \in App /\ proc[p].status \in ExitStatus
        /\ proc[p].timer \in Timer \cup {Null} /\ proc[p].role = "checker"
    BY <1>3, <1>5 DEF CheckerClosed, IInv, TypeOK, Process
  <2>2. PICK fs : DeletesLast(fs, p) /\ Dispatch(fs)
    <3>1. CheckThen(proc[p].app, proc[p].timer, proc[p].status) \in PlainFrame
      BY <2>1, PlainFramesMade DEF Error, ExitStatus
    <3> QED BY <1>2, <1>5, <3>1 DEF CheckerClosed
  <2>3. NothingNew(app')
    BY <1>1, <1>5 DEF CheckerClosed, NothingNew
  <2>4. \A a \in App : app'[a].process # p
    BY <1>5, <2>1, ConfigAssumption DEF CheckerClosed, IInv, NoDanglingProcess
  <2> QED BY <1>5, <2>1, <2>2, <2>3, <2>4, ProcessClosed DEF CheckerClosed
<1>6. ASSUME NEW t \in Timer, TimerClosed(t)
      PROVE  IInv'
  <2>1. /\ batch' \in Seq(Proc \cup Timer) /\ QueuedOnce'
        /\ \A x : Queued(x)' => Queued(x)
    BY <1>6, TakeKeepsQueue DEF IInv, TimerClosed
  <2>2. /\ timer' \in [Timer -> TimerState]
        /\ \A u \in Timer : timer'[u].status = "open" => timer'[u].app \in App
    <3>1. NoTimer \in TimerState /\ NoTimer.status # "open"
      BY DEF NoTimer, TimerState
    <3> QED BY <1>1, <1>6, <3>1 DEF TimerClosed
  <2>3. TypeOK' /\ TimerInv'
    BY <1>6, <2>1, <2>2 DEF TimerClosed, IInv, TypeOK, TimerInv
  <2>4. ProcInv' /\ BatchOnlyClosing'
    BY <1>6, <2>1 DEF TimerClosed, TakeClosed, IInv, ProcInv, BatchOnlyClosing
  <2>5. calls = <<>> /\ calls' = <<>>
    BY <1>6 DEF TimerClosed, TakeClosed, Idle
  <2>6. StackInv'
    BY <2>5 DEF StackInv
  <2>7. NoDanglingProcess'
    <3>1. \A p \in Proc : ~Deleting(p)'
      BY <2>5 DEF Deleting
    <3> QED BY <1>1, <1>6, <2>5 DEF TimerClosed, IInv, NoDanglingProcess, Deleting, AppState
  <2> QED BY <2>1, <2>3, <2>4, <2>6, <2>7 DEF IInv
<1> QED BY <1>4, <1>5, <1>6 DEF HandleClosed

\* The phases of an iteration.
LEMMA LoopSteps ==
    ASSUME IInv, LoopStep
    PROVE  IInv'
<1>1. /\ calls = <<>> /\ calls' = <<>> /\ UNCHANGED <<app, proc, timer, owed>>
      /\ phase' \in Phase
  BY DEF LoopStep, Iterate, RunClosing, RunTimers, RunPoll, Idle, Phase
<1>2. /\ closing' \in Seq(Proc \cup Timer) /\ batch' \in Seq(Proc \cup Timer)
      /\ QueuedOnce' /\ BatchOnlyClosing' /\ \A h : Queued(h)' => Queued(h)
  <2>1. CASE RunClosing
    <3>1. batch = <<>> /\ batch' = closing /\ closing' = <<>> /\ phase' = "closing"
      BY <2>1 DEF RunClosing, IInv, BatchOnlyClosing
    <3>2. DOMAIN closing' = {}
      BY <3>1
    <3>3. QueuedOnce'
      BY <3>1, <3>2 DEF IInv, QueuedOnce
    <3>4. \A h : Queued(h)' => Queued(h)
      BY <3>1, <3>2 DEF Queued
    <3> QED BY <3>1, <3>3, <3>4 DEF IInv, TypeOK, BatchOnlyClosing
  <2>2. CASE RunTimers
    <3>1. UNCHANGED <<closing, batch>> /\ batch = <<>>
      BY <2>2 DEF RunTimers
    <3> QED BY <3>1 DEF IInv, TypeOK, QueuedOnce, BatchOnlyClosing, Queued
  <2>3. CASE RunPoll
    <3>1. UNCHANGED <<closing, batch>>
      BY <2>3 DEF RunPoll
    <3>2. phase = "timers" /\ batch = <<>>
      BY <2>3 DEF RunPoll, IInv, BatchOnlyClosing
    <3> QED BY <3>1, <3>2 DEF IInv, TypeOK, QueuedOnce, BatchOnlyClosing, Queued
  <2> QED BY <2>1, <2>2, <2>3 DEF LoopStep, Iterate
<1>3. TypeOK' /\ TimerInv' /\ ProcInv'
  BY <1>1, <1>2 DEF IInv, TypeOK, TimerInv, ProcInv
<1>4. StackInv' /\ NoDanglingProcess'
  BY <1>1 DEF StackInv, NoDanglingProcess, Deleting, IInv
<1> QED BY <1>2, <1>3, <1>4 DEF IInv

-----------------------------------------------------------------------------
(* The theorems. *)

LEMMA Initially == Init => IInv
<1> SUFFICES ASSUME Init PROVE IInv
  OBVIOUS
<1>1. /\ closing = <<>> /\ batch = <<>> /\ calls = <<>> /\ phase = "poll"
  BY DEF Init, LoopInit
<1>2. TypeOK
  <2>1. app \in [App -> AppState]
    <3>1. <<>> \in Seq(Waiter)
      OBVIOUS
    <3> QED BY <3>1 DEF Init, AppState
  <2>2. proc \in [Proc -> Process] /\ timer \in [Timer -> TimerState]
    BY DEF Init, NoProcess, Process, NoTimer, TimerState
  <2>3. closing \in Seq(Proc \cup Timer) /\ batch \in Seq(Proc \cup Timer)
    BY <1>1
  <2>4. calls \in Seq(Frame)
    BY <1>1
  <2> QED BY <1>1, <2>1, <2>2, <2>3, <2>4 DEF TypeOK, Phase, Init
<1>3. QueuedOnce /\ BatchOnlyClosing /\ StackInv
  BY <1>1 DEF QueuedOnce, BatchOnlyClosing, StackInv
<1>4. ProcInv /\ TimerInv
  BY <1>1 DEF Init, ProcInv, TimerInv, Queued, NoProcess, NoTimer
<1>5. NoDanglingProcess
  BY DEF Init, NoDanglingProcess
<1> QED BY <1>2, <1>3, <1>4, <1>5 DEF IInv

LEMMA Inductive == IInv /\ [Next]_vars => IInv'
<1> SUFFICES ASSUME IInv, [Next]_vars PROVE IInv'
  OBVIOUS
<1>1. CASE UNCHANGED vars
  <2>1. UNCHANGED <<app, proc, timer, owed, phase, closing, batch, calls>>
    BY <1>1 DEF vars, loopVars
  <2>2. /\ TypeOK' /\ QueuedOnce' /\ BatchOnlyClosing' /\ TimerInv'
    BY <2>1 DEF IInv, TypeOK, QueuedOnce, BatchOnlyClosing, TimerInv
  <2>3. ProcInv' /\ StackInv'
    BY <2>1 DEF IInv, ProcInv, StackInv, Queued
  <2>4. NoDanglingProcess'
    BY <2>1 DEF IInv, NoDanglingProcess, Deleting
  <2> QED BY <2>2, <2>3, <2>4 DEF IInv
<1>2. CASE Call
  BY <1>2, RequireSteps, StartSteps, AnswerSteps, MakeSteps, StartFailedStep, DeleteStep
     DEF Call
<1>3. CASE LoopStep
  BY <1>3, LoopSteps
<1>4. CASE HandleClosed
  BY <1>4, ClosedSteps
<1>5. CASE \E p \in Proc, s \in ExitStatus : Exit(p, s)
  BY <1>5, ExitStep
<1>6. CASE \/ \E r \in Request, a \in App : ClientRequire(r, a)
           \/ \E p \in Proc, e \in ReadErr : ReadError(p, e)
           \/ \E t \in Timer : Tick(t)
           \/ \E a \in App : Expire(a)
  BY <1>6, PlainEvents
<1> QED BY <1>1, <1>2, <1>3, <1>4, <1>5, <1>6 DEF Next

\* Whatever the configuration and the outcomes of spawns, exits and reads,
\* the state and the frames keep their types (process_manager.h:12-22).
THEOREM TypeCorrect == Spec => []TypeOK
<1>1. IInv => TypeOK
  BY DEF IInv
<1> QED BY <1>1, Initially, Inductive, PTL DEF Spec

\* App::process is null or a live Process of that app, in every callback
\* and between them (process_manager.cc:34-65, process.cc:127-142).
THEOREM ProcessNeverDangles == Spec => []NoDanglingProcess
<1>1. IInv => NoDanglingProcess
  BY DEF IInv
<1> QED BY <1>1, Initially, Inductive, PTL DEF Spec

-----------------------------------------------------------------------------
(* Callers.  What follows needs preambles that do not need each other.     *)

\* Apps can be numbered so that each has a greater number than its preambles.
Numbers == {rank \in [App -> Nat] :
              \A a \in App : \A i \in DOMAIN Preamble[a] : rank[Preamble[a][i]] < rank[a]}
Acyclic == Numbers # {}
Rank == CHOOSE rank \in Numbers : TRUE
Later(b, a) == Rank[a] < Rank[b]

\* What may run inside ClearCallbacks of app a: its closures, and what an app
\* that waited for it does when it is told.
Above(f, a) ==
    \/ f.op = "Invoke" /\ f.app = a
    \/ f.op \in {"Invoke", "StartThen", "AppError", "Clear", "Cleared"} /\ Later(f.app, a)
    \/ f.op = "StartFailed"
Nested(s) == \A i, j \in DOMAIN s : i < j /\ s[j].op = "Cleared" => Above(s[i], s[j].app)

\* Who waits for an app because of a preamble needs it.
FramesOrdered(s) ==
    \A i \in DOMAIN s : s[i].op \in {"Require", "Invoke"} /\ s[i].then \in App
                          => Later(s[i].then, s[i].app)
Ordered(vectors) ==
    \A a \in App : \A i \in DOMAIN vectors[a] : vectors[a][i] \in App => Later(vectors[a][i], a)

\* The places of a closure, as functions of the vectors, the apps whose
\* vector ClearCallbacks runs through, and the stack.
Owes(f, w) == f.op \in {"Require", "Invoke"} /\ f.then = w
FramesIn(s, w) == {i \in DOMAIN s : Owes(s[i], w)}
Count(s, w) == Cardinality(FramesIn(s, w))
PlacesIn(vectors, busy, w) ==
    UNION {{<<a, i>> : i \in {j \in DOMAIN vectors[a] : vectors[a][j] = w}} : a \in App \ busy}
Vectors == [a \in App |-> app[a].callbacks]
Busy == {a \in App : Clearing(a)}

Kept(vectors, busy, s, o) ==
    \A r \in Request :
        /\ IsFiniteSet(PlacesIn(vectors, busy, r))
        /\ o[r] = Cardinality(PlacesIn(vectors, busy, r)) + Count(s, r)
        /\ o[r] \in {0, 1}

\* The closure w is kept n times.
HasCopies(w, n) ==
    /\ IsFiniteSet(PlacesIn(Vectors, Busy, w))
    /\ n = Cardinality(PlacesIn(Vectors, Busy, w)) + Count(calls, w)
CopiesStay == \A w \in Waiter, n \in Int : HasCopies(w, n) => HasCopies(w, n)'

KInv == /\ Nested(calls) /\ FramesOrdered(calls) /\ Ordered(Vectors)
        /\ Kept(Vectors, Busy, calls, owed)

-----------------------------------------------------------------------------
(* Counting. *)

LEMMA Numbered ==
    ASSUME Acyclic
    PROVE  /\ \A a \in App : ~Later(a, a)
           /\ \A a, b, c \in App : Later(c, b) /\ Later(b, a) => Later(c, a)
           /\ \A a \in App : \A i \in DOMAIN Preamble[a] : Later(a, Preamble[a][i])
<1>1. Rank \in Numbers
  BY DEF Acyclic, Rank
<1>2. /\ Rank \in [App -> Nat]
      /\ \A a \in App : \A i \in DOMAIN Preamble[a] : Rank[Preamble[a][i]] < Rank[a]
  BY <1>1 DEF Numbers
<1> QED BY <1>2 DEF Later

LEMMA Joins ==
    ASSUME NEW s \in Seq(Frame), NEW t \in Seq(Frame)
    PROVE  /\ s \o t \in Seq(Frame) /\ Len(s) \in Nat
           /\ \A i \in DOMAIN (s \o t) :
                \/ i \in DOMAIN s /\ (s \o t)[i] = s[i]
                \/ i - Len(s) \in DOMAIN t /\ (s \o t)[i] = t[i - Len(s)]
           /\ \A i \in DOMAIN s : i \in DOMAIN (s \o t) /\ (s \o t)[i] = s[i]
           /\ \A i \in DOMAIN t : i + Len(s) \in DOMAIN (s \o t) /\ (s \o t)[i + Len(s)] = t[i]
           /\ \A i \in DOMAIN (s \o t) : i \in Int
           /\ \A i \in DOMAIN s : i \in Int /\ i <= Len(s)
           /\ \A i \in DOMAIN t : i \in Int /\ 0 < i
OBVIOUS

LEMMA FramesFinite ==
    ASSUME NEW s \in Seq(Frame), NEW w
    PROVE  IsFiniteSet(FramesIn(s, w)) /\ Count(s, w) \in Nat
<1>1. Len(s) \in Int /\ DOMAIN s = 1..Len(s)
  OBVIOUS
<1>2. IsFiniteSet(1..Len(s)) /\ FramesIn(s, w) \in SUBSET (1..Len(s))
  BY <1>1, FS_Interval DEF FramesIn
<1>3. IsFiniteSet(FramesIn(s, w))
  BY <1>2, FS_Subset
<1> QED BY <1>3, FS_CardinalityType DEF Count

LEMMA CountJoined ==
    ASSUME NEW s \in Seq(Frame), NEW t \in Seq(Frame), NEW w
    PROVE  Count(s \o t, w) = Count(s, w) + Count(t, w)
<1> DEFINE u == s \o t
           S == FramesIn(s, w)
           T == FramesIn(t, w)
           U == {i + Len(s) : i \in T}
<1>1. /\ Len(s) \in Nat
      /\ \A i \in DOMAIN u : \/ i \in DOMAIN s /\ u[i] = s[i]
                             \/ i - Len(s) \in DOMAIN t /\ u[i] = t[i - Len(s)]
      /\ \A i \in DOMAIN s : i \in DOMAIN u /\ u[i] = s[i]
      /\ \A i \in DOMAIN t : i + Len(s) \in DOMAIN u /\ u[i + Len(s)] = t[i]
      /\ \A i \in DOMAIN u : i \in Int
      /\ \A i \in DOMAIN s : i \in Int /\ i <= Len(s)
      /\ \A i \in DOMAIN t : i \in Int /\ 0 < i
  BY Joins
<1> HIDE DEF u
<1>2. FramesIn(u, w) = S \cup U
  <2>1. ASSUME NEW i \in FramesIn(u, w) PROVE i \in S \cup U
    <3>1. CASE i \in DOMAIN s /\ u[i] = s[i]
      BY <2>1, <3>1 DEF FramesIn
    <3>2. CASE i - Len(s) \in DOMAIN t /\ u[i] = t[i - Len(s)]
      <4>1. i - Len(s) \in T /\ i = (i - Len(s)) + Len(s)
        BY <1>1, <2>1, <3>2 DEF FramesIn
      <4> QED BY <4>1
    <3> QED BY <1>1, <2>1, <3>1, <3>2 DEF FramesIn
  <2>2. ASSUME NEW i \in S \cup U PROVE i \in FramesIn(u, w)
    BY <1>1 DEF FramesIn
  <2> QED BY <2>1, <2>2
<1>3. S \cap U = {}
  <2> SUFFICES ASSUME NEW i \in S, NEW j \in T, i = j + Len(s) PROVE FALSE
    OBVIOUS
  <2> QED BY <1>1 DEF FramesIn
<1>4. IsFiniteSet(S) /\ IsFiniteSet(T) /\ Cardinality(S) \in Nat /\ Cardinality(T) \in Nat
  BY FramesFinite DEF Count
<1>5. ExistsBijection(T, U)
  <2> DEFINE f == [i \in T |-> i + Len(s)]
  <2>1. T \subseteq Int
    BY <1>1 DEF FramesIn
  <2>2. f \in Injection(T, U)
    BY <1>1, <2>1 DEF Injection, IsInjective
  <2>3. f \in Surjection(T, U)
    BY DEF Surjection
  <2> QED BY <2>2, <2>3 DEF Bijection, ExistsBijection
<1>6. IsFiniteSet(U) /\ Cardinality(U) = Cardinality(T)
  BY <1>4, <1>5, FS_Bijection
<1> HIDE DEF S, T, U
<1>7. Cardinality(S \cup U) = Cardinality(S) + Cardinality(U) - Cardinality(S \cap U)
  BY <1>4, <1>6, FS_Union
<1>8. Cardinality(S \cap U) = 0
  BY <1>3, FS_EmptySet
<1>9. Cardinality(S \cup U) = Cardinality(S) + Cardinality(T)
  BY <1>4, <1>6, <1>7, <1>8
<1> QED BY <1>2, <1>9 DEF Count, S, T, u

LEMMA CountNone ==
    ASSUME NEW s, NEW w, \A i \in DOMAIN s : ~Owes(s[i], w)
    PROVE  Count(s, w) = 0
<1>1. FramesIn(s, w) = {}
  BY DEF FramesIn
<1> QED BY <1>1, FS_EmptySet DEF Count

LEMMA CountOne ==
    ASSUME NEW f \in Frame, NEW w
    PROVE  Count(<<f>>, w) = IF Owes(f, w) THEN 1 ELSE 0
<1>1. DOMAIN <<f>> = {1} /\ <<f>>[1] = f
  OBVIOUS
<1>2. CASE Owes(f, w)
  <2>1. FramesIn(<<f>>, w) = {1}
    BY <1>1, <1>2 DEF FramesIn
  <2> QED BY <1>2, <2>1, FS_Singleton DEF Count
<1>3. CASE ~Owes(f, w)
  BY <1>1, <1>3, CountNone
<1> QED BY <1>2, <1>3

LEMMA HeadAndTail ==
    ASSUME NEW s \in Seq(Frame), s # <<>>
    PROVE  /\ <<Head(s)>> \in Seq(Frame) /\ Tail(s) \in Seq(Frame)
           /\ Head(s) \in Frame /\ Head(s) = s[1] /\ 1 \in DOMAIN s
           /\ s = <<Head(s)>> \o Tail(s)
           /\ \A i \in DOMAIN Tail(s) :
                i \in Int /\ 0 < i /\ i + 1 \in DOMAIN s /\ Tail(s)[i] = s[i + 1]
           /\ \A i \in DOMAIN s : i # 1 => i - 1 \in DOMAIN Tail(s) /\ Tail(s)[i - 1] = s[i]
<1>1. /\ <<Head(s)>> \in Seq(Frame) /\ Tail(s) \in Seq(Frame)
      /\ Head(s) \in Frame /\ Head(s) = s[1] /\ 1 \in DOMAIN s /\ Len(s) \in Nat \ {0}
      /\ Len(Tail(s)) = Len(s) - 1
      /\ \A i \in DOMAIN Tail(s) : i \in Int /\ 0 < i /\ i + 1 \in DOMAIN s /\ Tail(s)[i] = s[i + 1]
      /\ \A i \in DOMAIN s : i # 1 => i - 1 \in DOMAIN Tail(s) /\ Tail(s)[i - 1] = s[i]
  OBVIOUS
<1> DEFINE t == Tail(s)
           h == <<Head(s)>>
<1>2. Len(h) = 1 /\ h[1] = s[1] /\ h \in Seq(Frame) /\ t \in Seq(Frame) /\ Len(t) = Len(s) - 1
  BY <1>1
<1>3. /\ h \o t \in Seq(Frame) /\ Len(h \o t) = 1 + Len(t)
      /\ \A i \in 1..Len(h \o t) : (h \o t)[i] = IF i <= 1 THEN h[i] ELSE t[i - 1]
  BY <1>2
<1>4. \A i \in 1..Len(s) : (h \o t)[i] = s[i]
  <2> SUFFICES ASSUME NEW i \in 1..Len(s) PROVE (h \o t)[i] = s[i]
    OBVIOUS
  <2>1. i \in 1..Len(h \o t) /\ i \in DOMAIN s /\ i \in Int /\ 1 <= i
    BY <1>1, <1>2, <1>3
  <2>2. CASE i = 1
    BY <1>2, <1>3, <2>1, <2>2
  <2>3. CASE i # 1
    <3>1. ~(i <= 1)
      BY <2>1, <2>3
    <3> QED BY <1>1, <1>3, <2>1, <2>3, <3>1
  <2> QED BY <2>2, <2>3
<1>5. Len(h \o t) = Len(s)
  BY <1>1, <1>2, <1>3
<1> HIDE DEF h, t
<1>6. h \o t = s
  BY <1>3, <1>4, <1>5, SeqEqual
<1> QED BY <1>1, <1>6 DEF h, t

\* What the step of a frame does to a count.
LEMMA StackCounts ==
    ASSUME calls \in Seq(Frame), calls # <<>>, NEW fs \in Seq(Frame), Continue(fs), NEW w
    PROVE  \E n \in Nat :
             /\ Count(calls, w) = (IF Owes(Head(calls), w) THEN 1 ELSE 0) + n
             /\ Count(calls', w) = Count(fs, w) + n
<1>1. /\ <<Head(calls)>> \in Seq(Frame) /\ Tail(calls) \in Seq(Frame)
      /\ Head(calls) \in Frame /\ calls = <<Head(calls)>> \o Tail(calls)
  BY HeadAndTail
<1> DEFINE h == <<Head(calls)>>
           t == Tail(calls)
<1>2. calls = h \o t /\ calls' = fs \o t /\ h \in Seq(Frame) /\ t \in Seq(Frame)
  BY <1>1 DEF Continue
<1> HIDE DEF h, t
<1>3. Count(h \o t, w) = Count(h, w) + Count(t, w) /\ Count(fs \o t, w) = Count(fs, w) + Count(t, w)
  BY <1>2, CountJoined
<1>4. /\ Count(calls, w) = Count(h, w) + Count(t, w)
      /\ Count(calls', w) = Count(fs, w) + Count(t, w)
      /\ Count(t, w) \in Nat
  BY <1>2, <1>3, FramesFinite
<1>5. Count(h, w) = IF Owes(Head(calls), w) THEN 1 ELSE 0
  BY <1>1, CountOne DEF h
<1> QED BY <1>4, <1>5

\* The places of a closure.
LEMMA PlacesAre ==
    ASSUME NEW vectors, NEW busy, NEW w
    PROVE  \A z : z \in PlacesIn(vectors, busy, w) <=>
             \E a \in App : /\ a \notin busy
                            /\ \E i \in DOMAIN vectors[a] : z = <<a, i>> /\ vectors[a][i] = w
BY DEF PlacesIn

SameWaiters(vectors, busy, vectors2, busy2) ==
    \A a \in App : \/ (a \in busy <=> a \in busy2) /\ vectors[a] = vectors2[a]
                   \/ a \in busy /\ vectors2[a] = <<>>

LEMMA PlacesSame ==
    ASSUME NEW vectors, NEW busy, NEW vectors2, NEW busy2, NEW w,
           SameWaiters(vectors, busy, vectors2, busy2)
    PROVE  PlacesIn(vectors, busy, w) = PlacesIn(vectors2, busy2, w)
<1>1. ASSUME NEW z PROVE z \in PlacesIn(vectors, busy, w) <=> z \in PlacesIn(vectors2, busy2, w)
  <2>1. DOMAIN <<>> = {}
    OBVIOUS
  <2>2. z \in PlacesIn(vectors, busy, w) <=>
             \E a \in App : /\ a \notin busy
                            /\ \E i \in DOMAIN vectors[a] : z = <<a, i>> /\ vectors[a][i] = w
    BY PlacesAre
  <2>3. z \in PlacesIn(vectors2, busy2, w) <=>
             \E a \in App : /\ a \notin busy2
                            /\ \E i \in DOMAIN vectors2[a] : z = <<a, i>> /\ vectors2[a][i] = w
    BY PlacesAre
  <2> QED BY <2>1, <2>2, <2>3 DEF SameWaiters
<1> QED BY <1>1

\* A closure is appended to a vector.
Adds(more, vectors, a, w) == more = [vectors EXCEPT ![a] = Append(@, w)]

LEMMA PlacesAppended ==
    ASSUME NEW vectors \in [App -> Seq(Waiter)], NEW a \in App, NEW w \in Waiter,
           NEW r, NEW more, Adds(more, vectors, a, w)
    PROVE  IF w = r
           THEN /\ PlacesIn(more, {}, r) =
                     PlacesIn(vectors, {}, r) \cup {<<a, Len(vectors[a]) + 1>>}
                /\ <<a, Len(vectors[a]) + 1>> \notin PlacesIn(vectors, {}, r)
           ELSE PlacesIn(more, {}, r) = PlacesIn(vectors, {}, r)
<1> DEFINE c == vectors[a]
           n == Len(c) + 1
           d == Append(c, w)
<1>1. /\ c \in Seq(Waiter) /\ more[a] = d /\ \A b \in App : b # a => more[b] = vectors[b]
  BY DEF Adds
<1>2. /\ n \in Nat /\ n \notin DOMAIN c /\ n \in DOMAIN d /\ d[n] = w
      /\ \A i \in DOMAIN c : i \in DOMAIN d /\ d[i] = c[i] /\ i # n
      /\ \A i \in DOMAIN d : i # n => i \in DOMAIN c
  BY <1>1
<1>3. \A z : z \in PlacesIn(vectors, {}, r) <=>
             \E b \in App : \E i \in DOMAIN vectors[b] : z = <<b, i>> /\ vectors[b][i] = r
  BY PlacesAre
<1>4. \A z : z \in PlacesIn(more, {}, r) <=>
             \E b \in App : \E i \in DOMAIN more[b] : z = <<b, i>> /\ more[b][i] = r
  BY PlacesAre
<1> DEFINE old == PlacesIn(vectors, {}, r)
           new == PlacesIn(more, {}, r)
<1> HIDE DEF c, n, d, old, new
<1>5. <<a, n>> \notin old
  BY <1>2, <1>3 DEF old, c
<1>6. ASSUME NEW z \in old PROVE z \in new
  <2>1. PICK b \in App : \E i \in DOMAIN vectors[b] : z = <<b, i>> /\ vectors[b][i] = r
    BY <1>3, <1>6 DEF old
  <2> PICK i \in DOMAIN vectors[b] : z = <<b, i>> /\ vectors[b][i] = r
    BY <2>1
  <2>2. i \in DOMAIN more[b] /\ more[b][i] = r
    BY <1>1, <1>2, <2>1 DEF c
  <2> QED BY <1>4, <2>1, <2>2 DEF new
<1>7. ASSUME NEW z \in new PROVE z \in old \/ (z = <<a, n>> /\ w = r)
  <2>1. PICK b \in App : \E i \in DOMAIN more[b] : z = <<b, i>> /\ more[b][i] = r
    BY <1>4, <1>7 DEF new
  <2> PICK i \in DOMAIN more[b] : z = <<b, i>> /\ more[b][i] = r
    BY <2>1
  <2>2. CASE b = a /\ i = n
    BY <1>1, <1>2, <2>1, <2>2
  <2>3. CASE ~(b = a /\ i = n)
    <3>1. i \in DOMAIN vectors[b] /\ vectors[b][i] = r
      BY <1>1, <1>2, <2>1, <2>3 DEF c
    <3> QED BY <1>3, <2>1, <3>1 DEF old
  <2> QED BY <2>2, <2>3
<1>8. w = r => <<a, n>> \in new
  <2> SUFFICES ASSUME w = r PROVE <<a, n>> \in new
    OBVIOUS
  <2>1. n \in DOMAIN more[a] /\ more[a][n] = r
    BY <1>1, <1>2
  <2> QED BY <1>4, <2>1 DEF new
<1>9. w = r => new = old \cup {<<a, n>>} /\ <<a, n>> \notin old
  <2> DEFINE z == <<a, n>>
  <2> HIDE DEF z
  <2>1. w = r => new = old \cup {z} /\ z \notin old
    BY <1>5, <1>6, <1>7, <1>8 DEF z
  <2> QED BY <2>1 DEF z
<1>10. w # r => new = old
  BY <1>6, <1>7
<1> QED BY <1>9, <1>10 DEF new, old, n, c

\* ClearCallbacks begins to run through the vector of a.
At(vector, r) == {i \in DOMAIN vector : vector[i] = r}

LEMMA PlacesTaken ==
    ASSUME NEW vectors \in [App -> Seq(Waiter)], NEW a \in App, NEW busy, a \notin busy,
           NEW r, IsFiniteSet(PlacesIn(vectors, busy, r))
    PROVE  /\ IsFiniteSet(PlacesIn(vectors, busy \cup {a}, r))
           /\ Cardinality(PlacesIn(vectors, busy, r)) =
                Cardinality(PlacesIn(vectors, busy \cup {a}, r)) + Cardinality(At(vectors[a], r))
<1> DEFINE some == {i \in DOMAIN vectors[a] : vectors[a][i] = r}
           mine == {<<a, i>> : i \in some}
           old == PlacesIn(vectors, busy, r)
           new == PlacesIn(vectors, busy \cup {a}, r)
<1>1. \A z : z \in old <=>
             \E b \in App : /\ b \notin busy
                            /\ \E i \in DOMAIN vectors[b] : z = <<b, i>> /\ vectors[b][i] = r
  BY PlacesAre
<1>2. \A z : z \in new <=>
             \E b \in App : /\ b \notin busy \cup {a}
                            /\ \E i \in DOMAIN vectors[b] : z = <<b, i>> /\ vectors[b][i] = r
  BY PlacesAre
<1>3. IsFiniteSet(old)
  OBVIOUS
<1>4. IsFiniteSet(some)
  <2>1. vectors[a] \in Seq(Waiter)
    OBVIOUS
  <2>2. Len(vectors[a]) \in Int /\ DOMAIN vectors[a] = 1..Len(vectors[a])
    BY <2>1
  <2>3. IsFiniteSet(1..Len(vectors[a])) /\ some \in SUBSET (1..Len(vectors[a]))
    BY <2>2, FS_Interval
  <2> QED BY <2>3, FS_Subset
<1>5. ExistsBijection(some, mine)
  <2> DEFINE f == [i \in some |-> <<a, i>>]
  <2>1. f \in Injection(some, mine)
    BY DEF Injection, IsInjective
  <2>2. f \in Surjection(some, mine)
    BY DEF Surjection
  <2> QED BY <2>1, <2>2 DEF Bijection, ExistsBijection
<1>6. IsFiniteSet(mine) /\ Cardinality(mine) = Cardinality(some)
  BY <1>4, <1>5, FS_Bijection
<1>7. \A z : z \in mine <=> \E i \in DOMAIN vectors[a] : z = <<a, i>> /\ vectors[a][i] = r
  OBVIOUS
<1> HIDE DEF old, new, mine, some
<1>8. old = new \cup mine
  BY <1>1, <1>2, <1>7
<1>9. new \cap mine = {}
  BY <1>2, <1>7
<1>10. IsFiniteSet(new)
  BY <1>3, <1>8, FS_Subset
<1>11. Cardinality(new \cap mine) = 0 /\ Cardinality(new) \in Nat /\ Cardinality(mine) \in Nat
  BY <1>6, <1>9, <1>10, FS_EmptySet, FS_CardinalityType
<1>12. Cardinality(new \cup mine) =
         Cardinality(new) + Cardinality(mine) - Cardinality(new \cap mine)
  BY <1>6, <1>10, FS_Union
<1>13. Cardinality(old) = Cardinality(new) + Cardinality(some)
  BY <1>6, <1>8, <1>11, <1>12
<1> QED BY <1>10, <1>13 DEF old, new, some, At

-----------------------------------------------------------------------------
(* The stack. *)

\* Frames that may replace f.
Replaces(fs, f) ==
    /\ fs \in Seq(Frame) /\ Nested(fs) /\ FramesOrdered(fs)
    /\ \A i \in DOMAIN fs, a \in App : Above(f, a) => Above(fs[i], a)

LEMMA StackNested ==
    ASSUME calls \in Seq(Frame), calls # <<>>, Nested(calls), FramesOrdered(calls),
           NEW fs, Replaces(fs, Head(calls)), Continue(fs)
    PROVE  Nested(calls') /\ FramesOrdered(calls')
<1> DEFINE t == Tail(calls)
           u == fs \o t
<1>1. /\ t \in Seq(Frame) /\ Head(calls) = calls[1] /\ 1 \in DOMAIN calls
      /\ \A i \in DOMAIN t : i \in Int /\ 0 < i /\ i + 1 \in DOMAIN calls /\ t[i] = calls[i + 1]
  BY HeadAndTail
<1>2. calls' = u /\ fs \in Seq(Frame)
  BY DEF Continue, Replaces
<1>3. /\ Len(fs) \in Nat
      /\ \A i \in DOMAIN u : \/ i \in DOMAIN fs /\ u[i] = fs[i]
                             \/ i - Len(fs) \in DOMAIN t /\ u[i] = t[i - Len(fs)]
      /\ \A i \in DOMAIN u : i \in Int
      /\ \A i \in DOMAIN fs : i \in Int /\ i <= Len(fs)
  BY <1>1, <1>2, Joins
<1> HIDE DEF t, u
<1>4. ASSUME NEW i \in DOMAIN u, NEW j \in DOMAIN u, i < j, u[j].op = "Cleared"
      PROVE  Above(u[i], u[j].app)
  <2>1. CASE j \in DOMAIN fs /\ u[j] = fs[j]
    <3>1. i \in DOMAIN fs /\ u[i] = fs[i]
      <4>1. ASSUME i - Len(fs) \in DOMAIN t PROVE FALSE
        BY <1>1, <1>3, <1>4, <2>1, <4>1
      <4> QED BY <1>3, <4>1
    <3> QED BY <1>4, <2>1, <3>1 DEF Replaces, Nested
  <2>2. CASE j - Len(fs) \in DOMAIN t /\ u[j] = t[j - Len(fs)]
    <3> DEFINE n == j - Len(fs) + 1
    <3>1. n \in DOMAIN calls /\ n \in Int /\ 1 < n /\ u[j] = calls[n]
      BY <1>1, <2>2
    <3>2. CASE i \in DOMAIN fs /\ u[i] = fs[i]
      <4>1. Above(calls[1], calls[n].app)
        BY <1>1, <1>4, <3>1 DEF Nested
      <4>2. calls[n].app \in App
        BY <1>4, <3>1, FrameFields
      <4> QED BY <1>1, <3>1, <3>2, <4>1, <4>2 DEF Replaces
    <3>3. CASE i - Len(fs) \in DOMAIN t /\ u[i] = t[i - Len(fs)]
      <4> DEFINE m == i - Len(fs) + 1
      <4>1. m \in DOMAIN calls /\ u[i] = calls[m] /\ m < n
        <5>1. PICK l \in Nat : l = Len(fs)
          BY <1>3
        <5>2. i - l \in DOMAIN t /\ u[i] = t[i - l]
          BY <3>3, <5>1
        <5>3. (i - l) + 1 \in DOMAIN calls /\ t[i - l] = calls[(i - l) + 1]
          BY <1>1, <5>2
        <5>4. m = (i - l) + 1 /\ n = (j - l) + 1
          BY <5>1
        <5>5. i \in Int /\ j \in Int /\ i < j
          BY <1>3, <1>4
        <5>6. (i - l) + 1 < (j - l) + 1
          BY <5>5
        <5> QED BY <5>2, <5>3, <5>4, <5>6
      <4> HIDE DEF m, n
      <4> QED BY <1>4, <3>1, <4>1 DEF Nested
    <3> QED BY <1>3, <3>2, <3>3
  <2> QED BY <1>3, <2>1, <2>2
<1>5. ASSUME NEW i \in DOMAIN u, u[i].op \in {"Require", "Invoke"}, u[i].then \in App
      PROVE  Later(u[i].then, u[i].app)
  <2>1. CASE i \in DOMAIN fs /\ u[i] = fs[i]
    BY <1>5, <2>1 DEF Replaces, FramesOrdered
  <2>2. CASE i - Len(fs) \in DOMAIN t /\ u[i] = t[i - Len(fs)]
    <3>1. PICK m \in DOMAIN calls : u[i] = calls[m]
      BY <1>1, <2>2
    <3> QED BY <1>5, <3>1 DEF FramesOrdered
  <2> QED BY <1>3, <2>1, <2>2
<1> QED BY <1>2, <1>4, <1>5 DEF Nested, FramesOrdered

\* Which vectors ClearCallbacks runs through after the step of a frame.
LEMMA BusyAfter ==
    ASSUME calls \in Seq(Frame), calls # <<>>, NEW fs \in Seq(Frame), Continue(fs), NEW a
    PROVE  /\ Clearing(a)' <=> \/ \E i \in DOMAIN fs : fs[i] = Cleared(a)
                               \/ \E j \in DOMAIN calls : j # 1 /\ calls[j] = Cleared(a)
<1> DEFINE t == Tail(calls)
           u == fs \o t
<1>1. /\ t \in Seq(Frame)
      /\ \A i \in DOMAIN t : i \in Int /\ 0 < i /\ i + 1 \in DOMAIN calls /\ t[i] = calls[i + 1]
      /\ \A i \in DOMAIN calls : i # 1 => i - 1 \in DOMAIN t /\ t[i - 1] = calls[i]
  BY HeadAndTail
<1>2. calls' = u
  BY DEF Continue
<1>3. /\ Len(fs) \in Nat
      /\ \A i \in DOMAIN u : \/ i \in DOMAIN fs /\ u[i] = fs[i]
                             \/ i - Len(fs) \in DOMAIN t /\ u[i] = t[i - Len(fs)]
      /\ \A i \in DOMAIN fs : i \in DOMAIN u /\ u[i] = fs[i]
      /\ \A i \in DOMAIN t : i + Len(fs) \in DOMAIN u /\ u[i + Len(fs)] = t[i]
  BY <1>1, Joins
<1> HIDE DEF t, u
<1>4. Clearing(a)' <=> \E i \in DOMAIN u : u[i] = Cleared(a)
  BY <1>2 DEF Clearing, Cleared
<1>5. ASSUME NEW i \in DOMAIN t PROVE i + 1 # 1
  BY <1>1
<1>6. (\E i \in DOMAIN t : t[i] = Cleared(a))
        <=> \E j \in DOMAIN calls : j # 1 /\ calls[j] = Cleared(a)
  BY <1>1, <1>5
<1> QED BY <1>3, <1>4, <1>6

\* A frame that may not run inside ClearCallbacks does not.
LEMMA NoneIsBusy ==
    ASSUME calls \in Seq(Frame), calls # <<>>, Nested(calls), NEW a \in App, ~Above(Head(calls), a)
    PROVE  \A j \in DOMAIN calls : j # 1 => calls[j] # Cleared(a)
<1> SUFFICES ASSUME NEW j \in DOMAIN calls, j # 1, calls[j] = Cleared(a) PROVE FALSE
  OBVIOUS
<1>1. Head(calls) = calls[1] /\ 1 \in DOMAIN calls /\ 1 < j
  OBVIOUS
<1>2. calls[j].op = "Cleared" /\ calls[j].app = a
  BY DEF Cleared
<1> QED BY <1>1, <1>2 DEF Nested

-----------------------------------------------------------------------------
(* Steps that hand no closure on. *)

\* A frame that calls no closure of a client and runs through no vector, and
\* one of those that may replace f.
QuietFrame ==
    {g \in Frame : /\ g.op \notin {"Cleared", "Invoke"}
                   /\ g.op = "Require" => g.then \in App /\ Later(g.then, g.app)}
May(f, g) == g \in QuietFrame /\ \A a \in App : Above(f, a) => Above(g, a)
Follows(fs, f) == fs \in Seq(QuietFrame) /\ \A i \in DOMAIN fs : May(f, fs[i])

LEMMA FollowsMade ==
    ASSUME NEW f
    PROVE  /\ Follows(<<>>, f)
           /\ \A g : May(f, g) => Follows(<<g>>, f)
           /\ \A g, h : May(f, g) /\ May(f, h) => Follows(<<g, h>>, f)
<1>1. Follows(<<>>, f)
  <2>1. <<>> \in Seq(QuietFrame) /\ DOMAIN <<>> = {}
    OBVIOUS
  <2> QED BY <2>1 DEF Follows
<1>2. ASSUME NEW g, May(f, g) PROVE Follows(<<g>>, f)
  <2>1. g \in QuietFrame
    BY <1>2 DEF May
  <2>2. <<g>> \in Seq(QuietFrame) /\ \A i \in DOMAIN <<g>> : <<g>>[i] = g
    BY <2>1
  <2> QED BY <1>2, <2>2 DEF Follows
<1>3. ASSUME NEW g, NEW h, May(f, g), May(f, h) PROVE Follows(<<g, h>>, f)
  <2>1. g \in QuietFrame /\ h \in QuietFrame
    BY <1>3 DEF May
  <2>2. /\ <<g, h>> \in Seq(QuietFrame)
        /\ \A i \in DOMAIN <<g, h>> : <<g, h>>[i] = g \/ <<g, h>>[i] = h
    BY <2>1
  <2> QED BY <1>3, <2>2 DEF Follows
<1> QED BY <1>1, <1>2, <1>3

LEMMA FollowsQuietly ==
    ASSUME NEW f, NEW fs, Follows(fs, f)
    PROVE  /\ Replaces(fs, f) /\ fs \in Seq(Frame)
           /\ \A r \in Request : Count(fs, r) = 0
           /\ \A a : ~\E i \in DOMAIN fs : fs[i] = Cleared(a)
<1>1. fs \in Seq(Frame) /\ \A i \in DOMAIN fs : fs[i] \in QuietFrame
  BY DEF Follows, QuietFrame
<1>2. ASSUME NEW i \in DOMAIN fs
      PROVE  /\ fs[i].op \notin {"Cleared", "Invoke"}
             /\ fs[i].op = "Require" => fs[i].then \in App /\ Later(fs[i].then, fs[i].app)
  BY <1>1 DEF QuietFrame
<1>3. Nested(fs) /\ FramesOrdered(fs)
  BY <1>2 DEF Nested, FramesOrdered
<1>4. ASSUME NEW r \in Request PROVE Count(fs, r) = 0
  <2>1. ASSUME NEW i \in DOMAIN fs PROVE ~Owes(fs[i], r)
    BY <1>2, ConfigAssumption DEF Owes
  <2> QED BY <2>1, CountNone
<1>5. ASSUME NEW a, NEW i \in DOMAIN fs PROVE fs[i] # Cleared(a)
  BY <1>2 DEF Cleared
<1>6. Replaces(fs, f)
  BY <1>1, <1>3 DEF Replaces, Follows, May
<1> QED BY <1>1, <1>4, <1>5, <1>6

\* Every vector and every count stays.
SameCallers == owed' = owed /\ \A a \in App : app'[a].callbacks = app[a].callbacks

\* Kept depends on what it is told of a state alone.
LEMMA KeptNext ==
    ASSUME Kept(Vectors', Busy', calls', owed')
    PROVE  Kept(Vectors, Busy, calls, owed)'
BY DEF Kept, PlacesIn, Count, FramesIn

LEMMA KeptWithStack ==
    ASSUME KInv, SameCallers, Nested(calls'), FramesOrdered(calls'),
           \A a \in App : Clearing(a)' <=> Clearing(a),
           \A r \in Request : Count(calls', r) = Count(calls, r)
    PROVE  KInv'
<1>1. Vectors' = Vectors
  BY DEF Vectors, SameCallers
<1>2. Busy' = Busy
  BY DEF Busy
<1>3. Ordered(Vectors)'
  BY <1>1 DEF KInv, Ordered
<1>4. Kept(Vectors, Busy, calls, owed)'
  BY <1>1, <1>2 DEF KInv, Kept, SameCallers, Count, FramesIn
<1> QED BY <1>3, <1>4 DEF KInv, Nested, FramesOrdered

\* A frame is replaced by quiet ones.
LEMMA QuietStep ==
    ASSUME IInv, KInv, calls # <<>>, NEW fs, Follows(fs, Head(calls)), Continue(fs), SameCallers,
           Head(calls).op \notin {"Require", "Cleared"},
           Head(calls).op = "Invoke" => Head(calls).then \in App
    PROVE  KInv'
<1>1. /\ calls \in Seq(Frame) /\ Nested(calls) /\ FramesOrdered(calls)
      /\ Head(calls) = calls[1] /\ 1 \in DOMAIN calls
  BY TopFrame DEF IInv, TypeOK, KInv
<1>2. /\ Replaces(fs, Head(calls)) /\ fs \in Seq(Frame)
      /\ \A r \in Request : Count(fs, r) = 0
      /\ \A a : ~\E i \in DOMAIN fs : fs[i] = Cleared(a)
  BY FollowsQuietly
<1>3. Nested(calls') /\ FramesOrdered(calls')
  BY <1>1, <1>2, StackNested
<1>4. ASSUME NEW a \in App PROVE Clearing(a)' <=> Clearing(a)
  <2>1. Clearing(a)' <=> \E j \in DOMAIN calls : j # 1 /\ calls[j] = Cleared(a)
    BY <1>1, <1>2, BusyAfter
  <2>2. calls[1] # Cleared(a)
    BY <1>1 DEF Cleared
  <2> QED BY <2>1, <2>2 DEF Clearing
<1>5. ASSUME NEW r \in Request PROVE Count(calls', r) = Count(calls, r)
  <2>1. ~Owes(Head(calls), r)
    BY ConfigAssumption DEF Owes
  <2>2. PICK n \in Nat :
          /\ Count(calls, r) = (IF Owes(Head(calls), r) THEN 1 ELSE 0) + n
          /\ Count(calls', r) = Count(fs, r) + n
    BY <1>1, <1>2, StackCounts
  <2> QED BY <1>2, <2>1, <2>2
<1> QED BY <1>3, <1>4, <1>5, KeptWithStack

\* An event starts a callback with quiet frames, or none.
LEMMA QuietEvent ==
    ASSUME IInv, KInv, calls = <<>>, NEW fs, Follows(fs, Start(Null)), calls' = fs, SameCallers
    PROVE  KInv'
<1>1. /\ Replaces(fs, Start(Null)) /\ fs \in Seq(Frame)
      /\ \A r \in Request : Count(fs, r) = 0
      /\ \A a : ~\E i \in DOMAIN fs : fs[i] = Cleared(a)
  BY FollowsQuietly
<1>2. DOMAIN calls = {}
  OBVIOUS
<1>3. ASSUME NEW a \in App PROVE Clearing(a)' <=> Clearing(a)
  BY <1>1, <1>2 DEF Clearing, Cleared
<1>4. ASSUME NEW r \in Request PROVE Count(calls', r) = Count(calls, r)
  <2>1. Count(calls, r) = 0
    BY <1>2, CountNone
  <2> QED BY <1>1, <2>1
<1> QED BY <1>1, <1>3, <1>4, KeptWithStack DEF Replaces

\* Frames that are never inside ClearCallbacks, and the quiet frames that
\* the functions and closures of app a push.
LEMMA OutsideClear ==
    ASSUME NEW f, f.op \in {"Require", "Check", "CheckThen", "Start", "SetChecking", "Delete"}
    PROVE  \A a \in App : ~Above(f, a)
BY DEF Above

LEMMA QuietFramesMade ==
    ASSUME NEW a \in App
    PROVE  /\ Start(a) \in QuietFrame
           /\ \A b \in App : Later(b, a) => Require(a, b) \in QuietFrame
           /\ \A t \in Timer \cup {Null} : Check(a, t) \in QuietFrame
           /\ \A e \in Error :
                /\ \A t \in Timer \cup {Null} : CheckThen(a, t, e) \in QuietFrame
                /\ StartThen(a, e) \in QuietFrame /\ AppError(a, e) \in QuietFrame
                /\ Clear(a, e) \in QuietFrame
           /\ \A b \in BOOLEAN : SetChecking(a, b) \in QuietFrame
           /\ \A p \in Proc : StartFailed(p) \in QuietFrame /\ Delete(p) \in QuietFrame
<1>1. \A b \in App : Later(b, a) => Require(a, b) \in QuietFrame
  <2>1. \A b \in App : Require(a, b) \in Frame
    BY FramesMade DEF Waiter
  <2> QED BY <2>1 DEF QuietFrame, Require
<1> QED BY <1>1, FramesMade
        DEF QuietFrame, Check, CheckThen, Start, StartThen, AppError, Clear, StartFailed,
            Delete, SetChecking

\* What runs for an app that waited for another, inside its ClearCallbacks.
LEMMA StaysInside ==
    ASSUME NEW a \in App, NEW f, f.op \in {"StartThen", "AppError", "Clear", "Cleared"}, f.app = a,
           NEW e \in Error
    PROVE  /\ May(f, StartThen(a, e)) /\ May(f, AppError(a, e)) /\ May(f, Clear(a, e))
           /\ \A p \in Proc : May(f, StartFailed(p))
<1>1. \A b \in App : Above(f, b) => Later(a, b)
  BY DEF Above
<1>2. \A b \in App : Later(a, b) => /\ Above(StartThen(a, e), b) /\ Above(AppError(a, e), b)
                                    /\ Above(Clear(a, e), b)
  BY DEF Above, StartThen, AppError, Clear
<1>3. \A b \in App, p \in Proc : Above(StartFailed(p), b)
  BY DEF Above, StartFailed
<1> QED BY <1>1, <1>2, <1>3, QuietFramesMade DEF May

LEMMA CallersOfApp ==
    ASSUME app \in [App -> AppState], NEW a \in App, NEW d \in App
    PROVE  /\ \A x : /\ [app EXCEPT ![a].late = x][d].callbacks = app[d].callbacks
                     /\ [app EXCEPT ![a].restart = x][d].callbacks = app[d].callbacks
                     /\ [app EXCEPT ![a].checking = x][d].callbacks = app[d].callbacks
                     /\ [app EXCEPT ![a].process = x][d].callbacks = app[d].callbacks
           /\ \A x, y :
                /\ [app EXCEPT ![a].pending = x, ![a].errors = y][d].callbacks = app[d].callbacks
                /\ [app EXCEPT ![a].process = x, ![a].checking = y][d].callbacks = app[d].callbacks
                /\ [app EXCEPT ![a].process = x, ![a].restart = y][d].callbacks = app[d].callbacks
BY DEF AppState

LEMMA CallersStay ==
    ASSUME app \in [App -> AppState], NEW a \in App, owed' = owed,
           \/ app' = app
           \/ \E x : \/ app' = [app EXCEPT ![a].late = x]
                    \/ app' = [app EXCEPT ![a].restart = x]
                    \/ app' = [app EXCEPT ![a].checking = x]
                    \/ app' = [app EXCEPT ![a].process = x]
    PROVE  SameCallers
<1>1. CASE app' = app
  BY <1>1 DEF SameCallers
<1>2. ASSUME NEW x, \/ app' = [app EXCEPT ![a].late = x]
                    \/ app' = [app EXCEPT ![a].restart = x]
                    \/ app' = [app EXCEPT ![a].checking = x]
                    \/ app' = [app EXCEPT ![a].process = x]
      PROVE  SameCallers
  <2>1. ASSUME NEW d \in App PROVE app'[d].callbacks = app[d].callbacks
    <3>1. /\ [app EXCEPT ![a].late = x][d].callbacks = app[d].callbacks
          /\ [app EXCEPT ![a].restart = x][d].callbacks = app[d].callbacks
          /\ [app EXCEPT ![a].checking = x][d].callbacks = app[d].callbacks
          /\ [app EXCEPT ![a].process = x][d].callbacks = app[d].callbacks
      BY CallersOfApp
    <3> QED BY <1>2, <3>1, Zenon
  <2> QED BY <2>1 DEF SameCallers
<1> QED BY <1>1, <1>2

\* Require's check and closure.
LEMMA QuietRequire ==
    ASSUME IInv, KInv, DoCheckNothing \/ DoCheck \/ RequireThenOk \/ RequireThenError
    PROVE  KInv'
<1> DEFINE f == Head(calls)
<1>1. app \in [App -> AppState]
  BY DEF IInv, TypeOK
<1>2. calls # <<>> /\ f.op \in {"Check", "CheckThen"}
  BY DEF DoCheckNothing, DoCheck, RequireThenOk, RequireThenError, Top
<1>3. f.app \in App /\ f.timer \in Timer \cup {Null}
  BY <1>2, TopFrame, FrameFields
<1>4. \A g \in QuietFrame : May(f, g)
  BY <1>2, OutsideClear DEF May
<1>5. PICK fs : Follows(fs, f) /\ Continue(fs)
  <2>1. \A e \in Error : /\ May(f, CheckThen(f.app, f.timer, e)) /\ May(f, Clear(f.app, e))
                         /\ May(f, Start(f.app)) /\ \A p \in Proc : May(f, StartFailed(p))
    BY <1>3, <1>4, QuietFramesMade
  <2>2. /\ Follows(<<>>, f) /\ Follows(<<Start(f.app)>>, f)
        /\ \A e \in Error :
             /\ Follows(<<CheckThen(f.app, f.timer, e)>>, f) /\ Follows(<<Clear(f.app, e)>>, f)
             /\ \A p \in Proc : Follows(<<CheckThen(f.app, f.timer, e), StartFailed(p)>>, f)
    <3> HIDE DEF f
    <3>1. "ok" \in Error
      BY DEF Error
    <3> QED BY <2>1, <3>1, FollowsMade
  <2>3. CASE DoCheckNothing
    BY <2>2, <2>3 DEF DoCheckNothing, Error
  <2>4. CASE DoCheck
    <3>1. PICK outcome \in Spawn, p \in Proc :
            Continue(IF outcome = "ok" THEN <<>>
                     ELSE <<CheckThen(f.app, f.timer, SpawnError(outcome)), StartFailed(p)>>)
      BY <2>4, EnvironmentAssumption DEF DoCheck
    <3>2. SpawnError(outcome) \in Error
      BY DEF SpawnError, Spawn, Error
    <3> QED BY <2>2, <3>1, <3>2
  <2>5. CASE RequireThenOk
    BY <2>2, <2>5 DEF RequireThenOk, Error
  <2>6. CASE RequireThenError
    BY <2>2, <2>6 DEF RequireThenError
  <2> QED BY <2>3, <2>4, <2>5, <2>6
<1>6. SameCallers
  <2>1. owed' = owed
    BY DEF DoCheckNothing, DoCheck, RequireThenOk, RequireThenError
  <2>2. \/ app' = app \/ \E x : app' = [app EXCEPT ![f.app].late = x]
        \/ \E x : app' = [app EXCEPT ![f.app].restart = x]
    BY DEF DoCheckNothing, DoCheck, RequireThenOk, RequireThenError
  <2> HIDE DEF f
  <2> QED BY <1>1, <1>3, <2>1, <2>2, CallersStay
<1> QED BY <1>2, <1>5, <1>6, QuietStep

\* Starting an app, and the rest that runs in a callback.
LEMMA QuietStart ==
    ASSUME Acyclic, IInv, KInv,
           \/ DoStart \/ StartThenError \/ StartThenOk \/ DoAppError \/ PostStartThen
           \/ DoSetChecking \/ DoStartFailed \/ DoDelete
    PROVE  KInv'
<1> DEFINE f == Head(calls)
<1>1. app \in [App -> AppState]
  BY DEF IInv, TypeOK
<1>2. ASSUME calls # <<>>, f.op \notin {"Require", "Cleared", "Invoke"},
             NEW fs, Follows(fs, f), Continue(fs), SameCallers
      PROVE  KInv'
  BY <1>2, QuietStep
<1>3. CASE DoStart
  <2>1. calls # <<>> /\ f.op = "Start"
    BY <1>3 DEF DoStart, Top
  <2>2. f.app \in App
    BY <2>1, TopFrame, FrameFields
  <2> DEFINE needed == Preamble[f.app]
             requires == [i \in 1..Len(needed) |-> Require(needed[i], f.app)]
  <2>3. \A g \in QuietFrame : May(f, g)
    BY <2>1, OutsideClear DEF May
  <2>4. /\ Len(needed) \in Nat /\ DOMAIN needed = 1..Len(needed)
        /\ \A i \in 1..Len(needed) : needed[i] \in App
    BY <2>2, ConfigAssumption
  <2>5. \A i \in 1..Len(needed) : Require(needed[i], f.app) \in QuietFrame
    BY <2>2, <2>4, Numbered, QuietFramesMade
  <2>6. Follows(requires, f)
    <3>1. requires \in [1..Len(needed) -> QuietFrame] /\ DOMAIN requires = 1..Len(needed)
      BY <2>5
    <3>2. requires \in Seq(QuietFrame)
      BY <2>4, <3>1
    <3> HIDE DEF requires, f
    <3>3. \A i \in DOMAIN requires : requires[i] \in QuietFrame
      BY <3>1
    <3> QED BY <2>3, <3>2, <3>3 DEF Follows
  <2>7. Follows(<<StartThen(f.app, "ok")>>, f)
    BY <2>2, <2>3, QuietFramesMade, FollowsMade DEF Error
  <2>8. PICK fs : Follows(fs, f) /\ Continue(fs)
    BY <1>3, <2>6, <2>7 DEF DoStart
  <2>9. SameCallers
    <3>1. owed' = owed /\ app' = [app EXCEPT ![f.app].pending = Len(needed), ![f.app].errors = FALSE]
      BY <1>3 DEF DoStart
    <3> HIDE DEF f, needed
    <3>2. \A b \in App : app'[b].callbacks = app[b].callbacks
      BY <1>1, <2>2, <3>1, CallersOfApp
    <3> QED BY <3>1, <3>2 DEF SameCallers
  <2> QED BY <1>2, <2>1, <2>8, <2>9
<1>4. CASE StartThenError \/ DoAppError
  <2>1. calls # <<>> /\ f.op \in {"StartThen", "AppError"}
    BY <1>4 DEF StartThenError, DoAppError, Top
  <2>2. f.app \in App /\ f.error \in Error
    BY <2>1, TopFrame, FrameFields
  <2>3. Follows(<<Clear(f.app, f.error)>>, f)
    <3>1. May(f, Clear(f.app, f.error))
      BY <2>1, <2>2, StaysInside
    <3> HIDE DEF f
    <3> QED BY <3>1, FollowsMade
  <2>4. Continue(<<Clear(f.app, f.error)>>)
    BY <1>4 DEF StartThenError, DoAppError
  <2>5. SameCallers
    <3>1. owed' = owed /\ (app' = app \/ app' = [app EXCEPT ![f.app].process = Null])
      BY <1>4 DEF StartThenError, DoAppError
    <3> HIDE DEF f
    <3> QED BY <1>1, <2>2, <3>1, CallersStay
  <2> QED BY <1>2, <2>1, <2>3, <2>4, <2>5
<1>5. CASE StartThenOk
  <2>1. calls # <<>> /\ f.op = "StartThen"
    BY <1>5 DEF StartThenOk, Top
  <2>2. f.app \in App
    BY <2>1, TopFrame, FrameFields
  <2>3. PICK outcome \in Spawn, p \in Proc :
          /\ app' = [app EXCEPT ![f.app].process = p, ![f.app].checking = FALSE]
          /\ Continue(IF outcome = "ok" THEN <<>>
                      ELSE <<AppError(f.app, SpawnError(outcome)), StartFailed(p)>>)
    BY <1>5, EnvironmentAssumption DEF StartThenOk
  <2>4. SpawnError(outcome) \in Error
    BY DEF SpawnError, Spawn, Error
  <2>5. /\ Follows(<<AppError(f.app, SpawnError(outcome)), StartFailed(p)>>, f)
        /\ Follows(<<>>, f)
    BY <2>1, <2>2, <2>4, StaysInside, FollowsMade
  <2>6. PICK fs : Follows(fs, f) /\ Continue(fs)
    BY <2>3, <2>5
  <2>7. SameCallers
    <3>1. owed' = owed
      BY <1>5 DEF StartThenOk
    <3> HIDE DEF f
    <3> QED BY <1>1, <2>2, <2>3, <3>1, CallersOfApp DEF SameCallers
  <2> QED BY <1>2, <2>1, <2>6, <2>7
<1>6. CASE PostStartThen
  <2>1. calls # <<>> /\ f.op = "CheckThen"
    BY <1>6 DEF PostStartThen, Top
  <2>2. f.app \in App /\ f.error \in Error
    BY <2>1, TopFrame, FrameFields
  <2>3. May(f, Clear(f.app, f.error)) /\ May(f, SetChecking(f.app, FALSE))
    <3>1. \A g \in QuietFrame : May(f, g)
      BY <2>1, OutsideClear DEF May
    <3>2. Clear(f.app, f.error) \in QuietFrame /\ SetChecking(f.app, FALSE) \in QuietFrame
      BY <2>2, QuietFramesMade
    <3> QED BY <3>1, <3>2
  <2>4. Follows(<<Clear(f.app, f.error), SetChecking(f.app, FALSE)>>, f) /\ Follows(<<>>, f)
    BY <2>3, FollowsMade
  <2>5. PICK fs : Follows(fs, f) /\ Continue(fs)
    BY <1>6, <2>4 DEF PostStartThen
  <2>6. SameCallers
    <3>1. owed' = owed /\ (app' = app \/ app' = [app EXCEPT ![f.app].checking = FALSE])
      BY <1>6 DEF PostStartThen
    <3> HIDE DEF f
    <3> QED BY <1>1, <2>2, <3>1, CallersStay
  <2> QED BY <1>2, <2>1, <2>5, <2>6
<1>7. CASE DoSetChecking
  <2>1. calls # <<>> /\ f.op = "SetChecking" /\ Continue(<<>>) /\ owed' = owed
        /\ app' = [app EXCEPT ![f.app].checking = f.to]
    BY <1>7 DEF DoSetChecking, Top
  <2>2. f.app \in App
    BY <2>1, TopFrame, FrameFields
  <2>3. SameCallers
    <3> HIDE DEF f
    <3> QED BY <1>1, <2>1, <2>2, CallersOfApp DEF SameCallers
  <2> QED BY <1>2, <2>1, <2>3, FollowsMade
<1>8. CASE DoStartFailed \/ DoDelete
  <2>1. /\ calls # <<>> /\ f.op \in {"StartFailed", "Delete"} /\ Continue(<<>>)
        /\ owed' = owed /\ app' = app
    BY <1>8 DEF DoStartFailed, DoDelete, Top
  <2>2. SameCallers
    BY <2>1 DEF SameCallers
  <2> QED BY <1>2, <2>1, <2>2, FollowsMade
<1> QED BY <1>3, <1>4, <1>5, <1>6, <1>7, <1>8

\* The last preamble to call back starts the app, inside the ClearCallbacks
\* that called it.
LEMMA QuietAnswer ==
    ASSUME Acyclic, IInv, KInv, AnswerPreamble
    PROVE  KInv'
<1> DEFINE f == Head(calls)
           a == f.then
<1>1. app \in [App -> AppState]
  BY DEF IInv, TypeOK
<1>2. calls # <<>> /\ f.op = "Invoke" /\ a \in App /\ owed' = owed
  BY DEF AnswerPreamble, Top
<1>3. f.app \in App /\ Later(a, f.app)
  BY <1>2, TopFrame, FrameFields DEF KInv, FramesOrdered
<1>4. PICK fs : Follows(fs, f) /\ Continue(fs)
  <2>1. \A b \in App : Above(f, b) => Later(a, b)
    BY <1>2, <1>3, Numbered DEF Above
  <2>2. ASSUME NEW e \in Error PROVE May(f, StartThen(a, e))
    <3>1. \A b \in App : Later(a, b) => Above(StartThen(a, e), b)
      BY DEF Above, StartThen
    <3> QED BY <1>2, <2>1, <3>1, QuietFramesMade DEF May
  <2>3. \A e \in Error : Follows(<<StartThen(a, e)>>, f)
    BY <2>2, FollowsMade
  <2>4. Follows(<<>>, f)
    BY FollowsMade
  <2>5. PICK e \in Error : Continue(<<StartThen(a, e)>>) \/ Continue(<<>>)
    BY DEF AnswerPreamble, Error
  <2> QED BY <2>3, <2>4, <2>5
<1>5. SameCallers
  <2>1. \E x, y : app' = [app EXCEPT ![a].pending = x, ![a].errors = y]
    BY DEF AnswerPreamble
  <2> HIDE DEF f, a
  <2> QED BY <1>1, <1>2, <2>1, CallersOfApp DEF SameCallers
<1> QED BY <1>2, <1>4, <1>5, QuietStep

\* Events of the loop other than a client's call.
LEMMA QuietEvents ==
    ASSUME IInv, KInv,
           \/ LoopStep \/ HandleClosed
           \/ \E p \in Proc, s \in ExitStatus : Exit(p, s)
           \/ \E p \in Proc, e \in ReadErr : ReadError(p, e)
           \/ \E t \in Timer : Tick(t)
           \/ \E a \in App : Expire(a)
    PROVE  KInv'
<1> DEFINE none == Start(Null)
<1>1. app \in [App -> AppState] /\ proc \in [Proc -> Process]
  BY DEF IInv, TypeOK
<1>2. \A g \in QuietFrame : May(none, g)
  <2>1. none.op = "Start"
    BY DEF Start
  <2> QED BY <2>1, OutsideClear DEF May
<1> HIDE DEF none
<1>3. /\ Follows(<<>>, none)
      /\ \A g \in QuietFrame : Follows(<<g>>, none)
      /\ \A g, h \in QuietFrame : Follows(<<g, h>>, none)
  BY <1>2, FollowsMade
<1>4. ASSUME calls = <<>>, NEW fs, Follows(fs, none), calls' = fs, SameCallers
      PROVE  KInv'
  BY <1>4, QuietEvent DEF none
<1>5. ASSUME NEW p \in Proc, TakeClosed(p), UNCHANGED closing
      PROVE  /\ calls = <<>> /\ proc[p].app \in App /\ Delete(p) \in QuietFrame
             /\ proc[p].status \in Error /\ proc[p].timer \in Timer \cup {Null}
  <2>1. proc[p].role # "free" /\ proc[p].status \in ExitStatus /\ proc[p].app \in App
    BY <1>5, TakeKeepsQueue DEF IInv, ProcInv
  <2>2. Delete(p) \in QuietFrame
    BY <2>1, QuietFramesMade
  <2>3. proc[p].timer \in Timer \cup {Null}
    BY <1>1 DEF Process
  <2> QED BY <1>5, <2>1, <2>2, <2>3 DEF TakeClosed, Idle, Error, ExitStatus
<1>6. ASSUME NEW p \in Proc, AppClosed(p) PROVE KInv'
  <2> DEFINE a == proc[p].app
  <2>1. /\ calls = <<>> /\ a \in App /\ Delete(p) \in QuietFrame /\ proc[p].status \in Error
        /\ owed' = owed
    BY <1>5, <1>6 DEF AppClosed
  <2>2. Start(a) \in QuietFrame /\ Clear(a, proc[p].status) \in QuietFrame
    BY <2>1, QuietFramesMade
  <2>3. PICK fs : Follows(fs, none) /\ calls' = fs
    <3>1. /\ Follows(<<Start(a), Delete(p)>>, none) /\ Follows(<<Delete(p)>>, none)
          /\ Follows(<<Clear(a, proc[p].status), Delete(p)>>, none)
      BY <1>3, <2>1, <2>2
    <3> QED BY <1>6, <3>1 DEF AppClosed, Dispatch
  <2>4. SameCallers
    <3>1. PICK y : app' = [app EXCEPT ![a].process = Null, ![a].restart = y]
      <4>1. app' = [app EXCEPT ![a].process = Null,
                      ![a].restart = app[a].restart /\ ~(proc[p].status # "ok" /\ app[a].restart)]
        BY <1>1, <1>6, <2>1 DEF AppClosed, AppState
      <4> QED BY <4>1
    <3> HIDE DEF a
    <3>2. ASSUME NEW d \in App PROVE app'[d].callbacks = app[d].callbacks
      <4>1. [app EXCEPT ![a].process = Null, ![a].restart = y][d].callbacks = app[d].callbacks
        BY <1>1, <2>1, CallersOfApp
      <4> QED BY <3>1, <4>1, Zenon
    <3> QED BY <2>1, <3>2 DEF SameCallers
  <2> QED BY <1>4, <2>1, <2>3, <2>4
<1>7. ASSUME NEW p \in Proc, CheckerClosed(p) PROVE KInv'
  <2>1. /\ calls = <<>> /\ Delete(p) \in QuietFrame /\ SameCallers
        /\ CheckThen(proc[p].app, proc[p].timer, proc[p].status) \in QuietFrame
        /\ calls' = <<CheckThen(proc[p].app, proc[p].timer, proc[p].status), Delete(p)>>
    BY <1>5, <1>7, QuietFramesMade DEF CheckerClosed, Dispatch, SameCallers
  <2> QED BY <1>3, <1>4, <2>1
<1>8. CASE \/ LoopStep \/ \E t \in Timer : TimerClosed(t)
           \/ \E p \in Proc, s \in ExitStatus : Exit(p, s)
  <2>1. calls = <<>> /\ calls' = <<>> /\ SameCallers
    BY <1>8 DEF LoopStep, Iterate, RunClosing, RunTimers, RunPoll, TimerClosed, TakeClosed,
                Exit, Idle, SameCallers
  <2> QED BY <1>3, <1>4, <2>1
<1>9. ASSUME NEW p \in Proc, NEW e \in ReadErr, ReadError(p, e) PROVE KInv'
  <2>1. proc[p].app \in App /\ e \in Error
    BY <1>9, EnvironmentAssumption DEF ReadError, IInv, ProcInv, Error
  <2>2. AppError(proc[p].app, e) \in QuietFrame
    BY <2>1, QuietFramesMade
  <2>3. calls = <<>> /\ calls' = <<AppError(proc[p].app, e)>> /\ SameCallers
    BY <1>9 DEF ReadError, Dispatch, SameCallers
  <2> QED BY <1>3, <1>4, <2>2, <2>3
<1>10. ASSUME NEW t \in Timer, Tick(t) PROVE KInv'
  <2> DEFINE a == timer[t].app
  <2>1. calls = <<>> /\ SameCallers /\ a \in App
    BY <1>10 DEF Tick, Idle, SameCallers, IInv, TimerInv
  <2>2. Check(a, t) \in QuietFrame /\ SetChecking(a, TRUE) \in QuietFrame
    BY <2>1, QuietFramesMade
  <2>3. calls' = <<>> \/ calls' = <<Check(a, t), SetChecking(a, TRUE)>>
    BY <1>10, <2>1 DEF Tick, Dispatch
  <2> QED BY <1>3, <1>4, <2>1, <2>2, <2>3
<1>11. ASSUME NEW a \in App, Expire(a) PROVE KInv'
  <2>1. calls = <<>> /\ calls' = <<>> /\ owed' = owed /\ app' = [app EXCEPT ![a].late = TRUE]
    BY <1>11 DEF Expire, Idle, loopVars
  <2>2. SameCallers
    BY <1>1, <2>1, CallersStay
  <2> QED BY <1>3, <1>4, <2>1, <2>2
<1> QED BY <1>6, <1>7, <1>8, <1>9, <1>10, <1>11 DEF HandleClosed

-----------------------------------------------------------------------------
(* Steps that hand a closure on. *)

\* A closure that is kept as often as before is kept as often as it is owed.
LEMMA KeptByCopies ==
    ASSUME IInv, Kept(Vectors, Busy, calls, owed), CopiesStay, owed' = owed
    PROVE  Kept(Vectors, Busy, calls, owed)'
<1> SUFFICES ASSUME NEW r \in Request
             PROVE  HasCopies(r, owed[r])' /\ owed'[r] \in {0, 1}
  BY DEF Kept, HasCopies
<1>1. HasCopies(r, owed[r]) /\ owed[r] \in {0, 1} /\ r \in Waiter
  BY DEF Kept, HasCopies, Waiter
<1>2. PICK n \in Int : n = owed[r]
  BY <1>1
<1>3. HasCopies(r, n)'
  BY <1>1, <1>2 DEF CopiesStay
<1> QED BY <1>1, <1>2, <1>3 DEF HasCopies

\* Require keeps the closure in the vector of the app: no ClearCallbacks runs.
LEMMA RequireKeeps ==
    ASSUME IInv, KInv, DoRequire
    PROVE  KInv' /\ CopiesStay
<1> DEFINE f == Head(calls)
           a == f.app
           w == f.then
           m == <<a, Len(Vectors[a]) + 1>>
<1>1. /\ calls \in Seq(Frame) /\ calls # <<>> /\ f.op = "Require" /\ f = calls[1]
      /\ a \in App /\ w \in Waiter /\ 1 \in DOMAIN calls
  BY TopFrame, FrameFields DEF DoRequire, Top, IInv, TypeOK
<1>2. Vectors \in [App -> Seq(Waiter)]
  BY DEF Vectors, IInv, TypeOK, AppState
<1>3. owed' = owed /\ Vectors' = [Vectors EXCEPT ![a] = Append(@, w)]
  BY <1>1 DEF DoRequire, Vectors, IInv, TypeOK, AppState
<1>4. PICK fs : Follows(fs, f) /\ Continue(fs) /\ \A i \in DOMAIN fs : fs[i].op = "Check"
  <2>1. Check(a, Null) \in QuietFrame
    BY <1>1, QuietFramesMade
  <2>2. May(f, Check(a, Null))
    BY <1>1, <2>1, OutsideClear DEF May
  <2>3. /\ \A i \in DOMAIN <<Check(a, Null)>> : <<Check(a, Null)>>[i].op = "Check"
        /\ DOMAIN <<>> = {}
    BY DEF Check
  <2> QED BY <2>2, <2>3, FollowsMade DEF DoRequire
<1>5. /\ Replaces(fs, f) /\ fs \in Seq(Frame)
      /\ \A r : Count(fs, r) = 0
      /\ \A b : ~\E i \in DOMAIN fs : fs[i] = Cleared(b)
  <2>1. \A r : Count(fs, r) = 0
    BY <1>4, CountNone DEF Owes
  <2> QED BY <1>4, <2>1, FollowsQuietly
<1>6. Nested(calls') /\ FramesOrdered(calls')
  BY <1>1, <1>4, <1>5, StackNested DEF KInv
<1>7. ASSUME NEW b \in App PROVE ~Clearing(b) /\ ~Clearing(b)'
  <2>1. ~Above(f, b)
    BY <1>1, OutsideClear
  <2>2. \A j \in DOMAIN calls : j # 1 => calls[j] # Cleared(b)
    BY <1>1, <2>1, NoneIsBusy DEF KInv
  <2>3. calls[1] # Cleared(b)
    BY <1>1 DEF Cleared
  <2> QED BY <1>1, <1>4, <1>5, <2>2, <2>3, BusyAfter DEF Clearing
<1>8. Busy = {} /\ Busy' = {}
  BY <1>7 DEF Busy
<1>9. Ordered(Vectors)'
  <2>1. w \in App => Later(w, a)
    BY <1>1 DEF KInv, FramesOrdered
  <2> DEFINE more == [Vectors EXCEPT ![a] = Append(@, w)]
  <2>2. ASSUME NEW b \in App, NEW i \in DOMAIN more[b], more[b][i] \in App
        PROVE  Later(more[b][i], b)
    <3>1. CASE b = a
      <4>1. more[a] = Append(Vectors[a], w) /\ Vectors[a] \in Seq(Waiter)
        BY <1>1, <1>2
      <4>2. (i \in DOMAIN Vectors[a] /\ more[a][i] = Vectors[a][i]) \/ more[a][i] = w
        BY <2>2, <3>1, <4>1
      <4> QED BY <2>1, <2>2, <3>1, <4>2 DEF KInv, Ordered
    <3>2. CASE b # a
      BY <1>2, <2>2, <3>2 DEF KInv, Ordered
    <3> QED BY <3>1, <3>2
  <2>3. Ordered(more)
    BY <2>2 DEF Ordered
  <2> QED BY <1>3, <2>3 DEF Ordered
<1>10. ASSUME NEW r \in Waiter, NEW k \in Int, HasCopies(r, k)
       PROVE  /\ IsFiniteSet(PlacesIn(Vectors, {}, r)')
              /\ k = Cardinality(PlacesIn(Vectors, {}, r)') + Count(calls', r)
  <2> DEFINE old == PlacesIn(Vectors, {}, r)
             new == PlacesIn([Vectors EXCEPT ![a] = Append(@, w)], {}, r)
  <2>1. IsFiniteSet(old) /\ k = Cardinality(old) + Count(calls, r)
    BY <1>8, <1>10 DEF HasCopies
  <2>2. PICK n \in Nat :
          /\ Count(calls, r) = (IF Owes(f, r) THEN 1 ELSE 0) + n
          /\ Count(calls', r) = Count(fs, r) + n
    BY <1>1, <1>4, <1>5, StackCounts
  <2>3. Count(fs, r) = 0 /\ (Owes(f, r) <=> w = r)
    BY <1>1, <1>5 DEF Owes
  <2>4. IF w = r THEN new = old \cup {m} /\ m \notin old ELSE new = old
    <3> PICK v : v = Vectors
      OBVIOUS
    <3> HIDE DEF f, a, w
    <3>1. v \in [App -> Seq(Waiter)] /\ a \in App /\ w \in Waiter
      BY <1>1, <1>2
    <3> PICK more : Adds(more, v, a, w)
      BY DEF Adds
    <3>2. IF w = r THEN /\ PlacesIn(more, {}, r) = PlacesIn(v, {}, r) \cup {<<a, Len(v[a]) + 1>>}
                        /\ <<a, Len(v[a]) + 1>> \notin PlacesIn(v, {}, r)
                   ELSE PlacesIn(more, {}, r) = PlacesIn(v, {}, r)
      BY <3>1, PlacesAppended
    <3>3. more = [Vectors EXCEPT ![a] = Append(@, w)]
      BY DEF Adds
    <3> QED BY <3>2, <3>3
  <2>5. PlacesIn(Vectors, {}, r)' = new
    BY <1>3 DEF PlacesIn
  <2> HIDE DEF f, w, m, old, new
  <2>6. Cardinality(old) \in Nat
    BY <2>1, FS_CardinalityType
  <2>7. CASE w = r
    <3>1. IsFiniteSet(new) /\ Cardinality(new) = Cardinality(old) + 1
      BY <2>1, <2>4, <2>7, FS_AddElement
    <3> QED BY <2>1, <2>2, <2>3, <2>5, <2>6, <2>7, <3>1
  <2>8. CASE w # r
    BY <2>1, <2>2, <2>3, <2>4, <2>5, <2>6, <2>8
  <2> QED BY <2>7, <2>8
<1>11. CopiesStay
  BY <1>8, <1>10 DEF CopiesStay, HasCopies, PlacesIn, Count, FramesIn
<1>12. Kept(Vectors, Busy, calls, owed)'
  BY <1>3, <1>11, KeptByCopies DEF KInv
<1> QED BY <1>6, <1>9, <1>11, <1>12 DEF KInv, Nested, FramesOrdered

\* ClearCallbacks begins: every closure of the vector becomes a call.
LEMMA ClearKeeps ==
    ASSUME Acyclic, IInv, KInv, DoClear
    PROVE  KInv' /\ CopiesStay
<1> DEFINE f == Head(calls)
           a == f.app
           waiting == app[a].callbacks
           n == Len(waiting)
           invokes == [i \in 1..n |-> Invoke(a, waiting[i], f.error)]
           fs == invokes \o <<Cleared(a)>>
<1>1. /\ calls \in Seq(Frame) /\ calls # <<>> /\ f.op = "Clear" /\ f = calls[1]
      /\ a \in App /\ f.error \in Error /\ 1 \in DOMAIN calls
  BY TopFrame, FrameFields DEF DoClear, Top, IInv, TypeOK
<1>2. /\ Vectors \in [App -> Seq(Waiter)] /\ waiting = Vectors[a]
      /\ waiting \in Seq(Waiter) /\ n \in Nat /\ DOMAIN waiting = 1..n
      /\ \A i \in 1..n : waiting[i] \in Waiter
  BY <1>1 DEF Vectors, IInv, TypeOK, AppState
<1>3. owed' = owed /\ Vectors' = Vectors /\ Continue(fs)
  BY DEF DoClear, Vectors
<1>4. /\ invokes \in Seq(Frame) /\ Len(invokes) = n /\ Cleared(a) \in Frame
      /\ \A i \in 1..n : invokes[i] = Invoke(a, waiting[i], f.error)
  <2>1. \A i \in 1..n : Invoke(a, waiting[i], f.error) \in Frame
    BY <1>1, <1>2, FramesMade
  <2>2. Cleared(a) \in Frame
    BY <1>1, FramesMade
  <2> HIDE DEF n
  <2> QED BY <1>2, <2>1, <2>2
<1> HIDE DEF f, a, waiting, n, invokes
<1>5. /\ fs \in Seq(Frame) /\ DOMAIN fs = 1..(n + 1) /\ fs[n + 1] = Cleared(a)
      /\ \A i \in 1..n : fs[i] = invokes[i]
  BY <1>2, <1>4
<1> HIDE DEF fs
<1>6. \A i \in DOMAIN fs : i \in Int /\ (i = n + 1 \/ i \in 1..n)
  BY <1>2, <1>5
<1>7. \A i \in 1..n : /\ fs[i].op = "Invoke" /\ fs[i].app = a /\ fs[i].then = waiting[i]
  BY <1>4, <1>5 DEF Invoke
<1>8. fs[n + 1].op = "Cleared" /\ fs[n + 1].app = a
  BY <1>5 DEF Cleared
<1>9. Replaces(fs, f)
  <2>1. Nested(fs)
    BY <1>2, <1>6, <1>7, <1>8 DEF Nested, Above
  <2>2. FramesOrdered(fs)
    <3>1. \A i \in 1..n : waiting[i] \in App => Later(waiting[i], a)
      BY <1>1, <1>2 DEF KInv, Ordered
    <3> QED BY <1>6, <1>7, <1>8, <3>1 DEF FramesOrdered
  <2>3. ASSUME NEW i \in DOMAIN fs, NEW b \in App, Above(f, b) PROVE Above(fs[i], b)
    <3>1. Later(a, b)
      BY <1>1, <2>3 DEF Above, a
    <3> QED BY <1>6, <1>7, <1>8, <3>1 DEF Above
  <2> QED BY <1>5, <2>1, <2>2, <2>3 DEF Replaces
<1>10. Nested(calls') /\ FramesOrdered(calls')
  BY <1>1, <1>3, <1>9, StackNested DEF KInv, f
<1>11. a \notin Busy
  <2>1. ~Above(f, a)
    BY <1>1, Numbered DEF Above, a
  <2>2. \A j \in DOMAIN calls : j # 1 => calls[j] # Cleared(a)
    BY <1>1, <2>1, NoneIsBusy DEF KInv, f
  <2>3. calls[1] # Cleared(a)
    BY <1>1 DEF Cleared
  <2> QED BY <2>2, <2>3 DEF Busy, Clearing
<1>12. Busy' = Busy \cup {a}
  <2>1. ASSUME NEW b \in App PROVE Clearing(b)' <=> Clearing(b) \/ b = a
    <3>1. Clearing(b)' <=> \/ \E i \in DOMAIN fs : fs[i] = Cleared(b)
                           \/ \E j \in DOMAIN calls : j # 1 /\ calls[j] = Cleared(b)
      BY <1>1, <1>3, <1>5, BusyAfter
    <3>2. calls[1] # Cleared(b)
      BY <1>1 DEF Cleared
    <3>3. (\E i \in DOMAIN fs : fs[i] = Cleared(b)) <=> b = a
      <4>1. ASSUME NEW i \in DOMAIN fs, fs[i] = Cleared(b) PROVE b = a
        <5>1. fs[i].op = "Cleared" /\ fs[i].app = b
          BY <4>1 DEF Cleared
        <5> QED BY <1>6, <1>7, <1>8, <5>1
      <4>2. n + 1 \in DOMAIN fs
        BY <1>2, <1>5
      <4> QED BY <1>5, <4>1, <4>2
    <3> QED BY <3>1, <3>2, <3>3 DEF Clearing
  <2> QED BY <1>1, <2>1 DEF Busy
<1>13. ASSUME NEW r \in Waiter, NEW m \in Int, HasCopies(r, m)
       PROVE  /\ IsFiniteSet(PlacesIn(Vectors, Busy \cup {a}, r))
              /\ m = Cardinality(PlacesIn(Vectors, Busy \cup {a}, r)) + Count(calls', r)
  <2> DEFINE some == {i \in DOMAIN Vectors[a] : Vectors[a][i] = r}
             old == PlacesIn(Vectors, Busy, r)
             new == PlacesIn(Vectors, Busy \cup {a}, r)
  <2>1. IsFiniteSet(old) /\ m = Cardinality(old) + Count(calls, r)
    BY <1>13 DEF HasCopies
  <2>2. IsFiniteSet(new) /\ Cardinality(old) = Cardinality(new) + Cardinality(some)
    <3> PICK v : v = Vectors
      OBVIOUS
    <3> PICK busy : busy = Busy
      OBVIOUS
    <3>1. /\ v \in [App -> Seq(Waiter)] /\ a \in App /\ a \notin busy
          /\ IsFiniteSet(PlacesIn(v, busy, r))
      BY <1>1, <1>2, <1>11, <2>1
    <3>2. /\ IsFiniteSet(PlacesIn(v, busy \cup {a}, r))
          /\ Cardinality(PlacesIn(v, busy, r)) =
               Cardinality(PlacesIn(v, busy \cup {a}, r)) + Cardinality(At(v[a], r))
      BY <3>1, PlacesTaken
    <3> QED BY <3>2 DEF At
  <2>3. FramesIn(fs, r) = some
    <3>1. ASSUME NEW i \in DOMAIN fs PROVE Owes(fs[i], r) <=> i \in some
      BY <1>2, <1>6, <1>7, <1>8, <3>1 DEF Owes
    <3>2. some \subseteq DOMAIN fs
      BY <1>2, <1>5
    <3> HIDE DEF some
    <3> QED BY <3>1, <3>2 DEF FramesIn
  <2>4. Count(fs, r) = Cardinality(some) /\ Count(fs, r) \in Nat
    BY <1>5, <2>3, FramesFinite DEF Count
  <2>5. ~Owes(f, r)
    BY <1>1 DEF Owes
  <2>6. PICK k \in Nat :
          /\ Count(calls, r) = (IF Owes(f, r) THEN 1 ELSE 0) + k
          /\ Count(calls', r) = Count(fs, r) + k
    BY <1>1, <1>3, <1>5, StackCounts DEF f
  <2> HIDE DEF some, old, new
  <2>7. Cardinality(new) \in Nat
    BY <2>2, FS_CardinalityType
  <2>8. m = Cardinality(new) + Count(calls', r)
    BY <2>1, <2>2, <2>4, <2>5, <2>6, <2>7
  <2> QED BY <2>2, <2>8 DEF new
<1>14. CopiesStay
  <2> SUFFICES ASSUME NEW r \in Waiter, NEW m \in Int, HasCopies(r, m) PROVE HasCopies(r, m)'
    BY DEF CopiesStay
  <2>1. PlacesIn(Vectors, Busy, r)' = PlacesIn(Vectors, Busy \cup {a}, r)
    BY <1>3, <1>12 DEF PlacesIn
  <2>2. Count(calls, r)' = Count(calls', r)
    BY DEF Count, FramesIn
  <2> QED BY <1>13, <2>1, <2>2 DEF HasCopies
<1>15. Kept(Vectors, Busy, calls, owed)'
  BY <1>3, <1>14, KeptByCopies DEF KInv
<1> QED BY <1>3, <1>10, <1>14, <1>15 DEF KInv, Nested, FramesOrdered, Ordered

\* ClearCallbacks ends: the vector it ran through is emptied.
LEMMA ClearedKeeps ==
    ASSUME Acyclic, IInv, KInv, DoCleared
    PROVE  KInv' /\ CopiesStay
<1> DEFINE f == Head(calls)
           a == f.app
<1>1. /\ calls \in Seq(Frame) /\ calls # <<>> /\ f.op = "Cleared" /\ f = calls[1]
      /\ f \in Frame /\ a \in App /\ 1 \in DOMAIN calls
  BY TopFrame, FrameFields DEF DoCleared, Top, IInv, TypeOK
<1>2. calls[1] = Cleared(a)
  BY <1>1 DEF Frame, Cleared
<1>3. /\ owed' = owed /\ Vectors' = [Vectors EXCEPT ![a] = <<>>] /\ Continue(<<>>)
      /\ Vectors \in [App -> Seq(Waiter)]
  BY <1>1 DEF DoCleared, Vectors, IInv, TypeOK, AppState
<1>4. /\ Replaces(<<>>, f) /\ <<>> \in Seq(Frame) /\ \A r : Count(<<>>, r) = 0
  <2>1. DOMAIN <<>> = {}
    OBVIOUS
  <2> QED BY <2>1, FollowsMade, FollowsQuietly, CountNone
<1> HIDE DEF f, a
<1>5. Nested(calls') /\ FramesOrdered(calls')
  BY <1>1, <1>3, <1>4, StackNested DEF KInv, f
<1>6. a \in Busy /\ Busy' = Busy \ {a}
  <2>1. ~Above(f, a)
    BY <1>1, Numbered DEF Above, a
  <2>2. \A j \in DOMAIN calls : j # 1 => calls[j] # Cleared(a)
    BY <1>1, <2>1, NoneIsBusy DEF KInv, f
  <2>3. ASSUME NEW b \in App PROVE Clearing(b)' <=> Clearing(b) /\ b # a
    <3>1. Clearing(b)' <=> \E j \in DOMAIN calls : j # 1 /\ calls[j] = Cleared(b)
      <4>1. DOMAIN <<>> = {}
        OBVIOUS
      <4> QED BY <1>1, <1>3, <1>4, <4>1, BusyAfter
    <3>2. b # a => Cleared(b) # calls[1]
      <4>1. Cleared(b).app = b
        BY DEF Cleared
      <4> QED BY <1>1, <4>1 DEF a
    <3> QED BY <1>2, <2>2, <3>1, <3>2 DEF Clearing
  <2> QED BY <1>1, <1>2, <2>3 DEF Busy, Clearing
<1>7. Ordered(Vectors)'
  <2>1. DOMAIN <<>> = {} /\ \A b \in App : (Vectors')[b] = <<>> \/ (Vectors')[b] = Vectors[b]
    BY <1>1, <1>3
  <2>2. Ordered(Vectors')
    BY <2>1 DEF KInv, Ordered
  <2> QED BY <2>2 DEF Ordered
<1>8. ASSUME NEW r \in Waiter
      PROVE  /\ PlacesIn(Vectors', Busy', r) = PlacesIn(Vectors, Busy, r)
             /\ Count(calls', r) = Count(calls, r)
  <2>1. PICK v, busy : v = [Vectors EXCEPT ![a] = <<>>] /\ busy = Busy \ {a}
    OBVIOUS
  <2>2. PlacesIn(Vectors, Busy, r) = PlacesIn(Vectors', Busy', r)
    <3>1. \A b \in App : \/ (b \in Busy <=> b \in busy) /\ Vectors[b] = v[b]
                         \/ b \in Busy /\ v[b] = <<>>
      BY <1>1, <1>3, <1>6, <2>1
    <3>2. SameWaiters(Vectors, Busy, v, busy)
      BY <3>1 DEF SameWaiters
    <3>3. PlacesIn(Vectors, Busy, r) = PlacesIn(v, busy, r)
      BY <3>2, PlacesSame
    <3> QED BY <1>3, <1>6, <2>1, <3>3
  <2>3. ~Owes(f, r)
    BY <1>1 DEF Owes
  <2>4. PICK k \in Nat :
          /\ Count(calls, r) = (IF Owes(f, r) THEN 1 ELSE 0) + k
          /\ Count(calls', r) = Count(<<>>, r) + k
    BY <1>1, <1>3, <1>4, StackCounts DEF f
  <2> QED BY <1>4, <2>2, <2>3, <2>4
<1>9. CopiesStay
  BY <1>8 DEF CopiesStay, HasCopies, PlacesIn, Count, FramesIn
<1>10. Kept(Vectors, Busy, calls, owed)'
  BY <1>3, <1>9, KeptByCopies DEF KInv
<1> QED BY <1>5, <1>7, <1>9, <1>10 DEF KInv, Nested, FramesOrdered

\* A client is answered: it was owed one answer.
LEMMA AnswerKeeps ==
    ASSUME IInv, KInv, AnswerClient
    PROVE  KInv' /\ \E r \in Request : owed[r] = 1 /\ owed' = [owed EXCEPT ![r] = 0]
<1> DEFINE f == Head(calls)
           q == f.then
<1>1. /\ calls \in Seq(Frame) /\ calls # <<>> /\ f.op = "Invoke" /\ f = calls[1]
      /\ q \in Request /\ 1 \in DOMAIN calls /\ Continue(<<>>)
      /\ Vectors' = Vectors /\ owed' = [owed EXCEPT ![q] = @ - 1] /\ owed \in [Request -> Int]
  BY TopFrame DEF AnswerClient, Top, IInv, TypeOK, Vectors
<1>2. /\ Replaces(<<>>, f) /\ <<>> \in Seq(Frame) /\ \A r \in Request : Count(<<>>, r) = 0
      /\ \A b : ~\E i \in DOMAIN <<>> : <<>>[i] = Cleared(b)
  BY FollowsMade, FollowsQuietly
<1> HIDE DEF f, q
<1>3. Nested(calls') /\ FramesOrdered(calls')
  BY <1>1, <1>2, StackNested DEF KInv, f
<1>4. Busy' = Busy
  <2>1. ASSUME NEW b \in App PROVE Clearing(b)' <=> Clearing(b)
    <3>1. Clearing(b)' <=> \E j \in DOMAIN calls : j # 1 /\ calls[j] = Cleared(b)
      BY <1>1, <1>2, BusyAfter
    <3>2. calls[1] # Cleared(b)
      BY <1>1 DEF Cleared
    <3> QED BY <3>1, <3>2 DEF Clearing
  <2> QED BY <2>1 DEF Busy
<1>5. ASSUME NEW r \in Request
      PROVE  /\ IsFiniteSet(PlacesIn(Vectors, Busy, r))
             /\ owed'[r] = Cardinality(PlacesIn(Vectors, Busy, r)) + Count(calls', r)
             /\ owed'[r] \in {0, 1}
             /\ r = q => owed[r] = 1
  <2> DEFINE old == PlacesIn(Vectors, Busy, r)
  <2>1. IsFiniteSet(old) /\ owed[r] = Cardinality(old) + Count(calls, r) /\ owed[r] \in {0, 1}
    BY DEF KInv, Kept
  <2>2. PICK n \in Nat :
          /\ Count(calls, r) = (IF Owes(f, r) THEN 1 ELSE 0) + n
          /\ Count(calls', r) = Count(<<>>, r) + n
    BY <1>1, <1>2, StackCounts DEF f
  <2>3. Count(<<>>, r) = 0 /\ (Owes(f, r) <=> r = q)
    BY <1>1, <1>2 DEF Owes, q
  <2>4. owed'[r] = IF r = q THEN owed[r] - 1 ELSE owed[r]
    BY <1>1
  <2> HIDE DEF old
  <2>5. Cardinality(old) \in Nat
    BY <2>1, FS_CardinalityType
  <2>6. /\ owed'[r] = Cardinality(old) + Count(calls', r) /\ owed'[r] \in {0, 1}
        /\ r = q => owed[r] = 1
    BY <2>1, <2>2, <2>3, <2>4, <2>5
  <2> QED BY <2>1, <2>6 DEF old
<1>6. Kept(Vectors, Busy, calls, owed)'
  <2>1. Kept(Vectors, Busy, calls', owed')
    BY <1>5 DEF Kept
  <2>2. Vectors' = Vectors
    BY <1>1
  <2> QED BY <1>4, <2>1, <2>2 DEF Kept, PlacesIn, Count, FramesIn
<1>7. owed[q] = 1 /\ owed' = [owed EXCEPT ![q] = 0]
  <2>1. owed[q] = 1
    BY <1>1, <1>5
  <2> QED BY <1>1, <2>1
<1> QED BY <1>1, <1>3, <1>4, <1>6, <1>7 DEF KInv, Nested, FramesOrdered, Ordered

\* A client calls Require.
LEMMA AskKeeps ==
    ASSUME IInv, KInv, NEW q \in Request, NEW a \in App, ClientRequire(q, a)
    PROVE  KInv'
<1> DEFINE f == Require(a, q)
<1>1. /\ calls = <<>> /\ calls' = <<f>> /\ Vectors' = Vectors /\ owed \in [Request -> Int]
      /\ owed[q] = 0 /\ owed' = [owed EXCEPT ![q] = 1]
  BY DEF ClientRequire, Dispatch, Vectors, IInv, TypeOK
<1>2. f \in Frame /\ f.op = "Require" /\ f.then = q
  BY FramesMade DEF Require, Waiter
<1> HIDE DEF f
<1>3. DOMAIN calls = {} /\ DOMAIN <<f>> = {1} /\ <<f>>[1] = f
  BY <1>1
<1>4. Nested(<<f>>) /\ FramesOrdered(<<f>>)
  BY <1>2, <1>3, ConfigAssumption DEF Nested, FramesOrdered
<1>5. Busy' = Busy
  <2>1. ASSUME NEW b \in App PROVE ~Clearing(b)' /\ ~Clearing(b)
    BY <1>1, <1>2, <1>3 DEF Clearing, Cleared
  <2> QED BY <2>1 DEF Busy
<1>6. ASSUME NEW r \in Request
      PROVE  /\ owed'[r] = Cardinality(PlacesIn(Vectors, Busy, r)) + Count(calls', r)
             /\ owed'[r] \in {0, 1}
  <2> DEFINE old == PlacesIn(Vectors, Busy, r)
  <2>1. IsFiniteSet(old) /\ owed[r] = Cardinality(old) + Count(calls, r) /\ owed[r] \in {0, 1}
    BY DEF KInv, Kept
  <2> HIDE DEF old
  <2>2. Cardinality(old) \in Nat /\ Count(calls, r) = 0
    BY <1>3, <2>1, FS_CardinalityType, CountNone
  <2>3. Count(calls', r) = IF r = q THEN 1 ELSE 0
    BY <1>1, <1>2, CountOne DEF Owes
  <2>4. owed'[r] = IF r = q THEN 1 ELSE owed[r]
    BY <1>1
  <2> QED BY <1>1, <2>1, <2>2, <2>3, <2>4 DEF old
<1>7. Kept(Vectors, Busy, calls, owed)'
  <2>1. Kept(Vectors, Busy, calls', owed')
    BY <1>6 DEF Kept, KInv
  <2>2. Kept(Vectors', Busy', calls', owed')
    BY <1>1, <1>5, <2>1
  <2> QED BY <2>2, KeptNext
<1> QED BY <1>1, <1>4, <1>7 DEF KInv, Nested, FramesOrdered, Ordered

-----------------------------------------------------------------------------
(* The theorems about callers. *)

LEMMA CallersInitially == Init => KInv
<1> SUFFICES ASSUME Init PROVE KInv
  OBVIOUS
<1>1. DOMAIN calls = {} /\ owed = [r \in Request |-> 0] /\ \A a \in App : Vectors[a] = <<>>
  BY DEF Init, LoopInit, Vectors
<1>2. ASSUME NEW r \in Request
      PROVE  PlacesIn(Vectors, Busy, r) = {} /\ Count(calls, r) = 0
  <2>1. DOMAIN <<>> = {}
    OBVIOUS
  <2>2. PlacesIn(Vectors, Busy, r) = {}
    BY <1>1, <2>1, PlacesAre
  <2> QED BY <1>1, <2>2, CountNone
<1>3. Kept(Vectors, Busy, calls, owed)
  <2>1. IsFiniteSet({}) /\ Cardinality({}) = 0
    BY FS_EmptySet
  <2>2. ASSUME NEW r \in Request
        PROVE  /\ IsFiniteSet(PlacesIn(Vectors, Busy, r))
               /\ owed[r] = Cardinality(PlacesIn(Vectors, Busy, r)) + Count(calls, r)
               /\ owed[r] \in {0, 1}
    <3>1. owed[r] = 0 /\ PlacesIn(Vectors, Busy, r) = {} /\ Count(calls, r) = 0
      BY <1>1, <1>2
    <3> QED BY <2>1, <3>1
  <2> QED BY <2>2 DEF Kept
<1>4. DOMAIN <<>> = {}
  OBVIOUS
<1> QED BY <1>1, <1>3, <1>4 DEF KInv, Nested, FramesOrdered, Ordered

LEMMA CallersInductive ==
    ASSUME Acyclic
    PROVE  IInv /\ KInv /\ [Next]_vars => KInv' /\ [Service!Next]_owed
<1> SUFFICES ASSUME IInv, KInv, [Next]_vars PROVE KInv' /\ [Service!Next]_owed
  OBVIOUS
<1>1. owed' = owed => [Service!Next]_owed
  OBVIOUS
<1>2. CASE UNCHANGED vars
  <2>1. UNCHANGED <<app, owed, calls>>
    BY <1>2 DEF vars, loopVars
  <2>2. SameCallers
    BY <2>1 DEF SameCallers
  <2>3. KInv'
    <3>1. Nested(calls') /\ FramesOrdered(calls')
      BY <2>1 DEF KInv
    <3>2. \A a \in App : Clearing(a)' <=> Clearing(a)
      BY <2>1 DEF Clearing
    <3>3. \A r \in Request : Count(calls', r) = Count(calls, r)
      BY <2>1
    <3> QED BY <2>2, <3>1, <3>2, <3>3, KeptWithStack
  <2> QED BY <1>1, <2>1, <2>3
<1>3. CASE AnswerClient
  <2>1. PICK r \in Request : owed[r] = 1 /\ owed' = [owed EXCEPT ![r] = 0]
    BY <1>3, AnswerKeeps
  <2>2. Service!Next
    BY <2>1 DEF Service!Next, Service!Answer
  <2> QED BY <1>3, <2>2, AnswerKeeps
<1>4. ASSUME NEW r \in Request, NEW a \in App, ClientRequire(r, a)
      PROVE  KInv' /\ [Service!Next]_owed
  <2>1. Service!Ask(r)
    BY <1>4 DEF ClientRequire, Service!Ask
  <2> QED BY <1>4, <2>1, AskKeeps DEF Service!Next
<1>5. CASE DoRequire \/ DoClear \/ DoCleared
  <2>1. owed' = owed
    BY <1>5 DEF DoRequire, DoClear, DoCleared
  <2> QED BY <1>1, <1>5, <2>1, RequireKeeps, ClearKeeps, ClearedKeeps
<1>6. CASE DoCheckNothing \/ DoCheck \/ RequireThenOk \/ RequireThenError
  <2>1. owed' = owed
    BY <1>6 DEF DoCheckNothing, DoCheck, RequireThenOk, RequireThenError
  <2> QED BY <1>1, <1>6, <2>1, QuietRequire
<1>7. CASE \/ DoStart \/ StartThenError \/ StartThenOk \/ DoAppError \/ PostStartThen
           \/ DoSetChecking \/ DoStartFailed \/ DoDelete
  <2>1. owed' = owed
    BY <1>7 DEF DoStart, StartThenError, StartThenOk, DoAppError, PostStartThen, DoSetChecking,
                DoStartFailed, DoDelete
  <2> QED BY <1>1, <1>7, <2>1, QuietStart
<1>8. CASE AnswerPreamble
  <2>1. owed' = owed
    BY <1>8 DEF AnswerPreamble
  <2> QED BY <1>1, <1>8, <2>1, QuietAnswer
<1>9. CASE \/ LoopStep \/ HandleClosed
           \/ \E p \in Proc, s \in ExitStatus : Exit(p, s)
           \/ \E p \in Proc, e \in ReadErr : ReadError(p, e)
           \/ \E t \in Timer : Tick(t)
           \/ \E a \in App : Expire(a)
  <2>1. owed' = owed
    BY <1>9 DEF LoopStep, HandleClosed, AppClosed, CheckerClosed, TimerClosed, Exit, ReadError,
                Tick, Expire
  <2> QED BY <1>1, <1>9, <2>1, QuietEvents
<1> QED BY <1>2, <1>3, <1>4, <1>5, <1>6, <1>7, <1>8, <1>9 DEF Next, Call

LEMMA CallersKept == KInv => EachCallerKeptOnce
<1> SUFFICES ASSUME KInv, NEW r \in Request PROVE owed[r] = Copies(r)
  BY DEF EachCallerKeptOnce
<1>1. Places(r) = PlacesIn(Vectors, Busy, r)
  BY DEF Places, PlacesIn, Vectors, Busy
<1>2. FramesOf(r) = FramesIn(calls, r)
  BY DEF FramesOf, FramesIn, Owes
<1> QED BY <1>1, <1>2 DEF KInv, Kept, Copies, Count

\* When no app needs itself as a preamble, through whatever others, a closure
\* given to Require is in one vector or in one call until it runs, and is then
\* nowhere: ClearCallbacks loses no caller and calls none twice, whatever its
\* closures start before it empties the vector (process_manager.cc:132-156).
THEOREM CallersKeptOnce ==
    ASSUME Acyclic
    PROVE  Spec => []EachCallerKeptOnce
<1>1. KInv => EachCallerKeptOnce
  BY CallersKept
<1>2. IInv /\ KInv /\ [Next]_vars => KInv'
  BY CallersInductive
<1> QED BY <1>1, <1>2, Initially, Inductive, CallersInitially, PTL DEF Spec

\* Under the same condition the manager only does what its callers may rely
\* on: an answer goes to a caller that waits for one, and to nobody twice
\* (process_manager.h:10, :49; process_manager.cc:93-107, 150-156).
THEOREM AnswersWhatIsAsked ==
    ASSUME Acyclic
    PROVE  Spec => Service!Init /\ [][Service!Next]_owed
<1>1. Init => Service!Init
  BY DEF Init, Service!Init
<1>2. IInv /\ KInv /\ [Next]_vars => KInv' /\ [Service!Next]_owed
  BY CallersInductive
<1> QED BY <1>1, <1>2, Initially, Inductive, CallersInitially, PTL DEF Spec

-----------------------------------------------------------------------------
(* Timers that wait for their close callbacks.                             *)

Loop == INSTANCE EventLoopProofs

\* The handles wait for their close callbacks, each of them once; a timer
\* that waits is closing.
TimersQueued ==
    /\ Loop!QueueInv(Proc \cup Timer)
    /\ \A t \in Timer : Loop!Queued(t) => timer[t].status = "closing"

LEMMA SameQueue == \A h : Loop!Queued(h) <=> Queued(h)
BY DEF Loop!Queued, Loop!Waits, Loop!In, Queued

\* A timer is closed, or nothing is.
LEMMA ClosesTimer ==
    ASSUME IInv, TimersQueued, NEW t \in Timer, CloseTimer(t), UNCHANGED <<phase, batch>>
    PROVE  TimersQueued'
<1> DEFINE H == Proc \cup Timer
<1>1. CASE timer[t].status = "open"
  <2>1. Loop!Fresh(<<t>>) /\ <<t>> \in Seq(H)
    BY <1>1 DEF TimersQueued, Loop!Fresh
  <2>2. Loop!QueueInv(H)' /\ \A h : Loop!Queued(h)' <=> Loop!Queued(h) \/ Loop!In(h, <<t>>)
    BY <1>1, <2>1, Loop!Closes DEF TimersQueued, CloseTimer, CloseHandles, Loop!CloseHandles
  <2>3. \A h : Loop!In(h, <<t>>) => h = t
    BY DEF Loop!In
  <2> QED BY <1>1, <2>2, <2>3 DEF TimersQueued, CloseTimer, IInv, TypeOK, TimerState
<1>2. CASE timer[t].status # "open"
  BY <1>2, Loop!Stays DEF TimersQueued, CloseTimer
<1> QED BY <1>1, <1>2

\* The lists stay, and so does every timer that waits on one.
LEMMA QueueStays ==
    ASSUME TimersQueued, UNCHANGED <<phase, closing, batch>>,
           \A t \in Timer : timer'[t].status = timer[t].status \/ timer[t].status # "closing"
    PROVE  TimersQueued'
BY Loop!Stays DEF TimersQueued

LEMMA ClosesProcess ==
    ASSUME IInv, TimersQueued, NEW p \in Proc, proc[p].status \notin ExitStatus,
           CloseHandles(<<p>>), UNCHANGED <<timer, phase, batch>>
    PROVE  TimersQueued'
<1> DEFINE H == Proc \cup Timer
<1>1. ~Queued(p)
  BY DEF IInv, ProcInv
<1>2. Loop!Fresh(<<p>>) /\ <<p>> \in Seq(H)
  BY <1>1, SameQueue DEF Loop!Fresh
<1>3. Loop!QueueInv(H)' /\ \A h : Loop!Queued(h)' <=> Loop!Queued(h) \/ Loop!In(h, <<p>>)
  BY <1>2, Loop!Closes DEF TimersQueued, CloseHandles, Loop!CloseHandles
<1>4. \A h : Loop!In(h, <<p>>) => h = p
  BY DEF Loop!In
<1> QED BY <1>3, <1>4, ConfigAssumption DEF TimersQueued

LEMMA TakesHandle ==
    ASSUME TimersQueued, NEW h, TakeClosed(h), UNCHANGED <<phase, closing>>,
           \A t \in Timer : timer'[t].status = timer[t].status \/ t = h
    PROVE  TimersQueued' /\ (h \in Timer => timer[h].status = "closing")
<1>1. Loop!TakeClosed(h)
  BY DEF Loop!TakeClosed, TakeClosed, Loop!Idle, Idle
<1>2. /\ Loop!QueueInv(Proc \cup Timer)' /\ Loop!Queued(h)
      /\ \A g : Loop!Queued(g)' <=> Loop!Queued(g) /\ g # h
  BY <1>1, Loop!Takes DEF TimersQueued
<1> QED BY <1>2 DEF TimersQueued

LEMMA QueueInitially == Init => TimersQueued
<1>1. ASSUME Init PROVE TimersQueued
  <2>1. closing = <<>> /\ batch = <<>> /\ phase = "poll" /\ DOMAIN <<>> = {}
    BY <1>1 DEF Init, LoopInit
  <2>2. <<>> \in Seq(Proc \cup Timer)
    OBVIOUS
  <2> QED BY <2>1, <2>2 DEF TimersQueued, Loop!QueueInv, Loop!Once, Loop!Queued, Loop!Waits, Loop!In
<1> QED BY <1>1

LEMMA QueueInductive == IInv /\ TimersQueued /\ [Next]_vars => TimersQueued'
<1> SUFFICES ASSUME IInv, TimersQueued, [Next]_vars PROVE TimersQueued'
  OBVIOUS
<1>1. CASE UNCHANGED vars
  BY <1>1, QueueStays DEF vars, loopVars
<1>2. CASE \/ DoRequire \/ DoCheckNothing \/ DoCheck \/ RequireThenOk \/ RequireThenError
           \/ DoSetChecking \/ DoStart \/ StartThenError \/ DoAppError \/ DoClear \/ DoCleared
           \/ AnswerClient \/ AnswerPreamble \/ DoDelete
  BY <1>2, QueueStays
     DEF DoRequire, DoCheckNothing, DoCheck, RequireThenOk, RequireThenError, DoSetChecking,
         DoStart, StartThenError, DoAppError, DoClear, DoCleared, AnswerClient, AnswerPreamble,
         DoDelete
<1>3. CASE StartThenOk
  <2>1. PICK t \in Timer : timer[t].status = "free" /\ \E x : timer' = [timer EXCEPT ![t] = x]
    <3>1. PICK t \in Timer : /\ FreeTimer # {} /\ t = CHOOSE u \in FreeTimer : TRUE
                             /\ \E x : timer' = [timer EXCEPT ![t] = x]
      BY <1>3 DEF StartThenOk
    <3> QED BY <3>1 DEF FreeTimer
  <2>2. \A u \in Timer : timer'[u].status = timer[u].status \/ timer[u].status # "closing"
    BY <2>1 DEF IInv, TypeOK
  <2> QED BY <1>3, <2>2, QueueStays DEF StartThenOk
<1>4. CASE PostStartThen
  <2>1. Head(calls).timer \in Timer
    BY <1>4, TopFrame, FrameFields DEF PostStartThen, Top, IInv, TypeOK
  <2>2. UNCHANGED <<phase, batch>>
    BY <1>4 DEF PostStartThen
  <2>3. CloseTimer(Head(calls).timer) \/ UNCHANGED <<timer, closing>>
    BY <1>4 DEF PostStartThen
  <2> QED BY <2>1, <2>2, <2>3, ClosesTimer, QueueStays
<1>5. CASE DoStartFailed
  <2>1. Head(calls).process \in Proc
    BY <1>5, TopFrame, FrameFields DEF DoStartFailed, Top, IInv, TypeOK
  <2>2. CASE UNCHANGED closing
    BY <1>5, <2>2, QueueStays DEF DoStartFailed
  <2>3. CASE ~UNCHANGED closing
    <3>1. proc[Head(calls).process].status \notin ExitStatus /\ CloseHandles(<<Head(calls).process>>)
      BY <1>5, <2>3 DEF DoStartFailed, ExitStatus
    <3> QED BY <1>5, <2>1, <3>1, ClosesProcess DEF DoStartFailed
  <2> QED BY <2>2, <2>3
<1>6. CASE LoopStep
  <2>1. Loop!Iterate
    BY <1>6 DEF LoopStep, Iterate, RunClosing, RunTimers, RunPoll, Idle, Loop!Iterate,
                Loop!RunClosing, Loop!RunTimers, Loop!RunPoll, Loop!Idle
  <2> QED BY <1>6, <2>1, Loop!Iterates DEF TimersQueued, LoopStep
<1>7. ASSUME NEW p \in Proc, AppClosed(p) \/ CheckerClosed(p) PROVE TimersQueued'
  BY <1>7, TakesHandle DEF AppClosed, CheckerClosed
<1>8. ASSUME NEW t \in Timer, TimerClosed(t) PROVE TimersQueued'
  <2>1. timer' = [timer EXCEPT ![t] = NoTimer]
    BY <1>8 DEF TimerClosed
  <2>2. \A u \in Timer : timer'[u].status = timer[u].status \/ u = t
    BY <2>1 DEF IInv, TypeOK
  <2> QED BY <1>8, <2>2, TakesHandle DEF TimerClosed
<1>9. ASSUME NEW p \in Proc, NEW s \in ExitStatus, Exit(p, s) PROVE TimersQueued'
  BY <1>9, ClosesProcess DEF Exit, ExitStatus
<1>10. ASSUME NEW t \in Timer, Tick(t) PROVE TimersQueued'
  <2>1. UNCHANGED <<phase, batch>> /\ (CloseTimer(t) \/ UNCHANGED <<timer, closing>>)
    BY <1>10 DEF Tick
  <2> QED BY <2>1, ClosesTimer, QueueStays
<1>11. CASE \/ \E r \in Request, a \in App : ClientRequire(r, a)
            \/ \E p \in Proc, e \in ReadErr : ReadError(p, e)
            \/ \E a \in App : Expire(a)
  BY <1>11, QueueStays DEF ClientRequire, ReadError, Expire, loopVars
<1> QED BY <1>1, <1>2, <1>3, <1>4, <1>5, <1>6, <1>7, <1>8, <1>9, <1>10, <1>11
        DEF Next, Call, HandleClosed
-----------------------------------------------------------------------------
(* Who drives an app.  What follows needs an environment that obeys.       *)

\* Apps and checkers can be spawned and read, an app that ends does so with
\* an error, and an app nobody checks has no preambles.
Obedient ==
    /\ AppSpawn \subseteq {"ok"} /\ CheckerSpawn \subseteq {"ok"}
    /\ "ok" \notin AppExit /\ "ok" \notin KilledExit
    /\ ReadErr = {}
    /\ \A a \in App : a \notin Checked => Preamble[a] = <<>>

\* A frame of the stack, the frame that runs and those below it.
On(f) == \E i \in DOMAIN calls : calls[i] = f
Below(f) == \E j \in DOMAIN calls : j # 1 /\ calls[j] = f

\* What a frame that runs does for an app.
Asks(f, a) == f.op \in {"Check", "CheckThen"} /\ f.app = a /\ f.timer = Null
Tries(f, a) == f.op = "Check" /\ f.app = a /\ f.timer # Null
Tried(f, a) == f.op = "CheckThen" /\ f.app = a /\ f.timer # Null
Starts(f, a) == f.op \in {"Start", "StartThen"} /\ f.app = a
Tells(f, a) == f.op = "Clear" /\ f.app = a

Asking(a) == calls # <<>> /\ Asks(Head(calls), a)
Trying(a) == calls # <<>> /\ Tries(Head(calls), a)
HasTried(a) == calls # <<>> /\ Tried(Head(calls), a)
Starting(a) == calls # <<>> /\ Starts(Head(calls), a)
Telling(a) == calls # <<>> /\ Tells(Head(calls), a)

\* A checker runs for an app, a timer of an app ticks.
Serves(p, a) == proc[p].role = "checker" /\ proc[p].app = a /\ ~Deleting(p)
Checks(a) == \E p \in Proc : Serves(p, a) /\ proc[p].timer = Null
Timing(a) == \E p \in Proc : Serves(p, a) /\ proc[p].timer # Null
TimerOf(t, a) == timer[t].status = "open" /\ timer[t].app = a
Timed(a) == \E t \in Timer : TimerOf(t, a)

-----------------------------------------------------------------------------
(* The inductive invariant. *)

\* What may be below f on the stack: Require runs only below other Requires,
\* and the timer's check below nothing but what follows it.
Early(f) ==
    \/ f.op \in {"Require", "Start"}
    \/ f.op \in {"Check", "CheckThen"} /\ f.timer = Null
    \/ f.op = "StartThen" /\ f.app \notin Checked
Covers(f, g) ==
    /\ g.op \in {"Require", "Invoke", "Cleared", "SetChecking", "Delete"}
    /\ Early(f) => g.op \in {"Require", "Delete"}
    /\ Tries(f, f.app) => g = SetChecking(f.app, TRUE)
    /\ Tried(f, f.app) => IF f.app \in Checked THEN g.op = "Delete"
                          ELSE g = SetChecking(f.app, TRUE)
Layered(s) == \A i, j \in DOMAIN s : i < j => Covers(s[i], s[j])

\* Nothing fails to start; the timer of a check ticks; an app that nobody
\* checks has a process when its callers are told that it runs.
Sound(f) ==
    /\ f.op \notin {"AppError", "StartFailed"}
    /\ f.op \in {"CheckThen", "StartThen"} /\ f.app \notin Checked => f.error = "ok"
    /\ f.op \in {"Check", "CheckThen"} /\ f.timer # Null => TimerOf(f.timer, f.app)
    /\ \/ f.op \in {"Clear", "Invoke"} /\ f.error # "ok"
       \/ f.op \in {"Check", "CheckThen"} /\ f.timer = Null
       \/ f.op \notin {"Clear", "Invoke", "Check", "CheckThen"}
       \/ f.app \in Checked
       \/ app[f.app].process # Null
AllSound == \A i \in DOMAIN calls : Sound(calls[i])

\* App::process is the one process of the app that is not being deleted; the
\* timer that a check will close is there.
Processes == \A p \in Proc :
    /\ proc[p].role = "app" => proc[p].status # "ok"
    /\ proc[p].role = "app" /\ ~Deleting(p) => app[proc[p].app].process = p
    /\ proc[p].role = "checker" => proc[p].app \in Checked
    /\ proc[p].timer # Null =>
         /\ proc[p].role = "checker"
         /\ timer[proc[p].timer].app = proc[p].app /\ timer[proc[p].timer].status # "free"
         /\ ~Deleting(p) => timer[proc[p].timer].status = "open"

OneChecker == \A a \in App : \A p, q \in Proc : Serves(p, a) /\ Serves(q, a) => p = q
OneTimer == \A a \in Checked : \A t, u \in Timer : TimerOf(t, a) /\ TimerOf(u, a) => t = u

\* App::checking says that a checker of the timer runs, but for the rest of
\* the callback that starts or ends one.
Checking(a) ==
    /\ Trying(a) => On(SetChecking(a, TRUE)) /\ ~app[a].checking
    /\ Trying(a) \/ HasTried(a) => ~Timing(a)
    /\ On(SetChecking(a, TRUE)) => Timing(a) \/ Trying(a)
    /\ On(SetChecking(a, FALSE)) => ~Timing(a)
    /\ Timing(a) => app[a].checking \/ On(SetChecking(a, TRUE))
    /\ app[a].checking => Timing(a) \/ HasTried(a) \/ On(SetChecking(a, FALSE))

\* What will clear the vector of an app that is checked: exactly one thing
\* while it has callers, and nothing while it has none.
Exactly(some, d1, d2, d3, d4, d5, d6, d7) ==
    /\ some <=> d1 \/ d2 \/ d3 \/ d4 \/ d5 \/ d6 \/ d7
    /\ d1 => ~d2 /\ ~d3 /\ ~d4 /\ ~d5 /\ ~d6 /\ ~d7
    /\ d2 => ~d3 /\ ~d4 /\ ~d5 /\ ~d6 /\ ~d7
    /\ d3 => ~d4 /\ ~d5 /\ ~d6 /\ ~d7
    /\ d4 => ~d5 /\ ~d6 /\ ~d7
    /\ d5 => ~d6 /\ ~d7
    /\ d6 => ~d7
OneDriver(a) ==
    Exactly(app[a].callbacks # <<>>, Asking(a), Checks(a), Starting(a), app[a].pending # 0,
            Timed(a), Telling(a) \/ On(Cleared(a)), app[a].restart)

\* ... and of an app that nobody checks.
Ready(a) ==
    /\ app[a].process # Null /\ ~app[a].checking /\ Timed(a)
    /\ ~On(SetChecking(a, TRUE)) /\ ~On(SetChecking(a, FALSE))
Unchecked(a) ==
    /\ ~app[a].restart /\ app[a].pending = 0
    /\ app[a].callbacks # <<>> =>
         \/ Asking(a) \/ Trying(a) \/ HasTried(a) \/ Starting(a) \/ Telling(a)
         \/ On(Cleared(a)) \/ Ready(a)

\* A process is killed to be started again, or is not there to be started.
Awaits(a) ==
    /\ app[a].restart => app[a].process # Null
    /\ Starting(a) \/ app[a].pending # 0 => app[a].process = Null

Each(a) ==
    /\ Awaits(a)
    /\ a \in Checked => Checking(a) /\ OneDriver(a)
    /\ a \notin Checked => Unchecked(a)

DInv ==
    /\ Layered(calls) /\ AllSound /\ Processes /\ OneChecker /\ OneTimer
    /\ \A a \in App : Each(a)

-----------------------------------------------------------------------------
(* The stack. *)

In(f, s) == \E i \in DOMAIN s : s[i] = f

LEMMA StackAfter ==
    ASSUME calls \in Seq(Frame), calls # <<>>, NEW fs \in Seq(Frame), Continue(fs)
    PROVE  /\ \A f : On(f)' <=> In(f, fs) \/ Below(f)
           /\ \A f : On(f) <=> f = Head(calls) \/ Below(f)
           /\ fs # <<>> => calls' # <<>> /\ Head(calls') = fs[1]
           /\ fs = <<>> /\ calls' # <<>> => Below(Head(calls'))
<1> DEFINE t == Tail(calls)
           u == fs \o t
<1>1. /\ t \in Seq(Frame) /\ Head(calls) = calls[1] /\ 1 \in DOMAIN calls
      /\ \A i \in DOMAIN t : i \in Int /\ 0 < i /\ i + 1 \in DOMAIN calls /\ t[i] = calls[i + 1]
      /\ \A i \in DOMAIN calls : i # 1 => i - 1 \in DOMAIN t /\ t[i - 1] = calls[i]
  BY HeadAndTail
<1>2. calls' = u
  BY DEF Continue
<1>3. /\ Len(fs) \in Nat
      /\ \A i \in DOMAIN u : \/ i \in DOMAIN fs /\ u[i] = fs[i]
                             \/ i - Len(fs) \in DOMAIN t /\ u[i] = t[i - Len(fs)]
      /\ \A i \in DOMAIN fs : i \in DOMAIN u /\ u[i] = fs[i]
      /\ \A i \in DOMAIN t : i + Len(fs) \in DOMAIN u /\ u[i + Len(fs)] = t[i]
  BY <1>1, Joins
<1>4. /\ fs # <<>> => u # <<>> /\ Head(u) = fs[1]
      /\ fs = <<>> => u = t
      /\ t # <<>> => 1 \in DOMAIN t /\ Head(t) = t[1]
  BY <1>1
<1> HIDE DEF t, u
<1>5. ASSUME NEW i \in DOMAIN t PROVE i + 1 # 1 /\ i + 1 \in DOMAIN calls /\ t[i] = calls[i + 1]
  BY <1>1
<1>6. ASSUME NEW f PROVE In(f, t) <=> Below(f)
  BY <1>1, <1>5 DEF In, Below
<1>7. ASSUME NEW f PROVE On(f)' <=> In(f, fs) \/ Below(f)
  <2>1. On(f)' <=> \E i \in DOMAIN u : u[i] = f
    BY <1>2 DEF On
  <2> QED BY <1>3, <1>6, <2>1 DEF In
<1>8. ASSUME NEW f PROVE On(f) <=> f = Head(calls) \/ Below(f)
  BY <1>1 DEF On, Below
<1>9. fs = <<>> /\ calls' # <<>> => Below(Head(calls'))
  BY <1>2, <1>4, <1>6 DEF In
<1> QED BY <1>2, <1>4, <1>7, <1>8, <1>9

LEMMA LayeredAfter ==
    ASSUME calls \in Seq(Frame), calls # <<>>, Layered(calls), NEW fs \in Seq(Frame),
           Continue(fs), Layered(fs),
           \A i \in DOMAIN fs, g \in Frame : Covers(Head(calls), g) => Covers(fs[i], g)
    PROVE  Layered(calls')
<1> DEFINE t == Tail(calls)
           u == fs \o t
<1>1. /\ t \in Seq(Frame) /\ Head(calls) = calls[1] /\ 1 \in DOMAIN calls
      /\ \A i \in DOMAIN t : i \in Int /\ 0 < i /\ i + 1 \in DOMAIN calls /\ t[i] = calls[i + 1]
      /\ \A i \in DOMAIN calls : calls[i] \in Frame
  BY HeadAndTail
<1>2. calls' = u
  BY DEF Continue
<1>3. /\ Len(fs) \in Nat
      /\ \A i \in DOMAIN u : \/ i \in DOMAIN fs /\ u[i] = fs[i]
                             \/ i - Len(fs) \in DOMAIN t /\ u[i] = t[i - Len(fs)]
      /\ \A i \in DOMAIN u : i \in Int
      /\ \A i \in DOMAIN fs : i \in Int /\ i <= Len(fs)
  BY <1>1, Joins
<1> HIDE DEF t, u
<1>4. ASSUME NEW i \in DOMAIN u, NEW j \in DOMAIN u, i < j PROVE Covers(u[i], u[j])
  <2>1. CASE j \in DOMAIN fs /\ u[j] = fs[j]
    <3>1. i \in DOMAIN fs /\ u[i] = fs[i]
      <4>1. ASSUME i - Len(fs) \in DOMAIN t PROVE FALSE
        BY <1>1, <1>3, <1>4, <2>1, <4>1
      <4> QED BY <1>3, <4>1
    <3> QED BY <1>4, <2>1, <3>1 DEF Layered
  <2>2. CASE j - Len(fs) \in DOMAIN t /\ u[j] = t[j - Len(fs)]
    <3> DEFINE n == j - Len(fs) + 1
    <3>1. n \in DOMAIN calls /\ n \in Int /\ 1 < n /\ u[j] = calls[n] /\ u[j] \in Frame
      BY <1>1, <2>2
    <3>2. CASE i \in DOMAIN fs /\ u[i] = fs[i]
      <4>1. Covers(calls[1], calls[n])
        BY <1>1, <3>1 DEF Layered
      <4> HIDE DEF n
      <4> QED BY <1>1, <3>1, <3>2, <4>1
    <3>3. CASE i - Len(fs) \in DOMAIN t /\ u[i] = t[i - Len(fs)]
      <4> DEFINE m == i - Len(fs) + 1
      <4>1. m \in DOMAIN calls /\ u[i] = calls[m] /\ m < n
        <5>1. PICK l \in Nat : l = Len(fs)
          BY <1>3
        <5>2. i - l \in DOMAIN t /\ u[i] = t[i - l]
          BY <3>3, <5>1
        <5>3. (i - l) + 1 \in DOMAIN calls /\ t[i - l] = calls[(i - l) + 1]
          BY <1>1, <5>2
        <5>4. m = (i - l) + 1 /\ n = (j - l) + 1
          BY <5>1
        <5>5. i \in Int /\ j \in Int /\ i < j
          BY <1>3, <1>4
        <5>6. (i - l) + 1 < (j - l) + 1
          BY <5>5
        <5> QED BY <5>2, <5>3, <5>4, <5>6
      <4> HIDE DEF m, n
      <4> QED BY <3>1, <4>1 DEF Layered
    <3> QED BY <1>3, <3>2, <3>3
  <2> QED BY <1>3, <2>1, <2>2
<1> QED BY <1>2, <1>4 DEF Layered

\* What covers the frames below the one that runs.
LEMMA Covered ==
    ASSUME calls \in Seq(Frame), calls # <<>>, Layered(calls)
    PROVE  \A g : Below(g) => Covers(Head(calls), g) /\ g \in Frame
<1> SUFFICES ASSUME NEW j \in DOMAIN calls, j # 1
             PROVE  Covers(Head(calls), calls[j]) /\ calls[j] \in Frame
  BY DEF Below
<1>1. 1 \in DOMAIN calls /\ 1 < j /\ Head(calls) = calls[1] /\ calls[j] \in Frame
  OBVIOUS
<1> QED BY <1>1 DEF Layered

\* The frame that runs next, if it is a new one, and if it is not.
LEMMA NewTop ==
    ASSUME calls \in Seq(Frame), calls # <<>>, NEW fs \in Seq(Frame), fs # <<>>, Continue(fs),
           NEW a
    PROVE  /\ Asking(a)' <=> Asks(fs[1], a)
           /\ Trying(a)' <=> Tries(fs[1], a)
           /\ HasTried(a)' <=> Tried(fs[1], a)
           /\ Starting(a)' <=> Starts(fs[1], a)
           /\ Telling(a)' <=> Tells(fs[1], a)
BY StackAfter DEF Asking, Trying, HasTried, Starting, Telling

Acts(f, a) == Asks(f, a) \/ Tries(f, a) \/ Tried(f, a) \/ Starts(f, a) \/ Tells(f, a)
Quiet(a) == ~Asking(a) /\ ~Trying(a) /\ ~HasTried(a) /\ ~Starting(a) /\ ~Telling(a)

LEMMA OldTop ==
    ASSUME calls \in Seq(Frame), calls # <<>>, Layered(calls), Continue(<<>>), NEW a
    PROVE  Quiet(a)'
<1>1. <<>> \in Seq(Frame)
  OBVIOUS
<1>2. calls' # <<>> => Covers(Head(calls), Head(calls'))
  BY <1>1, StackAfter, Covered
<1> QED BY <1>2 DEF Covers, Quiet, Asking, Trying, HasTried, Starting, Telling,
                    Asks, Tries, Tried, Starts, Tells

LEMMA TopNow ==
    ASSUME calls # <<>>, NEW a
    PROVE  /\ Asking(a) <=> Asks(Head(calls), a)
           /\ Trying(a) <=> Tries(Head(calls), a)
           /\ HasTried(a) <=> Tried(Head(calls), a)
           /\ Starting(a) <=> Starts(Head(calls), a)
           /\ Telling(a) <=> Tells(Head(calls), a)
BY DEF Asking, Trying, HasTried, Starting, Telling

-----------------------------------------------------------------------------
(* An app that a step leaves alone. *)

SameFields(a) ==
    /\ app'[a].callbacks = <<>> <=> app[a].callbacks = <<>>
    /\ app'[a].process = app[a].process
    /\ app'[a].restart = app[a].restart /\ app'[a].pending = app[a].pending
    /\ app'[a].checking = app[a].checking
SameServants(a) ==
    /\ Checks(a)' <=> Checks(a)
    /\ Timing(a)' <=> Timing(a)
    /\ Timed(a)' <=> Timed(a)
SameFrames(a) ==
    /\ On(Cleared(a))' <=> On(Cleared(a))
    /\ On(SetChecking(a, TRUE))' <=> On(SetChecking(a, TRUE))
    /\ On(SetChecking(a, FALSE))' <=> On(SetChecking(a, FALSE))
Untouched(a) ==
    SameFields(a) /\ SameServants(a) /\ SameFrames(a) /\ Quiet(a) /\ Quiet(a)'

LEMMA Apart ==
    ASSUME NEW a, Each(a), Untouched(a)
    PROVE  Each(a)'
<1>1. Awaits(a)'
  BY DEF Each, Awaits, Untouched, SameFields, Quiet
<1>2. a \in Checked => Checking(a)'
  BY DEF Each, Checking, Untouched, SameFields, SameServants, SameFrames, Quiet
<1>3. a \in Checked => OneDriver(a)'
  BY DEF Each, OneDriver, Exactly, Untouched, SameFields, SameServants, SameFrames, Quiet
<1>4. a \notin Checked => Unchecked(a)'
  BY DEF Each, Unchecked, Ready, Untouched, SameFields, SameServants, SameFrames, Quiet
<1> QED BY <1>1, <1>2, <1>3, <1>4 DEF Each

-----------------------------------------------------------------------------
(* A frame that makes, ends and closes nothing. *)

Owned == {"Check", "CheckThen", "Start", "StartThen", "Clear", "Cleared", "SetChecking"}
About(g, a) == g.op \in Owned => g.app = a
SameObjects ==
    /\ timer' = timer
    /\ \A p \in Proc : /\ proc'[p].role = proc[p].role /\ proc'[p].app = proc[p].app
                       /\ proc'[p].timer = proc[p].timer
                       /\ proc[p].role = "app" /\ proc[p].status # "ok" => proc'[p].status # "ok"
    /\ \A b \in App : app'[b].process = app[b].process

LEMMA SoundAfter ==
    ASSUME calls \in Seq(Frame), calls # <<>>, AllSound, Layered(calls),
           NEW fs \in Seq(Frame), Continue(fs),
           \A b \in App : app[b].process # Null => app'[b].process # Null,
           \A i \in DOMAIN fs : Sound(fs[i])'
    PROVE  AllSound'
<1>1. ASSUME NEW g, Below(g) PROVE Sound(g)'
  <2>1. Sound(g)
    BY <1>1 DEF AllSound, Below
  <2>2. g.op \in {"Require", "Invoke", "Cleared", "SetChecking", "Delete"} /\ g \in Frame
    BY <1>1, Covered DEF Covers
  <2>3. g.op = "Invoke" => g.app \in App
    BY <2>2, FrameFields
  <2> QED BY <2>1, <2>2, <2>3 DEF Sound
<1>2. ASSUME NEW g, On(g)' PROVE Sound(g)'
  BY <1>1, <1>2, StackAfter DEF In
<1> QED BY <1>2 DEF AllSound, On

LEMMA SameDeleting ==
    ASSUME calls \in Seq(Frame), calls # <<>>, NEW fs \in Seq(Frame), Continue(fs),
           Head(calls).op # "Delete", \A i \in DOMAIN fs : fs[i].op # "Delete"
    PROVE  \A p : Deleting(p)' <=> Deleting(p)
<1> TAKE p
<1>1. Deleting(p)' <=> On(Delete(p))'
  BY DEF Deleting, On, Delete
<1>2. /\ On(Delete(p))' <=> In(Delete(p), fs) \/ Below(Delete(p))
      /\ On(Delete(p)) <=> Delete(p) = Head(calls) \/ Below(Delete(p))
  BY StackAfter
<1>3. ~In(Delete(p), fs) /\ Delete(p) # Head(calls)
  BY DEF In, Delete
<1> QED BY <1>1, <1>2, <1>3 DEF Deleting, On

LEMMA ObjectsStay ==
    ASSUME IInv, DInv, SameObjects, \A p : Deleting(p)' <=> Deleting(p)
    PROVE  /\ \A b : SameServants(b)
           /\ Processes' /\ OneChecker' /\ OneTimer'
<1>1. \A b : \A p \in Proc : Serves(p, b)' <=> Serves(p, b)
  BY DEF Serves, SameObjects
<1>2. \A b, t : TimerOf(t, b)' <=> TimerOf(t, b)
  BY DEF TimerOf, SameObjects
<1>3. \A b : SameServants(b)
  BY <1>1, <1>2 DEF SameServants, Checks, Timing, Timed, SameObjects
<1>4. Processes'
  <2> SUFFICES ASSUME NEW p \in Proc
               PROVE  /\ proc'[p].role = "app" => proc'[p].status # "ok"
                      /\ proc'[p].role = "app" /\ ~Deleting(p)' => app'[proc'[p].app].process = p
                      /\ proc'[p].role = "checker" => proc'[p].app \in Checked
                      /\ proc'[p].timer # Null =>
                           /\ proc'[p].role = "checker"
                           /\ timer'[proc'[p].timer].app = proc'[p].app
                           /\ timer'[proc'[p].timer].status # "free"
                           /\ ~Deleting(p)' => timer'[proc'[p].timer].status = "open"
    BY DEF Processes
  <2>1. proc[p].role # "free" => proc[p].app \in App
    BY DEF IInv, ProcInv
  <2> QED BY <2>1 DEF DInv, Processes, SameObjects
<1>5. OneChecker' /\ OneTimer'
  BY <1>1, <1>2 DEF DInv, OneChecker, OneTimer
<1> QED BY <1>3, <1>4, <1>5

LEMMA MildFacts ==
    ASSUME IInv, DInv, calls # <<>>, NEW fs \in Seq(Frame), Continue(fs), SameObjects,
           Head(calls).op # "Delete", \A i \in DOMAIN fs : fs[i].op # "Delete"
    PROVE  /\ \A b : SameServants(b)
           /\ Processes' /\ OneChecker' /\ OneTimer'
<1>1. \A p : Deleting(p)' <=> Deleting(p)
  BY SameDeleting DEF IInv, TypeOK
<1> QED BY <1>1, ObjectsStay

LEMMA OthersApart ==
    ASSUME IInv, DInv, calls # <<>>, NEW fs \in Seq(Frame), Continue(fs),
           NEW b \in App, ~(Head(calls).op \in Owned /\ Head(calls).app = b),
           \A i \in DOMAIN fs : ~(fs[i].op \in Owned /\ fs[i].app = b),
           SameFields(b), SameServants(b)
    PROVE  Each(b)'
<1>1. calls \in Seq(Frame) /\ Layered(calls)
  BY DEF IInv, TypeOK, DInv
<1>2. Quiet(b)
  BY DEF Quiet, Asking, Trying, HasTried, Starting, Telling, Asks, Tries, Tried, Starts, Tells, Owned
<1>3. Quiet(b)'
  <2>1. CASE fs = <<>>
    BY <1>1, <2>1, OldTop
  <2>2. CASE fs # <<>>
    <3>1. 1 \in DOMAIN fs
      BY <2>2
    <3>2. ~Asks(fs[1], b) /\ ~Tries(fs[1], b) /\ ~Tried(fs[1], b) /\ ~Starts(fs[1], b) /\ ~Tells(fs[1], b)
      BY <3>1 DEF Asks, Tries, Tried, Starts, Tells, Owned
    <3> QED BY <1>1, <2>2, <3>2, NewTop DEF Quiet
  <2> QED BY <2>1, <2>2
<1>4. SameFrames(b)
  <2>1. ASSUME NEW g, g.op \in Owned, g.app = b PROVE On(g)' <=> On(g)
    <3>1. ~In(g, fs) /\ g # Head(calls)
      BY <2>1 DEF In
    <3> QED BY <1>1, <3>1, StackAfter
  <2>2. /\ Cleared(b).op \in Owned /\ Cleared(b).app = b
        /\ \A c : SetChecking(b, c).op \in Owned /\ SetChecking(b, c).app = b
    BY DEF Cleared, SetChecking, Owned
  <2> QED BY <2>1, <2>2 DEF SameFrames, On
<1> QED BY <1>2, <1>3, <1>4, Apart DEF Untouched, DInv

LEMMA MildStep ==
    ASSUME IInv, DInv, calls # <<>>, NEW fs \in Seq(Frame), Continue(fs), SameObjects,
           Head(calls).op # "Delete", \A i \in DOMAIN fs : fs[i].op # "Delete",
           Layered(fs), \A i \in DOMAIN fs, g \in Frame : Covers(Head(calls), g) => Covers(fs[i], g),
           \A i \in DOMAIN fs : Sound(fs[i])',
           NEW a \in App, About(Head(calls), a), \A i \in DOMAIN fs : About(fs[i], a),
           \A b \in App : b # a => SameFields(b),
           Each(a)'
    PROVE  DInv'
<1>1. calls \in Seq(Frame) /\ Layered(calls)
  BY DEF IInv, TypeOK, DInv
<1>2. Layered(calls)'
  BY <1>1, LayeredAfter DEF Layered
<1>3. AllSound'
  BY <1>1, SoundAfter DEF DInv, SameObjects
<1>4. ASSUME NEW b \in App, b # a PROVE Each(b)'
  BY <1>4, MildFacts, OthersApart DEF About
<1> QED BY <1>2, <1>3, <1>4, MildFacts DEF DInv

\* The frame is replaced by none, or by one.
LEMMA NoneFacts ==
    ASSUME calls \in Seq(Frame), calls # <<>>, Layered(calls), Continue(<<>>)
    PROVE  /\ \A a : Quiet(a)'
           /\ \A g : On(g)' <=> Below(g)
           /\ \A g : On(g) <=> g = Head(calls) \/ Below(g)
<1>1. <<>> \in Seq(Frame) /\ \A g : ~In(g, <<>>)
  BY DEF In
<1> QED BY <1>1, OldTop, StackAfter

LEMMA OneFacts ==
    ASSUME calls \in Seq(Frame), calls # <<>>, NEW f \in Frame, Continue(<<f>>)
    PROVE  /\ \A a : /\ Asking(a)' <=> Asks(f, a)
                     /\ Trying(a)' <=> Tries(f, a)
                     /\ HasTried(a)' <=> Tried(f, a)
                     /\ Starting(a)' <=> Starts(f, a)
                     /\ Telling(a)' <=> Tells(f, a)
           /\ \A g : On(g)' <=> g = f \/ Below(g)
           /\ \A g : On(g) <=> g = Head(calls) \/ Below(g)
<1>1. <<f>> \in Seq(Frame) /\ DOMAIN <<f>> = {1} /\ <<f>>[1] = f /\ <<f>> # <<>>
  OBVIOUS
<1>2. \A g : In(g, <<f>>) <=> g = f
  BY <1>1 DEF In
<1> QED BY <1>1, <1>2, NewTop, StackAfter

LEMMA MildNone ==
    ASSUME IInv, DInv, calls # <<>>, Continue(<<>>), SameObjects, Head(calls).op # "Delete",
           NEW a \in App, About(Head(calls), a), \A b \in App : b # a => SameFields(b),
           SameServants(a) => Each(a)'
    PROVE  DInv'
<1>1. <<>> \in Seq(Frame) /\ DOMAIN <<>> = {}
  OBVIOUS
<1>2. Layered(<<>>)
  BY <1>1 DEF Layered
<1> QED BY <1>1, <1>2, MildFacts, MildStep

LEMMA MildOne ==
    ASSUME IInv, DInv, calls # <<>>, NEW f \in Frame, Continue(<<f>>), SameObjects,
           Head(calls).op # "Delete", f.op # "Delete", Sound(f)',
           \A g \in Frame : Covers(Head(calls), g) => Covers(f, g),
           NEW a \in App, About(Head(calls), a), About(f, a),
           \A b \in App : b # a => SameFields(b),
           SameServants(a) => Each(a)'
    PROVE  DInv'
<1>1. <<f>> \in Seq(Frame) /\ DOMAIN <<f>> = {1} /\ <<f>>[1] = f
  OBVIOUS
<1>2. Layered(<<f>>)
  BY <1>1 DEF Layered
<1>3. \A i \in DOMAIN <<f>> : Sound(<<f>>[i])'
  BY <1>1
<1> QED BY <1>1, <1>2, <1>3, MildFacts, MildStep

-----------------------------------------------------------------------------
(* What each frame does for its app. *)

LEMMA Running ==
    ASSUME IInv, DInv, calls # <<>>
    PROVE  /\ calls \in Seq(Frame) /\ Layered(calls) /\ app \in [App -> AppState]
           /\ Head(calls) \in Frame /\ Sound(Head(calls))
           /\ \A a \in App : Each(a)
BY TopFrame DEF IInv, TypeOK, DInv, AllSound

\* Below a frame of Require or Start nothing else has begun.
LEMMA NothingBelow ==
    ASSUME IInv, DInv, calls # <<>>, Early(Head(calls)), NEW a
    PROVE  ~Below(Cleared(a)) /\ ~Below(SetChecking(a, TRUE)) /\ ~Below(SetChecking(a, FALSE))
BY Running, Covered DEF Covers, Cleared, SetChecking

NoFrames(a) == ~On(Cleared(a)) /\ ~On(SetChecking(a, TRUE)) /\ ~On(SetChecking(a, FALSE))
Other(f) == f.op \notin {"Cleared", "SetChecking"}

LEMMA FramesNow ==
    ASSUME IInv, DInv, calls # <<>>, Early(Head(calls)), Other(Head(calls)), NEW a,
           \/ Continue(<<>>)
           \/ \E f \in Frame : Other(f) /\ Continue(<<f>>)
    PROVE  NoFrames(a) /\ NoFrames(a)'
<1>1. \A g : Other(g) => /\ Cleared(a) # g /\ SetChecking(a, TRUE) # g /\ SetChecking(a, FALSE) # g
  BY DEF Other, Cleared, SetChecking
<1>2. CASE Continue(<<>>)
  BY <1>1, <1>2, Running, NothingBelow, NoneFacts DEF NoFrames, On
<1>3. ASSUME NEW f \in Frame, Other(f), Continue(<<f>>) PROVE NoFrames(a) /\ NoFrames(a)'
  <2>1. \A h : (On(h)' <=> h = f \/ Below(h)) /\ (On(h) <=> h = Head(calls) \/ Below(h))
    BY <1>3, Running, OneFacts
  <2>2. NoFrames(a)
    BY <1>1, <2>1, NothingBelow DEF NoFrames
  <2>3. NoFrames(a)'
    BY <1>1, <1>3, <2>1, NothingBelow DEF NoFrames, On
  <2> QED BY <2>2, <2>3
<1> QED BY <1>2, <1>3

LEMMA RequireDriven ==
    ASSUME IInv, DInv, DoRequire
    PROVE  DInv'
<1> PICK f : f = Head(calls)
  OBVIOUS
<1> PICK a : a = f.app
  OBVIOUS
<1>1. /\ calls \in Seq(Frame) /\ calls # <<>> /\ Layered(calls) /\ f \in Frame /\ f.op = "Require"
      /\ a \in App /\ f.then \in Waiter /\ app \in [App -> AppState] /\ Each(a)
  BY Running, FrameFields DEF DoRequire, Top
<1>2. /\ app' = [app EXCEPT ![a].callbacks = Append(@, f.then)] /\ proc' = proc /\ timer' = timer
      /\ app[a].callbacks = <<>> => Continue(<<Check(a, Null)>>)
      /\ app[a].callbacks # <<>> => Continue(<<>>)
  BY DEF DoRequire
<1>3. /\ app[a].callbacks \in Seq(Waiter) /\ app'[a].callbacks = Append(app[a].callbacks, f.then)
      /\ app'[a].process = app[a].process /\ app'[a].restart = app[a].restart
      /\ app'[a].pending = app[a].pending /\ app'[a].checking = app[a].checking
      /\ \A b \in App : b # a => app'[b] = app[b]
  BY <1>1, <1>2 DEF AppState
<1>4. app'[a].callbacks # <<>>
  <2>1. PICK s \in Seq(Waiter) : s = app[a].callbacks
    BY <1>3
  <2>2. Append(s, f.then) # <<>>
    BY <2>1
  <2> QED BY <1>3, <2>1, <2>2
<1>5. /\ SameObjects /\ \A b \in App : b # a => SameFields(b)
      /\ About(f, a) /\ f.op # "Delete" /\ Early(f) /\ Other(f)
  BY <1>1, <1>2, <1>3 DEF SameObjects, SameFields, About, Owned, Early, Other
<1>6. Quiet(a)
  BY <1>1 DEF Quiet, Asking, Trying, HasTried, Starting, Telling, Asks, Tries, Tried, Starts, Tells
<1>7. CASE app[a].callbacks # <<>>
  <2>1. Quiet(a)' /\ NoFrames(a) /\ NoFrames(a)'
    BY <1>1, <1>2, <1>5, <1>7, NoneFacts, FramesNow
  <2>2. ASSUME SameServants(a) PROVE Each(a)'
    <3>1. SameFrames(a)
      BY <2>1 DEF SameFrames, NoFrames, On
    <3>2. SameFields(a)
      BY <1>3, <1>4, <1>7 DEF SameFields
    <3> QED BY <1>1, <1>6, <2>1, <2>2, <3>1, <3>2, Apart DEF Untouched
  <2> QED BY <1>1, <1>2, <1>5, <1>7, <2>2, MildNone
<1>8. CASE app[a].callbacks = <<>>
  <2> PICK g : g = Check(a, Null)
    OBVIOUS
  <2>1. g \in Frame /\ g.op = "Check" /\ g.app = a /\ g.timer = Null /\ Continue(<<g>>)
    BY <1>1, <1>2, <1>8, FramesMade DEF Check
  <2>2. Sound(g)'
    BY <2>1 DEF Sound
  <2>3. \A h \in Frame : Covers(f, h) => Covers(g, h)
    BY <1>1, <2>1 DEF Covers, Early, Tries, Tried
  <2>4. NoFrames(a) /\ NoFrames(a)'
    BY <1>1, <1>5, <2>1, FramesNow DEF Other
  <2>5. Asking(a)' /\ ~Trying(a)' /\ ~HasTried(a)' /\ ~Starting(a)' /\ ~Telling(a)'
    BY <1>1, <2>1, OneFacts DEF Asks, Tries, Tried, Starts, Tells
  <2>6. ASSUME SameServants(a) PROVE Each(a)'
    BY <1>1, <1>3, <1>4, <1>6, <1>8, <2>4, <2>5, <2>6
       DEF Each, Awaits, Checking, OneDriver, Exactly, Unchecked, NoFrames, Quiet, SameServants
  <2>7. About(g, a)
    BY <2>1 DEF About
  <2> QED BY <1>1, <1>5, <2>1, <2>2, <2>3, <2>6, <2>7, MildOne
<1> QED BY <1>7, <1>8

LEMMA CheckNothingDriven ==
    ASSUME IInv, DInv, DoCheckNothing
    PROVE  DInv'
<1> PICK f : f = Head(calls)
  OBVIOUS
<1> PICK a : a = f.app
  OBVIOUS
<1> PICK g : g = CheckThen(a, f.timer, "ok")
  OBVIOUS
<1>1. /\ calls \in Seq(Frame) /\ calls # <<>> /\ Layered(calls) /\ f \in Frame /\ f.op = "Check"
      /\ a \in App \ Checked /\ f.timer \in Timer \cup {Null} /\ Each(a) /\ Sound(f)
      /\ app' = app /\ proc' = proc /\ timer' = timer /\ Continue(<<g>>)
  BY Running, FrameFields DEF DoCheckNothing, Top
<1>2. /\ g \in Frame /\ g.op = "CheckThen" /\ g.app = a /\ g.timer = f.timer /\ g.error = "ok"
  BY <1>1, FramesMade DEF CheckThen, Error
<1>3. /\ SameObjects /\ \A b \in App : SameFields(b)
      /\ About(f, a) /\ About(g, a) /\ f.op # "Delete" /\ g.op # "Delete"
  BY <1>1, <1>2 DEF SameObjects, SameFields, About, Owned
<1>4. Sound(g)'
  BY <1>1, <1>2 DEF Sound, TimerOf
<1>5. \A h \in Frame : Covers(f, h) => Covers(g, h)
  BY <1>1, <1>2 DEF Covers, Early, Tries, Tried
<1>6. Asking(a)' \/ HasTried(a)'
  BY <1>1, <1>2, OneFacts DEF Asks, Tries, Tried
<1>7. ~Starting(a)'
  BY <1>1, <1>2, OneFacts DEF Starts
<1>8. Each(a)'
  BY <1>1, <1>6, <1>7 DEF Each, Awaits, Unchecked
<1> QED BY <1>1, <1>2, <1>3, <1>4, <1>5, <1>8, MildOne

LEMMA ThenOkDriven ==
    ASSUME IInv, DInv, RequireThenOk
    PROVE  DInv'
<1> PICK f : f = Head(calls)
  OBVIOUS
<1> PICK a : a = f.app
  OBVIOUS
<1> DEFINE served == a \in Checked \/ app[a].process # Null
<1> PICK g : g = IF served THEN Clear(a, "ok") ELSE Start(a)
  OBVIOUS
<1>1. /\ calls \in Seq(Frame) /\ calls # <<>> /\ Layered(calls) /\ f \in Frame /\ f.op = "CheckThen"
      /\ a \in App /\ f.timer = Null /\ Each(a) /\ Sound(f) /\ app \in [App -> AppState]
      /\ proc' = proc /\ timer' = timer /\ Continue(<<g>>)
      /\ app' = IF served THEN app ELSE [app EXCEPT ![a].late = FALSE]
  BY Running, FrameFields DEF RequireThenOk, Top
<1>2. /\ g \in Frame /\ g.app = a
      /\ served => g.op = "Clear" /\ g.error = "ok"
      /\ ~served => g.op = "Start"
  BY <1>1, FramesMade DEF Clear, Start, Error
<1>3. \A b \in App : /\ app'[b].callbacks = app[b].callbacks /\ app'[b].process = app[b].process
                     /\ app'[b].restart = app[b].restart /\ app'[b].pending = app[b].pending
                     /\ app'[b].checking = app[b].checking
  BY <1>1 DEF AppState
<1>4. /\ SameObjects /\ \A b \in App : SameFields(b)
      /\ About(f, a) /\ About(g, a) /\ f.op # "Delete" /\ g.op # "Delete" /\ Early(f)
      /\ Other(f) /\ Other(g)
  BY <1>1, <1>2, <1>3 DEF SameObjects, SameFields, About, Owned, Early, Other
<1>5. Sound(g)'
  BY <1>1, <1>2, <1>3 DEF Sound
<1>6. \A h \in Frame : Covers(f, h) => Covers(g, h)
  BY <1>1, <1>2 DEF Covers, Early, Tries, Tried
<1>7. NoFrames(a) /\ NoFrames(a)'
  BY <1>1, <1>2, <1>4, FramesNow
<1>8. Asking(a) /\ ~Trying(a) /\ ~HasTried(a) /\ ~Starting(a) /\ ~Telling(a)
  BY <1>1, TopNow DEF Asks, Tries, Tried, Starts, Tells
<1>9. /\ ~Asking(a)' /\ ~Trying(a)' /\ ~HasTried(a)'
      /\ Telling(a)' <=> served
      /\ Starting(a)' <=> ~served
  BY <1>1, <1>2, OneFacts DEF Asks, Tries, Tried, Starts, Tells
<1>10. ASSUME SameServants(a) PROVE Each(a)'
  <2>1. Awaits(a)'
    BY <1>1, <1>3, <1>8, <1>9 DEF Each, Awaits
  <2>2. a \in Checked => Checking(a)' /\ OneDriver(a)'
    BY <1>1, <1>3, <1>7, <1>8, <1>9, <1>10
       DEF Each, Checking, OneDriver, Exactly, NoFrames, SameServants
  <2>3. a \notin Checked => Unchecked(a)'
    BY <1>1, <1>3, <1>9 DEF Each, Unchecked
  <2> QED BY <2>1, <2>2, <2>3 DEF Each
<1> QED BY <1>1, <1>2, <1>4, <1>5, <1>6, <1>10, MildOne

LEMMA ThenErrorDriven ==
    ASSUME IInv, DInv, RequireThenError
    PROVE  DInv'
<1> PICK f : f = Head(calls)
  OBVIOUS
<1> PICK a : a = f.app
  OBVIOUS
<1> PICK p : p = app[a].process
  OBVIOUS
<1>1. /\ calls \in Seq(Frame) /\ calls # <<>> /\ Layered(calls) /\ f \in Frame /\ f.op = "CheckThen"
      /\ a \in App /\ f.timer = Null /\ f.error # "ok" /\ Each(a) /\ Sound(f)
      /\ app \in [App -> AppState] /\ timer' = timer
  BY Running, FrameFields DEF RequireThenError, Top
<1>2. a \in Checked
  BY <1>1 DEF Sound
<1>3. /\ About(f, a) /\ f.op # "Delete" /\ Early(f) /\ Other(f)
  BY <1>1 DEF About, Owned, Early, Other
<1>4. Asking(a) /\ ~Trying(a) /\ ~HasTried(a) /\ ~Starting(a) /\ ~Telling(a)
  BY <1>1, TopNow DEF Asks, Tries, Tried, Starts, Tells
<1>5. CASE p # Null
  <2>1. /\ app' = [app EXCEPT ![a].restart = TRUE] /\ proc' = Killed(p) /\ Continue(<<>>)
        /\ p \in Proc
    BY <1>1, <1>5 DEF RequireThenError, AppState
  <2>2. /\ app'[a].callbacks = app[a].callbacks /\ app'[a].process = p
        /\ app'[a].restart = TRUE /\ app'[a].pending = app[a].pending
        /\ app'[a].checking = app[a].checking
        /\ \A b \in App : b # a => app'[b] = app[b]
    BY <1>1, <2>1 DEF AppState
  <2>3. /\ SameObjects /\ \A b \in App : b # a => SameFields(b)
    <3>1. \A q \in Proc : /\ proc'[q].role = proc[q].role /\ proc'[q].app = proc[q].app
                          /\ proc'[q].timer = proc[q].timer /\ proc'[q].status = proc[q].status
      BY <2>1, KilledProcess DEF IInv
    <3> QED BY <1>1, <2>2, <3>1 DEF SameObjects, SameFields
  <2>4. Quiet(a)' /\ NoFrames(a) /\ NoFrames(a)'
    BY <1>1, <1>3, <2>1, NoneFacts, FramesNow
  <2>5. ASSUME SameServants(a) PROVE Each(a)'
    BY <1>1, <1>2, <1>4, <1>5, <2>2, <2>4, <2>5
       DEF Each, Awaits, Checking, OneDriver, Exactly, NoFrames, Quiet, SameServants
  <2> QED BY <1>1, <1>3, <2>1, <2>3, <2>5, MildNone
<1>6. CASE p = Null
  <2> PICK g : g = Start(a)
    OBVIOUS
  <2>1. /\ app' = [app EXCEPT ![a].late = FALSE] /\ proc' = proc /\ Continue(<<g>>)
    BY <1>6 DEF RequireThenError
  <2>2. g \in Frame /\ g.op = "Start" /\ g.app = a
    BY <1>1, FramesMade DEF Start
  <2>3. \A b \in App : /\ app'[b].callbacks = app[b].callbacks /\ app'[b].process = app[b].process
                       /\ app'[b].restart = app[b].restart /\ app'[b].pending = app[b].pending
                       /\ app'[b].checking = app[b].checking
    BY <1>1, <2>1 DEF AppState
  <2>4. /\ SameObjects /\ \A b \in App : SameFields(b)
        /\ About(g, a) /\ g.op # "Delete" /\ Other(g)
    BY <1>1, <2>1, <2>2, <2>3 DEF SameObjects, SameFields, About, Owned, Other
  <2>5. Sound(g)'
    BY <2>2 DEF Sound
  <2>6. \A h \in Frame : Covers(f, h) => Covers(g, h)
    BY <1>1, <2>2 DEF Covers, Early, Tries, Tried
  <2>7. NoFrames(a) /\ NoFrames(a)'
    BY <1>1, <1>3, <2>1, <2>2, <2>4, FramesNow
  <2>8. ~Asking(a)' /\ ~Trying(a)' /\ ~HasTried(a)' /\ ~Telling(a)' /\ Starting(a)'
    BY <1>1, <2>1, <2>2, OneFacts DEF Asks, Tries, Tried, Starts, Tells
  <2>9. ASSUME SameServants(a) PROVE Each(a)'
    BY <1>1, <1>2, <1>4, <1>6, <2>3, <2>7, <2>8, <2>9
       DEF Each, Awaits, Checking, OneDriver, Exactly, NoFrames, SameServants
  <2> QED BY <1>1, <1>3, <2>1, <2>2, <2>4, <2>5, <2>6, <2>9, MildOne
<1> QED BY <1>5, <1>6

\* What AppOnPreamble and StartApp set is not what the others look at.
Counted(new, a, x, y) == new = [app EXCEPT ![a].pending = x, ![a].errors = y]

LEMMA PreambleCounted ==
    ASSUME app \in [App -> AppState], NEW a \in App, NEW x, NEW y, NEW new, Counted(new, a, x, y)
    PROVE  /\ new[a].callbacks = app[a].callbacks /\ new[a].process = app[a].process
           /\ new[a].restart = app[a].restart /\ new[a].pending = x
           /\ new[a].checking = app[a].checking
           /\ \A b \in App : b # a => new[b] = app[b]
<1>1. PICK r \in AppState : r = app[a]
  OBVIOUS
<1>2. PICK s : s = [r EXCEPT !.pending = x]
  OBVIOUS
<1>3. PICK u : u = [s EXCEPT !.errors = y]
  OBVIOUS
<1>4. /\ s.callbacks = r.callbacks /\ s.process = r.process /\ s.restart = r.restart
      /\ s.checking = r.checking /\ s.pending = x
  BY <1>2 DEF AppState
<1>5. /\ u.callbacks = s.callbacks /\ u.process = s.process /\ u.restart = s.restart
      /\ u.checking = s.checking /\ u.pending = s.pending
  BY <1>2, <1>3 DEF AppState
<1>6. new = [app EXCEPT ![a] = u]
  BY <1>1, <1>2, <1>3 DEF Counted
<1>7. new[a] = u /\ \A b \in App : b # a => new[b] = app[b]
  BY <1>6
<1> QED BY <1>1, <1>4, <1>5, <1>7

LEMMA StartDriven ==
    ASSUME Obedient, IInv, DInv, DoStart
    PROVE  DInv'
<1> PICK f : f = Head(calls)
  OBVIOUS
<1> PICK a : a = f.app
  OBVIOUS
<1> PICK needed : needed = Preamble[a]
  OBVIOUS
<1>1. /\ calls \in Seq(Frame) /\ calls # <<>> /\ Layered(calls) /\ f \in Frame /\ f.op = "Start"
      /\ a \in App /\ Each(a) /\ app \in [App -> AppState] /\ needed \in Seq(App)
      /\ proc' = proc /\ timer' = timer
      /\ app' = [app EXCEPT ![a].pending = Len(needed), ![a].errors = FALSE]
  BY Running, FrameFields, ConfigAssumption DEF DoStart, Top
<1>2. /\ app'[a].callbacks = app[a].callbacks /\ app'[a].process = app[a].process
      /\ app'[a].restart = app[a].restart /\ app'[a].pending = Len(needed)
      /\ app'[a].checking = app[a].checking
      /\ \A b \in App : b # a => app'[b] = app[b]
  <2>1. PICK e : Counted(app', a, Len(needed), e)
    BY <1>1 DEF Counted
  <2>2. app \in [App -> AppState] /\ a \in App
    BY <1>1
  <2> QED BY <2>1, <2>2, PreambleCounted
<1>3. /\ SameObjects /\ \A b \in App : b # a => SameFields(b)
      /\ About(f, a) /\ f.op # "Delete" /\ Early(f) /\ Other(f)
  BY <1>1, <1>2 DEF SameObjects, SameFields, About, Owned, Early, Other
<1>4. ~Asking(a) /\ ~Trying(a) /\ ~HasTried(a) /\ Starting(a) /\ ~Telling(a)
  BY <1>1, TopNow DEF Asks, Tries, Tried, Starts, Tells
<1>5. CASE needed = <<>>
  <2> PICK g : g = StartThen(a, "ok")
    OBVIOUS
  <2>1. Continue(<<g>>) /\ g \in Frame /\ g.op = "StartThen" /\ g.app = a /\ g.error = "ok"
    BY <1>1, <1>5, FramesMade DEF DoStart, StartThen, Error
  <2>2. About(g, a) /\ Other(g) /\ Sound(g)'
    BY <2>1 DEF About, Other, Sound
  <2>3. \A h \in Frame : Covers(f, h) => Covers(g, h)
    BY <1>1, <2>1 DEF Covers, Early, Tries, Tried
  <2>4. NoFrames(a) /\ NoFrames(a)'
    BY <1>1, <1>3, <2>1, <2>2, FramesNow
  <2>5. ~Asking(a)' /\ ~Trying(a)' /\ ~HasTried(a)' /\ ~Telling(a)' /\ Starting(a)'
    BY <1>1, <2>1, OneFacts DEF Asks, Tries, Tried, Starts, Tells
  <2>6. app'[a].pending = 0
    BY <1>2, <1>5
  <2>7. ASSUME SameServants(a) PROVE Each(a)'
    <3>1. Awaits(a)'
      BY <1>1, <1>2, <1>4, <2>5, <2>6 DEF Each, Awaits
    <3>2. a \in Checked => Checking(a)' /\ OneDriver(a)'
      BY <1>1, <1>2, <1>4, <2>4, <2>5, <2>6, <2>7
         DEF Each, Checking, OneDriver, Exactly, NoFrames, SameServants
    <3>3. a \notin Checked => Unchecked(a)'
      BY <1>1, <1>2, <2>5, <2>6 DEF Each, Unchecked
    <3> QED BY <3>1, <3>2, <3>3 DEF Each
  <2> QED BY <1>1, <1>3, <2>1, <2>2, <2>3, <2>7, MildOne
<1>6. CASE needed # <<>>
  <2>0. PICK fs : fs = [i \in 1..Len(needed) |-> Require(needed[i], a)]
    OBVIOUS
  <2>1. /\ a \in Checked /\ Len(needed) \in Nat \ {0} /\ Continue(fs)
    <3>1. a \in Checked
      BY <1>1, <1>6 DEF Obedient
    <3>2. Len(needed) \in Nat \ {0}
      BY <1>1, <1>6
    <3>3. Continue(fs)
      BY <1>6, <2>0 DEF DoStart
    <3> QED BY <3>1, <3>2, <3>3
  <2>2. /\ fs \in Seq(Frame) /\ fs # <<>> /\ 1 \in DOMAIN fs
        /\ \A i \in DOMAIN fs : fs[i].op = "Require" /\ fs[i] \in Frame
    <3>1. \A i \in 1..Len(needed) : Require(needed[i], a) \in Frame
      BY <1>1, FramesMade DEF Waiter
    <3>2. \A i \in DOMAIN fs : fs[i] \in Frame /\ fs[i] = Require(needed[i], a)
      BY <2>0, <3>1
    <3>3. fs \in Seq(Frame) /\ fs # <<>> /\ 1 \in DOMAIN fs
      BY <2>0, <2>1, <3>1
    <3> QED BY <3>2, <3>3 DEF Require
  <2>3. Layered(fs)
    <3>1. ASSUME NEW g, NEW h, g.op = "Require", h.op = "Require" PROVE Covers(g, h)
      BY <3>1 DEF Covers, Early, Tries, Tried
    <3> QED BY <2>2, <3>1 DEF Layered
  <2>4. ASSUME NEW i \in DOMAIN fs
        PROVE  /\ Sound(fs[i])' /\ About(fs[i], a) /\ fs[i].op # "Delete" /\ Other(fs[i])
               /\ \A h \in Frame : Covers(f, h) => Covers(fs[i], h)
    <3> PICK g : g = fs[i]
      OBVIOUS
    <3>1. g.op = "Require"
      BY <2>2
    <3>2. Sound(g)' /\ About(g, a) /\ g.op # "Delete" /\ Other(g)
      BY <3>1 DEF Sound, About, Owned, Other
    <3>3. \A h \in Frame : Covers(f, h) => Covers(g, h)
      BY <1>1, <3>1 DEF Covers, Early, Tries, Tried
    <3>4. Sound(fs[i])' <=> Sound(g)'
      BY <2>1 DEF Sound
    <3> QED BY <3>2, <3>3, <3>4
  <2>5. NoFrames(a) /\ NoFrames(a)'
    <3>1. /\ \A g : On(g)' <=> In(g, fs) \/ Below(g)
          /\ \A g : On(g) <=> g = f \/ Below(g)
      BY <1>1, <2>1, <2>2, StackAfter
    <3>2. /\ \A g : Other(g) => Cleared(a) # g /\ SetChecking(a, TRUE) # g /\ SetChecking(a, FALSE) # g
      BY DEF Other, Cleared, SetChecking
    <3>3. ~In(Cleared(a), fs) /\ ~In(SetChecking(a, TRUE), fs) /\ ~In(SetChecking(a, FALSE), fs)
      BY <2>4, <3>2 DEF In
    <3>4. NoFrames(a)
      BY <1>1, <1>3, <3>1, <3>2, NothingBelow DEF NoFrames
    <3>5. NoFrames(a)'
      BY <1>1, <1>3, <3>1, <3>3, NothingBelow DEF NoFrames, On
    <3> QED BY <3>4, <3>5
  <2>6. ~Asking(a)' /\ ~Trying(a)' /\ ~HasTried(a)' /\ ~Telling(a)' /\ ~Starting(a)'
    BY <1>1, <2>1, <2>2, NewTop DEF Asks, Tries, Tried, Starts, Tells
  <2>7. app'[a].pending # 0
    BY <1>2, <2>1
  <2>8. ASSUME SameServants(a) PROVE Each(a)'
    <3>1. Awaits(a)'
      BY <1>1, <1>2, <1>4, <2>6 DEF Each, Awaits
    <3>2. Checking(a)' /\ OneDriver(a)'
      BY <1>1, <1>2, <1>4, <2>1, <2>5, <2>6, <2>7, <2>8
         DEF Each, Checking, OneDriver, Exactly, NoFrames, SameServants
    <3> QED BY <2>1, <3>1, <3>2 DEF Each
  <2>9. SameServants(a)
    BY <1>1, <1>3, <2>1, <2>2, <2>4, MildFacts
  <2> QED BY <1>1, <1>3, <2>1, <2>2, <2>3, <2>4, <2>8, <2>9, MildStep
<1> QED BY <1>5, <1>6

LEMMA StartErrorDriven ==
    ASSUME IInv, DInv, StartThenError
    PROVE  DInv'
<1> PICK f : f = Head(calls)
  OBVIOUS
<1> PICK a : a = f.app
  OBVIOUS
<1> PICK g : g = Clear(a, f.error)
  OBVIOUS
<1>1. /\ calls \in Seq(Frame) /\ calls # <<>> /\ Layered(calls) /\ f \in Frame /\ f.op = "StartThen"
      /\ a \in App /\ f.error # "ok" /\ f.error \in Error /\ Each(a) /\ Sound(f)
      /\ app' = app /\ proc' = proc /\ timer' = timer /\ Continue(<<g>>)
  BY Running, FrameFields DEF StartThenError, Top
<1>2. /\ g \in Frame /\ g.op = "Clear" /\ g.app = a /\ g.error = f.error
      /\ a \in Checked
  BY <1>1, FramesMade DEF Clear, Sound
<1>3. /\ SameObjects /\ \A b \in App : SameFields(b)
      /\ About(f, a) /\ About(g, a) /\ f.op # "Delete" /\ g.op # "Delete" /\ Other(f) /\ Other(g)
  BY <1>1, <1>2 DEF SameObjects, SameFields, About, Owned, Other
<1>4. Sound(g)'
  BY <1>1, <1>2 DEF Sound
<1>5. \A h \in Frame : Covers(f, h) => Covers(g, h)
  BY <1>1, <1>2 DEF Covers, Early, Tries, Tried
<1>6. SameFrames(a)
  <2>1. \A h : (On(h)' <=> h = g \/ Below(h)) /\ (On(h) <=> h = f \/ Below(h))
    BY <1>1, <1>2, OneFacts
  <2>2. \A h : Other(h) => Cleared(a) # h /\ SetChecking(a, TRUE) # h /\ SetChecking(a, FALSE) # h
    BY DEF Other, Cleared, SetChecking
  <2> QED BY <1>3, <2>1, <2>2 DEF SameFrames, On
<1>7. ~Asking(a) /\ ~Trying(a) /\ ~HasTried(a) /\ Starting(a) /\ ~Telling(a)
  BY <1>1, TopNow DEF Asks, Tries, Tried, Starts, Tells
<1>8. ~Asking(a)' /\ ~Trying(a)' /\ ~HasTried(a)' /\ ~Starting(a)' /\ Telling(a)'
  BY <1>1, <1>2, OneFacts DEF Asks, Tries, Tried, Starts, Tells
<1>9. ASSUME SameServants(a) PROVE Each(a)'
  BY <1>1, <1>2, <1>6, <1>7, <1>8, <1>9
     DEF Each, Awaits, Checking, OneDriver, Exactly, SameFrames, SameServants
<1> QED BY <1>1, <1>2, <1>3, <1>4, <1>5, <1>9, MildOne

LEMMA ClearDriven ==
    ASSUME IInv, DInv, DoClear
    PROVE  DInv'
<1> PICK f : f = Head(calls)
  OBVIOUS
<1> PICK a : a = f.app
  OBVIOUS
<1> PICK e : e = f.error
  OBVIOUS
<1> PICK waiting : waiting = app[a].callbacks
  OBVIOUS
<1>0. PICK es : es = [i \in 1..Len(waiting) |-> Invoke(a, waiting[i], e)]
  OBVIOUS
<1>1. PICK fs : fs = es \o <<Cleared(a)>>
  OBVIOUS
<1>2. /\ calls \in Seq(Frame) /\ calls # <<>> /\ Layered(calls) /\ f \in Frame /\ f.op = "Clear"
      /\ a \in App /\ e \in Error /\ Each(a) /\ Sound(f) /\ waiting \in Seq(Waiter)
      /\ app' = app /\ proc' = proc /\ timer' = timer /\ Continue(fs)
  BY <1>0, <1>1, Running, FrameFields DEF DoClear, Top, AppState
<1>3. /\ Cleared(a) \in Frame
      /\ \A i \in 1..Len(waiting) : Invoke(a, waiting[i], e) \in Frame
  BY <1>2, FramesMade
<1>4. /\ es \in Seq(Frame) /\ <<Cleared(a)>> \in Seq(Frame)
      /\ \A i \in DOMAIN es : \E w : es[i] = Invoke(a, w, e)
      /\ DOMAIN <<Cleared(a)>> = {1} /\ <<Cleared(a)>>[1] = Cleared(a)
  <2>1. PICK n \in Nat : n = Len(waiting)
    BY <1>2
  <2>2. DOMAIN es = 1..n /\ \A i \in 1..n : es[i] = Invoke(a, waiting[i], e)
    BY <1>0, <2>1
  <2>3. es \in [1..n -> Frame]
    BY <1>0, <1>3, <2>1
  <2>4. es \in Seq(Frame)
    BY <2>3
  <2>5. PICK c \in Frame : c = Cleared(a)
    BY <1>3
  <2>6. <<c>> \in Seq(Frame) /\ DOMAIN <<c>> = {1} /\ <<c>>[1] = c
    OBVIOUS
  <2> QED BY <2>2, <2>4, <2>5, <2>6
<1>5. /\ fs \in Seq(Frame)
      /\ \A i \in DOMAIN fs : fs[i] = Cleared(a) \/ \E w : fs[i] = Invoke(a, w, e)
      /\ In(Cleared(a), fs)
  <2>1. /\ fs \in Seq(Frame)
        /\ \A i \in DOMAIN fs : \/ i \in DOMAIN es /\ fs[i] = es[i]
                                \/ i - Len(es) \in DOMAIN <<Cleared(a)>>
                                   /\ fs[i] = <<Cleared(a)>>[i - Len(es)]
        /\ \A i \in DOMAIN <<Cleared(a)>> : i + Len(es) \in DOMAIN fs
                                            /\ fs[i + Len(es)] = <<Cleared(a)>>[i]
    BY <1>1, <1>4, Joins
  <2>2. \A i \in DOMAIN fs : fs[i] = Cleared(a) \/ \E w : fs[i] = Invoke(a, w, e)
    BY <1>4, <2>1
  <2>3. In(Cleared(a), fs)
    BY <1>4, <2>1 DEF In
  <2> QED BY <2>1, <2>2, <2>3
<1>6. ASSUME NEW i \in DOMAIN fs
      PROVE  /\ fs[i].op \in {"Invoke", "Cleared"} /\ fs[i].app = a
             /\ fs[i].op = "Invoke" => fs[i].error = e
             /\ fs[i] # SetChecking(a, TRUE) /\ fs[i] # SetChecking(a, FALSE)
  BY <1>5 DEF Invoke, Cleared, SetChecking
<1>7. fs # <<>> /\ 1 \in DOMAIN fs
  BY <1>5 DEF In
<1>8. Layered(fs)
  <2>1. ASSUME NEW g, NEW h, g.op \in {"Invoke", "Cleared"}, h.op \in {"Invoke", "Cleared"}
        PROVE  Covers(g, h)
    BY <2>1 DEF Covers, Early, Tries, Tried
  <2>2. \A i \in DOMAIN fs : fs[i].op \in {"Invoke", "Cleared"}
    BY <1>6
  <2> QED BY <2>1, <2>2 DEF Layered
<1>9. SameObjects /\ About(f, a) /\ f.op # "Delete" /\ \A b \in App : SameFields(b)
  BY <1>2 DEF SameObjects, About, Owned, SameFields
<1>10. ASSUME NEW i \in DOMAIN fs
       PROVE  /\ Sound(fs[i])' /\ About(fs[i], a) /\ fs[i].op # "Delete"
              /\ \A h \in Frame : Covers(f, h) => Covers(fs[i], h)
  <2> PICK g : g = fs[i]
    OBVIOUS
  <2>1. g.op \in {"Invoke", "Cleared"} /\ g.app = a /\ (g.op = "Invoke" => g.error = e)
    BY <1>6
  <2>2. Sound(g)'
    BY <1>2, <2>1 DEF Sound
  <2>3. \A h \in Frame : Covers(f, h) => Covers(g, h)
    BY <1>2, <2>1 DEF Covers, Early, Tries, Tried
  <2>4. Sound(fs[i])' <=> Sound(g)'
    BY <1>5 DEF Sound
  <2> QED BY <2>1, <2>2, <2>3, <2>4 DEF About
<1>11. /\ On(Cleared(a))'
       /\ On(SetChecking(a, TRUE))' <=> On(SetChecking(a, TRUE))
       /\ On(SetChecking(a, FALSE))' <=> On(SetChecking(a, FALSE))
  <2>1. /\ \A g : On(g)' <=> In(g, fs) \/ Below(g)
        /\ \A g : On(g) <=> g = f \/ Below(g)
    BY <1>2, <1>5, StackAfter
  <2>2. /\ f # SetChecking(a, TRUE) /\ f # SetChecking(a, FALSE)
        /\ ~In(SetChecking(a, TRUE), fs) /\ ~In(SetChecking(a, FALSE), fs)
    BY <1>2, <1>6 DEF SetChecking, In
  <2>3. On(Cleared(a))' <=> In(Cleared(a), fs) \/ Below(Cleared(a))
    BY <2>1
  <2>4. /\ On(SetChecking(a, TRUE))' <=> On(SetChecking(a, TRUE))
        /\ On(SetChecking(a, FALSE))' <=> On(SetChecking(a, FALSE))
    BY <2>1, <2>2 DEF On
  <2> QED BY <1>5, <2>3, <2>4
<1>12. ~Asking(a) /\ ~Trying(a) /\ ~HasTried(a) /\ ~Starting(a) /\ Telling(a)
  BY <1>2, TopNow DEF Asks, Tries, Tried, Starts, Tells
<1>13. Quiet(a)'
  BY <1>2, <1>5, <1>6, <1>7, NewTop DEF Quiet, Asks, Tries, Tried, Starts, Tells
<1>14. SameServants(a)
  BY <1>2, <1>5, <1>9, <1>10, MildFacts
<1>15. Each(a)'
  <2>1. Awaits(a)'
    BY <1>2, <1>13 DEF Each, Awaits, Quiet
  <2>2. a \in Checked => Checking(a)' /\ OneDriver(a)'
    BY <1>2, <1>11, <1>12, <1>13, <1>14
       DEF Each, Checking, OneDriver, Exactly, Quiet, SameServants
  <2>3. a \notin Checked => Unchecked(a)'
    BY <1>2, <1>11 DEF Each, Unchecked
  <2> QED BY <2>1, <2>2, <2>3 DEF Each
<1> QED BY <1>2, <1>5, <1>8, <1>9, <1>10, <1>15, MildStep

LEMMA ClearedDriven ==
    ASSUME Acyclic, IInv, KInv, DInv, DoCleared
    PROVE  DInv'
<1> PICK f : f = Head(calls)
  OBVIOUS
<1> PICK a : a = f.app
  OBVIOUS
<1>1. /\ calls \in Seq(Frame) /\ calls # <<>> /\ Layered(calls) /\ f \in Frame /\ f.op = "Cleared"
      /\ a \in App /\ Each(a) /\ app \in [App -> AppState]
      /\ app' = [app EXCEPT ![a].callbacks = <<>>]
      /\ proc' = proc /\ timer' = timer /\ Continue(<<>>)
  BY Running, FrameFields DEF DoCleared, Top
<1>2. /\ app'[a].callbacks = <<>> /\ app'[a].process = app[a].process
      /\ app'[a].restart = app[a].restart /\ app'[a].pending = app[a].pending
      /\ app'[a].checking = app[a].checking
      /\ \A b \in App : b # a => app'[b] = app[b]
  BY <1>1 DEF AppState
<1>3. /\ SameObjects /\ \A b \in App : b # a => SameFields(b)
      /\ About(f, a) /\ f.op # "Delete"
  BY <1>1, <1>2 DEF SameObjects, SameFields, About, Owned
<1>4. f = Cleared(a)
  BY <1>1 DEF Frame, Cleared
<1>5. ~Below(Cleared(a))
  <2> SUFFICES ASSUME NEW j \in DOMAIN calls, j # 1, calls[j] = Cleared(a) PROVE FALSE
    BY DEF Below
  <2>1. 1 \in DOMAIN calls /\ 1 < j /\ f = calls[1]
    BY <1>1
  <2>2. Above(f, a)
    BY <2>1 DEF KInv, Nested, Cleared
  <2> QED BY <1>1, <2>2, Numbered DEF Above
<1>6. /\ Quiet(a)' /\ On(Cleared(a)) /\ ~On(Cleared(a))'
      /\ On(SetChecking(a, TRUE))' <=> On(SetChecking(a, TRUE))
      /\ On(SetChecking(a, FALSE))' <=> On(SetChecking(a, FALSE))
  <2>1. /\ Quiet(a)'
        /\ \A g : On(g)' <=> Below(g)
        /\ \A g : On(g) <=> g = f \/ Below(g)
    BY <1>1, NoneFacts
  <2>2. f # SetChecking(a, TRUE) /\ f # SetChecking(a, FALSE)
    BY <1>1 DEF SetChecking
  <2>3. On(Cleared(a)) /\ (On(Cleared(a))' <=> Below(Cleared(a)))
    BY <1>4, <2>1
  <2>4. /\ On(SetChecking(a, TRUE))' <=> On(SetChecking(a, TRUE))
        /\ On(SetChecking(a, FALSE))' <=> On(SetChecking(a, FALSE))
    BY <2>1, <2>2 DEF On
  <2> QED BY <1>5, <2>1, <2>3, <2>4
<1>7. Quiet(a)
  BY <1>1 DEF Quiet, Asking, Trying, HasTried, Starting, Telling, Asks, Tries, Tried, Starts, Tells
<1>8. ASSUME SameServants(a) PROVE Each(a)'
  <2>1. Awaits(a)'
    BY <1>1, <1>2, <1>6 DEF Each, Awaits, Quiet
  <2>2. a \in Checked => Checking(a)' /\ OneDriver(a)'
    BY <1>1, <1>2, <1>6, <1>7, <1>8
       DEF Each, Checking, OneDriver, Exactly, Quiet, SameServants
  <2>3. a \notin Checked => Unchecked(a)'
    BY <1>1, <1>2 DEF Each, Unchecked
  <2> QED BY <2>1, <2>2, <2>3 DEF Each
<1> QED BY <1>1, <1>3, <1>8, MildNone

LEMMA AnswerClientDriven ==
    ASSUME IInv, DInv, AnswerClient
    PROVE  DInv'
<1> PICK f : f = Head(calls)
  OBVIOUS
<1> PICK a : a = f.app
  OBVIOUS
<1>1. /\ calls # <<>> /\ f.op = "Invoke" /\ a \in App
      /\ app' = app /\ proc' = proc /\ timer' = timer /\ Continue(<<>>)
  BY Running, FrameFields DEF AnswerClient, Top
<1>2. SameObjects /\ About(f, a) /\ f.op \notin Owned \cup {"Delete"} /\ \A b \in App : SameFields(b)
  BY <1>1 DEF SameObjects, About, Owned, SameFields
<1>3. <<>> \in Seq(Frame) /\ DOMAIN <<>> = {}
  OBVIOUS
<1>4. ASSUME SameServants(a) PROVE Each(a)'
  BY <1>1, <1>2, <1>3, <1>4, OthersApart
<1> QED BY <1>1, <1>2, <1>4, MildNone

LEMMA SetCheckingDriven ==
    ASSUME IInv, DInv, DoSetChecking
    PROVE  DInv'
<1> PICK f : f = Head(calls)
  OBVIOUS
<1> PICK a : a = f.app
  OBVIOUS
<1> PICK c : c = f.to
  OBVIOUS
<1>1. /\ calls \in Seq(Frame) /\ calls # <<>> /\ Layered(calls) /\ f \in Frame
      /\ f.op = "SetChecking" /\ c \in BOOLEAN
      /\ a \in App /\ Each(a) /\ app \in [App -> AppState]
      /\ app' = [app EXCEPT ![a].checking = c]
      /\ proc' = proc /\ timer' = timer /\ Continue(<<>>)
  BY Running, FrameFields DEF DoSetChecking, Top
<1>2. /\ app'[a].callbacks = app[a].callbacks /\ app'[a].process = app[a].process
      /\ app'[a].restart = app[a].restart /\ app'[a].pending = app[a].pending
      /\ app'[a].checking = c
      /\ \A b \in App : b # a => app'[b] = app[b]
  BY <1>1 DEF AppState
<1>3. /\ SameObjects /\ \A b \in App : b # a => SameFields(b)
      /\ About(f, a) /\ f.op # "Delete"
  BY <1>1, <1>2 DEF SameObjects, SameFields, About, Owned
<1>4. f = SetChecking(a, c)
  BY <1>1 DEF Frame, SetChecking
<1>5. /\ Quiet(a)' /\ On(SetChecking(a, c))
      /\ On(Cleared(a))' <=> On(Cleared(a))
      /\ On(SetChecking(a, TRUE))' => On(SetChecking(a, TRUE))
      /\ On(SetChecking(a, FALSE))' => On(SetChecking(a, FALSE))
  <2>1. /\ Quiet(a)'
        /\ \A g : On(g)' <=> Below(g)
        /\ \A g : On(g) <=> g = f \/ Below(g)
    BY <1>1, NoneFacts
  <2>2. f # Cleared(a)
    BY <1>1 DEF Cleared
  <2>3. On(SetChecking(a, c))
    BY <1>4, <2>1
  <2>4. /\ On(Cleared(a))' <=> On(Cleared(a))
        /\ On(SetChecking(a, TRUE))' => On(SetChecking(a, TRUE))
        /\ On(SetChecking(a, FALSE))' => On(SetChecking(a, FALSE))
    BY <2>1, <2>2 DEF On
  <2> QED BY <2>1, <2>3, <2>4
<1>6. Quiet(a)
  BY <1>1 DEF Quiet, Asking, Trying, HasTried, Starting, Telling, Asks, Tries, Tried, Starts, Tells
<1>7. ASSUME SameServants(a) PROVE Each(a)'
  <2>1. Awaits(a)'
    BY <1>1, <1>2, <1>5 DEF Each, Awaits, Quiet
  <2>2. a \in Checked => OneDriver(a)'
    BY <1>1, <1>2, <1>5, <1>6, <1>7 DEF Each, OneDriver, Exactly, Quiet, SameServants
  <2>3. CASE c = TRUE
    <3>1. On(SetChecking(a, TRUE))
      BY <1>5, <2>3
    <3>2. a \in Checked => Checking(a)'
      BY <1>1, <1>2, <1>5, <1>6, <1>7, <2>3, <3>1 DEF Each, Checking, Quiet, SameServants
    <3>3. a \notin Checked => Unchecked(a)'
      BY <1>1, <1>2, <1>5, <1>6, <3>1 DEF Each, Unchecked, Ready, Quiet
    <3> QED BY <2>1, <2>2, <3>2, <3>3 DEF Each
  <2>4. CASE c = FALSE
    <3>1. On(SetChecking(a, FALSE))
      BY <1>5, <2>4
    <3>2. a \in Checked => Checking(a)'
      BY <1>1, <1>2, <1>5, <1>6, <1>7, <2>4, <3>1 DEF Each, Checking, Quiet, SameServants
    <3>3. a \notin Checked => Unchecked(a)'
      BY <1>1, <1>2, <1>5, <1>6, <3>1 DEF Each, Unchecked, Ready, Quiet
    <3> QED BY <2>1, <2>2, <3>2, <3>3 DEF Each
  <2> QED BY <1>1, <2>3, <2>4
<1> QED BY <1>1, <1>3, <1>7, MildNone

\* The closure CheckPreamble makes for an app is kept as often as the app
\* still counts it.
PInv == \A a \in App : HasCopies(a, app[a].pending)

LEMMA PreambleDriven ==
    ASSUME IInv, PInv, DInv, AnswerPreamble
    PROVE  DInv'
<1> PICK f : f = Head(calls)
  OBVIOUS
<1> PICK a : a = f.then
  OBVIOUS
<1> PICK left : left = app[a].pending - 1
  OBVIOUS
<1> PICK errors : errors = (app[a].errors \/ f.error # "ok")
  OBVIOUS
<1>1. /\ calls \in Seq(Frame) /\ calls # <<>> /\ Layered(calls) /\ f \in Frame /\ f.op = "Invoke"
      /\ a \in App /\ Each(a) /\ app \in [App -> AppState]
      /\ app' = [app EXCEPT ![a].pending = left, ![a].errors = errors]
      /\ proc' = proc /\ timer' = timer
  BY Running DEF AnswerPreamble, Top
<1>2. /\ app'[a].callbacks = app[a].callbacks /\ app'[a].process = app[a].process
      /\ app'[a].restart = app[a].restart /\ app'[a].pending = left
      /\ app'[a].checking = app[a].checking
      /\ \A b \in App : b # a => app'[b] = app[b]
  <2>1. PICK e : Counted(app', a, left, e)
    BY <1>1 DEF Counted
  <2>2. app \in [App -> AppState] /\ a \in App
    BY <1>1
  <2> QED BY <2>1, <2>2, PreambleCounted
<1>3. /\ SameObjects /\ \A b \in App : b # a => SameFields(b)
      /\ About(f, a) /\ f.op # "Delete" /\ Other(f)
  BY <1>1, <1>2 DEF SameObjects, SameFields, About, Owned, Other
<1>4. app[a].pending # 0
  <2>1. PICK fs \in Seq(Frame) : Continue(fs)
    <3>1. <<>> \in Seq(Frame) /\ <<StartThen(a, IF errors THEN "failed" ELSE "ok")>> \in Seq(Frame)
      BY <1>1, FramesMade DEF Error
    <3> QED BY <3>1 DEF AnswerPreamble
  <2>2. Owes(f, a)
    BY <1>1 DEF Owes
  <2>3. PICK n \in Nat : Count(calls, a) = 1 + n
    BY <1>1, <2>1, <2>2, StackCounts
  <2>4. /\ IsFiniteSet(PlacesIn(Vectors, Busy, a))
        /\ app[a].pending = Cardinality(PlacesIn(Vectors, Busy, a)) + Count(calls, a)
    BY <1>1 DEF PInv, HasCopies
  <2> QED BY <2>3, <2>4, FS_CardinalityType
<1>5. a \in Checked
  BY <1>1, <1>4 DEF Each, Unchecked
<1>6. Quiet(a)
  BY <1>1 DEF Quiet, Asking, Trying, HasTried, Starting, Telling, Asks, Tries, Tried, Starts, Tells
<1>7. \A h : Other(h) => Cleared(a) # h /\ SetChecking(a, TRUE) # h /\ SetChecking(a, FALSE) # h
  BY DEF Other, Cleared, SetChecking
<1>8. CASE left # 0
  <2>1. Continue(<<>>)
    BY <1>8 DEF AnswerPreamble
  <2>2. Quiet(a)'
    BY <1>1, <2>1, NoneFacts
  <2>3. SameFrames(a)
    <3>1. \A h : (On(h)' <=> Below(h)) /\ (On(h) <=> h = f \/ Below(h))
      BY <1>1, <2>1, NoneFacts
    <3> QED BY <1>3, <1>7, <3>1 DEF SameFrames, On
  <2>4. ASSUME SameServants(a) PROVE Each(a)'
    BY <1>1, <1>2, <1>4, <1>5, <1>6, <1>8, <2>2, <2>3, <2>4
       DEF Each, Awaits, Checking, OneDriver, Exactly, Quiet, SameFrames, SameServants
  <2> QED BY <1>1, <1>3, <2>1, <2>4, MildNone
<1>9. CASE left = 0
  <2> PICK g : g = StartThen(a, IF errors THEN "failed" ELSE "ok")
    OBVIOUS
  <2>1. Continue(<<g>>)
    BY <1>9 DEF AnswerPreamble
  <2>2. g \in Frame /\ g.op = "StartThen" /\ g.app = a
    BY <1>1, FramesMade DEF StartThen, Error
  <2>3. About(g, a) /\ Other(g) /\ Sound(g)' /\ g.op # "Delete"
    BY <1>5, <2>2 DEF About, Other, Sound
  <2>4. \A h \in Frame : Covers(f, h) => Covers(g, h)
    BY <1>1, <1>5, <2>2 DEF Covers, Early, Tries, Tried
  <2>5. ~Asking(a)' /\ ~Trying(a)' /\ ~HasTried(a)' /\ Starting(a)' /\ ~Telling(a)'
    BY <1>1, <2>1, <2>2, OneFacts DEF Asks, Tries, Tried, Starts, Tells
  <2>6. SameFrames(a)
    <3>1. \A h : (On(h)' <=> h = g \/ Below(h)) /\ (On(h) <=> h = f \/ Below(h))
      BY <1>1, <2>1, <2>2, OneFacts
    <3> QED BY <1>3, <1>7, <2>3, <3>1 DEF SameFrames, On
  <2>7. ASSUME SameServants(a) PROVE Each(a)'
    BY <1>1, <1>2, <1>4, <1>5, <1>6, <1>9, <2>5, <2>6, <2>7
       DEF Each, Awaits, Checking, OneDriver, Exactly, Quiet, SameFrames, SameServants
  <2> QED BY <1>1, <1>3, <2>1, <2>2, <2>3, <2>4, <2>7, MildOne
<1> QED BY <1>8, <1>9

-----------------------------------------------------------------------------
(* Steps that make, end or close an object. *)

LEMMA CheckDriven ==
    ASSUME Obedient, IInv, DInv, DoCheck
    PROVE  DInv'
<1> PICK f : f = Head(calls)
  OBVIOUS
<1> PICK a : a = f.app
  OBVIOUS
<1> PICK t : t = f.timer
  OBVIOUS
<1>1. PICK p : /\ FreeProc # {} /\ p = CHOOSE q \in FreeProc : TRUE
               /\ proc' = [proc EXCEPT ![p] =
                             [role |-> "checker", app |-> a, timer |-> t,
                              status |-> "running", killed |-> FALSE]]
               /\ Continue(<<>>)
  BY DEF DoCheck, Obedient, SpawnStatus
<1>2. /\ calls \in Seq(Frame) /\ calls # <<>> /\ Layered(calls) /\ f \in Frame /\ f.op = "Check"
      /\ a \in App /\ a \in Checked /\ Each(a) /\ Sound(f) /\ t \in Timer \cup {Null}
      /\ app' = app /\ timer' = timer /\ proc \in [Proc -> Process]
  BY Running, FrameFields DEF DoCheck, Top, IInv, TypeOK
<1>3. /\ p \in Proc /\ proc[p].role = "free" /\ ~Deleting(p)
      /\ \A b \in App : app[b].process # p
  BY <1>1, Allocation
<1>4. /\ proc'[p].role = "checker" /\ proc'[p].app = a /\ proc'[p].timer = t
      /\ \A q \in Proc : q # p => proc'[q] = proc[q]
  BY <1>1, <1>2, <1>3
<1>5. \A q : Deleting(q)' <=> Deleting(q)
  <2>1. <<>> \in Seq(Frame) /\ DOMAIN <<>> = {}
    OBVIOUS
  <2> QED BY <1>1, <1>2, <2>1, SameDeleting
<1>6. /\ \A q \in Proc : Serves(q, a)' <=> Serves(q, a) \/ q = p
      /\ \A b : \A q \in Proc : b # a => (Serves(q, b)' <=> Serves(q, b))
      /\ \A b : ~Serves(p, b)
  BY <1>3, <1>4, <1>5 DEF Serves
<1>7. \A b, u : TimerOf(u, b)' <=> TimerOf(u, b)
  BY <1>2 DEF TimerOf
<1>8. \A b : b # a => SameServants(b)
  BY <1>4, <1>6, <1>7 DEF SameServants, Checks, Timing, Timed
<1>9. Timed(a)' <=> Timed(a)
  BY <1>2 DEF Timed, TimerOf
<1>10. Timing(a) => Timed(a)
  BY DEF Timing, Timed, Serves, DInv, Processes, TimerOf, IInv, TypeOK, Process
<1>11. /\ ~HasTried(a) /\ ~Starting(a) /\ ~Telling(a)
       /\ Asking(a) <=> t = Null
       /\ Trying(a) <=> t # Null
  BY <1>2, TopNow DEF Asks, Tries, Tried, Starts, Tells
<1>12. t # Null => TimerOf(t, a) /\ Timed(a)
  BY <1>2 DEF Sound, Timed
<1>13. ~Checks(a) /\ ~Timing(a)
  BY <1>2, <1>10, <1>11, <1>12 DEF Each, OneDriver, Exactly, Checking
<1>14. \A q \in Proc : ~Serves(q, a)
  BY <1>13 DEF Checks, Timing
<1>15. /\ Checks(a)' <=> t = Null
       /\ Timing(a)' <=> t # Null
  BY <1>3, <1>4, <1>6, <1>14 DEF Checks, Timing
<1>16. OneChecker'
  BY <1>6, <1>14 DEF OneChecker, DInv
<1>17. OneTimer'
  BY <1>7 DEF OneTimer, DInv
<1>18. Processes'
  <2> SUFFICES ASSUME NEW q \in Proc
               PROVE  /\ proc'[q].role = "app" => proc'[q].status # "ok"
                      /\ proc'[q].role = "app" /\ ~Deleting(q)' => app'[proc'[q].app].process = q
                      /\ proc'[q].role = "checker" => proc'[q].app \in Checked
                      /\ proc'[q].timer # Null =>
                           /\ proc'[q].role = "checker"
                           /\ timer'[proc'[q].timer].app = proc'[q].app
                           /\ timer'[proc'[q].timer].status # "free"
                           /\ ~Deleting(q)' => timer'[proc'[q].timer].status = "open"
    BY DEF Processes
  <2>1. CASE q = p
    BY <1>2, <1>4, <1>12, <2>1 DEF TimerOf
  <2>2. CASE q # p
    BY <1>2, <1>4, <1>5, <2>2 DEF DInv, Processes
  <2> QED BY <2>1, <2>2
<1>19. Layered(calls') /\ AllSound'
  <2>1. <<>> \in Seq(Frame) /\ DOMAIN <<>> = {}
    OBVIOUS
  <2>2. Layered(<<>>)
    BY <2>1 DEF Layered
  <2> QED BY <1>1, <1>2, <2>1, <2>2, LayeredAfter, SoundAfter DEF DInv
<1>20. Each(a)'
  <2>1. Quiet(a)'
    BY <1>1, <1>2, NoneFacts
  <2>2. /\ \A g : On(g)' <=> Below(g)
        /\ \A g : On(g) <=> g = f \/ Below(g)
    BY <1>1, <1>2, NoneFacts
  <2>3. Cleared(a) # f /\ SetChecking(a, TRUE) # f /\ SetChecking(a, FALSE) # f
    BY <1>2 DEF Cleared, SetChecking
  <2>4. SameFrames(a)
    BY <2>2, <2>3 DEF SameFrames, On
  <2>5. t # Null => ~On(SetChecking(a, FALSE))
    <3>1. ASSUME t # Null, Below(SetChecking(a, FALSE)) PROVE FALSE
      <4>1. Tries(f, f.app)
        BY <1>2, <3>1 DEF Tries
      <4>2. SetChecking(a, FALSE) = SetChecking(a, TRUE)
        BY <1>2, <3>1, <4>1, Covered DEF Covers
      <4> QED BY <4>2 DEF SetChecking
    <3> QED BY <2>2, <2>3, <3>1
  <2>6. t = Null => NoFrames(a)
    <3>1. t = Null => Early(f) /\ Other(f)
      BY <1>2 DEF Early, Other
    <3> QED BY <1>1, <1>2, <3>1, FramesNow
  <2>7. Awaits(a)'
    BY <1>2, <2>1 DEF Each, Awaits, Quiet
  <2>8. Checking(a)'
    BY <1>2, <1>11, <1>13, <1>15, <2>1, <2>4, <2>5, <2>6
       DEF Each, Checking, Quiet, SameFrames, NoFrames
  <2>9. OneDriver(a)'
    BY <1>2, <1>9, <1>11, <1>13, <1>15, <2>1, <2>4 DEF Each, OneDriver, Exactly, Quiet, SameFrames
  <2> QED BY <1>2, <2>7, <2>8, <2>9 DEF Each
<1>21. ASSUME NEW b \in App, b # a PROVE Each(b)'
  <2>1. <<>> \in Seq(Frame) /\ DOMAIN <<>> = {}
    OBVIOUS
  <2>2. SameFields(b)
    BY <1>2 DEF SameFields
  <2> QED BY <1>1, <1>2, <1>8, <1>21, <2>1, <2>2, OthersApart
<1> QED BY <1>16, <1>17, <1>18, <1>19, <1>20, <1>21 DEF DInv, Layered

LEMMA StartOkDriven ==
    ASSUME Obedient, IInv, DInv, StartThenOk
    PROVE  DInv'
<1> PICK f : f = Head(calls)
  OBVIOUS
<1> PICK a : a = f.app
  OBVIOUS
<1>1. PICK p, t : /\ FreeProc # {} /\ p = CHOOSE q \in FreeProc : TRUE
                  /\ t \in Timer /\ FreeTimer # {} /\ t = CHOOSE u \in FreeTimer : TRUE
                  /\ proc' = [proc EXCEPT ![p] =
                                [role |-> "app", app |-> a, timer |-> Null,
                                 status |-> "running", killed |-> FALSE]]
                  /\ timer' = [timer EXCEPT ![t] = [app |-> a, status |-> "open"]]
                  /\ app' = [app EXCEPT ![a].process = p, ![a].checking = FALSE]
                  /\ Continue(<<>>)
  BY DEF StartThenOk, Obedient, SpawnStatus
<1>2. /\ calls \in Seq(Frame) /\ calls # <<>> /\ Layered(calls) /\ f \in Frame
      /\ f.op = "StartThen" /\ a \in App /\ Each(a) /\ Sound(f)
      /\ proc \in [Proc -> Process] /\ timer \in [Timer -> TimerState] /\ app \in [App -> AppState]
  BY Running, FrameFields DEF StartThenOk, Top, IInv, TypeOK
<1>3. /\ p \in Proc /\ proc[p].role = "free" /\ ~Deleting(p) /\ p # Null
      /\ \A b \in App : app[b].process # p
  BY <1>1, Allocation, ConfigAssumption
<1>4. timer[t].status = "free"
  BY <1>1 DEF FreeTimer
<1>5. /\ proc'[p].role = "app" /\ proc'[p].app = a /\ proc'[p].timer = Null
      /\ proc'[p].status = "running"
      /\ \A q \in Proc : q # p => proc'[q] = proc[q]
      /\ timer'[t].app = a /\ timer'[t].status = "open"
      /\ \A u : u \in Timer /\ u # t => timer'[u] = timer[u]
      /\ app'[a].process = p /\ app'[a].checking = FALSE
      /\ app'[a].callbacks = app[a].callbacks /\ app'[a].restart = app[a].restart
      /\ app'[a].pending = app[a].pending
      /\ \A b \in App : b # a => app'[b] = app[b]
  <2>1. /\ proc'[p].role = "app" /\ proc'[p].app = a /\ proc'[p].timer = Null
        /\ proc'[p].status = "running"
        /\ \A q \in Proc : q # p => proc'[q] = proc[q]
    BY <1>1, <1>2, <1>3
  <2>2. /\ timer'[t].app = a /\ timer'[t].status = "open"
        /\ \A u : u \in Timer /\ u # t => timer'[u] = timer[u]
    BY <1>1, <1>2
  <2>3. /\ app'[a].process = p /\ app'[a].checking = FALSE
        /\ app'[a].callbacks = app[a].callbacks /\ app'[a].restart = app[a].restart
        /\ app'[a].pending = app[a].pending
        /\ \A b \in App : b # a => app'[b] = app[b]
    <3>1. PICK r \in AppState : r = app[a]
      BY <1>2
    <3>2. PICK s : s = [r EXCEPT !.process = p]
      OBVIOUS
    <3>3. PICK u : u = [s EXCEPT !.checking = FALSE]
      OBVIOUS
    <3>4. s.callbacks = r.callbacks /\ s.restart = r.restart /\ s.pending = r.pending /\ s.process = p
      BY <3>1, <3>2 DEF AppState
    <3>5. /\ u.callbacks = s.callbacks /\ u.restart = s.restart /\ u.pending = s.pending
          /\ u.process = s.process /\ u.checking = FALSE
      BY <3>1, <3>2, <3>3 DEF AppState
    <3>6. app' = [app EXCEPT ![a] = u]
      BY <1>1, <3>1, <3>2, <3>3
    <3>7. app'[a] = u /\ \A b \in App : b # a => app'[b] = app[b]
      BY <1>2, <3>6
    <3> QED BY <3>1, <3>4, <3>5, <3>7
  <2> QED BY <2>1, <2>2, <2>3
<1>6. \A q : Deleting(q)' <=> Deleting(q)
  <2>1. <<>> \in Seq(Frame) /\ DOMAIN <<>> = {}
    OBVIOUS
  <2> QED BY <1>1, <1>2, <2>1, SameDeleting
<1>7. \A b : \A q \in Proc : /\ Serves(q, b)' <=> Serves(q, b)
                             /\ Serves(q, b) => proc'[q].timer = proc[q].timer
  BY <1>3, <1>5, <1>6 DEF Serves
<1>8. \A b : (Checks(b)' <=> Checks(b)) /\ (Timing(b)' <=> Timing(b))
  BY <1>7 DEF Checks, Timing
<1>9. /\ \A u \in Timer : TimerOf(u, a)' <=> TimerOf(u, a) \/ u = t
      /\ \A b : \A u \in Timer : b # a => (TimerOf(u, b)' <=> TimerOf(u, b))
  BY <1>4, <1>5 DEF TimerOf
<1>10. \A b : b # a => SameServants(b)
  BY <1>8, <1>9 DEF SameServants, Timed
<1>11. Timed(a)'
  BY <1>1, <1>9 DEF Timed
<1>12. ~Asking(a) /\ ~Trying(a) /\ ~HasTried(a) /\ Starting(a) /\ ~Telling(a)
  BY <1>2, TopNow DEF Asks, Tries, Tried, Starts, Tells
<1>13. Timing(a) => Timed(a)
  BY DEF Timing, Timed, Serves, DInv, Processes, TimerOf, IInv, TypeOK, Process
<1>14. app[a].process = Null /\ app[a].pending = 0 /\ ~app[a].restart
  BY <1>2, <1>12 DEF Each, Awaits, OneDriver, Exactly, Unchecked
<1>15. a \in Checked => ~Timed(a) /\ ~Timing(a)
  BY <1>2, <1>12, <1>13 DEF Each, OneDriver, Exactly
<1>16. OneChecker'
  BY <1>7 DEF OneChecker, DInv
<1>17. OneTimer'
  <2> SUFFICES ASSUME NEW b \in Checked, NEW u \in Timer, NEW v \in Timer,
                      TimerOf(u, b)', TimerOf(v, b)'
               PROVE  u = v
    BY DEF OneTimer
  <2>1. CASE b = a
    BY <1>9, <1>15, <2>1 DEF Timed
  <2>2. CASE b # a
    BY <1>9, <2>2 DEF OneTimer, DInv
  <2> QED BY <2>1, <2>2
<1>18. Processes'
  <2> SUFFICES ASSUME NEW q \in Proc
               PROVE  /\ proc'[q].role = "app" => proc'[q].status # "ok"
                      /\ proc'[q].role = "app" /\ ~Deleting(q)' => app'[proc'[q].app].process = q
                      /\ proc'[q].role = "checker" => proc'[q].app \in Checked
                      /\ proc'[q].timer # Null =>
                           /\ proc'[q].role = "checker"
                           /\ timer'[proc'[q].timer].app = proc'[q].app
                           /\ timer'[proc'[q].timer].status # "free"
                           /\ ~Deleting(q)' => timer'[proc'[q].timer].status = "open"
    BY DEF Processes
  <2>1. CASE q = p
    BY <1>2, <1>5, <2>1
  <2>2. CASE q # p
    <3>1. proc'[q] = proc[q] /\ (proc[q].role # "free" => proc[q].app \in App)
      BY <1>5, <2>2 DEF IInv, ProcInv
    <3>2. /\ proc[q].role = "app" => proc[q].status # "ok"
          /\ proc[q].role = "app" /\ ~Deleting(q) => app[proc[q].app].process = q
          /\ proc[q].role = "checker" => proc[q].app \in Checked
          /\ proc[q].timer # Null =>
               /\ proc[q].role = "checker"
               /\ timer[proc[q].timer].app = proc[q].app
               /\ timer[proc[q].timer].status # "free"
               /\ ~Deleting(q) => timer[proc[q].timer].status = "open"
      BY DEF DInv, Processes
    <3>3. proc[q].timer # Null => proc[q].timer \in Timer /\ proc[q].timer # t
      BY <1>2, <1>4, <3>2 DEF Process
    <3>4. proc[q].role = "app" /\ ~Deleting(q) => app'[proc[q].app].process = q
      <4>1. proc[q].role = "app" /\ ~Deleting(q) => proc[q].app # a
        BY <1>14, <3>2, ConfigAssumption
      <4> QED BY <1>5, <3>1, <3>2, <4>1
    <3> QED BY <1>5, <1>6, <3>1, <3>2, <3>3, <3>4
  <2> QED BY <2>1, <2>2
<1>19. Layered(calls') /\ AllSound'
  <2>1. <<>> \in Seq(Frame) /\ DOMAIN <<>> = {}
    OBVIOUS
  <2>2. Layered(<<>>)
    BY <2>1 DEF Layered
  <2>3. \A b \in App : app[b].process # Null => app'[b].process # Null
    BY <1>3, <1>5
  <2> QED BY <1>1, <1>2, <2>1, <2>2, <2>3, LayeredAfter, SoundAfter DEF DInv
<1>20. Each(a)'
  <2>1. Quiet(a)'
    BY <1>1, <1>2, NoneFacts
  <2>2. SameFrames(a)
    <3>1. \A g : (On(g)' <=> Below(g)) /\ (On(g) <=> g = f \/ Below(g))
      BY <1>1, <1>2, NoneFacts
    <3>2. Cleared(a) # f /\ SetChecking(a, TRUE) # f /\ SetChecking(a, FALSE) # f
      BY <1>2 DEF Cleared, SetChecking
    <3> QED BY <3>1, <3>2 DEF SameFrames, On
  <2>3. Awaits(a)'
    BY <1>3, <1>5, <1>14, <2>1 DEF Awaits, Quiet
  <2>4. ASSUME a \in Checked PROVE Checking(a)' /\ OneDriver(a)'
    BY <1>2, <1>5, <1>8, <1>11, <1>12, <1>14, <1>15, <2>1, <2>2, <2>4
       DEF Each, Checking, OneDriver, Exactly, Quiet, SameFrames
  <2>5. ASSUME a \notin Checked PROVE Unchecked(a)'
    <3>1. Early(f) /\ Other(f)
      BY <1>2, <2>5 DEF Early, Other
    <3>2. NoFrames(a)'
      BY <1>1, <1>2, <3>1, FramesNow
    <3> QED BY <1>3, <1>5, <1>11, <1>14, <3>2 DEF Unchecked, Ready, NoFrames
  <2> QED BY <2>3, <2>4, <2>5 DEF Each
<1>21. ASSUME NEW b \in App, b # a PROVE Each(b)'
  <2>1. <<>> \in Seq(Frame) /\ DOMAIN <<>> = {}
    OBVIOUS
  <2>2. SameFields(b)
    BY <1>5, <1>21 DEF SameFields
  <2> QED BY <1>1, <1>2, <1>10, <1>21, <2>1, <2>2, OthersApart
<1> QED BY <1>16, <1>17, <1>18, <1>19, <1>20, <1>21 DEF DInv, Layered

LEMMA TwoFrames ==
    ASSUME NEW g \in Frame, NEW h \in Frame
    PROVE  /\ <<g, h>> \in Seq(Frame) /\ <<g, h>>[1] = g /\ <<g, h>>[2] = h /\ <<g, h>> # <<>>
           /\ 1 \in DOMAIN <<g, h>> /\ 2 \in DOMAIN <<g, h>>
           /\ \A i \in DOMAIN <<g, h>> : i = 1 \/ i = 2
OBVIOUS

LEMMA PostStartDriven ==
    ASSUME IInv, DInv, PostStartThen
    PROVE  DInv'
<1> PICK f : f = Head(calls)
  OBVIOUS
<1> PICK a : a = f.app
  OBVIOUS
<1> PICK t : t = f.timer
  OBVIOUS
<1>1. /\ calls \in Seq(Frame) /\ calls # <<>> /\ Layered(calls) /\ f \in Frame
      /\ f.op = "CheckThen" /\ a \in App /\ Each(a) /\ Sound(f) /\ t # Null /\ t \in Timer
      /\ f.error \in Error /\ TimerOf(t, a) /\ proc' = proc
      /\ timer \in [Timer -> TimerState] /\ app \in [App -> AppState]
  BY Running, FrameFields DEF PostStartThen, Top, IInv, TypeOK, Sound
<1>2. ~Asking(a) /\ ~Trying(a) /\ HasTried(a) /\ ~Starting(a) /\ ~Telling(a) /\ Timed(a)
  BY <1>1, TopNow DEF Asks, Tries, Tried, Starts, Tells, Timed
<1>3. ~Timing(a)
  BY <1>1, <1>2 DEF Each, Checking, Timing, Serves, DInv, Processes
<1>4. a \in Checked => ~Below(SetChecking(a, TRUE)) /\ ~Below(SetChecking(a, FALSE))
  BY <1>1, Covered DEF Covers, Tried, SetChecking
<1>5. CASE f.error \in {"ok", "ENOENT"} \/ app[a].late
  <2> PICK g : g = Clear(a, f.error)
    OBVIOUS
  <2> PICK h : h = SetChecking(a, FALSE)
    OBVIOUS
  <2>1. /\ timer' = [timer EXCEPT ![t].status = "closing"] /\ app' = app
        /\ Continue(<<g, h>>)
    BY <1>1, <1>5 DEF PostStartThen, CloseTimer, TimerOf
  <2>2. /\ timer'[t].app = timer[t].app /\ timer'[t].status = "closing"
        /\ \A u : u \in Timer /\ u # t => timer'[u] = timer[u]
    BY <1>1, <2>1 DEF TimerState
  <2>3. /\ g \in Frame /\ g.op = "Clear" /\ g.app = a /\ g.error = f.error
        /\ h \in Frame /\ h.op = "SetChecking" /\ h.app = a
    BY <1>1, FramesMade DEF Clear, SetChecking
  <2>4. PICK fs : fs = <<g, h>>
    OBVIOUS
  <2>5. /\ fs \in Seq(Frame) /\ fs[1] = g /\ fs[2] = h /\ fs # <<>>
        /\ 1 \in DOMAIN fs /\ 2 \in DOMAIN fs /\ \A i \in DOMAIN fs : i = 1 \/ i = 2
        /\ Continue(fs)
    BY <2>1, <2>3, <2>4, TwoFrames
  <2>6. \A i \in DOMAIN fs : fs[i].op # "Delete"
    BY <2>3, <2>5
  <2>7. \A q : Deleting(q)' <=> Deleting(q)
    BY <1>1, <2>5, <2>6, SameDeleting
  <2>8. \A b : \A q \in Proc : Serves(q, b)' <=> Serves(q, b)
    BY <1>1, <2>7 DEF Serves
  <2>9. \A b : (Checks(b)' <=> Checks(b)) /\ (Timing(b)' <=> Timing(b))
    BY <1>1, <2>8 DEF Checks, Timing
  <2>10. \A b : \A u \in Timer : TimerOf(u, b)' <=> TimerOf(u, b) /\ u # t
    BY <2>2 DEF TimerOf
  <2>11. \A b : b # a => SameServants(b)
    <3>1. \A b : b # a => ~TimerOf(t, b)
      BY <1>1 DEF TimerOf
    <3>2. \A b : \A u \in Timer : b # a => (TimerOf(u, b)' <=> TimerOf(u, b))
      BY <2>10, <3>1
    <3> QED BY <2>9, <3>2 DEF SameServants, Timed
  <2>12. a \in Checked => ~Timed(a)'
    BY <1>1, <2>10 DEF DInv, OneTimer, Timed
  <2>13. OneChecker' /\ OneTimer'
    BY <2>8, <2>10 DEF DInv, OneChecker, OneTimer
  <2>14. Processes'
    <3> SUFFICES ASSUME NEW q \in Proc
                 PROVE  /\ proc[q].role = "app" => proc[q].status # "ok"
                        /\ proc[q].role = "app" /\ ~Deleting(q) => app[proc[q].app].process = q
                        /\ proc[q].role = "checker" => proc[q].app \in Checked
                        /\ proc[q].timer # Null =>
                             /\ proc[q].role = "checker"
                             /\ timer'[proc[q].timer].app = proc[q].app
                             /\ timer'[proc[q].timer].status # "free"
                             /\ ~Deleting(q) => timer'[proc[q].timer].status = "open"
      BY <1>1, <2>1, <2>7 DEF Processes
    <3>1. /\ proc[q].role = "app" => proc[q].status # "ok"
          /\ proc[q].role = "app" /\ ~Deleting(q) => app[proc[q].app].process = q
          /\ proc[q].role = "checker" => proc[q].app \in Checked
          /\ proc[q].timer # Null =>
               /\ proc[q].role = "checker"
               /\ timer[proc[q].timer].app = proc[q].app
               /\ timer[proc[q].timer].status # "free"
               /\ ~Deleting(q) => timer[proc[q].timer].status = "open"
      BY DEF DInv, Processes
    <3>2. proc[q].timer # Null => proc[q].timer \in Timer
      BY DEF IInv, TypeOK, Process
    <3>3. CASE proc[q].timer = t
      <4>1. Deleting(q)
        BY <1>1, <1>3, <3>1, <3>3 DEF Timing, Serves, TimerOf
      <4> QED BY <1>1, <2>2, <3>1, <3>3, <4>1
    <3>4. CASE proc[q].timer # t
      BY <2>2, <3>1, <3>2, <3>4
    <3> QED BY <3>3, <3>4
  <2>15. Layered(fs)
    <3>1. Covers(g, h)
      BY <2>3 DEF Covers, Early, Tries, Tried
    <3>2. ASSUME NEW i \in DOMAIN fs, NEW j \in DOMAIN fs, i < j PROVE i = 1 /\ j = 2
      BY <2>5, <3>2
    <3> QED BY <2>5, <3>1, <3>2 DEF Layered
  <2>16. /\ \A k \in Frame : Covers(f, k) => Covers(g, k) /\ Covers(h, k)
    BY <1>1, <2>3 DEF Covers, Early, Tries, Tried
  <2>17. Sound(g)' /\ Sound(h)'
    BY <1>1, <2>1, <2>3 DEF Sound
  <2>18. Layered(calls') /\ AllSound'
    <3>1. \A i \in DOMAIN fs, k \in Frame : Covers(f, k) => Covers(fs[i], k)
      BY <2>5, <2>16
    <3>2. Sound(fs[1])' /\ Sound(fs[2])'
      BY <2>5, <2>17 DEF Sound
    <3>3. \A i \in DOMAIN fs : Sound(fs[i])'
      BY <2>5, <3>2
    <3> QED BY <1>1, <2>1, <2>5, <2>15, <3>1, <3>3, LayeredAfter, SoundAfter DEF DInv
  <2>19. ~Asking(a)' /\ ~Trying(a)' /\ ~HasTried(a)' /\ ~Starting(a)' /\ Telling(a)'
    BY <1>1, <2>3, <2>5, NewTop DEF Asks, Tries, Tried, Starts, Tells
  <2>20. /\ On(SetChecking(a, FALSE))'
         /\ a \in Checked => ~On(SetChecking(a, TRUE))'
         /\ On(Cleared(a))' <=> On(Cleared(a))
    <3>1. /\ \A k : On(k)' <=> In(k, fs) \/ Below(k)
          /\ \A k : On(k) <=> k = f \/ Below(k)
      BY <1>1, <2>5, StackAfter
    <3>2. \A k : In(k, fs) <=> k = g \/ k = h
      BY <2>5 DEF In
    <3>3. f # Cleared(a) /\ Cleared(a) # g /\ Cleared(a) # h
          /\ SetChecking(a, TRUE) # g /\ SetChecking(a, TRUE) # h
      BY <1>1, <2>3 DEF Cleared, SetChecking
    <3>4. /\ On(SetChecking(a, FALSE))' <=> In(SetChecking(a, FALSE), fs) \/ Below(SetChecking(a, FALSE))
          /\ On(SetChecking(a, TRUE))' <=> In(SetChecking(a, TRUE), fs) \/ Below(SetChecking(a, TRUE))
          /\ On(Cleared(a))' <=> In(Cleared(a), fs) \/ Below(Cleared(a))
      BY <3>1 DEF On
    <3> QED BY <1>4, <3>1, <3>2, <3>3, <3>4
  <2>21. Each(a)'
    <3>1. Awaits(a)'
      BY <1>1, <2>1, <2>19 DEF Each, Awaits
    <3>2. a \in Checked => Checking(a)'
      BY <1>3, <2>9, <2>19, <2>20 DEF Checking
    <3>3. a \in Checked => OneDriver(a)'
      BY <1>1, <1>2, <2>1, <2>9, <2>12, <2>19, <2>20 DEF Each, OneDriver, Exactly
    <3>4. a \notin Checked => Unchecked(a)'
      BY <1>1, <2>1, <2>19 DEF Each, Unchecked
    <3> QED BY <3>1, <3>2, <3>3, <3>4 DEF Each
  <2>22. ASSUME NEW b \in App, b # a PROVE Each(b)'
    <3>1. SameFields(b)
      BY <2>1 DEF SameFields
    <3>2. \A i \in DOMAIN fs : ~(fs[i].op \in Owned /\ fs[i].app = b)
      BY <2>3, <2>5, <2>22
    <3> QED BY <1>1, <2>5, <2>11, <2>22, <3>1, <3>2, OthersApart
  <2> QED BY <2>13, <2>14, <2>18, <2>21, <2>22 DEF DInv, Layered
<1>6. CASE ~(f.error \in {"ok", "ENOENT"} \/ app[a].late)
  <2>1. /\ timer' = timer /\ app' = [app EXCEPT ![a].checking = FALSE] /\ Continue(<<>>)
    BY <1>6 DEF PostStartThen
  <2>2. a \in Checked
    BY <1>1, <1>6 DEF Sound
  <2>3. /\ app'[a].callbacks = app[a].callbacks /\ app'[a].process = app[a].process
        /\ app'[a].restart = app[a].restart /\ app'[a].pending = app[a].pending
        /\ app'[a].checking = FALSE
        /\ \A b \in App : b # a => app'[b] = app[b]
    BY <1>1, <2>1 DEF AppState
  <2>4. /\ SameObjects /\ \A b \in App : b # a => SameFields(b)
        /\ About(f, a) /\ f.op # "Delete"
    BY <1>1, <2>1, <2>3 DEF SameObjects, SameFields, About, Owned
  <2>5. /\ Quiet(a)'
        /\ \A g : On(g)' <=> Below(g)
        /\ \A g : On(g) <=> g = f \/ Below(g)
    BY <1>1, <2>1, NoneFacts
  <2>6. On(Cleared(a))' <=> On(Cleared(a))
    <3>1. f # Cleared(a)
      BY <1>1 DEF Cleared
    <3> QED BY <2>5, <3>1 DEF On
  <2>7. ~On(SetChecking(a, TRUE))' /\ ~On(SetChecking(a, FALSE))'
    BY <1>4, <2>2, <2>5 DEF On
  <2>8. ASSUME SameServants(a) PROVE Each(a)'
    <3>1. Awaits(a)'
      BY <1>1, <2>3, <2>5 DEF Each, Awaits, Quiet
    <3>2. Checking(a)'
      BY <1>3, <2>3, <2>5, <2>7, <2>8 DEF Checking, Quiet, SameServants
    <3>3. OneDriver(a)'
      BY <1>1, <1>2, <2>2, <2>3, <2>5, <2>6, <2>8 DEF Each, OneDriver, Exactly, Quiet, SameServants
    <3> QED BY <2>2, <3>1, <3>2, <3>3 DEF Each
  <2> QED BY <1>1, <2>1, <2>4, <2>8, MildNone
<1> QED BY <1>5, <1>6

LEMMA DeleteDriven ==
    ASSUME IInv, DInv, DoDelete
    PROVE  DInv'
<1> PICK f : f = Head(calls)
  OBVIOUS
<1> PICK p : p = f.process
  OBVIOUS
<1>1. /\ calls \in Seq(Frame) /\ calls # <<>> /\ Layered(calls) /\ f \in Frame /\ f.op = "Delete"
      /\ p \in Proc /\ proc \in [Proc -> Process]
      /\ app' = app /\ timer' = timer /\ proc' = [proc EXCEPT ![p] = NoProcess] /\ Continue(<<>>)
  BY Running, FrameFields DEF DoDelete, Top, IInv, TypeOK
<1>2. /\ proc'[p].role = "free" /\ proc'[p].timer = Null
      /\ \A q \in Proc : q # p => proc'[q] = proc[q]
  BY <1>1 DEF NoProcess
<1>3. Deleting(p) /\ \A q : q # p => (Deleting(q)' <=> Deleting(q))
  <2>1. /\ \A g : On(g)' <=> Below(g)
        /\ \A g : On(g) <=> g = f \/ Below(g)
    BY <1>1, NoneFacts
  <2>2. f = Delete(p)
    BY <1>1 DEF Frame, Delete
  <2>3. On(Delete(p)) /\ \A q : q # p => (On(Delete(q))' <=> On(Delete(q)))
    <3>1. \A q : q # p => Delete(q) # f
      BY <2>2 DEF Delete
    <3>2. \A q : On(Delete(q))' <=> Below(Delete(q))
      BY <2>1 DEF On
    <3> QED BY <2>1, <2>2, <3>1, <3>2
  <2> QED BY <2>3 DEF Deleting, On, Delete
<1>4. \A b : \A q \in Proc : Serves(q, b)' <=> Serves(q, b)
  BY <1>2, <1>3 DEF Serves
<1>5. \A b : \A q \in Proc : Serves(q, b) => proc'[q] = proc[q]
  BY <1>2, <1>3 DEF Serves
<1>6. \A u, b : TimerOf(u, b)' <=> TimerOf(u, b)
  BY <1>1 DEF TimerOf
<1>7. \A b : SameServants(b)
  BY <1>4, <1>5, <1>6 DEF SameServants, Checks, Timing, Timed
<1>8. OneChecker' /\ OneTimer'
  BY <1>4, <1>6 DEF OneChecker, OneTimer, DInv
<1>9. Processes'
  <2> SUFFICES ASSUME NEW q \in Proc
               PROVE  /\ proc'[q].role = "app" => proc'[q].status # "ok"
                      /\ proc'[q].role = "app" /\ ~Deleting(q)' => app[proc'[q].app].process = q
                      /\ proc'[q].role = "checker" => proc'[q].app \in Checked
                      /\ proc'[q].timer # Null =>
                           /\ proc'[q].role = "checker"
                           /\ timer[proc'[q].timer].app = proc'[q].app
                           /\ timer[proc'[q].timer].status # "free"
                           /\ ~Deleting(q)' => timer[proc'[q].timer].status = "open"
    BY <1>1 DEF Processes
  <2>1. CASE q = p
    BY <1>2, <2>1
  <2>2. CASE q # p
    BY <1>2, <1>3, <2>2 DEF DInv, Processes
  <2> QED BY <2>1, <2>2
<1>10. <<>> \in Seq(Frame) /\ DOMAIN <<>> = {}
  OBVIOUS
<1>11. Layered(calls') /\ AllSound'
  <2>1. Layered(<<>>)
    BY <1>10 DEF Layered
  <2> QED BY <1>1, <1>10, <2>1, LayeredAfter, SoundAfter DEF DInv
<1>12. ASSUME NEW b \in App PROVE Each(b)'
  <2>1. SameFields(b) /\ f.op \notin Owned
    BY <1>1 DEF SameFields, Owned
  <2> QED BY <1>1, <1>7, <1>10, <2>1, OthersApart
<1> QED BY <1>8, <1>9, <1>11, <1>12 DEF DInv, Layered

-----------------------------------------------------------------------------
(* Events of the loop. *)

LEMMA Idles ==
    ASSUME calls = <<>>
    PROVE  /\ \A a : Quiet(a) /\ NoFrames(a)
           /\ \A g : ~On(g)
           /\ \A p : ~Deleting(p)
<1>1. DOMAIN calls = {}
  OBVIOUS
<1> QED BY <1>1 DEF Quiet, NoFrames, On, Deleting, Asking, Trying, HasTried, Starting, Telling

\* Nothing runs, and nothing that is looked at changes.
LEMMA SameState ==
    ASSUME IInv, DInv, calls' = calls, SameObjects, \A b \in App : SameFields(b)
    PROVE  DInv'
<1>1. \A p : Deleting(p)' <=> Deleting(p)
  BY DEF Deleting
<1>2. (\A b : SameServants(b)) /\ Processes' /\ OneChecker' /\ OneTimer'
  BY <1>1, ObjectsStay
<1>3. Layered(calls)'
  BY DEF DInv, Layered
<1>4. AllSound'
  <2> SUFFICES ASSUME NEW i \in DOMAIN calls PROVE Sound(calls[i])'
    BY DEF AllSound
  <2> PICK f : f = calls[i]
    OBVIOUS
  <2>1. Sound(f) /\ f \in Frame
    BY DEF DInv, AllSound, IInv, TypeOK
  <2>2. f.op \in {"Clear", "Invoke", "Check", "CheckThen"} => f.app \in App
    BY <2>1, FrameFields
  <2>3. Sound(f)'
    BY <2>1, <2>2 DEF Sound, TimerOf, SameObjects
  <2> QED BY <2>3 DEF Sound
<1>5. ASSUME NEW a \in App PROVE Each(a)'
  <2>1. /\ Asking(a)' <=> Asking(a)
        /\ Trying(a)' <=> Trying(a)
        /\ HasTried(a)' <=> HasTried(a)
        /\ Starting(a)' <=> Starting(a)
        /\ Telling(a)' <=> Telling(a)
    BY DEF Asking, Trying, HasTried, Starting, Telling
  <2>2. SameFrames(a)
    BY DEF SameFrames, On
  <2>3. Awaits(a)'
    BY <2>1 DEF DInv, Each, Awaits, SameFields
  <2>4. a \in Checked => Checking(a)'
    BY <1>2, <2>1, <2>2 DEF DInv, Each, Checking, SameFields, SameServants, SameFrames
  <2>5. a \in Checked => OneDriver(a)'
    BY <1>2, <2>1, <2>2 DEF DInv, Each, OneDriver, Exactly, SameFields, SameServants, SameFrames
  <2>6. a \notin Checked => Unchecked(a)'
    BY <1>2, <2>1, <2>2 DEF DInv, Each, Unchecked, Ready, SameFields, SameServants, SameFrames
  <2> QED BY <2>3, <2>4, <2>5, <2>6 DEF Each
<1> QED BY <1>2, <1>3, <1>4, <1>5 DEF DInv

LEMMA Begins ==
    ASSUME NEW fs \in Seq(Frame), fs # <<>>, Dispatch(fs), Layered(fs),
           \A i \in DOMAIN fs : Sound(fs[i])'
    PROVE  /\ calls = <<>> /\ Layered(calls)' /\ AllSound'
           /\ \A g : On(g)' <=> In(g, fs)
           /\ \A p : Deleting(p)' <=> In(Delete(p), fs)
           /\ \A a : /\ Asking(a)' <=> Asks(fs[1], a)
                     /\ Trying(a)' <=> Tries(fs[1], a)
                     /\ HasTried(a)' <=> Tried(fs[1], a)
                     /\ Starting(a)' <=> Starts(fs[1], a)
                     /\ Telling(a)' <=> Tells(fs[1], a)
<1>1. calls = <<>> /\ calls' = fs /\ Head(fs) = fs[1]
  BY DEF Dispatch
<1>2. \A g : On(g)' <=> In(g, fs)
  BY <1>1 DEF On, In
<1>3. \A p : Deleting(p)' <=> In(Delete(p), fs)
  BY <1>1 DEF Deleting, In, Delete
<1>4. Layered(calls)'
  BY <1>1 DEF Layered
<1>5. AllSound'
  BY <1>1 DEF AllSound, Sound
<1> QED BY <1>1, <1>2, <1>3, <1>4, <1>5 DEF Asking, Trying, HasTried, Starting, Telling

LEMMA OthersIdle ==
    ASSUME DInv, NEW fs \in Seq(Frame), fs # <<>>, Dispatch(fs), Layered(fs),
           \A i \in DOMAIN fs : Sound(fs[i])',
           NEW b \in App, \A i \in DOMAIN fs : ~(fs[i].op \in Owned /\ fs[i].app = b),
           SameFields(b), SameServants(b)
    PROVE  Each(b)'
<1>1. Quiet(b) /\ NoFrames(b)
  BY Begins, Idles
<1>2. Quiet(b)'
  <2>1. 1 \in DOMAIN fs
    OBVIOUS
  <2>2. ~Asks(fs[1], b) /\ ~Tries(fs[1], b) /\ ~Tried(fs[1], b) /\ ~Starts(fs[1], b) /\ ~Tells(fs[1], b)
    BY <2>1 DEF Asks, Tries, Tried, Starts, Tells, Owned
  <2> QED BY <2>2, Begins DEF Quiet
<1>3. NoFrames(b)'
  <2>1. /\ Cleared(b).op \in Owned /\ Cleared(b).app = b
        /\ \A c : SetChecking(b, c).op \in Owned /\ SetChecking(b, c).app = b
    BY DEF Cleared, SetChecking, Owned
  <2>2. ~In(Cleared(b), fs) /\ ~In(SetChecking(b, TRUE), fs) /\ ~In(SetChecking(b, FALSE), fs)
    BY <2>1 DEF In
  <2> QED BY <2>2, Begins DEF NoFrames, On
<1> QED BY <1>1, <1>2, <1>3, Apart DEF Untouched, SameFrames, NoFrames, DInv, On

LEMMA AskDriven ==
    ASSUME IInv, DInv, NEW r \in Request, NEW a \in App, ClientRequire(r, a)
    PROVE  DInv'
<1> PICK g : g = Require(a, r)
  OBVIOUS
<1> PICK fs : fs = <<g>>
  OBVIOUS
<1>1. /\ Dispatch(fs) /\ app' = app /\ proc' = proc /\ timer' = timer
      /\ g \in Frame /\ g.op = "Require"
  BY FramesMade DEF ClientRequire, Require, Waiter
<1>2. /\ fs \in Seq(Frame) /\ fs # <<>> /\ 1 \in DOMAIN fs /\ \A i \in DOMAIN fs : i = 1 /\ fs[i] = g
  BY <1>1
<1>3. Layered(fs)
  BY <1>2 DEF Layered
<1>4. \A i \in DOMAIN fs : Sound(fs[i])'
  <2>1. Sound(g)'
    BY <1>1 DEF Sound
  <2>2. \A i \in DOMAIN fs : Sound(fs[i])' <=> Sound(g)'
    BY <1>2 DEF Sound
  <2> QED BY <2>1, <2>2
<1>5. \A p : Deleting(p)' <=> Deleting(p)
  <2>1. \A p : Delete(p) # g
    BY <1>1 DEF Delete
  <2>2. \A p : ~In(Delete(p), fs)
    BY <1>2, <2>1 DEF In
  <2> QED BY <1>1, <1>2, <1>3, <1>4, <2>2, Begins, Idles
<1>6. SameObjects /\ \A b \in App : SameFields(b)
  BY <1>1 DEF SameObjects, SameFields
<1>7. (\A b : SameServants(b)) /\ Processes' /\ OneChecker' /\ OneTimer'
  BY <1>5, <1>6, ObjectsStay
<1>8. \A i \in DOMAIN fs : fs[i].op \notin Owned
  BY <1>1, <1>2 DEF Owned
<1>9. \A b \in App : Each(b)'
  BY <1>1, <1>2, <1>3, <1>4, <1>6, <1>7, <1>8, OthersIdle
<1> QED BY <1>1, <1>2, <1>3, <1>4, <1>7, <1>9, Begins DEF DInv

LEMMA PlainDriven ==
    ASSUME Obedient, IInv, DInv,
           \/ UNCHANGED vars \/ LoopStep
           \/ \E p \in Proc, s \in ExitStatus : Exit(p, s)
           \/ \E a \in App : Expire(a)
    PROVE  DInv'
<1>1. CASE UNCHANGED vars \/ LoopStep
  <2>1. calls' = calls /\ app' = app /\ proc' = proc /\ timer' = timer
    BY <1>1 DEF vars, loopVars, LoopStep, Iterate, RunClosing, RunTimers, RunPoll
  <2>2. SameObjects /\ \A b \in App : SameFields(b)
    BY <2>1 DEF SameObjects, SameFields
  <2> QED BY <2>1, <2>2, SameState
<1>2. ASSUME NEW p \in Proc, NEW s \in ExitStatus, Exit(p, s) PROVE DInv'
  <2>1. /\ calls' = calls /\ app' = app /\ timer' = timer /\ proc \in [Proc -> Process]
        /\ proc' = [proc EXCEPT ![p].status = s]
    BY <1>2 DEF Exit, IInv, TypeOK
  <2>2. proc[p].role = "app" => s # "ok"
    BY <1>2 DEF Exit, Obedient
  <2>3. \A q \in Proc : /\ proc'[q].role = proc[q].role /\ proc'[q].app = proc[q].app
                        /\ proc'[q].timer = proc[q].timer
                        /\ q = p => proc'[q].status = s
                        /\ q # p => proc'[q].status = proc[q].status
    BY <2>1 DEF Process
  <2>4. SameObjects /\ \A b \in App : SameFields(b)
    BY <2>1, <2>2, <2>3 DEF SameObjects, SameFields
  <2> QED BY <2>1, <2>4, SameState
<1>3. ASSUME NEW a \in App, Expire(a) PROVE DInv'
  <2>1. /\ calls' = calls /\ proc' = proc /\ timer' = timer /\ app \in [App -> AppState]
        /\ app' = [app EXCEPT ![a].late = TRUE]
    BY <1>3 DEF Expire, loopVars, IInv, TypeOK
  <2>2. \A b \in App : /\ app'[b].callbacks = app[b].callbacks /\ app'[b].process = app[b].process
                       /\ app'[b].restart = app[b].restart /\ app'[b].pending = app[b].pending
                       /\ app'[b].checking = app[b].checking
    BY <2>1 DEF AppState
  <2>3. SameObjects /\ \A b \in App : SameFields(b)
    BY <2>1, <2>2 DEF SameObjects, SameFields
  <2> QED BY <2>1, <2>3, SameState
<1> QED BY <1>1, <1>2, <1>3

LEMMA CheckerEndDriven ==
    ASSUME IInv, DInv, NEW p \in Proc, CheckerClosed(p)
    PROVE  DInv'
<1> PICK a : a = proc[p].app
  OBVIOUS
<1> PICK t : t = proc[p].timer
  OBVIOUS
<1> PICK g : g = CheckThen(a, t, proc[p].status)
  OBVIOUS
<1> PICK h : h = Delete(p)
  OBVIOUS
<1> PICK fs : fs = <<g, h>>
  OBVIOUS
<1>1. /\ Dispatch(fs) /\ app' = app /\ proc' = proc /\ timer' = timer /\ calls = <<>>
      /\ proc[p].role = "checker" /\ a \in App /\ a \in Checked /\ t \in Timer \cup {Null}
  BY DEF CheckerClosed, Dispatch, IInv, ProcInv, TypeOK, Process, DInv, Processes
<1>2. proc[p].status \in Error
  <2>1. batch # <<>> /\ p = Head(batch) /\ batch \in Seq(Proc \cup Timer)
    BY DEF CheckerClosed, TakeClosed, IInv, TypeOK
  <2>2. Queued(p)
    BY <2>1 DEF Queued
  <2> QED BY <2>2 DEF IInv, ProcInv, ExitStatus, Error
<1>3. /\ g \in Frame /\ g.op = "CheckThen" /\ g.app = a /\ g.timer = t
      /\ h \in Frame /\ h.op = "Delete"
  BY <1>1, <1>2, FramesMade DEF CheckThen, Delete
<1>4. /\ fs \in Seq(Frame) /\ fs[1] = g /\ fs[2] = h /\ fs # <<>>
      /\ 1 \in DOMAIN fs /\ 2 \in DOMAIN fs /\ \A i \in DOMAIN fs : i = 1 \/ i = 2
  BY <1>3, TwoFrames
<1>5. \A q : ~Deleting(q)
  BY <1>1, Idles
<1>6. t # Null => TimerOf(t, a)
  BY <1>1, <1>5 DEF DInv, Processes, TimerOf
<1>7. Layered(fs)
  <2>1. Covers(g, h)
    BY <1>1, <1>3 DEF Covers, Early, Tries, Tried
  <2>2. ASSUME NEW i \in DOMAIN fs, NEW j \in DOMAIN fs, i < j PROVE i = 1 /\ j = 2
    BY <1>4, <2>2
  <2> QED BY <1>4, <2>1, <2>2 DEF Layered
<1>8. \A i \in DOMAIN fs : Sound(fs[i])'
  <2>1. Sound(g)' /\ Sound(h)'
    BY <1>1, <1>3, <1>6 DEF Sound, TimerOf
  <2>2. Sound(fs[1])' /\ Sound(fs[2])'
    BY <1>4, <2>1 DEF Sound
  <2> QED BY <1>4, <2>2
<1>9. \A q : Deleting(q)' <=> q = p
  <2>1. \A q : Delete(q) = h <=> q = p
    BY DEF Delete
  <2>2. \A q : Delete(q) # g
    BY <1>3 DEF Delete
  <2>3. \A q : In(Delete(q), fs) <=> q = p
    BY <1>4, <2>1, <2>2 DEF In
  <2> QED BY <1>1, <1>4, <1>7, <1>8, <2>3, Begins
<1>10. \A b : \A q \in Proc : Serves(q, b)' <=> Serves(q, b) /\ q # p
  BY <1>1, <1>5, <1>9 DEF Serves
<1>11. Serves(p, a)
  BY <1>1, <1>5 DEF Serves
<1>12. \A u, b : TimerOf(u, b)' <=> TimerOf(u, b)
  BY <1>1 DEF TimerOf
<1>13. \A b : b # a => SameServants(b)
  <2>1. \A b : b # a => ~Serves(p, b)
    BY DEF Serves
  <2> QED BY <1>1, <1>10, <1>12, <2>1 DEF SameServants, Checks, Timing, Timed
<1>14. /\ ~Checks(a)' /\ ~Timing(a)'
       /\ Checks(a) <=> t = Null
       /\ Timing(a) <=> t # Null
       /\ Timed(a)' <=> Timed(a)
  <2>1. \A q \in Proc : Serves(q, a) => q = p
    BY <1>1, <1>11 DEF DInv, OneChecker
  <2> QED BY <1>10, <1>11, <1>12, <2>1 DEF Checks, Timing, Timed
<1>15. OneChecker' /\ OneTimer'
  BY <1>10, <1>12 DEF OneChecker, OneTimer, DInv
<1>16. Processes'
  BY <1>1, <1>5 DEF DInv, Processes
<1>17. Quiet(a) /\ NoFrames(a)
  BY <1>1, Idles
<1>18. /\ ~Starting(a)' /\ ~Telling(a)' /\ ~Trying(a)'
       /\ Asking(a)' <=> t = Null
       /\ HasTried(a)' <=> t # Null
  <2>1. /\ Asking(a)' <=> Asks(fs[1], a)
        /\ Trying(a)' <=> Tries(fs[1], a)
        /\ HasTried(a)' <=> Tried(fs[1], a)
        /\ Starting(a)' <=> Starts(fs[1], a)
        /\ Telling(a)' <=> Tells(fs[1], a)
    BY <1>1, <1>4, <1>7, <1>8, Begins
  <2>2. /\ ~Starts(g, a) /\ ~Tells(g, a) /\ ~Tries(g, a)
        /\ Asks(g, a) <=> t = Null
        /\ Tried(g, a) <=> t # Null
    BY <1>3 DEF Asks, Tries, Tried, Starts, Tells
  <2> QED BY <1>4, <2>1, <2>2
<1>19. NoFrames(a)'
  <2>1. /\ Cleared(a) # g /\ SetChecking(a, TRUE) # g /\ SetChecking(a, FALSE) # g
        /\ Cleared(a) # h /\ SetChecking(a, TRUE) # h /\ SetChecking(a, FALSE) # h
    BY <1>3 DEF Cleared, SetChecking
  <2>2. ~In(Cleared(a), fs) /\ ~In(SetChecking(a, TRUE), fs) /\ ~In(SetChecking(a, FALSE), fs)
    BY <1>4, <2>1 DEF In
  <2> QED BY <1>1, <1>4, <1>7, <1>8, <2>2, Begins DEF NoFrames, On
<1>20. Each(a)'
  BY <1>1, <1>14, <1>17, <1>18, <1>19
     DEF DInv, Each, Awaits, Checking, OneDriver, Exactly, Quiet, NoFrames
<1>21. ASSUME NEW b \in App, b # a PROVE Each(b)'
  <2>1. SameFields(b)
    BY <1>1 DEF SameFields
  <2>2. \A i \in DOMAIN fs : ~(fs[i].op \in Owned /\ fs[i].app = b)
    BY <1>3, <1>4, <1>21 DEF Owned
  <2> QED BY <1>1, <1>4, <1>7, <1>8, <1>13, <1>21, <2>1, <2>2, OthersIdle
<1> QED BY <1>1, <1>4, <1>7, <1>8, <1>15, <1>16, <1>20, <1>21, Begins DEF DInv

Ended(a) ==
    \E c \in BOOLEAN : app' = [app EXCEPT ![a].process = Null, ![a].restart = c]

EndFrames(fs, p, a) ==
    /\ fs \in Seq(Frame) /\ fs # <<>> /\ Layered(fs) /\ In(Delete(p), fs)
    /\ \A i \in DOMAIN fs : /\ fs[i].op \in {"Start", "Clear", "Delete"}
                            /\ fs[i].op = "Delete" => fs[i] = Delete(p)
                            /\ fs[i].op # "Delete" => fs[i].app = a

\* The process of an app is gone; fs is what its closure and the end of the
\* callback will run.
LEMMA EndsDriven ==
    ASSUME IInv, DInv, NEW p \in Proc, NEW a \in App,
           proc[p].role = "app", proc[p].app = a, proc' = proc, timer' = timer,
           Ended(a),
           NEW fs, EndFrames(fs, p, a), Dispatch(fs), \A i \in DOMAIN fs : Sound(fs[i])',
           SameServants(a) => Each(a)'
    PROVE  DInv'
<1>0. /\ fs \in Seq(Frame) /\ fs # <<>> /\ Layered(fs) /\ In(Delete(p), fs)
      /\ \A i \in DOMAIN fs : /\ fs[i].op \in {"Start", "Clear", "Delete"}
                              /\ fs[i].op = "Delete" => fs[i] = Delete(p)
                              /\ fs[i].op # "Delete" => fs[i].app = a
  BY DEF EndFrames
<1>1. \A q : ~Deleting(q)
  BY Idles DEF Dispatch
<1>2. \A q : Deleting(q)' <=> q = p
  <2>1. \A q : In(Delete(q), fs) <=> q = p
    BY <1>0 DEF In, Delete
  <2> QED BY <1>0, <2>1, Begins
<1>3. /\ app'[a].process = Null /\ app'[a].callbacks = app[a].callbacks
      /\ \A b \in App : b # a => app'[b] = app[b]
  BY DEF IInv, TypeOK, AppState, Ended
<1>4. app[a].process = p
  BY <1>1 DEF DInv, Processes
<1>5. \A b : \A q \in Proc : Serves(q, b)' <=> Serves(q, b)
  BY <1>1, <1>2 DEF Serves
<1>6. \A u, b : TimerOf(u, b)' <=> TimerOf(u, b)
  BY DEF TimerOf
<1>7. \A b : SameServants(b)
  BY <1>5, <1>6 DEF SameServants, Checks, Timing, Timed
<1>8. OneChecker' /\ OneTimer'
  BY <1>5, <1>6 DEF OneChecker, OneTimer, DInv
<1>9. Processes'
  <2> SUFFICES ASSUME NEW q \in Proc
               PROVE  /\ proc[q].role = "app" => proc[q].status # "ok"
                      /\ proc[q].role = "app" /\ ~Deleting(q)' => app'[proc[q].app].process = q
                      /\ proc[q].role = "checker" => proc[q].app \in Checked
                      /\ proc[q].timer # Null =>
                           /\ proc[q].role = "checker"
                           /\ timer[proc[q].timer].app = proc[q].app
                           /\ timer[proc[q].timer].status # "free"
                           /\ ~Deleting(q)' => timer[proc[q].timer].status = "open"
    BY DEF Processes
  <2>1. /\ proc[q].role = "app" => proc[q].status # "ok"
        /\ proc[q].role = "app" => app[proc[q].app].process = q
        /\ proc[q].role = "checker" => proc[q].app \in Checked
        /\ proc[q].timer # Null =>
             /\ proc[q].role = "checker"
             /\ timer[proc[q].timer].app = proc[q].app
             /\ timer[proc[q].timer].status # "free"
             /\ timer[proc[q].timer].status = "open"
    BY <1>1 DEF DInv, Processes
  <2>2. proc[q].role # "free" => proc[q].app \in App
    BY DEF IInv, ProcInv
  <2>3. proc[q].role = "app" /\ ~Deleting(q)' => app'[proc[q].app].process = q
    BY <1>2, <1>3, <1>4, <2>1, <2>2
  <2> QED BY <2>1, <2>3
<1>10. ASSUME NEW b \in App, b # a PROVE Each(b)'
  <2>1. SameFields(b)
    BY <1>3, <1>10 DEF SameFields
  <2>2. \A i \in DOMAIN fs : ~(fs[i].op \in Owned /\ fs[i].app = b)
    BY <1>0, <1>10 DEF Owned
  <2> QED BY <1>0, <1>7, <1>10, <2>1, <2>2, OthersIdle
<1> QED BY <1>0, <1>7, <1>8, <1>9, <1>10, Begins DEF DInv

LEMMA AppEndDriven ==
    ASSUME IInv, DInv, NEW p \in Proc, AppClosed(p)
    PROVE  DInv'
<1> PICK a : a = proc[p].app
  OBVIOUS
<1>0. PICK h : h = Delete(p)
  OBVIOUS
<1>1. /\ proc' = proc /\ timer' = timer /\ calls = <<>> /\ app \in [App -> AppState]
      /\ proc[p].role = "app" /\ a \in App /\ proc[p].status # "ok" /\ Each(a)
      /\ h \in Frame /\ h.op = "Delete" /\ h = Delete(p)
  BY <1>0, FramesMade DEF AppClosed, Dispatch, IInv, ProcInv, TypeOK, DInv, Processes, Delete
<1>2. app[a].process = p /\ p # Null
  BY <1>1, Idles, ConfigAssumption DEF DInv, Processes
<1>3. proc[p].status \in Error
  <2>1. batch # <<>> /\ p = Head(batch) /\ batch \in Seq(Proc \cup Timer)
    BY DEF AppClosed, TakeClosed, IInv, TypeOK
  <2>2. Queued(p)
    BY <2>1 DEF Queued
  <2> QED BY <2>2 DEF IInv, ProcInv, ExitStatus, Error
<1>4. Quiet(a) /\ NoFrames(a)
  BY <1>1, Idles
<1>5. Sound(h)'
  BY <1>1 DEF Sound
<1> DEFINE again == app[a].restart
           tell == ~app[a].restart /\ a \notin Checked
<1>6. /\ app' = [app EXCEPT ![a].process = Null, ![a].restart = @ /\ ~again]
      /\ Dispatch(IF again THEN <<Start(a), h>>
                  ELSE IF tell THEN <<Clear(a, proc[p].status), h>> ELSE <<h>>)
  BY <1>1 DEF AppClosed
<1>7. /\ app'[a].callbacks = app[a].callbacks /\ app'[a].process = Null
      /\ app'[a].restart = FALSE /\ app'[a].pending = app[a].pending
      /\ app'[a].checking = app[a].checking
      /\ Ended(a)
  <2>1. app[a].restart \in BOOLEAN
    BY <1>1 DEF AppState
  <2>2. app' = [app EXCEPT ![a].process = Null, ![a].restart = FALSE]
    BY <1>1, <1>6 DEF AppState
  <2>3. Ended(a)
    BY <2>2 DEF Ended
  <2> QED BY <1>1, <2>1, <2>2, <2>3 DEF AppState
<1>8. CASE again \/ tell
  <2>0. PICK g, fs : /\ g = IF again THEN Start(a) ELSE Clear(a, proc[p].status)
                     /\ fs = <<g, h>>
    OBVIOUS
  <2>1. /\ Dispatch(fs) /\ g \in Frame /\ g.app = a
        /\ again => g.op = "Start"
        /\ tell => g.op = "Clear" /\ g.error # "ok"
    BY <1>1, <1>3, <1>6, <1>8, <2>0, FramesMade DEF Start, Clear
  <2>2. again => a \in Checked
    BY <1>1 DEF Each, Unchecked
  <2>3. /\ fs \in Seq(Frame) /\ fs[1] = g /\ fs[2] = h /\ fs # <<>>
        /\ 1 \in DOMAIN fs /\ 2 \in DOMAIN fs /\ \A i \in DOMAIN fs : i = 1 \/ i = 2
    BY <1>1, <2>0, <2>1, TwoFrames
  <2>4. Layered(fs)
    <3>1. Covers(g, h)
      BY <1>1, <1>8, <2>1 DEF Covers, Early, Tries, Tried
    <3>2. ASSUME NEW i \in DOMAIN fs, NEW j \in DOMAIN fs, i < j PROVE i = 1 /\ j = 2
      BY <2>3, <3>2
    <3> QED BY <2>3, <3>1, <3>2 DEF Layered
  <2>5. \A i \in DOMAIN fs : Sound(fs[i])'
    <3>1. Sound(g)'
      BY <1>8, <2>1 DEF Sound
    <3>2. Sound(fs[1])' /\ Sound(fs[2])'
      BY <1>5, <2>3, <3>1 DEF Sound
    <3> QED BY <2>3, <3>2
  <2>6. /\ In(Delete(p), fs)
        /\ \A i \in DOMAIN fs : /\ fs[i].op \in {"Start", "Clear", "Delete"}
                                /\ fs[i].op = "Delete" => fs[i] = Delete(p)
                                /\ fs[i].op # "Delete" => fs[i].app = a
    BY <1>1, <1>8, <2>1, <2>3 DEF In
  <2>7. /\ ~Asking(a)' /\ ~Trying(a)' /\ ~HasTried(a)'
        /\ Starting(a)' <=> again
        /\ Telling(a)' <=> tell
    BY <1>8, <2>1, <2>3, <2>4, <2>5, Begins DEF Asks, Tries, Tried, Starts, Tells
  <2>8. NoFrames(a)'
    <3>1. /\ Cleared(a) # g /\ SetChecking(a, TRUE) # g /\ SetChecking(a, FALSE) # g
          /\ Cleared(a) # h /\ SetChecking(a, TRUE) # h /\ SetChecking(a, FALSE) # h
      BY <1>1, <1>8, <2>1 DEF Cleared, SetChecking
    <3>2. ~In(Cleared(a), fs) /\ ~In(SetChecking(a, TRUE), fs) /\ ~In(SetChecking(a, FALSE), fs)
      BY <2>3, <3>1 DEF In
    <3> QED BY <2>1, <2>3, <2>4, <2>5, <3>2, Begins DEF NoFrames, On
  <2>9. ASSUME SameServants(a) PROVE Each(a)'
    <3>1. Awaits(a)'
      BY <1>7 DEF Awaits
    <3>2. a \in Checked => Checking(a)'
      BY <1>1, <1>4, <1>7, <2>7, <2>8, <2>9 DEF Each, Checking, Quiet, NoFrames, SameServants
    <3>3. a \in Checked => OneDriver(a)'
      BY <1>1, <1>4, <1>7, <1>8, <2>7, <2>8, <2>9
         DEF Each, OneDriver, Exactly, Quiet, NoFrames, SameServants
    <3>4. a \notin Checked => Unchecked(a)'
      BY <1>1, <1>7, <1>8, <2>2, <2>7 DEF Each, Unchecked
    <3> QED BY <3>1, <3>2, <3>3, <3>4 DEF Each
  <2>10. EndFrames(fs, p, a)
    <3>1. fs \in Seq(Frame) /\ fs # <<>>
      BY <2>3
    <3>2. Layered(fs) /\ In(Delete(p), fs)
      BY <2>4, <2>6
    <3>3. \A i \in DOMAIN fs : /\ fs[i].op \in {"Start", "Clear", "Delete"}
                               /\ fs[i].op = "Delete" => fs[i] = Delete(p)
                               /\ fs[i].op # "Delete" => fs[i].app = a
      BY <2>6
    <3> QED BY <3>1, <3>2, <3>3 DEF EndFrames
  <2> QED BY <1>1, <1>7, <2>1, <2>5, <2>9, <2>10, EndsDriven
<1>9. CASE ~again /\ ~tell
  <2>0. PICK fs : fs = <<h>>
    OBVIOUS
  <2>1. Dispatch(fs) /\ a \in Checked
    BY <1>6, <1>9, <2>0
  <2>2. /\ fs \in Seq(Frame) /\ fs # <<>> /\ 1 \in DOMAIN fs
        /\ \A i \in DOMAIN fs : i = 1 /\ fs[i] = h
    BY <1>1, <2>0
  <2>3. Layered(fs)
    BY <2>2 DEF Layered
  <2>4. \A i \in DOMAIN fs : Sound(fs[i])'
    <3>1. \A i \in DOMAIN fs : Sound(fs[i])' <=> Sound(h)'
      BY <2>2 DEF Sound
    <3> QED BY <1>5, <3>1
  <2>5. /\ In(Delete(p), fs)
        /\ \A i \in DOMAIN fs : /\ fs[i].op \in {"Start", "Clear", "Delete"}
                                /\ fs[i].op = "Delete" => fs[i] = Delete(p)
                                /\ fs[i].op # "Delete" => fs[i].app = a
    BY <1>1, <2>2 DEF In
  <2>6. Quiet(a)'
    BY <1>1, <2>1, <2>2, <2>3, <2>4, Begins DEF Quiet, Asks, Tries, Tried, Starts, Tells
  <2>7. NoFrames(a)'
    <3>1. Cleared(a) # h /\ SetChecking(a, TRUE) # h /\ SetChecking(a, FALSE) # h
      BY <1>1 DEF Cleared, SetChecking
    <3>2. ~In(Cleared(a), fs) /\ ~In(SetChecking(a, TRUE), fs) /\ ~In(SetChecking(a, FALSE), fs)
      BY <2>2, <3>1 DEF In
    <3> QED BY <2>1, <2>2, <2>3, <2>4, <3>2, Begins DEF NoFrames, On
  <2>8. ASSUME SameServants(a) PROVE Each(a)'
    BY <1>1, <1>4, <1>7, <1>9, <2>1, <2>6, <2>7, <2>8
       DEF Each, Awaits, Checking, OneDriver, Exactly, Quiet, NoFrames, SameServants
  <2>9. EndFrames(fs, p, a)
    BY <2>2, <2>3, <2>5 DEF EndFrames
  <2> QED BY <1>1, <1>7, <2>1, <2>4, <2>8, <2>9, EndsDriven
<1> QED BY <1>8, <1>9

LEMMA TimerEndDriven ==
    ASSUME IInv, TimersQueued, DInv, NEW t \in Timer, TimerClosed(t)
    PROVE  DInv'
<1>1. /\ app' = app /\ proc' = proc /\ calls' = calls /\ calls = <<>>
      /\ timer \in [Timer -> TimerState] /\ timer' = [timer EXCEPT ![t] = NoTimer]
  BY DEF TimerClosed, TakeClosed, Idle, IInv, TypeOK
<1>2. timer[t].status = "closing"
  <2>1. \A u \in Timer : timer'[u].status = timer[u].status \/ u = t
    BY <1>1
  <2> QED BY <1>1, <2>1, TakesHandle DEF TimerClosed
<1>3. /\ timer'[t].status = "free"
      /\ \A u \in Timer : u # t => timer'[u] = timer[u]
  BY <1>1 DEF NoTimer
<1>4. \A q : ~Deleting(q) /\ ~Deleting(q)'
  <2>1. calls' = <<>>
    BY <1>1
  <2> QED BY <1>1, Idles DEF Deleting
<1>5. \A b : \A q \in Proc : Serves(q, b)' <=> Serves(q, b)
  BY <1>1, <1>4 DEF Serves
<1>6. \A b : \A u \in Timer : TimerOf(u, b)' <=> TimerOf(u, b)
  BY <1>2, <1>3 DEF TimerOf
<1>7. \A b : SameServants(b)
  BY <1>1, <1>5, <1>6 DEF SameServants, Checks, Timing, Timed
<1>8. OneChecker' /\ OneTimer'
  BY <1>5, <1>6 DEF OneChecker, OneTimer, DInv
<1>9. Processes'
  <2> SUFFICES ASSUME NEW q \in Proc
               PROVE  /\ proc[q].role = "app" => proc[q].status # "ok"
                      /\ proc[q].role = "app" => app[proc[q].app].process = q
                      /\ proc[q].role = "checker" => proc[q].app \in Checked
                      /\ proc[q].timer # Null =>
                           /\ proc[q].role = "checker"
                           /\ timer'[proc[q].timer].app = proc[q].app
                           /\ timer'[proc[q].timer].status # "free"
                           /\ timer'[proc[q].timer].status = "open"
    BY <1>1 DEF Processes
  <2>1. /\ proc[q].role = "app" => proc[q].status # "ok"
        /\ proc[q].role = "app" => app[proc[q].app].process = q
        /\ proc[q].role = "checker" => proc[q].app \in Checked
        /\ proc[q].timer # Null =>
             /\ proc[q].role = "checker"
             /\ timer[proc[q].timer].app = proc[q].app
             /\ timer[proc[q].timer].status # "free"
             /\ timer[proc[q].timer].status = "open"
    BY <1>4 DEF DInv, Processes
  <2>2. proc[q].timer # Null => proc[q].timer \in Timer /\ proc[q].timer # t
    BY <1>2, <2>1 DEF IInv, TypeOK, Process
  <2> QED BY <1>3, <2>1, <2>2
<1>10. Layered(calls)' /\ AllSound'
  <2>1. calls' = <<>> /\ DOMAIN <<>> = {}
    BY <1>1
  <2> QED BY <2>1 DEF Layered, AllSound
<1>11. ASSUME NEW b \in App PROVE Each(b)'
  <2>1. Quiet(b) /\ NoFrames(b)
    BY <1>1, Idles
  <2>2. Quiet(b)' /\ NoFrames(b)'
    BY <1>1, <2>1 DEF Quiet, NoFrames, On, Asking, Trying, HasTried, Starting, Telling
  <2>3. SameFields(b)
    BY <1>1 DEF SameFields
  <2>4. SameFrames(b)
    BY <2>1, <2>2 DEF SameFrames, NoFrames
  <2> QED BY <1>7, <2>1, <2>2, <2>3, <2>4, Apart DEF Untouched, DInv
<1> QED BY <1>8, <1>9, <1>10, <1>11 DEF DInv

LEMMA TickDriven ==
    ASSUME IInv, DInv, NEW t \in Timer, Tick(t)
    PROVE  DInv'
<1> PICK a : a = timer[t].app
  OBVIOUS
<1>1. /\ app' = app /\ proc' = proc /\ calls = <<>>
      /\ timer \in [Timer -> TimerState] /\ app \in [App -> AppState]
      /\ timer[t].status = "open" /\ a \in App /\ Each(a) /\ TimerOf(t, a) /\ Timed(a)
  BY DEF Tick, Idle, IInv, TypeOK, TimerInv, TimerOf, Timed, DInv
<1>2. Quiet(a) /\ NoFrames(a) /\ \A q : ~Deleting(q)
  BY <1>1, Idles
<1>3. CASE app[a].callbacks = <<>>
  <2>1. calls' = calls /\ timer' = [timer EXCEPT ![t].status = "closing"]
    BY <1>1, <1>3 DEF Tick, CloseTimer
  <2>2. a \notin Checked
    BY <1>1, <1>3 DEF Each, OneDriver, Exactly
  <2>3. /\ timer'[t].app = a /\ timer'[t].status = "closing"
        /\ \A u \in Timer : u # t => timer'[u] = timer[u]
    BY <1>1, <2>1 DEF TimerState
  <2>4. \A q : ~Deleting(q)'
    BY <1>2, <2>1 DEF Deleting
  <2>5. \A b : \A q \in Proc : Serves(q, b)' <=> Serves(q, b)
    BY <1>1, <1>2, <2>4 DEF Serves
  <2>6. \A b : (Checks(b)' <=> Checks(b)) /\ (Timing(b)' <=> Timing(b))
    BY <1>1, <2>5 DEF Checks, Timing
  <2>7. \A b : \A u \in Timer : b # a => (TimerOf(u, b)' <=> TimerOf(u, b))
    BY <1>1, <2>3 DEF TimerOf
  <2>8. \A b : b # a => SameServants(b)
    BY <2>6, <2>7 DEF SameServants, Timed
  <2>9. OneChecker' /\ OneTimer'
    BY <2>2, <2>5, <2>7 DEF OneChecker, OneTimer, DInv
  <2>10. Processes'
    <3> SUFFICES ASSUME NEW q \in Proc
                 PROVE  /\ proc[q].role = "app" => proc[q].status # "ok"
                        /\ proc[q].role = "app" => app[proc[q].app].process = q
                        /\ proc[q].role = "checker" => proc[q].app \in Checked
                        /\ proc[q].timer # Null =>
                             /\ proc[q].role = "checker"
                             /\ timer'[proc[q].timer].app = proc[q].app
                             /\ timer'[proc[q].timer].status # "free"
                             /\ timer'[proc[q].timer].status = "open"
      BY <1>1 DEF Processes
    <3>1. /\ proc[q].role = "app" => proc[q].status # "ok"
          /\ proc[q].role = "app" => app[proc[q].app].process = q
          /\ proc[q].role = "checker" => proc[q].app \in Checked
          /\ proc[q].timer # Null =>
               /\ proc[q].role = "checker"
               /\ timer[proc[q].timer].app = proc[q].app
               /\ timer[proc[q].timer].status # "free"
               /\ timer[proc[q].timer].status = "open"
      BY <1>2 DEF DInv, Processes
    <3>2. proc[q].timer # Null => proc[q].timer \in Timer /\ proc[q].timer # t
      BY <2>2, <3>1 DEF IInv, TypeOK, Process
    <3> QED BY <2>3, <3>1, <3>2
  <2>11. Layered(calls)' /\ AllSound'
    <3>1. calls' = <<>> /\ DOMAIN <<>> = {}
      BY <1>1, <2>1
    <3> QED BY <3>1 DEF Layered, AllSound
  <2>12. \A b : Quiet(b)' /\ NoFrames(b)'
    <3>1. calls' = <<>> /\ \A b : Quiet(b) /\ NoFrames(b)
      BY <1>1, <2>1, Idles
    <3> QED BY <2>1, <3>1 DEF Quiet, NoFrames, On, Asking, Trying, HasTried, Starting, Telling
  <2>13. Each(a)'
    BY <1>1, <1>3, <2>2, <2>12 DEF Each, Awaits, Unchecked, Quiet
  <2>14. ASSUME NEW b \in App, b # a PROVE Each(b)'
    <3>1. SameFields(b)
      BY <1>1 DEF SameFields
    <3>2. Quiet(b) /\ SameFrames(b)
      BY <1>1, <2>12, Idles DEF SameFrames, NoFrames
    <3> QED BY <2>8, <2>12, <2>14, <3>1, <3>2, Apart DEF Untouched, DInv
  <2> QED BY <2>9, <2>10, <2>11, <2>13, <2>14 DEF DInv
<1>4. CASE app[a].callbacks # <<>>
  <2>0. PICK g, h, fs : g = Check(a, t) /\ h = SetChecking(a, TRUE) /\ fs = <<g, h>>
    OBVIOUS
  <2>1. Dispatch(fs) /\ timer' = timer /\ ~app[a].checking
    BY <1>1, <1>4, <2>0 DEF Tick
  <2>2. /\ g \in Frame /\ g.op = "Check" /\ g.app = a /\ g.timer = t
        /\ h \in Frame /\ h.op = "SetChecking" /\ h.app = a /\ h = SetChecking(a, TRUE)
        /\ h # SetChecking(a, FALSE)
    BY <1>1, <2>0, FramesMade DEF Check, SetChecking
  <2>3. /\ fs \in Seq(Frame) /\ fs[1] = g /\ fs[2] = h /\ fs # <<>>
        /\ 1 \in DOMAIN fs /\ 2 \in DOMAIN fs /\ \A i \in DOMAIN fs : i = 1 \/ i = 2
    BY <2>0, <2>2, TwoFrames
  <2>4. t # Null
    BY ConfigAssumption
  <2>5. a \notin Checked => app[a].process # Null
    BY <1>1, <1>2, <1>4 DEF Each, Unchecked, Ready, Quiet, NoFrames
  <2>6. Layered(fs)
    <3>1. Covers(g, h)
      BY <2>2, <2>4 DEF Covers, Early, Tries, Tried
    <3>2. ASSUME NEW i \in DOMAIN fs, NEW j \in DOMAIN fs, i < j PROVE i = 1 /\ j = 2
      BY <2>3, <3>2
    <3> QED BY <2>3, <3>1, <3>2 DEF Layered
  <2>7. \A i \in DOMAIN fs : Sound(fs[i])'
    <3>1. Sound(g)' /\ Sound(h)'
      BY <1>1, <2>1, <2>2, <2>5 DEF Sound, TimerOf
    <3>2. Sound(fs[1])' /\ Sound(fs[2])'
      BY <2>3, <3>1 DEF Sound
    <3> QED BY <2>3, <3>2
  <2>8. \A q : Deleting(q)' <=> Deleting(q)
    <3>0. g.op # "Delete" /\ h.op # "Delete" /\ \A q : Delete(q).op = "Delete"
      BY <2>2 DEF Delete
    <3>1. \A q : Delete(q) # g /\ Delete(q) # h
      BY <3>0
    <3>2. \A q : ~In(Delete(q), fs)
      BY <2>3, <3>1 DEF In
    <3> QED BY <1>2, <2>1, <2>3, <2>6, <2>7, <3>2, Begins
  <2>9. SameObjects /\ \A b \in App : SameFields(b)
    BY <1>1, <2>1 DEF SameObjects, SameFields
  <2>10. (\A b : SameServants(b)) /\ Processes' /\ OneChecker' /\ OneTimer'
    BY <2>8, <2>9, ObjectsStay
  <2>11. ~Asking(a)' /\ Trying(a)' /\ ~HasTried(a)' /\ ~Starting(a)' /\ ~Telling(a)'
    BY <2>1, <2>2, <2>3, <2>4, <2>6, <2>7, Begins DEF Asks, Tries, Tried, Starts, Tells
  <2>12. On(SetChecking(a, TRUE))' /\ ~On(SetChecking(a, FALSE))' /\ ~On(Cleared(a))'
    <3>1. \A k : In(k, fs) <=> k = g \/ k = h
      BY <2>3 DEF In
    <3>2. SetChecking(a, FALSE) # g /\ Cleared(a) # g /\ Cleared(a) # h
      BY <2>2 DEF SetChecking, Cleared
    <3>3. In(SetChecking(a, TRUE), fs) /\ ~In(SetChecking(a, FALSE), fs) /\ ~In(Cleared(a), fs)
      BY <2>2, <3>1, <3>2
    <3> QED BY <2>1, <2>3, <2>6, <2>7, <3>3, Begins DEF On
  <2>13. Each(a)'
    <3>1. Awaits(a)'
      BY <1>1, <2>11 DEF Each, Awaits
    <3>2. a \in Checked => Checking(a)'
      BY <1>1, <1>2, <2>1, <2>10, <2>11, <2>12
         DEF Each, Checking, Quiet, NoFrames, SameServants
    <3>3. a \in Checked => OneDriver(a)'
      BY <1>1, <1>2, <2>10, <2>11, <2>12 DEF Each, OneDriver, Exactly, Quiet, NoFrames, SameServants
    <3>4. a \notin Checked => Unchecked(a)'
      BY <1>1, <2>11 DEF Each, Unchecked
    <3> QED BY <3>1, <3>2, <3>3, <3>4 DEF Each
  <2>14. ASSUME NEW b \in App, b # a PROVE Each(b)'
    <3>1. \A i \in DOMAIN fs : ~(fs[i].op \in Owned /\ fs[i].app = b)
      BY <2>2, <2>3, <2>14
    <3> QED BY <2>1, <2>3, <2>6, <2>7, <2>9, <2>10, <2>14, <3>1, OthersIdle
  <2> QED BY <2>1, <2>3, <2>6, <2>7, <2>10, <2>13, <2>14, Begins DEF DInv
<1> QED BY <1>3, <1>4

LEMMA DrivenInitially == Init => DInv
<1> SUFFICES ASSUME Init PROVE DInv
  OBVIOUS
<1>1. /\ calls = <<>>
      /\ \A a \in App : /\ app[a].callbacks = <<>> /\ app[a].process = Null
                        /\ ~app[a].restart /\ app[a].pending = 0 /\ ~app[a].checking
      /\ \A p \in Proc : proc[p].role = "free" /\ proc[p].timer = Null
      /\ \A t \in Timer : timer[t].status = "free"
  BY DEF Init, LoopInit, NoProcess, NoTimer
<1>2. /\ \A a : Quiet(a) /\ NoFrames(a)
      /\ DOMAIN calls = {}
  BY <1>1, Idles
<1>3. Layered(calls) /\ AllSound
  BY <1>2 DEF Layered, AllSound
<1>4. \A a : ~Checks(a) /\ ~Timing(a) /\ ~Timed(a)
  BY <1>1 DEF Checks, Timing, Timed, Serves, TimerOf
<1>5. Processes /\ OneChecker /\ OneTimer
  BY <1>1 DEF Processes, OneChecker, OneTimer, Serves, TimerOf
<1>6. \A a \in App : Each(a)
  BY <1>1, <1>2, <1>4
     DEF Each, Awaits, Checking, OneDriver, Exactly, Unchecked, Quiet, NoFrames
<1> QED BY <1>3, <1>5, <1>6 DEF DInv
-----------------------------------------------------------------------------
(* The closures of CheckPreamble are counted. *)

\* The vectors stay; so does what every app counts.
SameVectors == \A a \in App : app'[a].callbacks = app[a].callbacks
SamePending == \A a \in App : app'[a].pending = app[a].pending

LEMMA PlacesStay ==
    ASSUME SameVectors, \A a \in App : Clearing(a)' <=> Clearing(a), NEW w, NEW m, NEW n,
           IsFiniteSet(PlacesIn(Vectors, Busy, w)),
           m = Cardinality(PlacesIn(Vectors, Busy, w)) + Count(calls', w)
    PROVE  HasCopies(w, m)'
<1>1. Vectors' = Vectors
  BY DEF Vectors, SameVectors
<1>2. Busy' = Busy
  BY DEF Busy
<1>3. PlacesIn(Vectors, Busy, w)' = PlacesIn(Vectors, Busy, w)
  BY <1>1, <1>2 DEF PlacesIn
<1> QED BY <1>3 DEF HasCopies, Count, FramesIn

\* A step that runs through no vector moves the closures that its frames are.
LEMMA CopiesMove ==
    ASSUME IInv, calls # <<>>, Head(calls).op # "Cleared", NEW fs \in Seq(Frame), Continue(fs),
           \A i \in DOMAIN fs : fs[i].op # "Cleared", SameVectors,
           NEW w, NEW n \in Int, HasCopies(w, n), NEW m \in Int,
           m = n + Count(fs, w) - (IF Owes(Head(calls), w) THEN 1 ELSE 0)
    PROVE  HasCopies(w, m)'
<1>1. calls \in Seq(Frame) /\ Head(calls) = calls[1] /\ 1 \in DOMAIN calls
  BY TopFrame DEF IInv, TypeOK
<1>2. \A a \in App : Clearing(a)' <=> Clearing(a)
  <2> TAKE a \in App
  <2>1. Clearing(a)' <=> \E j \in DOMAIN calls : j # 1 /\ calls[j] = Cleared(a)
    BY <1>1, BusyAfter DEF Cleared
  <2>2. calls[1] # Cleared(a)
    BY <1>1 DEF Cleared
  <2> QED BY <2>1, <2>2 DEF Clearing
<1>3. PICK k \in Nat :
        /\ Count(calls, w) = (IF Owes(Head(calls), w) THEN 1 ELSE 0) + k
        /\ Count(calls', w) = Count(fs, w) + k
  BY <1>1, StackCounts
<1>4. IsFiniteSet(PlacesIn(Vectors, Busy, w)) /\ n = Cardinality(PlacesIn(Vectors, Busy, w)) + Count(calls, w)
  BY DEF HasCopies
<1> PICK c : c = Cardinality(PlacesIn(Vectors, Busy, w))
  OBVIOUS
<1>5. c \in Nat /\ Count(fs, w) \in Nat
  BY <1>4, FS_CardinalityType, FramesFinite
<1>6. m = c + Count(calls', w)
  BY <1>3, <1>4, <1>5
<1> QED BY <1>2, <1>4, <1>6, PlacesStay

\* A frame that is no closure of CheckPreamble.
MuteFrame == {g \in Frame : g.op # "Cleared" /\ \A a \in App : ~Owes(g, a)}

LEMMA MuteFramesMade ==
    /\ <<>> \in Seq(MuteFrame)
    /\ \A g \in MuteFrame : <<g>> \in Seq(MuteFrame)
    /\ \A g, h \in MuteFrame : <<g, h>> \in Seq(MuteFrame)
    /\ \A g \in Frame : g.op \notin {"Cleared", "Require", "Invoke"} => g \in MuteFrame
BY DEF MuteFrame, Owes

LEMMA MuteNone ==
    ASSUME NEW fs \in Seq(MuteFrame), NEW a \in App
    PROVE  fs \in Seq(Frame) /\ Count(fs, a) = 0 /\ \A i \in DOMAIN fs : fs[i].op # "Cleared"
<1>1. fs \in Seq(Frame) /\ \A i \in DOMAIN fs : fs[i] \in MuteFrame
  BY DEF MuteFrame
<1> QED BY <1>1, CountNone DEF MuteFrame

LEMMA MuteStep ==
    ASSUME IInv, PInv, calls # <<>>, Head(calls) \in MuteFrame, NEW fs \in Seq(MuteFrame),
           Continue(fs), SameVectors, SamePending
    PROVE  PInv'
<1> SUFFICES ASSUME NEW a \in App PROVE HasCopies(a, app[a].pending)'
  BY DEF PInv
<1> PICK n : n = app[a].pending
  OBVIOUS
<1>1. n \in Int /\ app'[a].pending = n /\ HasCopies(a, n)
  BY DEF PInv, SamePending, IInv, TypeOK, AppState
<1>2. fs \in Seq(Frame) /\ Count(fs, a) = 0 /\ \A i \in DOMAIN fs : fs[i].op # "Cleared"
  BY MuteNone
<1>3. Head(calls).op # "Cleared" /\ ~Owes(Head(calls), a)
  BY DEF MuteFrame
<1>4. HasCopies(a, n)'
  BY <1>1, <1>2, <1>3, CopiesMove
<1> QED BY <1>1, <1>4 DEF HasCopies

LEMMA MuteEvent ==
    ASSUME IInv, PInv, calls = <<>>, NEW fs \in Seq(MuteFrame), calls' = fs,
           SameVectors, SamePending
    PROVE  PInv'
<1> SUFFICES ASSUME NEW a \in App PROVE HasCopies(a, app[a].pending)'
  BY DEF PInv
<1> PICK n : n = app[a].pending
  OBVIOUS
<1>1. n \in Int /\ app'[a].pending = n /\ HasCopies(a, n)
  BY DEF PInv, SamePending, IInv, TypeOK, AppState
<1>2. Count(fs, a) = 0 /\ \A i \in DOMAIN fs : fs[i].op # "Cleared"
  BY MuteNone
<1>3. DOMAIN calls = {}
  OBVIOUS
<1>4. \A b \in App : Clearing(b)' <=> Clearing(b)
  BY <1>2, <1>3 DEF Clearing, Cleared
<1>5. Count(calls, a) = 0 /\ Count(calls', a) = 0
  BY <1>2, <1>3, CountNone
<1>6. HasCopies(a, n)'
  BY <1>1, <1>4, <1>5, PlacesStay DEF HasCopies
<1> QED BY <1>1, <1>6 DEF HasCopies
LEMMA FieldsStay ==
    ASSUME app \in [App -> AppState], NEW a \in App, NEW x,
           \/ app' = app
           \/ app' = [app EXCEPT ![a].late = x]
           \/ app' = [app EXCEPT ![a].restart = x]
           \/ app' = [app EXCEPT ![a].checking = x]
    PROVE  SameVectors /\ SamePending
<1>1. CASE app' = app
  BY <1>1 DEF SameVectors, SamePending
<1>2. CASE app' = [app EXCEPT ![a].late = x]
  BY <1>2 DEF SameVectors, SamePending, AppState
<1>3. CASE app' = [app EXCEPT ![a].restart = x]
  BY <1>3 DEF SameVectors, SamePending, AppState
<1>4. CASE app' = [app EXCEPT ![a].checking = x]
  BY <1>4 DEF SameVectors, SamePending, AppState
<1> QED BY <1>1, <1>2, <1>3, <1>4

LEMMA PendingStays ==
    ASSUME app \in [App -> AppState], NEW a \in App,
           app' = app \/ \E x : app' = [app EXCEPT ![a].callbacks = x]
    PROVE  SamePending
<1>1. ASSUME NEW x, app' = [app EXCEPT ![a].callbacks = x] PROVE SamePending
  BY <1>1 DEF SamePending, AppState
<1> QED BY <1>1 DEF SamePending

\* Every frame of a call but those that hand a closure on.
LEMMA MuteCalls ==
    ASSUME Obedient, IInv, PInv,
           \/ DoCheckNothing \/ DoCheck \/ RequireThenOk \/ RequireThenError \/ StartThenError
           \/ StartThenOk \/ PostStartThen \/ DoSetChecking \/ AnswerClient \/ DoDelete
    PROVE  PInv'
<1> PICK f : f = Head(calls)
  OBVIOUS
<1>1. /\ calls # <<>> /\ f \in Frame /\ app \in [App -> AppState]
      /\ f.op \in {"Check", "CheckThen", "StartThen", "SetChecking", "Delete"}
           \/ (f.op = "Invoke" /\ f.then \in Request)
  <2>1. (calls # <<>> => f \in Frame) /\ app \in [App -> AppState]
    BY TopFrame DEF IInv, TypeOK
  <2>2. \/ Top("Check") \/ Top("CheckThen") \/ Top("StartThen") \/ Top("SetChecking")
        \/ Top("Delete") \/ (Top("Invoke") /\ f.then \in Request)
    BY DEF DoCheckNothing, DoCheck, RequireThenOk, RequireThenError, StartThenError,
           StartThenOk, PostStartThen, DoSetChecking, AnswerClient, DoDelete
  <2> QED BY <2>1, <2>2 DEF Top
<1>2. f \in MuteFrame
  BY <1>1, ConfigAssumption DEF MuteFrame, Owes
<1>3. f.op \in {"Check", "CheckThen", "StartThen", "SetChecking"} => f.app \in App
  BY <1>1, FrameFields
<1>4. f.op \in {"Check", "CheckThen"} => f.timer \in Timer \cup {Null}
  BY <1>1, FrameFields
<1>5. f.op \in {"CheckThen", "StartThen"} => f.error \in Error
  BY <1>1, FrameFields
<1>6. ASSUME NEW g \in Frame, g.op \notin {"Cleared", "Require", "Invoke"}, Continue(<<g>>)
      PROVE  \E fs \in Seq(MuteFrame) : Continue(fs)
  BY <1>6, MuteFramesMade
<1>7. ASSUME Continue(<<>>) PROVE \E fs \in Seq(MuteFrame) : Continue(fs)
  BY <1>7, MuteFramesMade
<1>8. CASE DoCheckNothing
  <2>1. CheckThen(f.app, f.timer, "ok") \in Frame /\ CheckThen(f.app, f.timer, "ok").op = "CheckThen"
    BY <1>1, <1>3, <1>4, <1>8, FramesMade DEF DoCheckNothing, Top, CheckThen, Error
  <2>2. \E fs \in Seq(MuteFrame) : Continue(fs)
    BY <1>6, <1>8, <2>1 DEF DoCheckNothing
  <2> QED BY <1>1, <1>2, <1>8, <2>2, MuteStep DEF DoCheckNothing, SameVectors, SamePending
<1>9. CASE DoCheck
  <2>1. Continue(<<>>)
    BY <1>9 DEF DoCheck, Obedient
  <2> QED BY <1>1, <1>2, <1>7, <1>9, <2>1, MuteStep DEF DoCheck, SameVectors, SamePending
<1>10. CASE RequireThenOk \/ RequireThenError
  <2>1. /\ Start(f.app) \in Frame /\ Start(f.app).op = "Start"
        /\ Clear(f.app, "ok") \in Frame /\ Clear(f.app, "ok").op = "Clear"
    BY <1>1, <1>3, <1>10, FramesMade DEF RequireThenOk, RequireThenError, Top, Start, Clear, Error
  <2>2. \E fs \in Seq(MuteFrame) : Continue(fs)
    BY <1>6, <1>7, <1>10, <2>1 DEF RequireThenOk, RequireThenError
  <2>3. \/ app' = app
        \/ app' = [app EXCEPT ![f.app].late = FALSE]
        \/ app' = [app EXCEPT ![f.app].restart = TRUE]
    BY <1>10 DEF RequireThenOk, RequireThenError
  <2>4. SameVectors /\ SamePending
    <3>1. f.app \in App
      BY <1>3, <1>10 DEF RequireThenOk, RequireThenError, Top
    <3> QED BY <1>1, <2>3, <3>1, FieldsStay
  <2> QED BY <1>1, <1>2, <2>2, <2>4, MuteStep
<1>11. CASE StartThenError
  <2>1. Clear(f.app, f.error) \in Frame /\ Clear(f.app, f.error).op = "Clear"
    BY <1>1, <1>3, <1>5, <1>11, FramesMade DEF StartThenError, Top, Clear
  <2>2. \E fs \in Seq(MuteFrame) : Continue(fs)
    BY <1>6, <1>11, <2>1 DEF StartThenError
  <2> QED BY <1>1, <1>2, <1>11, <2>2, MuteStep DEF StartThenError, SameVectors, SamePending
<1>12. CASE StartThenOk
  <2>1. Continue(<<>>)
    BY <1>12 DEF StartThenOk, Obedient
  <2>2. \E p : app' = [app EXCEPT ![f.app].process = p, ![f.app].checking = FALSE]
    BY <1>12 DEF StartThenOk
  <2>3. SameVectors /\ SamePending
    BY <1>1, <1>3, <2>2 DEF SameVectors, SamePending, AppState
  <2> QED BY <1>1, <1>2, <1>7, <2>1, <2>3, MuteStep
<1>13. CASE PostStartThen
  <2>1. /\ Clear(f.app, f.error) \in Frame /\ SetChecking(f.app, FALSE) \in Frame
        /\ Clear(f.app, f.error).op = "Clear" /\ SetChecking(f.app, FALSE).op = "SetChecking"
    BY <1>1, <1>3, <1>5, <1>13, FramesMade DEF PostStartThen, Top, Clear, SetChecking
  <2>2. <<Clear(f.app, f.error), SetChecking(f.app, FALSE)>> \in Seq(MuteFrame)
    BY <2>1, MuteFramesMade
  <2>3. \E fs \in Seq(MuteFrame) : Continue(fs)
    BY <1>7, <1>13, <2>2 DEF PostStartThen
  <2>4. app' = app \/ app' = [app EXCEPT ![f.app].checking = FALSE]
    BY <1>13 DEF PostStartThen
  <2>5. SameVectors /\ SamePending
    <3>1. f.app \in App
      BY <1>3, <1>13 DEF PostStartThen, Top
    <3> QED BY <1>1, <2>4, <3>1, FieldsStay
  <2> QED BY <1>1, <1>2, <2>3, <2>5, MuteStep
<1>14. CASE DoSetChecking
  <2>1. Continue(<<>>)
    BY <1>14 DEF DoSetChecking
  <2>2. SameVectors /\ SamePending
    BY <1>1, <1>3, <1>14 DEF DoSetChecking, Top, SameVectors, SamePending, AppState
  <2> QED BY <1>1, <1>2, <1>7, <2>1, <2>2, MuteStep
<1>15. CASE AnswerClient \/ DoDelete
  <2>1. Continue(<<>>)
    BY <1>15 DEF AnswerClient, DoDelete
  <2>2. SameVectors /\ SamePending
    BY <1>15 DEF AnswerClient, DoDelete, SameVectors, SamePending
  <2> QED BY <1>1, <1>2, <1>7, <2>1, <2>2, MuteStep
<1> QED BY <1>8, <1>9, <1>10, <1>11, <1>12, <1>13, <1>14, <1>15

\* Every event.
LEMMA MuteEvents ==
    ASSUME Obedient, IInv, PInv,
           \/ LoopStep \/ HandleClosed
           \/ \E r \in Request, a \in App : ClientRequire(r, a)
           \/ \E p \in Proc, s \in ExitStatus : Exit(p, s)
           \/ \E t \in Timer : Tick(t)
           \/ \E a \in App : Expire(a)
    PROVE  PInv'
<1>1. app \in [App -> AppState] /\ proc \in [Proc -> Process]
  BY DEF IInv, TypeOK
<1>2. ASSUME calls = <<>>, NEW fs \in Seq(MuteFrame), calls' = fs, SameVectors, SamePending
      PROVE  PInv'
  BY <1>2, MuteEvent
<1>3. ASSUME NEW p \in Proc, TakeClosed(p), UNCHANGED closing
      PROVE  /\ calls = <<>> /\ proc[p].app \in App
             /\ Delete(p) \in MuteFrame
             /\ proc[p].status \in Error /\ proc[p].timer \in Timer \cup {Null}
  <2>1. proc[p].role # "free" /\ proc[p].status \in ExitStatus /\ proc[p].app \in App
    BY <1>3, TakeKeepsQueue DEF IInv, ProcInv
  <2>2. Delete(p) \in Frame /\ Delete(p).op = "Delete"
    BY <2>1, FramesMade DEF Delete
  <2>3. proc[p].timer \in Timer \cup {Null}
    BY <1>1 DEF Process
  <2> QED BY <1>3, <2>1, <2>2, <2>3, MuteFramesMade DEF TakeClosed, Idle, Error, ExitStatus
<1>4. ASSUME NEW p \in Proc, AppClosed(p) PROVE PInv'
  <2> DEFINE a == proc[p].app
  <2>1. calls = <<>> /\ a \in App /\ Delete(p) \in MuteFrame /\ proc[p].status \in Error
    BY <1>3, <1>4 DEF AppClosed
  <2>2. Start(a) \in MuteFrame /\ Clear(a, proc[p].status) \in MuteFrame
    <3>1. /\ Start(a) \in Frame /\ Start(a).op = "Start"
          /\ Clear(a, proc[p].status) \in Frame /\ Clear(a, proc[p].status).op = "Clear"
      BY <2>1, FramesMade DEF Start, Clear
    <3> QED BY <3>1, MuteFramesMade
  <2>3. PICK fs \in Seq(MuteFrame) : calls' = fs
    <3>1. /\ <<Start(a), Delete(p)>> \in Seq(MuteFrame) /\ <<Delete(p)>> \in Seq(MuteFrame)
          /\ <<Clear(a, proc[p].status), Delete(p)>> \in Seq(MuteFrame)
      BY <2>1, <2>2, MuteFramesMade
    <3> QED BY <1>4, <3>1 DEF AppClosed, Dispatch
  <2>4. PICK y : app' = [app EXCEPT ![a].process = Null, ![a].restart = y]
    <3>1. app' = [app EXCEPT ![a].process = Null,
                    ![a].restart = app[a].restart /\ ~(proc[p].status # "ok" /\ app[a].restart)]
      BY <1>1, <1>4, <2>1 DEF AppClosed, AppState
    <3> QED BY <3>1
  <2>5. SameVectors /\ SamePending
    <3> HIDE DEF a
    <3> QED BY <1>1, <2>1, <2>4 DEF SameVectors, SamePending, AppState
  <2> QED BY <1>2, <2>1, <2>3, <2>5
<1>5. ASSUME NEW p \in Proc, CheckerClosed(p) PROVE PInv'
  <2> PICK g : g = CheckThen(proc[p].app, proc[p].timer, proc[p].status)
    OBVIOUS
  <2>1. calls = <<>> /\ Delete(p) \in MuteFrame /\ g \in Frame /\ g.op = "CheckThen"
    BY <1>3, <1>5, FramesMade DEF CheckerClosed, CheckThen
  <2>2. g \in MuteFrame
    BY <2>1, MuteFramesMade
  <2>3. <<g, Delete(p)>> \in Seq(MuteFrame) /\ calls' = <<g, Delete(p)>>
    BY <1>5, <2>1, <2>2, MuteFramesMade DEF CheckerClosed, Dispatch
  <2>4. SameVectors /\ SamePending
    BY <1>5 DEF CheckerClosed, SameVectors, SamePending
  <2> QED BY <1>2, <2>1, <2>3, <2>4
<1>6. CASE \/ LoopStep \/ \E t \in Timer : TimerClosed(t)
           \/ \E p \in Proc, s \in ExitStatus : Exit(p, s)
  <2>1. calls = <<>> /\ calls' = <<>> /\ SameVectors /\ SamePending
    BY <1>6 DEF LoopStep, Iterate, RunClosing, RunTimers, RunPoll, TimerClosed, TakeClosed,
                Exit, Idle, SameVectors, SamePending
  <2> QED BY <1>2, <2>1, MuteFramesMade
<1>7. ASSUME NEW r \in Request, NEW a \in App, ClientRequire(r, a) PROVE PInv'
  <2> PICK g : g = Require(a, r)
    OBVIOUS
  <2>1. g \in Frame /\ g.op = "Require" /\ g.then = r
    BY FramesMade DEF Require, Waiter
  <2>2. g \in MuteFrame
    BY <2>1, ConfigAssumption DEF MuteFrame, Owes
  <2>3. calls = <<>> /\ calls' = <<g>> /\ <<g>> \in Seq(MuteFrame)
    BY <1>7, <2>2, MuteFramesMade DEF ClientRequire, Dispatch
  <2>4. SameVectors /\ SamePending
    BY <1>7 DEF ClientRequire, SameVectors, SamePending
  <2> QED BY <1>2, <2>3, <2>4
<1>8. ASSUME NEW t \in Timer, Tick(t) PROVE PInv'
  <2> DEFINE a == timer[t].app
  <2>1. calls = <<>> /\ SameVectors /\ SamePending /\ a \in App
    BY <1>8 DEF Tick, Idle, SameVectors, SamePending, IInv, TimerInv
  <2>2. Check(a, t) \in MuteFrame /\ SetChecking(a, TRUE) \in MuteFrame
    <3>1. /\ Check(a, t) \in Frame /\ Check(a, t).op = "Check"
          /\ SetChecking(a, TRUE) \in Frame /\ SetChecking(a, TRUE).op = "SetChecking"
      BY <2>1, FramesMade DEF Check, SetChecking
    <3> QED BY <3>1, MuteFramesMade
  <2>3. calls' = <<>> \/ calls' = <<Check(a, t), SetChecking(a, TRUE)>>
    BY <1>8, <2>1 DEF Tick, Dispatch
  <2> QED BY <1>2, <2>1, <2>2, <2>3, MuteFramesMade
<1>9. ASSUME NEW a \in App, Expire(a) PROVE PInv'
  <2>1. calls = <<>> /\ calls' = <<>> /\ app' = [app EXCEPT ![a].late = TRUE]
    BY <1>9 DEF Expire, Idle, loopVars
  <2>2. SameVectors /\ SamePending
    BY <1>1, <2>1 DEF SameVectors, SamePending, AppState
  <2> QED BY <1>2, <2>1, <2>2, MuteFramesMade
<1> QED BY <1>4, <1>5, <1>6, <1>7, <1>8, <1>9 DEF HandleClosed

\* Require and ClearCallbacks keep every closure as often as before.
LEMMA HandedOn ==
    ASSUME IInv, PInv, CopiesStay, SamePending
    PROVE  PInv'
<1> SUFFICES ASSUME NEW a \in App PROVE HasCopies(a, app[a].pending)'
  BY DEF PInv
<1> PICK n : n = app[a].pending
  OBVIOUS
<1>1. n \in Int /\ app'[a].pending = n /\ HasCopies(a, n) /\ a \in Waiter
  BY DEF PInv, SamePending, IInv, TypeOK, AppState, Waiter
<1>2. HasCopies(a, n)'
  BY <1>1 DEF CopiesStay
<1> QED BY <1>1, <1>2 DEF HasCopies
\* CheckPreamble hands one closure to each preamble; nothing of an earlier
\* start is left.
LEMMA StartCounts ==
    ASSUME IInv, DInv, PInv, DoStart
    PROVE  PInv'
<1> PICK a : a = Head(calls).app
  OBVIOUS
<1> PICK needed : needed = Preamble[a]
  OBVIOUS
<1>1. /\ calls # <<>> /\ Head(calls).op = "Start" /\ a \in App /\ Each(a)
      /\ app \in [App -> AppState]
      /\ app' = [app EXCEPT ![a].pending = Len(needed), ![a].errors = FALSE]
      /\ needed \in Seq(App)
  BY Running, FrameFields, ConfigAssumption DEF DoStart, Top
<1>2. SameVectors /\ app'[a].pending = Len(needed) /\ \A b \in App : b # a => app'[b] = app[b]
  BY <1>1 DEF SameVectors, AppState
<1>3. app[a].pending = 0
  <2>1. Starting(a)
    BY <1>1 DEF Starting, Starts
  <2> QED BY <1>1, <2>1 DEF Each, OneDriver, Exactly, Unchecked
<1>0. PICK fs : fs = IF needed = <<>> THEN <<StartThen(a, "ok")>>
                     ELSE [i \in 1..Len(needed) |-> Require(needed[i], a)]
  OBVIOUS
<1>4. Continue(fs)
  BY <1>0 DEF DoStart
<1>5. /\ fs \in Seq(Frame) /\ \A i \in DOMAIN fs : fs[i].op # "Cleared"
      /\ \A b \in App : Count(fs, b) = IF b = a THEN Len(needed) ELSE 0
  <2>1. CASE needed = <<>>
    <3> PICK g : g = StartThen(a, "ok")
      OBVIOUS
    <3>1. g \in Frame /\ g.op = "StartThen" /\ fs = <<g>> /\ Len(needed) = 0
      BY <1>0, <1>1, <2>1, FramesMade DEF StartThen, Error
    <3>2. fs \in Seq(Frame) /\ DOMAIN fs = {1} /\ fs[1] = g
      BY <3>1
    <3>3. \A b \in App : Count(fs, b) = 0
      BY <3>1, <3>2, CountNone DEF Owes
    <3> QED BY <3>1, <3>2, <3>3
  <2>2. CASE needed # <<>>
    <3>1. fs = [i \in 1..Len(needed) |-> Require(needed[i], a)]
      BY <1>0, <2>2
    <3>2. \A i \in 1..Len(needed) : needed[i] \in App
      BY <1>1
    <3>3. \A i \in 1..Len(needed) : Require(needed[i], a) \in Frame
      BY <1>1, <3>2, FramesMade DEF Waiter
    <3>4. Len(needed) \in Nat
      BY <1>1
    <3>5. fs \in Seq(Frame) /\ DOMAIN fs = 1..Len(needed)
      BY <3>1, <3>3, <3>4
    <3>6. \A i \in DOMAIN fs : fs[i].op = "Require" /\ fs[i].then = a
      BY <3>1, <3>5 DEF Require
    <3>7. FramesIn(fs, a) = 1..Len(needed)
      BY <3>5, <3>6 DEF FramesIn, Owes
    <3>8. Cardinality(1..Len(needed)) = Len(needed)
      BY <3>4, FS_Interval
    <3>9. Count(fs, a) = Len(needed)
      BY <3>7, <3>8 DEF Count
    <3>10. ASSUME NEW b \in App, b # a PROVE Count(fs, b) = 0
      <4>1. ASSUME NEW i \in DOMAIN fs PROVE ~Owes(fs[i], b)
        <5>1. fs[i].then = a
          BY <3>6
        <5> QED BY <3>10, <5>1, Zenon DEF Owes
      <4> QED BY <4>1, CountNone
    <3> QED BY <3>5, <3>6, <3>9, <3>10
  <2> QED BY <2>1, <2>2
<1>6. ASSUME NEW b \in App PROVE HasCopies(b, app[b].pending)'
  <2> PICK n, m : n = app[b].pending /\ m = app'[b].pending
    OBVIOUS
  <2>1. n \in Int /\ HasCopies(b, n) /\ Len(needed) \in Nat
    BY <1>1 DEF PInv, AppState
  <2>2. m = n + Count(fs, b) /\ m \in Int
    <3>1. CASE b = a
      <4>1. n = 0 /\ m = Len(needed) /\ Count(fs, b) = Len(needed)
        BY <1>2, <1>3, <1>5, <3>1
      <4> QED BY <2>1, <4>1
    <3>2. CASE b # a
      <4>1. m = n /\ Count(fs, b) = 0
        BY <1>2, <1>5, <3>2
      <4> QED BY <2>1, <4>1
    <3> QED BY <3>1, <3>2
  <2>3. ~Owes(Head(calls), b)
    BY <1>1 DEF Owes
  <2>4. m = n + Count(fs, b) - (IF Owes(Head(calls), b) THEN 1 ELSE 0)
    BY <1>5, <2>1, <2>2, <2>3
  <2>5. HasCopies(b, m)'
    BY <1>1, <1>2, <1>4, <1>5, <2>1, <2>2, <2>4, CopiesMove
  <2> QED BY <2>5 DEF HasCopies
<1> QED BY <1>6 DEF PInv

\* A preamble calls back.
LEMMA PreambleCounts ==
    ASSUME IInv, PInv, AnswerPreamble
    PROVE  PInv'
<1> PICK f : f = Head(calls)
  OBVIOUS
<1> PICK a : a = f.then
  OBVIOUS
<1>1. /\ calls # <<>> /\ f.op = "Invoke" /\ a \in App /\ app \in [App -> AppState]
  BY DEF AnswerPreamble, Top, IInv, TypeOK
<1>2. \E x, y : x = app[a].pending - 1 /\ app' = [app EXCEPT ![a].pending = x, ![a].errors = y]
  BY DEF AnswerPreamble
<1>3. /\ SameVectors /\ app'[a].pending = app[a].pending - 1
      /\ \A b \in App : b # a => app'[b] = app[b]
  BY <1>1, <1>2 DEF SameVectors, AppState
<1>4. PICK fs \in Seq(MuteFrame) : Continue(fs)
  <2>1. \A e \in Error : <<StartThen(a, e)>> \in Seq(MuteFrame)
    <3> TAKE e \in Error
    <3>1. StartThen(a, e) \in Frame /\ StartThen(a, e).op = "StartThen"
      BY <1>1, FramesMade DEF StartThen
    <3> QED BY <3>1, MuteFramesMade
  <2>2. <<>> \in Seq(MuteFrame)
    BY MuteFramesMade
  <2>3. PICK e \in Error : Continue(<<StartThen(a, e)>>) \/ Continue(<<>>)
    BY DEF AnswerPreamble, Error
  <2> QED BY <2>1, <2>2, <2>3
<1>5. ASSUME NEW b \in App PROVE HasCopies(b, app[b].pending)'
  <2> PICK n, m : n = app[b].pending /\ m = app'[b].pending
    OBVIOUS
  <2>1. n \in Int /\ HasCopies(b, n)
    BY <1>1 DEF PInv, AppState
  <2>2. fs \in Seq(Frame) /\ Count(fs, b) = 0 /\ \A i \in DOMAIN fs : fs[i].op # "Cleared"
    BY MuteNone
  <2>3. Owes(f, b) <=> b = a
    BY <1>1 DEF Owes
  <2>4. m = n + Count(fs, b) - (IF Owes(f, b) THEN 1 ELSE 0) /\ m \in Int
    BY <1>3, <2>1, <2>2, <2>3
  <2>5. HasCopies(b, m)'
    BY <1>1, <1>3, <1>4, <2>1, <2>2, <2>4, CopiesMove
  <2> QED BY <2>5 DEF HasCopies
<1> QED BY <1>5 DEF PInv

LEMMA CountedInitially == Init => PInv
<1> SUFFICES ASSUME Init PROVE PInv
  OBVIOUS
<1>1. DOMAIN calls = {} /\ \A a \in App : Vectors[a] = <<>> /\ app[a].pending = 0
  BY DEF Init, LoopInit, Vectors
<1>2. ASSUME NEW w \in App PROVE HasCopies(w, 0)
  <2>1. DOMAIN <<>> = {}
    OBVIOUS
  <2>2. PlacesIn(Vectors, Busy, w) = {}
    BY <1>1, <2>1, PlacesAre
  <2>3. Count(calls, w) = 0 /\ IsFiniteSet({}) /\ Cardinality({}) = 0
    BY <1>1, CountNone, FS_EmptySet
  <2> QED BY <2>2, <2>3 DEF HasCopies
<1> QED BY <1>1, <1>2 DEF PInv

-----------------------------------------------------------------------------
(* Who drives an app: the invariant. *)

\* Nothing fails to start, and no read fails.
LEMMA Obeys ==
    ASSUME Obedient, IInv, DInv
    PROVE  ~DoAppError /\ ~DoStartFailed /\ \A p \in Proc, e \in ReadErr : ~ReadError(p, e)
<1>1. ~DoAppError /\ ~DoStartFailed
  BY Running DEF DoAppError, DoStartFailed, Top, Sound
<1> QED BY <1>1 DEF Obedient

MInv == KInv /\ TimersQueued /\ PInv /\ DInv

LEMMA ManagedInitially == Init => MInv
BY CallersInitially, QueueInitially, CountedInitially, DrivenInitially DEF MInv

LEMMA CountedInductive ==
    ASSUME Obedient, Acyclic
    PROVE  IInv /\ MInv /\ [Next]_vars => PInv'
<1> SUFFICES ASSUME IInv, KInv, PInv, DInv, [Next]_vars PROVE PInv'
  BY DEF MInv
<1>1. CASE UNCHANGED vars
  <2>1. UNCHANGED <<app, calls>>
    BY <1>1 DEF vars, loopVars
  <2>2. SameVectors /\ SamePending /\ \A a \in App : Clearing(a)' <=> Clearing(a)
    BY <2>1 DEF SameVectors, SamePending, Clearing
  <2>3. ASSUME NEW a \in App PROVE HasCopies(a, app[a].pending)'
    <3> PICK n : n = app[a].pending
      OBVIOUS
    <3>1. HasCopies(a, n) /\ Count(calls', a) = Count(calls, a) /\ app'[a].pending = n
      BY <2>1 DEF PInv
    <3>2. HasCopies(a, n)'
      BY <2>2, <3>1, PlacesStay DEF HasCopies
    <3> QED BY <3>1, <3>2 DEF HasCopies
  <2> QED BY <2>3 DEF PInv
<1>2. CASE DoRequire \/ DoClear \/ DoCleared
  <2>1. CopiesStay
    BY <1>2, RequireKeeps, ClearKeeps, ClearedKeeps
  <2>2. SamePending
    <3>1. calls # <<>> /\ app \in [App -> AppState]
      BY <1>2 DEF DoRequire, DoClear, DoCleared, Top, IInv, TypeOK
    <3>2. \/ app' = app
          \/ \E x : app' = [app EXCEPT ![Head(calls).app].callbacks = x]
      BY <1>2 DEF DoRequire, DoClear, DoCleared
    <3>3. Head(calls).op \in {"Require", "Clear", "Cleared"} /\ Head(calls) \in Frame
      BY <1>2, Running DEF DoRequire, DoClear, DoCleared, Top
    <3>4. Head(calls).app \in App
      BY <3>3, FrameFields
    <3> QED BY <3>1, <3>2, <3>4, PendingStays
  <2> QED BY <2>1, <2>2, HandedOn
<1>3. CASE DoStart \/ AnswerPreamble
  BY <1>3, StartCounts, PreambleCounts
<1>4. CASE \/ DoCheckNothing \/ DoCheck \/ RequireThenOk \/ RequireThenError \/ StartThenError
           \/ StartThenOk \/ PostStartThen \/ DoSetChecking \/ AnswerClient \/ DoDelete
  BY <1>4, MuteCalls
<1>5. CASE \/ LoopStep \/ HandleClosed
           \/ \E r \in Request, a \in App : ClientRequire(r, a)
           \/ \E p \in Proc, s \in ExitStatus : Exit(p, s)
           \/ \E t \in Timer : Tick(t)
           \/ \E a \in App : Expire(a)
  BY <1>5, MuteEvents
<1> QED BY <1>1, <1>2, <1>3, <1>4, <1>5, Obeys DEF Next, Call

LEMMA DrivenInductive ==
    ASSUME Obedient, Acyclic
    PROVE  IInv /\ MInv /\ [Next]_vars => DInv'
<1> SUFFICES ASSUME IInv, KInv, TimersQueued, PInv, DInv, [Next]_vars PROVE DInv'
  BY DEF MInv
<1>1. CASE \/ DoRequire \/ DoCheckNothing \/ DoCheck \/ RequireThenOk \/ RequireThenError
  BY <1>1, RequireDriven, CheckNothingDriven, CheckDriven, ThenOkDriven, ThenErrorDriven
<1>2. CASE \/ DoStart \/ StartThenError \/ StartThenOk \/ PostStartThen \/ DoSetChecking
  BY <1>2, StartDriven, StartErrorDriven, StartOkDriven, PostStartDriven, SetCheckingDriven
<1>3. CASE \/ DoClear \/ DoCleared \/ AnswerClient \/ AnswerPreamble \/ DoDelete
  BY <1>3, ClearDriven, ClearedDriven, AnswerClientDriven, PreambleDriven, DeleteDriven
<1>4. CASE \/ UNCHANGED vars \/ LoopStep
           \/ \E p \in Proc, s \in ExitStatus : Exit(p, s)
           \/ \E a \in App : Expire(a)
  BY <1>4, PlainDriven
<1>5. CASE \/ HandleClosed
           \/ \E r \in Request, a \in App : ClientRequire(r, a)
           \/ \E t \in Timer : Tick(t)
  BY <1>5, AppEndDriven, CheckerEndDriven, TimerEndDriven, AskDriven, TickDriven DEF HandleClosed
<1> QED BY <1>1, <1>2, <1>3, <1>4, <1>5, Obeys DEF Next, Call

LEMMA ManagedInductive ==
    ASSUME Obedient, Acyclic
    PROVE  IInv /\ MInv /\ [Next]_vars => MInv'
BY CallersInductive, QueueInductive, CountedInductive, DrivenInductive DEF MInv
-----------------------------------------------------------------------------
(* The theorems about apps. *)

LEMMA OneRuns == IInv /\ MInv => SingleInstance
<1> SUFFICES ASSUME IInv, MInv, NEW a \in App
             PROVE  Cardinality({p \in Proc : /\ proc[p].role = "app" /\ proc[p].app = a
                                              /\ proc[p].status = "running"}) <= 1
  BY DEF SingleInstance
<1> DEFINE some == {p \in Proc : /\ proc[p].role = "app" /\ proc[p].app = a
                                 /\ proc[p].status = "running"}
<1>1. \A p \in some : ~Deleting(p)
  BY DEF IInv, StackInv, Deleting, Delete, ExitStatus
<1>2. some \in SUBSET {app[a].process}
  BY <1>1 DEF MInv, DInv, Processes
<1>3. IsFiniteSet({app[a].process}) /\ Cardinality({app[a].process}) = 1
  BY FS_Singleton
<1> HIDE DEF some
<1>4. Cardinality(some) <= Cardinality({app[a].process})
  BY <1>2, <1>3, FS_Subset
<1> QED BY <1>3, <1>4 DEF some

LEMMA CountsHold == MInv => PendingIsExact
<1> SUFFICES ASSUME MInv, NEW a \in App PROVE app[a].pending = Copies(a)
  BY DEF PendingIsExact
<1>1. Places(a) = PlacesIn(Vectors, Busy, a)
  BY DEF Places, PlacesIn, Vectors, Busy
<1>2. FramesOf(a) = FramesIn(calls, a)
  BY DEF FramesOf, FramesIn, Owes
<1> QED BY <1>1, <1>2 DEF MInv, PInv, HasCopies, Copies, Count

LEMMA TimersHold == IInv /\ MInv => CheckTimerAlive
<1> SUFFICES ASSUME IInv, MInv PROVE CheckTimerAlive
  OBVIOUS
<1>1. ASSUME NEW p \in Proc, proc[p].timer # Null
      PROVE  timer[proc[p].timer].status # "free" /\ timer[proc[p].timer].app = proc[p].app
  BY <1>1 DEF MInv, DInv, Processes
<1>2. ASSUME NEW i \in DOMAIN calls, calls[i].op \in {"Check", "CheckThen"}, calls[i].timer # Null
      PROVE  timer[calls[i].timer].status # "free"
  BY <1>2 DEF MInv, DInv, AllSound, Sound, TimerOf
<1> QED BY <1>1, <1>2 DEF CheckTimerAlive

LEMMA WaitersHold == IInv /\ MInv => WaitersAreDriven
<1> SUFFICES ASSUME IInv, MInv, Idle, NEW a \in App, app[a].callbacks # <<>>
             PROVE  \/ CheckerOf(a, FALSE)
                    \/ \E b \in App : \E i \in DOMAIN app[b].callbacks : app[b].callbacks[i] = a
                    \/ /\ \E t \in Timer : timer[t].app = a /\ timer[t].status = "open"
                       /\ app[a].checking => CheckerOf(a, TRUE)
                    \/ app[a].restart /\ app[a].process # Null
  BY DEF WaitersAreDriven
<1>1. calls = <<>> /\ Quiet(a) /\ NoFrames(a) /\ Each(a)
  BY Idles DEF Idle, MInv, DInv
<1>2. Checks(a) => CheckerOf(a, FALSE)
  BY DEF Checks, Serves, CheckerOf
<1>3. Timing(a) => CheckerOf(a, TRUE)
  BY DEF Timing, Serves, CheckerOf
<1>4. Timed(a) => \E t \in Timer : timer[t].app = a /\ timer[t].status = "open"
  BY DEF Timed, TimerOf
<1>5. ASSUME app[a].pending # 0
      PROVE  \E b \in App : \E i \in DOMAIN app[b].callbacks : app[b].callbacks[i] = a
  <2>1. Count(calls, a) = 0
    <3>1. DOMAIN calls = {}
      BY <1>1
    <3> QED BY <3>1, CountNone
  <2>2. PlacesIn(Vectors, Busy, a) # {}
    <3>1. app[a].pending = Cardinality(PlacesIn(Vectors, Busy, a)) + Count(calls, a)
      BY DEF MInv, PInv, HasCopies
    <3>2. Cardinality({}) = 0
      BY FS_EmptySet
    <3>3. ASSUME PlacesIn(Vectors, Busy, a) = {} PROVE FALSE
      <4>1. Cardinality(PlacesIn(Vectors, Busy, a)) = 0
        BY <3>2, <3>3
      <4>2. app[a].pending = 0 + 0
        BY <2>1, <3>1, <4>1
      <4> QED BY <1>5, <4>2
    <3> QED BY <3>3
  <2>3. PICK z : z \in PlacesIn(Vectors, Busy, a)
    BY <2>2
  <2>4. PICK b \in App : \E i \in DOMAIN Vectors[b] : Vectors[b][i] = a
    BY <2>3, PlacesAre
  <2> QED BY <2>4 DEF Vectors
<1>6. CASE a \in Checked
  <2>1. Checks(a) \/ app[a].pending # 0 \/ Timed(a) \/ app[a].restart
    BY <1>1, <1>6 DEF Each, OneDriver, Exactly, Quiet, NoFrames
  <2>2. app[a].restart => app[a].process # Null
    BY <1>1 DEF Each, Awaits
  <2>3. app[a].checking => Timing(a)
    BY <1>1, <1>6 DEF Each, Checking, Quiet, NoFrames
  <2> QED BY <1>2, <1>3, <1>4, <1>5, <2>1, <2>2, <2>3
<1>7. CASE a \notin Checked
  <2>1. Timed(a) /\ ~app[a].checking
    BY <1>1, <1>7 DEF Each, Unchecked, Ready, Quiet, NoFrames
  <2> QED BY <1>4, <2>1
<1> QED BY <1>6, <1>7

LEMMA AnswersHold ==
    ASSUME IInv, MInv, AnswerClient, Head(calls).error = "ok", Head(calls).app \notin Checked
    PROVE  app[Head(calls).app].process # Null
<1>1. Top("Invoke")
  BY DEF AnswerClient
<1>2. Sound(Head(calls))
  BY <1>1, Running DEF Top, MInv
<1> QED BY <1>1, <1>2 DEF Top, Sound

\* When apps and checkers can be spawned and read, an app never has two
\* processes that run: the object on_exit_ is about to delete has ended, and
\* a second one is made only after App::process was reset, whatever checks,
\* preambles, ticks and restarts were under way (process_manager.cc:20-65,
\* 109-129).
THEOREM OneProcessEach ==
    ASSUME Obedient, Acyclic
    PROVE  Spec => []SingleInstance
<1>1. IInv /\ MInv => SingleInstance
  BY OneRuns
<1>2. IInv /\ MInv /\ [Next]_vars => MInv'
  BY ManagedInductive
<1> QED BY <1>1, <1>2, Initially, Inductive, ManagedInitially, PTL DEF Spec

\* In the same environment pending_preamble counts the preambles that still
\* have to call back: an app is started by the last of them, once, and a new
\* start finds no closure of an earlier one (process_manager.cc:132-156).
THEOREM PreamblesAreCounted ==
    ASSUME Obedient, Acyclic
    PROVE  Spec => []PendingIsExact
<1>1. MInv => PendingIsExact
  BY CountsHold
<1>2. IInv /\ MInv /\ [Next]_vars => MInv'
  BY ManagedInductive
<1> QED BY <1>1, <1>2, Initially, Inductive, ManagedInitially, PTL DEF Spec

\* In the same environment the timer that a checker's closure captured is
\* allocated, and is the app's, until the closure closes it: no other tick or
\* check closes it first (process_manager.cc:58-80, 178-183).
THEOREM CheckedTimerStays ==
    ASSUME Obedient, Acyclic
    PROVE  Spec => []CheckTimerAlive
<1>1. IInv /\ MInv => CheckTimerAlive
  BY TimersHold
<1>2. IInv /\ MInv /\ [Next]_vars => MInv'
  BY ManagedInductive
<1> QED BY <1>1, <1>2, Initially, Inductive, ManagedInitially, PTL DEF Spec

\* In the same environment no caller is left without something that will
\* answer it: between events an app with callers has a checker for Require, a
\* preamble it waits for, a timer that ticks and is not held up by a check
\* that has ended, or a process killed to be started again
\* (process_manager.cc:41-80, 100-156).
THEOREM WaitersAlwaysDriven ==
    ASSUME Obedient, Acyclic
    PROVE  Spec => []WaitersAreDriven
<1>1. IInv /\ MInv => WaitersAreDriven
  BY WaitersHold
<1>2. IInv /\ MInv /\ [Next]_vars => MInv'
  BY ManagedInductive
<1> QED BY <1>1, <1>2, Initially, Inductive, ManagedInitially, PTL DEF Spec

\* In the same environment a client told that an app without a checker is up
\* has a process behind it (process_manager.cc:93-117).
THEOREM ToldOnlyWhatRuns ==
    ASSUME Obedient, Acyclic
    PROVE  Spec => AnsweredOkRuns
<1>1. IInv /\ MInv /\ [Next]_vars
        => [AnswerClient => LET f == Head(calls) IN
              f.error = "ok" /\ f.app \notin Checked => app[f.app].process # Null]_vars
  BY AnswersHold
<1>2. IInv /\ MInv /\ [Next]_vars => MInv'
  BY ManagedInductive
<1> QED BY <1>1, <1>2, Initially, Inductive, ManagedInitially, PTL DEF Spec, AnsweredOkRuns
=============================================================================
