--------------------------- MODULE ProcessManager ---------------------------
(***************************************************************************)
(* nexer::ProcessManager (process_manager.cc): it starts the process of an *)
(* app when a proxy requires it, its preambles first, checks that it       *)
(* serves, and answers every caller that waits for it.                     *)
(*                                                                         *)
(* A caller hands Require a closure; the closure is answered when the app  *)
(* is known to run or to have failed.  A closure in App::callbacks is      *)
(* either a client's (a member of Request) or the one CheckPreamble makes  *)
(* for the app that needs this one as a preamble (written as that App).    *)
(*                                                                         *)
(* Every function of the class and every closure it stores is a frame of   *)
(* the call stack of EventLoop, so that a closure which runs inside the    *)
(* call that created it (no checker, or a spawn that fails at once) and    *)
(* one that runs from a later event are told apart.                        *)
(***************************************************************************)
EXTENDS EventLoop, FiniteSets, TLC

CONSTANTS
    App,       \* the config::App objects
    Checked,   \* those with a checker command
    Limited,   \* those with max_start_time > 0
    Preamble,  \* for each app the apps it needs first, in order
    Request,   \* outstanding calls of Require by clients
    Proc,      \* addresses of Process objects
    Timer,     \* addresses of Timer objects
    Null       \* nullptr

\* What the operating system may do in a run.
CONSTANTS
    AppSpawn,     \* outcomes of Process::Spawn for an app's command
    CheckerSpawn, \* ... and for a checker
    AppExit,      \* exit statuses of an app that was not killed
    CheckerExit,  \* ... of a checker that was not killed
    KilledExit,   \* ... of a process sent a SIGTERM
    ReadErr,      \* errors of reading an app's stdout or stderr
    Reserve       \* bound: clients wait while fewer objects than this are free

Spawn == {"ok", "ENOENT", "failed", "noread"}
Error == {"ok", "ENOENT", "failed"}
ExitStatus == {"ok", "failed"}

ASSUME ConfigAssumption ==
    /\ Checked \subseteq App /\ Limited \subseteq App
    /\ Preamble \in [App -> Seq(App)]
    /\ App \cap Request = {} /\ Proc \cap Timer = {}
    /\ Null \notin App \cup Request \cup Proc \cup Timer

ASSUME EnvironmentAssumption ==
    /\ AppSpawn \subseteq Spawn /\ CheckerSpawn \subseteq Spawn
    /\ AppExit \subseteq ExitStatus /\ CheckerExit \subseteq ExitStatus
    /\ KilledExit \subseteq ExitStatus
    /\ ReadErr \subseteq {"ok", "failed"}

VARIABLES
    app,   \* app_map_: the ProcessManager::App of every config::App
    proc,  \* the Process objects of the heap
    timer, \* the Timer objects of the heap
    owed   \* for each client, calls of Require less answers (not in the code)

vars == <<app, proc, timer, owed, loopVars>>

Waiter == Request \cup App

AppState == [
    callbacks : Seq(Waiter),
    process   : Proc \cup {Null},
    restart   : BOOLEAN,
    pending   : Int,      \* pending_preamble
    errors    : BOOLEAN,  \* error_preamble # 0
    checking  : BOOLEAN,
    late      : BOOLEAN ] \* Now() - require_start_time > max_start_time > 0

Process == [
    role   : {"free", "app", "checker"},
    app    : App \cup {Null},
    timer  : Timer \cup {Null}, \* the timer a checker's `then` captured
    status : {"unspawned", "running"} \cup ExitStatus,
    killed : BOOLEAN ]          \* SIGTERM was sent

NoProcess == [role |-> "free", app |-> Null, timer |-> Null,
              status |-> "unspawned", killed |-> FALSE]

TimerState == [app : App \cup {Null}, status : {"free", "open", "closing"}]
NoTimer == [app |-> Null, status |-> "free"]

-----------------------------------------------------------------------------
(* Frames. *)

Require(a, w)     == [op |-> "Require", app |-> a, then |-> w]
Check(a, t)       == [op |-> "Check", app |-> a, timer |-> t]
CheckThen(a, t, e) == [op |-> "CheckThen", app |-> a, timer |-> t, error |-> e]
Start(a)          == [op |-> "Start", app |-> a]
StartThen(a, e)   == [op |-> "StartThen", app |-> a, error |-> e]
AppError(a, e)    == [op |-> "AppError", app |-> a, error |-> e]
StartFailed(p)    == [op |-> "StartFailed", process |-> p]
Delete(p)         == [op |-> "Delete", process |-> p]
Clear(a, e)       == [op |-> "Clear", app |-> a, error |-> e]
Cleared(a)        == [op |-> "Cleared", app |-> a]
Invoke(a, w, e)   == [op |-> "Invoke", app |-> a, then |-> w, error |-> e]
SetChecking(a, b) == [op |-> "SetChecking", app |-> a, to |-> b]

Frame ==
         [op : {"Require"}, app : App, then : Waiter]
    \cup [op : {"Check"}, app : App, timer : Timer \cup {Null}]
    \cup [op : {"CheckThen"}, app : App, timer : Timer \cup {Null}, error : Error]
    \cup [op : {"Start", "Cleared"}, app : App]
    \cup [op : {"StartThen", "AppError", "Clear"}, app : App, error : Error]
    \cup [op : {"StartFailed", "Delete"}, process : Proc]
    \cup [op : {"Invoke"}, app : App, then : Waiter, error : Error]
    \cup [op : {"SetChecking"}, app : App, to : BOOLEAN]

Top(op) == calls # <<>> /\ Head(calls).op = op

-----------------------------------------------------------------------------
(* Objects. *)

FreeProc == {p \in Proc : proc[p].role = "free"}
FreeTimer == {t \in Timer : timer[t].status = "free"}

\* The process after uv_process_kill: a process that is gone ignores it.
Killed(p) == [proc EXCEPT ![p].killed = @ \/ proc[p].status = "running"]

\* Process::Start of a new object: the status Spawn leaves, and what runs
\* before Start returns.  After an error on_error_ runs first, then Start
\* kills the process or reports its exit.
SpawnStatus(outcome) ==
    IF outcome \in {"ok", "noread"} THEN "running" ELSE "unspawned"
SpawnError(outcome) == IF outcome = "noread" THEN "failed" ELSE outcome

\* Timer::Close.
CloseTimer(t) ==
    IF timer[t].status = "open"
    THEN /\ timer' = [timer EXCEPT ![t].status = "closing"]
         /\ CloseHandles(<<t>>)
    ELSE UNCHANGED <<timer, closing>>

-----------------------------------------------------------------------------
(* Require and its check. *)

\* Require: only the first of the waiting callers runs a check.
DoRequire ==
    /\ Top("Require")
    /\ LET a == Head(calls).app IN
       /\ app' = [app EXCEPT ![a].callbacks = Append(@, Head(calls).then)]
       /\ Continue(IF app[a].callbacks = <<>> THEN <<Check(a, Null)>> ELSE <<>>)
    /\ UNCHANGED <<proc, timer, owed, phase, closing, batch>>

\* Check of an app without a checker.
DoCheckNothing ==
    /\ Top("Check")
    /\ LET f == Head(calls) IN
       /\ f.app \notin Checked
       /\ Continue(<<CheckThen(f.app, f.timer, "ok")>>)
    /\ UNCHANGED <<app, proc, timer, owed, phase, closing, batch>>

\* Check of an app with a checker: it is spawned, and an error reported at
\* once runs `then`; the exit of the checker runs it as well.
DoCheck ==
    /\ Top("Check")
    /\ \E outcome \in CheckerSpawn, p \in Proc :
       LET f == Head(calls) IN
       /\ f.app \in Checked
       /\ FreeProc # {} /\ p = CHOOSE q \in FreeProc : TRUE
       /\ proc' = [proc EXCEPT ![p] =
                     [role |-> "checker", app |-> f.app, timer |-> f.timer,
                      status |-> SpawnStatus(outcome), killed |-> FALSE]]
       /\ Continue(IF outcome = "ok" THEN <<>>
                   ELSE <<CheckThen(f.app, f.timer, SpawnError(outcome)),
                          StartFailed(p)>>)
    /\ UNCHANGED <<app, timer, owed, phase, closing, batch>>

\* Variant: the test of App::process is left out.
RequireThenOkAlwaysStarts ==
    /\ Top("CheckThen")
    /\ LET f == Head(calls) IN
       /\ f.timer = Null /\ f.error = "ok"
       /\ Continue(IF f.app \in Checked THEN <<Clear(f.app, "ok")>> ELSE <<Start(f.app)>>)
    /\ UNCHANGED <<app, proc, timer, owed, phase, closing, batch>>

\* Require's closure when the app may be used, or must be started.
RequireThenOk ==
    /\ Top("CheckThen")
    /\ LET f == Head(calls)
           served == f.app \in Checked \/ app[f.app].process # Null IN
       /\ f.timer = Null /\ f.error = "ok"
       /\ app' = IF served THEN app ELSE [app EXCEPT ![f.app].late = FALSE]
       /\ Continue(IF served THEN <<Clear(f.app, "ok")>> ELSE <<Start(f.app)>>)
    /\ UNCHANGED <<proc, timer, owed, phase, closing, batch>>

\* Variant: kills without asking for a restart.
RequireThenErrorNoRestart ==
    /\ Top("CheckThen")
    /\ LET f == Head(calls)
           process == app[f.app].process IN
       /\ f.timer = Null /\ f.error # "ok"
       /\ \/ process # Null /\ proc' = Killed(process) /\ Continue(<<>>)
          \/ process = Null /\ Continue(<<Start(f.app)>>) /\ UNCHANGED proc
    /\ UNCHANGED <<app, timer, owed, phase, closing, batch>>

\* Require's closure after a check error: a process that runs is killed and
\* started again when its exit is reported.
RequireThenError ==
    /\ Top("CheckThen")
    /\ LET f == Head(calls)
           process == app[f.app].process IN
       /\ f.timer = Null /\ f.error # "ok"
       /\ \/ /\ process # Null
             /\ app' = [app EXCEPT ![f.app].restart = TRUE]
             /\ proc' = Killed(process)
             /\ Continue(<<>>)
          \/ /\ process = Null
             /\ app' = [app EXCEPT ![f.app].late = FALSE]
             /\ Continue(<<Start(f.app)>>)
             /\ UNCHANGED proc
    /\ UNCHANGED <<timer, owed, phase, closing, batch>>

-----------------------------------------------------------------------------
(* Starting an app. *)

\* CheckPreamble requires every preamble, in order.
DoStart ==
    /\ Top("Start")
    /\ LET a == Head(calls).app
           needed == Preamble[a] IN
       /\ app' = [app EXCEPT ![a].pending = Len(needed), ![a].errors = FALSE]
       /\ Continue(IF needed = <<>> THEN <<StartThen(a, "ok")>>
                   ELSE [i \in 1..Len(needed) |-> Require(needed[i], a)])
    /\ UNCHANGED <<proc, timer, owed, phase, closing, batch>>

\* Variant: returns without telling the callers.
StartThenErrorSilent ==
    /\ Top("StartThen")
    /\ Head(calls).error # "ok"
    /\ Continue(<<>>)
    /\ UNCHANGED <<app, proc, timer, owed, phase, closing, batch>>

\* Start's closure after a preamble failed.
StartThenError ==
    /\ Top("StartThen")
    /\ LET f == Head(calls) IN
       /\ f.error # "ok"
       /\ Continue(<<Clear(f.app, f.error)>>)
    /\ UNCHANGED <<app, proc, timer, owed, phase, closing, batch>>

\* Start's closure: the process object and the timer that checks it are
\* made, the timer runs, the process is spawned.
StartThenOk ==
    /\ Top("StartThen")
    /\ \E outcome \in AppSpawn, p \in Proc, t \in Timer :
       LET f == Head(calls) IN
       /\ f.error = "ok"
       /\ FreeProc # {} /\ p = CHOOSE q \in FreeProc : TRUE
       /\ FreeTimer # {} /\ t = CHOOSE u \in FreeTimer : TRUE
       /\ proc' = [proc EXCEPT ![p] =
                     [role |-> "app", app |-> f.app, timer |-> Null,
                      status |-> SpawnStatus(outcome), killed |-> FALSE]]
       /\ timer' = [timer EXCEPT ![t] = [app |-> f.app, status |-> "open"]]
       /\ app' = [app EXCEPT ![f.app].process = p, ![f.app].checking = FALSE]
       /\ Continue(IF outcome = "ok" THEN <<>>
                   ELSE <<AppError(f.app, SpawnError(outcome)), StartFailed(p)>>)
    /\ UNCHANGED <<owed, phase, closing, batch>>

\* The app's OnError closure.
DoAppError ==
    /\ Top("AppError")
    /\ LET f == Head(calls) IN
       /\ app' = [app EXCEPT ![f.app].process = Null]
       /\ Continue(<<Clear(f.app, f.error)>>)
    /\ UNCHANGED <<proc, timer, owed, phase, closing, batch>>

\* The end of a Process::Start that failed.
DoStartFailed ==
    /\ Top("StartFailed")
    /\ LET p == Head(calls).process IN
       \/ /\ proc[p].status = "running"
          /\ proc' = Killed(p)
          /\ UNCHANGED closing
       \/ /\ proc[p].status = "unspawned"
          /\ proc' = [proc EXCEPT ![p].status = "failed"]
          /\ CloseHandles(<<p>>)
    /\ Continue(<<>>)
    /\ UNCHANGED <<app, timer, owed, phase, batch>>

\* The closure Start gives to Check for the timer's checks: the app is up,
\* cannot be checked, or has had its time; or the timer tries again.
PostStartThen ==
    /\ Top("CheckThen")
    /\ LET f == Head(calls)
           done == f.error \in {"ok", "ENOENT"} \/ app[f.app].late IN
       /\ f.timer # Null
       /\ \/ /\ done
             /\ CloseTimer(f.timer)
             /\ Continue(<<Clear(f.app, f.error), SetChecking(f.app, FALSE)>>)
             /\ UNCHANGED app
          \/ /\ ~done
             /\ app' = [app EXCEPT ![f.app].checking = FALSE]
             /\ Continue(<<>>)
             /\ UNCHANGED <<timer, closing>>
    /\ UNCHANGED <<proc, owed, phase, batch>>

\* The assignment to App::checking after a call.
DoSetChecking ==
    /\ Top("SetChecking")
    /\ app' = [app EXCEPT ![Head(calls).app].checking = Head(calls).to]
    /\ Continue(<<>>)
    /\ UNCHANGED <<proc, timer, owed, phase, closing, batch>>

-----------------------------------------------------------------------------
(* Answering. *)

\* ClearCallbacks calls every closure and empties the vector afterwards.
DoClear ==
    /\ Top("Clear")
    /\ LET f == Head(calls)
           waiting == app[f.app].callbacks IN
       Continue([i \in 1..Len(waiting) |-> Invoke(f.app, waiting[i], f.error)]
                \o <<Cleared(f.app)>>)
    /\ UNCHANGED <<app, proc, timer, owed, phase, closing, batch>>

\* Variant: the vector is not emptied.
DoClearedKeeps ==
    /\ Top("Cleared")
    /\ Continue(<<>>)
    /\ UNCHANGED <<app, proc, timer, owed, phase, closing, batch>>

DoCleared ==
    /\ Top("Cleared")
    /\ app' = [app EXCEPT ![Head(calls).app].callbacks = <<>>]
    /\ Continue(<<>>)
    /\ UNCHANGED <<proc, timer, owed, phase, closing, batch>>

\* A client's closure.
AnswerClient ==
    /\ Top("Invoke")
    /\ LET r == Head(calls).then IN
       /\ r \in Request
       /\ owed' = [owed EXCEPT ![r] = @ - 1]
    /\ Continue(<<>>)
    /\ UNCHANGED <<app, proc, timer, phase, closing, batch>>

\* Variant: a failed preamble is not counted as answered.
AnswerPreambleOnlyOk ==
    /\ Top("Invoke")
    /\ LET a == Head(calls).then
           failed == Head(calls).error # "ok"
           left == app[a].pending - (IF failed THEN 0 ELSE 1) IN
       /\ a \in App
       /\ app' = [app EXCEPT ![a].pending = left, ![a].errors = @ \/ failed]
       /\ Continue(IF left = 0 THEN <<StartThen(a, "ok")>> ELSE <<>>)
    /\ UNCHANGED <<proc, timer, owed, phase, closing, batch>>

\* The closure of CheckPreamble: the last preamble to answer starts the app.
AnswerPreamble ==
    /\ Top("Invoke")
    /\ LET a == Head(calls).then
           left == app[a].pending - 1
           errors == app[a].errors \/ Head(calls).error # "ok" IN
       /\ a \in App
       /\ app' = [app EXCEPT ![a].pending = left, ![a].errors = errors]
       /\ Continue(IF left = 0
                   THEN <<StartThen(a, IF errors THEN "failed" ELSE "ok")>>
                   ELSE <<>>)
    /\ UNCHANGED <<proc, timer, owed, phase, closing, batch>>

\* `delete process` after on_exit_ ran.
DoDelete ==
    /\ Top("Delete")
    /\ proc' = [proc EXCEPT ![Head(calls).process] = NoProcess]
    /\ Continue(<<>>)
    /\ UNCHANGED <<app, timer, owed, phase, closing, batch>>

Call ==
    \/ DoRequire \/ DoCheckNothing \/ DoCheck
    \/ RequireThenOk \/ RequireThenError \/ PostStartThen \/ DoSetChecking
    \/ DoStart \/ StartThenError \/ StartThenOk \/ DoAppError \/ DoStartFailed
    \/ DoClear \/ DoCleared \/ AnswerClient \/ AnswerPreamble \/ DoDelete

-----------------------------------------------------------------------------
(* Events of the loop. *)

\* A client (TcpProxy::CheckUpstreamProcess) requires an app.
ClientRequire(r, a) ==
    /\ phase = "poll"
    /\ Cardinality(FreeProc) >= Reserve /\ Cardinality(FreeTimer) >= Reserve
    /\ owed[r] = 0
    /\ owed' = [owed EXCEPT ![r] = 1]
    /\ Dispatch(<<Require(a, r)>>)
    /\ UNCHANGED <<app, proc, timer, phase, closing, batch>>

\* SIGCHLD: libuv calls OnProcessExit, which keeps the status and closes
\* the handle; on_exit_ runs from the close callback.
Exit(p, s) ==
    /\ phase = "poll" /\ Idle
    /\ proc[p].status = "running"
    /\ s \in IF proc[p].killed THEN KilledExit
             ELSE IF proc[p].role = "app" THEN AppExit ELSE CheckerExit
    /\ proc' = [proc EXCEPT ![p].status = s]
    /\ CloseHandles(<<p>>)
    /\ UNCHANGED <<app, timer, owed, phase, batch, calls>>

\* Process::OnRead with nread <= 0 that is not UV_EOF, for an app's pipes.
ReadError(p, e) ==
    /\ phase = "poll"
    /\ proc[p].role = "app" /\ proc[p].status = "running"
    /\ Dispatch(<<AppError(proc[p].app, e)>>)
    /\ UNCHANGED <<app, proc, timer, owed, phase, closing, batch>>

\* Variant: callers of an app that died are told there was no error.
AppClosedTellsOk(p) ==
    /\ TakeClosed(p)
    /\ p \in Proc /\ proc[p].role = "app"
    /\ LET a == proc[p].app IN
       /\ app' = [app EXCEPT ![a].process = Null, ![a].restart = FALSE]
       /\ Dispatch(IF app[a].restart THEN <<Start(a), Delete(p)>>
                   ELSE <<Clear(a, "ok"), Delete(p)>>)
    /\ UNCHANGED <<proc, timer, owed, phase, closing>>

\* Variant: App::process is reset only after a failure.
AppClosedKeepsProcess(p) ==
    /\ TakeClosed(p)
    /\ p \in Proc /\ proc[p].role = "app"
    /\ LET a == proc[p].app
           failed == proc[p].status # "ok" IN
       /\ app' = [app EXCEPT ![a].process = IF failed THEN Null ELSE @]
       /\ Dispatch(IF failed THEN <<Clear(a, proc[p].status), Delete(p)>>
                   ELSE <<Delete(p)>>)
    /\ UNCHANGED <<proc, timer, owed, phase, closing>>

\* The app's OnExit closure, then the end of OnProcessHandleClose.
AppClosed(p) ==
    /\ TakeClosed(p)
    /\ p \in Proc /\ proc[p].role = "app"
    /\ LET a == proc[p].app
           again == proc[p].status # "ok" /\ app[a].restart
           tell == proc[p].status # "ok" /\ ~app[a].restart /\ a \notin Checked IN
       /\ app' = [app EXCEPT ![a].process = Null,
                             ![a].restart = @ /\ ~again]
       /\ Dispatch(IF again THEN <<Start(a), Delete(p)>>
                   ELSE IF tell THEN <<Clear(a, proc[p].status), Delete(p)>>
                   ELSE <<Delete(p)>>)
    /\ UNCHANGED <<proc, timer, owed, phase, closing>>

\* The checker's OnExit closure, then the end of OnProcessHandleClose.
CheckerClosed(p) ==
    /\ TakeClosed(p)
    /\ p \in Proc /\ proc[p].role = "checker"
    /\ Dispatch(<<CheckThen(proc[p].app, proc[p].timer, proc[p].status), Delete(p)>>)
    /\ UNCHANGED <<app, proc, timer, owed, phase, closing>>

\* Handle::OnClose of a timer deletes it.
TimerClosed(t) ==
    /\ TakeClosed(t)
    /\ t \in Timer
    /\ timer' = [timer EXCEPT ![t] = NoTimer]
    /\ UNCHANGED <<app, proc, owed, phase, closing, calls>>

\* Variant: a tick that finds a check running closes the timer.
TickClosesWhenChecking(t) ==
    /\ phase = "timers" /\ Idle
    /\ timer[t].status = "open"
    /\ LET a == timer[t].app IN
       \/ /\ app[a].callbacks = <<>> \/ app[a].checking
          /\ CloseTimer(t)
          /\ UNCHANGED calls
       \/ /\ app[a].callbacks # <<>> /\ ~app[a].checking
          /\ Dispatch(<<Check(a, t), SetChecking(a, TRUE)>>)
          /\ UNCHANGED <<timer, closing>>
    /\ UNCHANGED <<app, proc, owed, phase, batch>>

\* The 100 ms timer of Start.
Tick(t) ==
    /\ phase = "timers" /\ Idle
    /\ timer[t].status = "open"
    /\ LET a == timer[t].app IN
       \/ /\ app[a].callbacks = <<>>
          /\ CloseTimer(t)
          /\ UNCHANGED calls
       \/ /\ app[a].callbacks # <<>> /\ ~app[a].checking
          /\ Dispatch(<<Check(a, t), SetChecking(a, TRUE)>>)
          /\ UNCHANGED <<timer, closing>>
    /\ UNCHANGED <<app, proc, owed, phase, batch>>

\* max_start_time has passed since require_start_time.
Expire(a) ==
    /\ Idle
    /\ a \in Limited /\ ~app[a].late
    /\ app' = [app EXCEPT ![a].late = TRUE]
    /\ UNCHANGED <<proc, timer, owed, loopVars>>

LoopStep == Iterate /\ UNCHANGED <<app, proc, timer, owed>>

HandleClosed ==
    \/ \E p \in Proc : AppClosed(p) \/ CheckerClosed(p)
    \/ \E t \in Timer : TimerClosed(t)

-----------------------------------------------------------------------------

\* GetApp makes an App with require_start_time 0, which is long ago.
Init ==
    /\ LoopInit
    /\ app = [a \in App |-> [callbacks |-> <<>>, process |-> Null,
                restart |-> FALSE, pending |-> 0, errors |-> FALSE,
                checking |-> FALSE, late |-> a \in Limited]]
    /\ proc = [p \in Proc |-> NoProcess]
    /\ timer = [t \in Timer |-> NoTimer]
    /\ owed = [r \in Request |-> 0]

Next ==
    \/ Call
    \/ LoopStep
    \/ HandleClosed
    \/ \E r \in Request, a \in App : ClientRequire(r, a)
    \/ \E p \in Proc, s \in ExitStatus : Exit(p, s)
    \/ \E p \in Proc, e \in ReadErr : ReadError(p, e)
    \/ \E t \in Timer : Tick(t)
    \/ \E a \in App : Expire(a)

Spec == Init /\ [][Next]_vars

\* The exits that must come: a checker's, and that of a killed process.
ExitDue(p) ==
    /\ proc[p].role = "checker" \/ proc[p].killed
    /\ \E s \in ExitStatus : Exit(p, s)

\* uv_run never stops in the middle of an iteration and each poll handles
\* finitely many events; repeating timers fire; checkers and killed
\* processes exit; time passes.  Nothing makes a client call or an app exit.
Fairness ==
    /\ WF_vars(Call) /\ WF_vars(HandleClosed) /\ SF_vars(LoopStep)
    /\ \A t \in Timer : SF_vars(Tick(t))
    /\ \A p \in Proc : SF_vars(ExitDue(p))
    /\ \A a \in App : SF_vars(Expire(a))

FairSpec == Spec /\ Fairness

-----------------------------------------------------------------------------
(* Properties. *)

\* The types of the state and of the frames: process_manager.h:12-22.
TypeOK ==
    /\ app \in [App -> AppState]
    /\ proc \in [Proc -> Process]
    /\ timer \in [Timer -> TimerState]
    /\ owed \in [Request -> Int]
    /\ phase \in Phase
    /\ closing \in Seq(Proc \cup Timer)
    /\ batch \in Seq(Proc \cup Timer)
    /\ calls \in Seq(Frame)

Deleting(p) == \E i \in DOMAIN calls : calls[i] = Delete(p)

\* App::process never points to a Process that was deleted, nor to one of
\* another app: Require kills through it and every closure receives it.
NoDanglingProcess ==
    \A a \in App :
        LET p == app[a].process IN
        p # Null => proc[p].role = "app" /\ proc[p].app = a /\ ~Deleting(p)

\* ClearCallbacks is in the middle of the app's vector.
Clearing(a) == \E i \in DOMAIN calls : calls[i] = Cleared(a)

Places(w) ==
    UNION {{<<a, i>> : i \in {j \in DOMAIN app[a].callbacks :
                                app[a].callbacks[j] = w}} :
           a \in {b \in App : ~Clearing(b)}}
FramesOf(w) ==
    {i \in DOMAIN calls : calls[i].op \in {"Require", "Invoke"} /\ calls[i].then = w}
Copies(w) == Cardinality(Places(w)) + Cardinality(FramesOf(w))

\* A closure given to Require is kept in exactly one place until it is
\* called, and is never called again: no caller is forgotten when vectors
\* are cleared and no caller gets two answers.
EachCallerKeptOnce == \A r \in Request : owed[r] = Copies(r)

\* pending_preamble counts the preambles that still have to call back, so
\* an app is started by the last of them and not before.
PendingIsExact == \A a \in App : app[a].pending = Copies(a)

CheckerOf(a, timed) ==
    \E p \in Proc : /\ proc[p].role = "checker" /\ proc[p].app = a
                    /\ (proc[p].timer # Null) = timed

\* Between events, something that will clear the vector of an app that has
\* callers is under way: a check for Require, a preamble, the timer after
\* start (which waits only for a check of its own), or a restart.
WaitersAreDriven ==
    Idle => \A a \in App : app[a].callbacks # <<>> =>
        \/ CheckerOf(a, FALSE)
        \/ \E b \in App : \E i \in DOMAIN app[b].callbacks : app[b].callbacks[i] = a
        \/ /\ \E t \in Timer : timer[t].app = a /\ timer[t].status = "open"
           /\ app[a].checking => CheckerOf(a, TRUE)
        \/ app[a].restart /\ app[a].process # Null

\* An app has one running process at most.
SingleInstance ==
    \A a \in App :
        Cardinality({p \in Proc : /\ proc[p].role = "app" /\ proc[p].app = a
                                  /\ proc[p].status = "running"}) <= 1

\* The timer a check will close when it is done is still allocated.
CheckTimerAlive ==
    /\ \A p \in Proc : LET t == proc[p].timer IN
         t # Null => timer[t].status # "free" /\ timer[t].app = proc[p].app
    /\ \A i \in DOMAIN calls : calls[i].op \in {"Check", "CheckThen"} =>
         LET t == calls[i].timer IN t # Null => timer[t].status # "free"

\* A client told that an app without a checker is up has a process behind it.
AnsweredOkRuns ==
    [][AnswerClient => LET f == Head(calls) IN
         f.error = "ok" /\ f.app \notin Checked => app[f.app].process # Null]_vars

\* Every call of Require is answered, once: process_manager.h:10, :49.
Service == INSTANCE RequireService
ImplementsService == Service!Spec

\* A process killed "with restart" (process_manager.cc:120) does start again:
\* the wish to restart does not stay for ever.
KilledIsRestarted == \A a \in App : app[a].restart ~> ~app[a].restart
=============================================================================
