------------------------------- MODULE Process -------------------------------
(***************************************************************************)
(* A child process (process.cc).  The Process object owns libuv's process  *)
(* handle, three pipes and the timer of its time limit; it deletes itself  *)
(* in the close callback of the process handle, after telling on_exit_.    *)
(* The child, the loop's timer and the owner act in any order.             *)
(***************************************************************************)
EXTENDS EventLoop

CONSTANTS
    Limited,   \* whether SetTimeout is called: a set of BOOLEANs
    Faults,    \* what may fail in Start: "spawn" (uv_spawn), "read" (uv_read_start)
    MaxOutput, \* chunks the child writes to a stream
    Siblings   \* whether the program has other children

ASSUME ProcessAssumption ==
    /\ Limited \subseteq BOOLEAN /\ Limited # {}
    /\ Faults \subseteq {"spawn", "read"}
    /\ MaxOutput \in Nat /\ Siblings \in BOOLEAN

VARIABLES
    object,    \* the Process
    tried,     \* uv_spawn was called: request_.loop is set and pipes_ are open
    running,   \* status_.running
    exit,      \* what status_ says of the end
    child,     \* the child, as the kernel has it
    signal,    \* where the last uv_process_kill of each sender went
    timer,     \* timer_
    late,      \* the timer has been running for its interval
    reading,   \* the streams libuv reads
    ready,     \* those of them that epoll_wait returned and that wait for their turn
    sigchld,   \* whose SIGCHLD it returned; once the child is reaped, why it was
    written,   \* chunks the child wrote to each stream
    delivered, \* chunks of them on_data_ was told of
    writing,   \* an Input waits in stdin
    erred,     \* on_error_ was told of something
    owed       \* whether on_exit_ is yet to be called

childVars == <<child, signal, written>>
pollVars == <<ready, sigchld>>
streamVars == <<reading, delivered, writing, pollVars>>
vars == <<object, tried, running, exit, timer, late, erred, owed, childVars, streamVars, loopVars>>

Stream == {"stdout", "stderr"}
Pipes == <<"stderr", "stdout", "stdin">>
Owner == {"owner"}
Promise == INSTANCE RequireService WITH Request <- Owner

Exited == owed' = [w \in Owner |-> owed[w] - 1]

\* Kill is called by the Process itself, or by its owner.
Sender == {"process", "owner"}

\* uv_process_kill; without a child the pid is 0, which is the program's own
\* group, or was reaped and may be anybody's.
Kill(by) ==
    signal' = [signal EXCEPT ![by] = IF child \in {"alive", "zombie"} THEN "sent" ELSE "stray"]

\* The timer of the limit is closed by ~Process.
CloseTimer == timer' = IF timer = "none" THEN timer ELSE "closed"
TimerToClose == IF timer \in {"armed", "stopped"} THEN <<"timer">> ELSE <<>>

-----------------------------------------------------------------------------
(* The owner, who acts in any callback, before uv_run, or in a thread of   *)
(* its own, until it is told of the exit.                                  *)

Acting == phase \in Phase

\* Create and Init.  With a limit on_exit_ will be called even without Start.
Create ==
    /\ Acting /\ object = "none"
    /\ object' = "open"
    /\ \E limited \in Limited :
         /\ timer' = IF limited THEN "armed" ELSE "none"
         /\ IF limited THEN \E w \in Owner : Promise!Ask(w) ELSE UNCHANGED owed
    /\ UNCHANGED <<tried, running, exit, late, erred, childVars, streamVars, loopVars>>

AskOnce == owed' = [w \in Owner |-> 1]

\* Start is called once.
Starting ==
    /\ Acting
    /\ object = "open" /\ ~tried
    /\ tried' = TRUE
    /\ AskOnce

\* Variant: stderr is not read.
StartSucceedsReadsStdout ==
    /\ Starting
    /\ running' = TRUE /\ child' = "alive" /\ reading' = {"stdout"}
    /\ UNCHANGED <<object, exit, timer, late, erred, signal, written, delivered, writing, pollVars, loopVars>>

StartSucceeds ==
    /\ Starting
    /\ running' = TRUE /\ child' = "alive" /\ reading' = Stream
    /\ UNCHANGED <<object, exit, timer, late, erred, signal, written, delivered, writing, pollVars, loopVars>>

\* uv_spawn fails: on_error_, then OnProcessExit closes all handles.
StartFailsToSpawn ==
    /\ "spawn" \in Faults /\ Starting
    /\ erred' = TRUE
    /\ exit' = "failed"
    /\ CloseHandles(<<"process">> \o Pipes)
    /\ UNCHANGED <<object, running, timer, late, childVars, streamVars, phase, batch, calls>>

\* Variant: every failure is taken for one of uv_spawn.
StartFailsToReadGivesUp ==
    /\ "read" \in Faults /\ Starting
    /\ running' = FALSE /\ child' = "alive"
    /\ reading' \in {{}, {"stdout"}}
    /\ erred' = TRUE
    /\ exit' = "failed"
    /\ CloseHandles(<<"process">> \o Pipes)
    /\ UNCHANGED <<object, timer, late, signal, written, delivered, writing, pollVars, phase, batch, calls>>

\* A pipe cannot be read: on_error_, and the child that runs is killed.
StartFailsToRead ==
    /\ "read" \in Faults /\ Starting
    /\ running' = TRUE /\ child' = "alive" /\ signal' = [signal EXCEPT !["process"] = "sent"]
    /\ reading' \in {{}, {"stdout"}}
    /\ erred' = TRUE
    /\ UNCHANGED <<object, exit, timer, late, written, delivered, writing, pollVars, loopVars>>

\* Kill asks for nothing: the child may not be there yet, or not any more.
OwnerKills ==
    /\ Acting /\ object = "open"
    /\ Kill("owner")
    /\ UNCHANGED <<object, tried, running, exit, timer, late, erred, owed, child, written,
                   streamVars, loopVars>>

\* Input: the WriteRequest points to the Process.  What comes after the end of
\* the child libuv refuses.
Input ==
    /\ Acting /\ object = "open" /\ running /\ ~writing
    /\ writing' = TRUE
    /\ UNCHANGED <<object, tried, running, exit, timer, late, erred, owed, childVars,
                   reading, delivered, pollVars, loopVars>>

-----------------------------------------------------------------------------
(* The child. *)

ChildWrites(s) ==
    /\ child = "alive" /\ written[s] < MaxOutput
    /\ written' = [written EXCEPT ![s] = @ + 1]
    /\ UNCHANGED <<object, tried, running, exit, timer, late, erred, owed, child, signal,
                   streamVars, loopVars>>

\* Its SIGCHLD is caught.
ChildDies ==
    /\ child = "alive"
    /\ child' = "zombie"
    /\ UNCHANGED <<object, tried, running, exit, timer, late, erred, owed, signal, written,
                   streamVars, loopVars>>

-----------------------------------------------------------------------------
(* The poll phase: one epoll_wait, then the callbacks of the streams it    *)
(* returned, then the signal watcher.  What comes meanwhile waits for the  *)
(* next one, but the watcher reaps every child of the program that ended.  *)

Polled ==
    /\ ready' = {s \in reading : delivered[s] # written[s]}
    /\ sigchld' \in CASE child = "zombie" -> {"own"}
                       [] child = "reaped" -> {sigchld}
                       [] OTHER -> IF Siblings THEN {"none", "other"} ELSE {"none"}

\* OnRead with all that is there.
Read(s) ==
    /\ phase = "poll" /\ s \in ready
    /\ delivered' = [delivered EXCEPT ![s] = written[s]]
    /\ ready' = ready \ {s}
    /\ UNCHANGED <<object, tried, running, exit, timer, late, erred, owed, childVars,
                   reading, writing, sigchld, loopVars>>

\* OnRead with an error, after which libuv does not read the stream any more,
\* or with no data, which is taken for one.
ReadFails(s) ==
    /\ phase = "poll" /\ s \in reading
    /\ erred' = TRUE
    /\ reading' \in {reading, reading \ {s}}
    /\ ready' = ready \cap reading'
    /\ UNCHANGED <<object, tried, running, exit, timer, late, owed, childVars,
                   delivered, writing, sigchld, loopVars>>

\* OnWriteAfter
Written ==
    /\ phase = "poll" /\ writing /\ running
    /\ writing' = FALSE
    /\ erred' \in {erred, TRUE}
    /\ UNCHANGED <<object, tried, running, exit, timer, late, owed, childVars,
                   reading, delivered, pollVars, loopVars>>

Reaping == phase = "poll" /\ ready = {} /\ sigchld # "none"

\* OnProcessExit as exit_cb: the pipes are closed, whatever is left in them.
ChildExited ==
    /\ Reaping /\ child = "zombie"
    /\ child' = "reaped"
    /\ running' = FALSE
    /\ exit' = "child"
    /\ CloseHandles(<<"process">> \o Pipes)
    /\ reading' = {}
    /\ UNCHANGED <<object, tried, timer, late, erred, owed, signal, written, delivered, writing,
                   pollVars, phase, batch, calls>>

OthersReaped ==
    /\ Reaping /\ child \in {"none", "alive"}
    /\ sigchld' = "none"
    /\ UNCHANGED <<object, tried, running, exit, timer, late, erred, owed, childVars,
                   reading, delivered, writing, ready, loopVars>>

-----------------------------------------------------------------------------
(* The time limit. *)

Expire ==
    /\ timer = "armed" /\ ~late
    /\ late' = TRUE
    /\ UNCHANGED <<object, tried, running, exit, timer, erred, owed, childVars, streamVars, loopVars>>

Ticking == phase = "timers" /\ timer = "armed" /\ late

\* Variant: does not ask IsRunning.
TickAlwaysKills ==
    /\ Ticking
    /\ timer' = "stopped"
    /\ Kill("process")
    /\ UNCHANGED <<object, tried, running, exit, late, erred, owed, child, written, streamVars, loopVars>>

TickKills ==
    /\ Ticking /\ running
    /\ timer' = "stopped"
    /\ Kill("process")
    /\ UNCHANGED <<object, tried, running, exit, late, erred, owed, child, written, streamVars, loopVars>>

\* Start failed since the last close callbacks, in one of them or for longer
\* than the limit: OnProcessExit runs a second time, and uv_close of a handle
\* that is closing aborts the program.
TickAborts ==
    /\ Ticking /\ ~running /\ tried
    /\ phase' = "aborted"
    /\ UNCHANGED <<object, tried, running, exit, timer, late, erred, owed, childVars, streamVars,
                   closing, batch, calls>>

\* Variant: the limit is for a process that runs.
TickIgnoresUnstarted ==
    /\ Ticking /\ ~running /\ ~tried
    /\ timer' = "stopped"
    /\ UNCHANGED <<object, tried, running, exit, late, erred, owed, childVars, streamVars, loopVars>>

\* Start was not called: OnProcessHandleClose is called directly.
TickEndsUnstarted ==
    /\ Ticking /\ ~running /\ ~tried
    /\ exit' = "limit"
    /\ Exited
    /\ object' = "deleted"
    /\ CloseTimer /\ CloseHandles(TimerToClose)
    /\ UNCHANGED <<tried, running, late, erred, childVars, streamVars, phase, batch, calls>>

-----------------------------------------------------------------------------
(* Close callbacks. *)

\* Variant: ~Process leaves the timer.
HandleClosedKeepsTimer ==
    /\ TakeClosed("process")
    /\ Exited
    /\ object' = "deleted"
    /\ UNCHANGED <<tried, running, exit, timer, late, erred, childVars, streamVars, phase, closing, calls>>

\* OnProcessHandleClose
HandleClosed ==
    /\ TakeClosed("process")
    /\ Exited
    /\ object' = "deleted"
    /\ CloseTimer /\ CloseHandles(TimerToClose)
    /\ UNCHANGED <<tried, running, exit, late, erred, childVars, streamVars, phase, calls>>

\* A write that waits in a closed pipe is cancelled: OnWriteAfter is told.
PipeClosed ==
    /\ \E i \in DOMAIN Pipes : TakeClosed(Pipes[i])
    /\ writing' = (writing /\ Head(batch) # "stdin")
    /\ erred' = (erred \/ writing # writing')
    /\ UNCHANGED <<object, tried, running, exit, timer, late, owed, childVars, reading, delivered, pollVars,
                   phase, closing, calls>>

TimerClosed ==
    /\ TakeClosed("timer")
    /\ UNCHANGED <<object, tried, running, exit, timer, late, erred, owed, childVars, streamVars,
                   phase, closing, calls>>

-----------------------------------------------------------------------------

Init ==
    /\ LoopInit
    /\ object = "none" /\ tried = FALSE /\ running = FALSE /\ exit = "none"
    /\ child = "none" /\ signal = [by \in Sender |-> "none"]
    /\ timer = "none" /\ late = FALSE
    /\ reading = {} /\ ready = {} /\ sigchld = "none" /\ writing = FALSE /\ erred = FALSE
    /\ written = [s \in Stream |-> 0] /\ delivered = written
    /\ Promise!Init

\* The poll phase ends when all that epoll_wait returned was handled.
LoopStep ==
    /\ Iterate
    /\ phase = "poll" => ready = {} /\ (sigchld = "none" \/ child = "reaped")
    /\ IF phase = "timers" THEN Polled ELSE UNCHANGED pollVars
    /\ UNCHANGED <<object, tried, running, exit, timer, late, erred, owed, childVars,
                   reading, delivered, writing>>

Closed == HandleClosed \/ PipeClosed \/ TimerClosed
Tick == TickKills \/ TickAborts \/ TickEndsUnstarted

Next ==
    \/ Create \/ StartSucceeds \/ StartFailsToSpawn \/ StartFailsToRead \/ OwnerKills \/ Input
    \/ \E s \in Stream : ChildWrites(s) \/ Read(s) \/ ReadFails(s)
    \/ ChildDies \/ Written \/ ChildExited \/ OthersReaped
    \/ Expire \/ TickKills \/ TickAborts \/ TickEndsUnstarted
    \/ LoopStep \/ HandleClosed \/ PipeClosed \/ TimerClosed

Spec == Init /\ [][Next]_vars

\* uv_run never stops and handles what epoll_wait returned, time passes, and a
\* child that got the signal ends.  A child that got none need not.
Fairness ==
    /\ WF_vars(LoopStep) /\ WF_vars(Closed) /\ WF_vars(Expire) /\ SF_vars(Tick)
    /\ WF_vars(ChildDies /\ \E by \in Sender : signal[by] = "sent")
    /\ WF_vars(\E s \in Stream : Read(s))
    /\ WF_vars(ChildExited) /\ WF_vars(OthersReaped)
FairSpec == Spec /\ Fairness

-----------------------------------------------------------------------------
(* Properties. *)

\* The types of the state (process.h).
TypeOK ==
    /\ object \in {"none", "open", "deleted"} /\ tried \in BOOLEAN /\ running \in BOOLEAN
    /\ exit \in {"none", "failed", "child", "limit"}
    /\ child \in {"none", "alive", "zombie", "reaped"} 
    /\ signal \in [Sender -> {"none", "sent", "stray"}]
    /\ timer \in {"none", "armed", "stopped", "closed"} /\ late \in BOOLEAN
    /\ reading \subseteq Stream /\ ready \subseteq reading /\ sigchld \in {"none", "own", "other"}
    /\ written \in [Stream -> 0..MaxOutput] /\ delivered \in [Stream -> 0..MaxOutput]
    /\ writing \in BOOLEAN /\ erred \in BOOLEAN /\ owed \in [Owner -> 0..1]

\* Whatever the owner does, the time limit and a Start that failed signal the
\* child that is there: never process 0 or the next owner of a pid that was
\* reaped (process.cc:94-99, 209-213).
OwnSignalsReachTheChild == signal["process"] # "stray"

\* on_exit_ is told the child's own end when there was a child, and only
\* after it was reaped; a failed Start or the limit otherwise.
ExitIsTheChilds ==
    object = "deleted" => child \in {"none", "reaped"} /\ (exit = "child" <=> child = "reaped")

\* What the child wrote was given to on_data_ before on_exit_ (the tests
\* compare the output after the exit), unless on_error_ was told, or the child
\* was reaped when another ended, where libuv may not have read the rest.
OutputBeforeExit == object = "deleted" => erred \/ sigchld = "other" \/ delivered = written

\* The closure of the timer, which holds the Process, is not called once it
\* is deleted.
TimerFindsProcess == object = "deleted" => timer \in {"none", "closed"}

\* A Process with a limit tells on_exit_ of its end, once, whatever the child
\* does with its output and whether or not Start is called or fails
\* (test_process.cc asserts on_exit_called == 1), or libuv aborts: the tick of
\* a limit that passes while Start fails ends the Process again.
ExitsOnce ==
    /\ [][\A w \in Owner : owed'[w] < owed[w] => object = "open" /\ object' = "deleted"]_vars
    /\ timer # "none" ~> object = "deleted" \/ phase = "aborted"
=============================================================================
