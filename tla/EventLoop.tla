----------------------------- MODULE EventLoop -----------------------------
(***************************************************************************)
(* The libuv loop every component of nexer runs on, as the code uses it    *)
(* (event_loop.cc runs uv_run; handle.cc, process.cc and tcp_client.cc     *)
(* close handles with uv_close).                                           *)
(*                                                                         *)
(* One iteration of uv_run polls for events, then runs the close callbacks *)
(* of the handles that were closed, then the timers that are due.  A       *)
(* handle closed by a close callback waits for the next iteration.  The    *)
(* whole program is one thread: a callback runs to its end, with every     *)
(* function it calls, before the next one starts.  `calls` is the C++ call *)
(* stack of the running callback, cut where the code calls a function or   *)
(* a stored closure; the loop takes a new event only when it is empty.     *)
(***************************************************************************)
EXTENDS Integers, Sequences

VARIABLES
    phase,    \* the part of the iteration uv_run is in
    closing,  \* handles given to uv_close, the last one first
    batch,    \* handles whose close callbacks this iteration still has to run
    calls     \* frames still to run, the innermost first

loopVars == <<phase, closing, batch, calls>>

Phase == {"poll", "closing", "timers"}

LoopInit ==
    /\ phase = "poll"
    /\ closing = <<>>
    /\ batch = <<>>
    /\ calls = <<>>

-----------------------------------------------------------------------------
(* Effects that an action of a component combines. *)

\* A callback of the loop starts running `frames`.
Dispatch(frames) == calls = <<>> /\ calls' = frames

\* The innermost frame is replaced by what it calls; the rest runs after it.
Continue(frames) == calls' = frames \o Tail(calls)

Idle == calls = <<>>

\* uv_close: the handle goes to the head of the loop's closing list.
CloseHandles(handles) == closing' = handles \o closing

-----------------------------------------------------------------------------
(* The iteration. *)

\* uv__run_closing_handles takes the whole list and empties it first.
RunClosing ==
    /\ phase = "poll" /\ Idle
    /\ phase' = "closing"
    /\ batch' = closing
    /\ closing' = <<>>
    /\ UNCHANGED calls

RunTimers ==
    /\ phase = "closing" /\ Idle
    /\ batch = <<>>
    /\ phase' = "timers"
    /\ UNCHANGED <<closing, batch, calls>>

RunPoll ==
    /\ phase = "timers" /\ Idle
    /\ phase' = "poll"
    /\ UNCHANGED <<closing, batch, calls>>

Iterate == RunClosing \/ RunTimers \/ RunPoll

\* The close callback of the next handle of the batch.
TakeClosed(h) ==
    /\ phase = "closing" /\ Idle
    /\ batch # <<>>
    /\ h = Head(batch)
    /\ batch' = Tail(batch)
=============================================================================
