--------------------------- MODULE RequireService ---------------------------
(***************************************************************************)
(* What ProcessManager::Require promises its callers (process_manager.h:   *)
(* AfterProcessCheck): every call is answered once.  ProcessManager        *)
(* implements this specification, and TcpProxy is built on it.             *)
(***************************************************************************)
EXTENDS Integers

CONSTANT Request    \* callers, each with one call outstanding at most
VARIABLE owed       \* for each caller, calls less answers

Init == owed = [r \in Request |-> 0]

Ask(r) ==
    /\ owed[r] = 0
    /\ owed' = [owed EXCEPT ![r] = 1]

Answer(r) ==
    /\ owed[r] = 1
    /\ owed' = [owed EXCEPT ![r] = 0]

Next == \E r \in Request : Ask(r) \/ Answer(r)

Spec == Init /\ [][Next]_owed /\ \A r \in Request : WF_owed(Answer(r))
=============================================================================
