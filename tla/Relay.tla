------------------------------- MODULE Relay -------------------------------
(***************************************************************************)
(* What a forwarder promises about bytes: each connection is given, in     *)
(* order and once, a prefix of what was read from its source: the other    *)
(* one, or itself for an echo.  The chunks read from a connection are      *)
(* numbered 1, 2, ...                                                      *)
(***************************************************************************)
EXTENDS Naturals, Sequences

CONSTANT Conn

VARIABLES
    source, \* for each connection, the one whose chunks it is given
    got,    \* chunks read from each connection
    put     \* chunks given to the remote end of each connection

Init ==
    /\ source \in [Conn -> Conn]
    /\ got = [c \in Conn |-> 0]
    /\ put = [c \in Conn |-> <<>>]

Receive(c) == got' = [got EXCEPT ![c] = @ + 1] /\ UNCHANGED <<source, put>>

Deliver(c) ==
    /\ Len(put[c]) < got[source[c]]
    /\ put' = [put EXCEPT ![c] = Append(@, Len(put[c]) + 1)]
    /\ UNCHANGED <<source, got>>

Next == \E c \in Conn : Receive(c) \/ Deliver(c)

Spec == Init /\ [][Next]_<<source, got, put>>
=============================================================================
