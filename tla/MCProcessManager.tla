-------------------------- MODULE MCProcessManager --------------------------
(***************************************************************************)
(* Small instances of ProcessManager: `web` is the app of an upstream,     *)
(* `tunnel` and `login` are preambles (exmple/nexer.conf:23-33).           *)
(***************************************************************************)
EXTENDS ProcessManager

CONSTANTS web, tunnel, login

OnePreamble == [a \in App |-> IF a = web THEN <<tunnel>> ELSE <<>>]

\* Two preambles, the second of which needs the first as well.
TwoPreambles ==
    [a \in App |-> CASE a = web -> <<tunnel, login>>
                     [] a = login -> <<tunnel>>
                     [] OTHER -> <<>>]

\* Clients differ only in their names.
Clients == Permutations(Request)
=============================================================================
