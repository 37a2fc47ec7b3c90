------------------------------ MODULE MCParts ------------------------------
(***************************************************************************)
(* What Parts is given for TLC: the configs the program is started with    *)
(* and the texts that are read.                                            *)
(***************************************************************************)
EXTENDS Parts

Srv(kind, port, runs) == [kind |-> kind, port |-> port, app |-> runs]

\* Two proxies, one of them with an app; a port above Ports that comes out as
\* another one's; dummy servers; an address another program has.
SomePlans ==
    {<<Srv("admin", 3, FALSE), Srv("proxy", 1, TRUE), Srv("proxy", 2, FALSE)>>,
     <<Srv("admin", 3, FALSE), Srv("proxy", 11, TRUE), Srv("tcp", 2, FALSE), Srv("udp", 1, FALSE)>>,
     <<Srv("admin", 3, FALSE), Srv("proxy", 1, FALSE), Srv("tcp", 11, FALSE)>>,
     <<Srv("admin", 5, FALSE)>>}
OtherPrograms == {<<"tcp", 5>>}

\* A letter and what divides a url; a query; escapes.
SomeAlphabets ==
    {{<<LowerA>>, <<Colon>>, <<Slash>>, <<Question>>, <<Hash>>, <<Colon, Slash, Slash>>},
     {<<LowerA>>, <<Ampersand>>, <<Equal>>},
     {<<LowerA>>, <<Percent>>, <<Plus>>, <<Zero + 4>>, <<UpperA + 5>>, <<Space>>}}
=============================================================================
