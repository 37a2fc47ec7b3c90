------------------------------- MODULE Nexer -------------------------------
(***************************************************************************)
(* The program from main() to its end (main.cc, nexer.cc, tcp_server.cc,   *)
(* udp_server.cc, event_loop.cc, handle.cc): the servers it starts one     *)
(* after the other, the loop, which goes on while anything in it is        *)
(* active, the shutdown the admin server is asked for, and the             *)
(* destructors.  A connection is reduced to the life of its TcpClient, an  *)
(* app to its process.                                                     *)
(***************************************************************************)
EXTENDS Integers, Sequences

CONSTANTS
    Plans, \* configs: the servers in the order of Start, as [kind, port, app]
    Conn,
    Taken, \* addresses other programs listen on
    Ports  \* 65536: how many there are; a config may give any number

ASSUME NexerAssumption ==
    /\ Ports \in Nat \ {0}
    /\ \A plan \in Plans : Len(plan) > 0 /\ \A i \in DOMAIN plan : (plan[i].kind = "admin") <=> (i = 1)

VARIABLES
    plan,
    main,          \* "starting", "running", "leaving" in the destructors, "exited"
    server,        \* the handle of each server
    proxies_,
    admin_server_, \* 0 for null
    conn,          \* TcpClients
    app,           \* the proxies whose app has a process
    asked          \* somebody asked for a shutdown

nexerVars == <<plan, main, server, proxies_, admin_server_, conn, app, asked>>

Server == DOMAIN plan

-----------------------------------------------------------------------------
(* Start. *)

Address(i) == <<IF plan[i].kind = "udp" THEN "udp" ELSE "tcp", plan[i].port % Ports>>

\* Port 0 is any port that is free.
Bindable(i) ==
    \/ Address(i)[2] = 0
    \/ /\ Address(i) \notin Taken
       /\ \A j \in Server : server[j] = "listening" => Address(j) # Address(i)

Following(i) == \A j \in Server : (server[j] = "none") <=> (j >= i)

\* What Start keeps of a server; the admin server also if it cannot listen.
Kept(i, listens) ==
    /\ proxies_' = IF listens /\ plan[i].kind = "proxy" THEN proxies_ \cup {i} ELSE proxies_
    /\ admin_server_' = IF plan[i].kind = "admin" THEN i ELSE admin_server_

\* Create and Listen of the next server.
Listen(i) ==
    /\ main = "starting" /\ Following(i) /\ Bindable(i)
    /\ server' = [server EXCEPT ![i] = "listening"]
    /\ Kept(i, TRUE)
    /\ main' = IF i = Len(plan) THEN "running" ELSE main
    /\ UNCHANGED <<plan, conn, app, asked>>

\* Start returns false, and main goes on to the destructors.
ListenFails(i) ==
    /\ main = "starting" /\ Following(i) /\ ~Bindable(i)
    /\ server' = [server EXCEPT ![i] = "unused"]
    /\ Kept(i, FALSE)
    /\ main' = "leaving"
    /\ UNCHANGED <<plan, conn, app, asked>>

-----------------------------------------------------------------------------
(* Run. *)

\* OnConnection.  A client that cannot be accepted is kept by nobody.
OnConnection(i, c) ==
    /\ main = "running" /\ server[i] = "listening" /\ plan[i].kind # "udp"
    /\ conn[c].state = "none"
    /\ \E state \in {"open", "unused"} :
         /\ conn' = [conn EXCEPT ![c] = [state |-> state, server |-> i]]
         /\ app' \in IF state = "open" /\ plan[i].app THEN {app, app \cup {i}} ELSE {app}
    /\ UNCHANGED <<plan, main, server, proxies_, admin_server_, asked>>

\* Handle::Close of the handles in S, and of no handle twice.
Closing(handle, S) ==
    [i \in DOMAIN handle |-> IF i \in S /\ handle[i] \notin {"none", "deleted"} THEN "closing" ELSE handle[i]]

\* Variant: the pointers are kept.
CloseKeepsPointers ==
    /\ server' = Closing(server, proxies_ \cup {admin_server_})
    /\ UNCHANGED <<proxies_, admin_server_>>

\* Variant: the admin server goes on.
CloseKeepsAdmin ==
    /\ server' = Closing(server, proxies_)
    /\ proxies_' = {} /\ UNCHANGED admin_server_

\* Nexer::Close.
Close ==
    /\ server' = Closing(server, proxies_ \cup {admin_server_})
    /\ proxies_' = {} /\ admin_server_' = 0

\* A request for /shutdown on a connection to the admin server, which it may
\* be asked for again; after its server is deleted it would find nothing.
Shutdown(c) ==
    /\ main = "running" /\ conn[c].state = "open" /\ conn[c].server = 1
    /\ server[1] # "deleted"
    /\ asked' = TRUE
    /\ Close
    /\ UNCHANGED <<plan, main, conn, app>>

\* The peer, or its forwarder, ends a connection.
Ends(c) ==
    /\ main = "running" /\ conn[c].state = "open"
    /\ conn' = [conn EXCEPT ![c].state = "closing"]
    /\ UNCHANGED <<plan, main, server, proxies_, admin_server_, app, asked>>

\* Handle::OnClose.
ServerClosed(i) ==
    /\ main = "running" /\ server[i] = "closing"
    /\ server' = [server EXCEPT ![i] = "deleted"]
    /\ UNCHANGED <<plan, main, proxies_, admin_server_, conn, app, asked>>

ClientClosed(c) ==
    /\ main = "running" /\ conn[c].state = "closing"
    /\ conn' = [conn EXCEPT ![c].state = "deleted"]
    /\ UNCHANGED <<plan, main, server, proxies_, admin_server_, app, asked>>

AppEnds(i) ==
    /\ main = "running" /\ i \in app
    /\ app' = app \ {i}
    /\ UNCHANGED <<plan, main, server, proxies_, admin_server_, conn, asked>>

\* uv_run: nothing is active or closing.
RunReturns ==
    /\ main = "running"
    /\ \A i \in Server : server[i] \notin {"listening", "closing"}
    /\ \A c \in Conn : conn[c].state \notin {"open", "closing"}
    /\ app = {}
    /\ main' = "leaving"
    /\ UNCHANGED <<plan, server, proxies_, admin_server_, conn, app, asked>>

\* ~Nexer, and EventLoop::Close, which closes what is left; nothing runs the
\* loop again.
Leave ==
    /\ main = "leaving"
    /\ main' = "exited"
    /\ server' = Closing(server, Server)
    /\ conn' = [c \in Conn |-> IF conn[c].state = "unused" THEN [conn[c] EXCEPT !.state = "closing"] ELSE conn[c]]
    /\ proxies_' = {} /\ admin_server_' = 0
    /\ UNCHANGED <<plan, app, asked>>

-----------------------------------------------------------------------------

NexerInit ==
    /\ plan \in Plans /\ main = "starting"
    /\ server = [i \in DOMAIN plan |-> "none"]
    /\ proxies_ = {} /\ admin_server_ = 0
    /\ conn = [c \in Conn |-> [state |-> "none", server |-> 0]]
    /\ app = {} /\ asked = FALSE

LoopCallback == (\E i \in Server : ServerClosed(i)) \/ (\E c \in Conn : ClientClosed(c)) \/ RunReturns \/ Leave

NexerNext ==
    \/ \E i \in Server : Listen(i) \/ ListenFails(i) \/ ServerClosed(i) \/ AppEnds(i)
                         \/ \E c \in Conn : OnConnection(i, c)
    \/ \E c \in Conn : Shutdown(c) \/ Ends(c) \/ ClientClosed(c)
    \/ RunReturns \/ Leave

\* libuv runs its callbacks; the other ends of connections, and the apps, end
\* sooner or later.
NexerFairness ==
    /\ WF_nexerVars(LoopCallback)
    /\ \A c \in Conn : WF_nexerVars(Ends(c))
    /\ WF_nexerVars(\E i \in Server : AppEnds(i))

NexerSpec == NexerInit /\ [][NexerNext]_nexerVars /\ NexerFairness

-----------------------------------------------------------------------------
(* Properties. *)

\* What Nexer::Close goes through is there, also when it is called again by
\* another request or by the destructor (nexer.cc:53-62).
PointersAreLive ==
    \A i \in proxies_ \cup {admin_server_} : i # 0 => server[i] # "deleted"

\* A shutdown ends the program, if its connections and apps end and it has no
\* dummy servers, which nobody closes (nexer.cc:24, 53-62).
ShutdownEnds ==
    asked /\ (\A i \in Server : plan[i].kind \notin {"tcp", "udp"}) ~> main = "exited"
=============================================================================
