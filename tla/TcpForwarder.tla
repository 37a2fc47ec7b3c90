---------------------------- MODULE TcpForwarder ----------------------------
(***************************************************************************)
(* nexer::TcpForwarder (tcp_forwarder.cc) with the two TcpClients it joins *)
(* (the callbacks of tcp_client.cc).  Chunks read from one connection are  *)
(* appended to a string while an earlier string is being written to the    *)
(* other; when the write is done the two strings change places.  libuv is  *)
(* given a pointer to the string, not a copy, so a request here keeps the  *)
(* pointer and the kernel reads the string when it transmits.              *)
(*                                                                         *)
(* A handler only queues closes and writes, so each is one step.           *)
(***************************************************************************)
EXTENDS EventLoop

CONSTANT MaxChunks  \* bound on the chunks read from a connection, in ReadData

ASSUME ForwarderAssumption == MaxChunks \in Nat

Conn == {"near", "far"}          \* the TcpClients: accepted, and connected
Client == {"incoming", "outgoing"} \* TcpForwarder::Client
None == "none"
String == Client \X {1, 2}       \* addresses of Client::data[0], data[1]

VARIABLES
    echo,    \* made with the same client on both sides (nexer.cc, Dummy)
    tcp,     \* Client::tcp
    dataIn,  \* Client::data_in: what was read from the client's connection
    dataOut, \* Client::data_out: what is being written to the peer's
    data,    \* the strings
    alive,   \* the forwarder was not deleted
    conn,    \* the TcpClients and their handles
    reqs,    \* for each handle, the write requests libuv holds
    got,     \* chunks read from each connection
    put      \* chunks the kernel took for the remote end of each connection

stringVars == <<dataIn, dataOut, data>>
vars == <<tcp, stringVars, alive, conn, reqs, got, put, loopVars>>

Peer(c) == IF c = "incoming" THEN "outgoing" ELSE "incoming"
\* The Client whose closures Init gave to a connection.
Owner(h) == IF h = "near" THEN "incoming" ELSE "outgoing"
IsOpen(x) == x \in Conn /\ conn[x] = "open"
Other(h) == IF echo THEN h ELSE IF h = "near" THEN "far" ELSE "near"

-----------------------------------------------------------------------------

\* Variant: the other side of an echo is forgotten.
SwapOne(c) ==
    /\ dataIn' = [dataIn EXCEPT ![c] = dataOut[c]]
    /\ dataOut' = [dataOut EXCEPT ![c] = dataIn[c]]

\* TcpForwarder::Swap, which both sides of an echo share.
Swaps(c) == {d \in Client : d = c \/ tcp["incoming"] = tcp["outgoing"]}
Swap(c) ==
    /\ dataIn' = [d \in Client |-> IF d \in Swaps(c) THEN dataOut[d] ELSE dataIn[d]]
    /\ dataOut' = [d \in Client |-> IF d \in Swaps(c) THEN dataIn[d] ELSE dataOut[d]]

\* TcpClient::Write of a string on a handle that is open.
Request(s, strings) == [string |-> s, len |-> Len(strings[s]), sent |-> 0]

\* Handle::Close of one connection, then of another if it is not the same:
\* those already closing ignore it.
IfOpen(h) == IF IsOpen(h) THEN <<h>> ELSE <<>>
Close(first, second) ==
    /\ conn' = [h \in Conn |-> IF conn[h] = "open" /\ h \in {first, second}
                               THEN "closing" ELSE conn[h]]
    /\ CloseHandles((IF second = first THEN <<>> ELSE IfOpen(second)) \o IfOpen(first))

\* The OnError closure: both connections are closed.
HandleError(h) == Close(tcp[Owner(h)], tcp[Peer(Owner(h))])

-----------------------------------------------------------------------------
(* Reading. *)

\* Variant: a chunk is written without asking whether a write is under way.
ReadDataAlwaysWrites(h) ==
    LET c == Owner(h)
        to == tcp[Peer(c)]
        s == dataIn[c] IN
    /\ phase = "poll" /\ conn[h] = "open" /\ got[h] < MaxChunks
    /\ got' = [got EXCEPT ![h] = @ + 1]
    /\ data' = [data EXCEPT ![s] = Append(@, got[h] + 1)]
    /\ \/ /\ IsOpen(to)
          /\ Swap(c)
          /\ reqs' = [reqs EXCEPT ![to] = Append(@, Request(s, data'))]
       \/ /\ ~IsOpen(to)
          /\ UNCHANGED <<dataIn, dataOut, reqs>>
    /\ UNCHANGED <<tcp, alive, conn, put, loopVars>>

\* OnRead with data: the OnData closure.  IsWritable is false for a handle
\* that is closing.
ReadData(h) ==
    LET c == Owner(h)
        to == tcp[Peer(c)]
        s == dataIn[c]
        free == IsOpen(to) /\ data[dataOut[c]] = <<>> IN
    /\ phase = "poll" /\ conn[h] = "open" /\ got[h] < MaxChunks
    /\ got' = [got EXCEPT ![h] = @ + 1]
    /\ data' = [data EXCEPT ![s] = Append(@, got[h] + 1)]
    /\ \/ /\ free
          /\ Swap(c)
          /\ reqs' = [reqs EXCEPT ![to] = Append(@, Request(s, data'))]
       \/ /\ ~free
          /\ UNCHANGED <<dataIn, dataOut, reqs>>
    /\ UNCHANGED <<tcp, alive, conn, put, loopVars>>

\* OnRead with UV_EOF closes the connection.
ReadEof(h) ==
    /\ phase = "poll" /\ conn[h] = "open"
    /\ Close(h, h)
    /\ UNCHANGED <<tcp, stringVars, alive, reqs, got, put, phase, batch, calls>>

\* OnRead with another error.
ReadFails(h) ==
    /\ phase = "poll" /\ conn[h] = "open"
    /\ HandleError(h)
    /\ UNCHANGED <<tcp, stringVars, alive, reqs, got, put, phase, batch, calls>>

-----------------------------------------------------------------------------
(* Writing. *)

Sending(h) == reqs[h] # <<>> /\ Head(reqs[h]).sent < Head(reqs[h]).len
Sent(h) == reqs[h] # <<>> /\ Head(reqs[h]).sent = Head(reqs[h]).len

\* uv__write: the kernel takes the next chunk from the string.
Transmit(h) ==
    /\ phase = "poll" /\ conn[h] = "open" /\ Sending(h)
    /\ LET r == Head(reqs[h]) IN
       /\ put' = [put EXCEPT ![h] = Append(@, data[r.string][r.sent + 1])]
       /\ reqs' = [reqs EXCEPT ![h][1].sent = r.sent + 1]
    /\ UNCHANGED <<tcp, stringVars, alive, conn, got, loopVars>>

\* Variant: only the string of the next write is looked at.
WriteDoneForgetsRest(h) ==
    LET s == dataOut[Peer(Owner(h))] IN
    /\ phase = "poll" /\ conn[h] = "open" /\ Sent(h)
    /\ data' = [data EXCEPT ![s] = <<>>]
    /\ reqs' = [reqs EXCEPT ![h] = Tail(@)]
    /\ UNCHANGED <<tcp, dataIn, dataOut, alive, conn, got, put, loopVars>>

\* OnWrite without error: the OnSend closure writes what came meanwhile.
WriteDone(h) ==
    LET p == Peer(Owner(h))
        next == dataIn[p]
        more == data[next] # <<>> IN
    /\ phase = "poll" /\ conn[h] = "open" /\ Sent(h)
    /\ data' = [data EXCEPT ![dataOut[p]] = <<>>]
    /\ \/ /\ more
          /\ Swap(p)
          /\ reqs' = [reqs EXCEPT ![h] = Append(Tail(@), Request(next, data'))]
       \/ /\ ~more
          /\ reqs' = [reqs EXCEPT ![h] = Tail(@)]
          /\ UNCHANGED <<dataIn, dataOut>>
    /\ UNCHANGED <<tcp, alive, conn, got, put, loopVars>>

\* OnWrite with an error.
WriteFails(h) ==
    /\ phase = "poll" /\ conn[h] = "open" /\ Sending(h)
    /\ reqs' = [reqs EXCEPT ![h] = Tail(@)]
    /\ HandleError(h)
    /\ UNCHANGED <<tcp, stringVars, alive, got, put, phase, batch, calls>>

-----------------------------------------------------------------------------
(* Closing.  Before its close callback runs, the requests a handle still   *)
(* holds are answered (uv__stream_destroy).                                *)

IsNext(h) == phase = "closing" /\ batch # <<>> /\ Head(batch) = h

\* A request that was not finished is cancelled.
WriteCancelled(h) ==
    /\ IsNext(h) /\ Sending(h)
    /\ reqs' = [reqs EXCEPT ![h] = Tail(@)]
    /\ HandleError(h)
    /\ UNCHANGED <<tcp, stringVars, alive, got, put, phase, batch, calls>>

\* One that was finished runs OnSend; its write fails, the handle being
\* closed, and TcpClient::Write reports the error before it returns.
WriteFlushed(h) ==
    LET p == Peer(Owner(h))
        more == data[dataIn[p]] # <<>> IN
    /\ IsNext(h) /\ Sent(h)
    /\ reqs' = [reqs EXCEPT ![h] = Tail(@)]
    /\ data' = [data EXCEPT ![dataOut[p]] = <<>>]
    /\ \/ more /\ Swap(p) /\ HandleError(h)
       \/ ~more /\ UNCHANGED <<dataIn, dataOut, conn, closing>>
    /\ UNCHANGED <<tcp, alive, got, put, phase, batch, calls>>

\* Variant: the connection that is left is not closed.
ClosedLeavesPeer(h) ==
    /\ TakeClosed(h) /\ reqs[h] = <<>>
    /\ tcp' = [tcp EXCEPT ![Owner(h)] = None]
    /\ alive' = (alive /\ tcp'[Peer(Owner(h))] # None)
    /\ conn' = [conn EXCEPT ![h] = "deleted"]
    /\ UNCHANGED <<stringVars, reqs, got, put, phase, closing, calls>>

\* Variant: the forwarder is deleted with the first connection.
ClosedDeletesEarly(h) ==
    LET left == tcp[Peer(Owner(h))] IN
    /\ TakeClosed(h) /\ reqs[h] = <<>>
    /\ tcp' = [tcp EXCEPT ![Owner(h)] = None]
    /\ alive' = FALSE
    /\ \/ /\ IsOpen(left)
          /\ conn' = [conn EXCEPT ![h] = "deleted", ![left] = "closing"]
          /\ CloseHandles(<<left>>)
       \/ /\ ~IsOpen(left)
          /\ conn' = [conn EXCEPT ![h] = "deleted"]
          /\ UNCHANGED closing
    /\ UNCHANGED <<stringVars, reqs, got, put, phase, calls>>

\* Handle::OnClose: the OnClose closure, then the TcpClient is deleted.
Closed(h) ==
    LET c == Owner(h)
        left == IF tcp[Peer(c)] = tcp[c] THEN None ELSE tcp[Peer(c)] IN
    /\ TakeClosed(h) /\ reqs[h] = <<>>
    /\ tcp' = [tcp EXCEPT ![c] = None, ![Peer(c)] = left]
    /\ alive' = (left # None)
    /\ \/ /\ IsOpen(left)
          /\ conn' = [conn EXCEPT ![h] = "deleted", ![left] = "closing"]
          /\ CloseHandles(<<left>>)
       \/ /\ ~IsOpen(left)
          /\ conn' = [conn EXCEPT ![h] = "deleted"]
          /\ UNCHANGED closing
    /\ UNCHANGED <<stringVars, reqs, got, put, phase, calls>>

-----------------------------------------------------------------------------
(* The owner: TcpProxy connects to the upstream. *)

\* SetOutgoing, from the connect callback of the upstream connection.
SetOutgoing ==
    LET s == dataIn["incoming"]
        write == data[s] # <<>> /\ data[dataOut["incoming"]] = <<>> IN
    /\ phase = "poll" /\ alive /\ conn["far"] = None
    /\ tcp' = [tcp EXCEPT !["outgoing"] = "far"]
    /\ conn' = [conn EXCEPT !["far"] = "open"]
    /\ \/ /\ write
          /\ Swap("incoming")
          /\ reqs' = [reqs EXCEPT !["far"] = <<Request(s, data)>>]
       \/ /\ ~write
          /\ UNCHANGED <<dataIn, dataOut, reqs>>
    /\ UNCHANGED <<data, alive, got, put, loopVars>>

\* The upstream process or connection failed, or timed out: the proxy closes
\* the incoming connection.
UpstreamFails ==
    /\ phase # "closing" \/ batch = <<>>
    /\ alive /\ conn["far"] = None
    /\ LET live == conn["near"] = "open" IN
       /\ conn' = [conn EXCEPT !["far"] = "refused",
                               !["near"] = IF live THEN "closing" ELSE @]
       /\ IF live THEN CloseHandles(<<"near">>) ELSE UNCHANGED closing
    /\ UNCHANGED <<tcp, stringVars, alive, reqs, got, put, phase, batch, calls>>

-----------------------------------------------------------------------------

\* The strings of each side; an echo shares those of the incoming one.
Strings ==
    /\ dataIn = [c \in Client |-> <<IF echo THEN "incoming" ELSE c, 1>>]
    /\ dataOut = [c \in Client |-> <<IF echo THEN "incoming" ELSE c, 2>>]

\* Create; with two clients, which are the same, it sets the outgoing one at
\* once.
Init ==
    /\ LoopInit
    /\ echo \in BOOLEAN
    /\ tcp = [c \in Client |-> IF c = "incoming" \/ echo THEN "near" ELSE None]
    /\ Strings
    /\ data = [s \in String |-> <<>>]
    /\ alive = TRUE
    /\ conn = [h \in Conn |-> IF h = "near" THEN "open"
                              ELSE IF echo THEN "refused" ELSE None]
    /\ reqs = [h \in Conn |-> <<>>]
    /\ got = [h \in Conn |-> 0]
    /\ put = [h \in Conn |-> <<>>]

LoopStep ==
    /\ Iterate
    /\ UNCHANGED <<tcp, stringVars, alive, conn, reqs, got, put>>

Handle(h) ==
    \/ ReadData(h) \/ ReadEof(h) \/ ReadFails(h)
    \/ Transmit(h) \/ WriteDone(h) \/ WriteFails(h)
    \/ WriteCancelled(h) \/ WriteFlushed(h) \/ Closed(h)

Next ==
    /\ SetOutgoing \/ UpstreamFails \/ LoopStep \/ \E h \in Conn : Handle(h)
    /\ UNCHANGED echo

Spec == Init /\ [][Next]_<<vars, echo>>

\* uv_run never stops; the remote end keeps reading; a connect attempt is
\* answered.  Nothing makes a remote end write or close.
Fairness ==
    /\ WF_vars(LoopStep)
    /\ SF_vars(SetOutgoing \/ UpstreamFails)
    /\ \A h \in Conn :
         /\ SF_vars(Transmit(h)) /\ SF_vars(WriteDone(h))
         /\ WF_vars(WriteCancelled(h)) /\ WF_vars(WriteFlushed(h)) /\ WF_vars(Closed(h))

FairSpec == Spec /\ Fairness

-----------------------------------------------------------------------------
(* Properties. *)

\* Each connection is given a prefix of what was read from the other, in
\* order, with nothing lost, repeated or made up.
Relayed == INSTANCE Relay WITH source <- [h \in Conn |-> Other(h)]
ImplementsRelay == Relayed!Spec

\* The string handed to uv_write is not touched until its callback: it is
\* the peer's data_out, its length is the request's, and only one request
\* is under way on a connection.
BufferIsStable ==
    \A h \in Conn : reqs[h] # <<>> =>
        /\ Len(reqs[h]) = 1
        /\ alive
        /\ Head(reqs[h]).string = dataOut[Peer(Owner(h))]
        /\ Len(data[Head(reqs[h]).string]) = Head(reqs[h]).len

\* The closures on the connections refer to the forwarder: it outlives the
\* last close callback, and is deleted by it.
OutlivesConnections == alive <=> \E h \in Conn : conn[h] \in {"open", "closing"}

\* While nobody closes, every chunk reaches the other side.
EveryChunkArrives ==
    \A h \in Conn : \A n \in 1..MaxChunks :
        got[h] >= n ~> \/ Len(put[Other(h)]) >= n
                       \/ \E x \in Conn : conn[x] \in {"closing", "deleted"}

\* When one connection is closed both are, and the forwarder with them.
EndsTogether == (\E h \in Conn : conn[h] = "closing") ~> ~alive
=============================================================================
