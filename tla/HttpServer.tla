----------------------------- MODULE HttpServer -----------------------------
(***************************************************************************)
(* A kept-alive connection of the HTTP server (http_server.cc,             *)
(* http_message.cc), with the admin handler of nexer.cc on it.             *)
(* One incoming Request serves all the requests of the connection in turn: *)
(* Reset empties it, and the buffers of its response, which uv_write is    *)
(* given by address.  TCP cuts what the peer sends anywhere.               *)
(***************************************************************************)
EXTENDS EventLoop, SequencesExt

CONSTANTS
    MaxRequests, \* requests the peer sends
    Shutdown,    \* the requests for /shutdown
    EmptyValue   \* the requests whose first header has no value

ASSUME HttpAssumption ==
    /\ MaxRequests \in Nat
    /\ Shutdown \subseteq 1..MaxRequests /\ EmptyValue \subseteq 1..MaxRequests

VARIABLES
    server,   \* the http::Server
    conn,     \* the TcpClient, and with it its Request
    asked,    \* requests the peer has sent
    patient,  \* it sent none of them before the last was answered
    wire,     \* what the server has not read of them
    url,      \* url_string_
    headers,  \* headers_
    inField,  \* parser_state_.header_field
    body,     \* body_
    complete, \* parser_state_.complete
    response, \* the text in the response's buffers: the urls it answers
    pending,  \* writes libuv holds, as the text it will send for each
    got       \* responses the peer received

peerVars == <<asked, patient, wire>>
messageVars == <<url, headers, inField, body>>
requestVars == <<messageVars, complete, response>>
vars == <<server, conn, peerVars, requestVars, pending, got, loopVars>>

\* The pieces the parser makes of a request: its url, the first part with the
\* method, and its body in two parts each, and two headers, the name of the
\* first in two parts.  It makes none of an empty value.  Junk is anything
\* llhttp refuses.
Part(is, of) == [is |-> is, of |-> of]
Junk == Part("junk", 0)
Message(r) ==
    <<Part("start", r), Part("url", r), Part("field", 1), Part("field", 1)>>
    \o (IF r \in EmptyValue THEN <<>> ELSE <<Part("value", 1)>>)
    \o <<Part("field", 2), Part("value", 2), Part("body", r), Part("body", r), Part("end", 0)>>
Spoilt == <<>>

\* The one response that answers request r.
AnswerTo(r) == << <<r, r>> >>

\* Handle::Close of the connection.
CloseClient == IF conn = "open" THEN conn' = "closing" /\ CloseHandles(<<"client">>)
               ELSE UNCHANGED <<conn, closing>>

-----------------------------------------------------------------------------
(* The peer. *)

Connect ==
    /\ phase = "poll" /\ Idle /\ server = "open" /\ conn = "none"
    /\ conn' = "open"
    /\ UNCHANGED <<server, peerVars, requestVars, pending, got, loopVars>>

PeerAsks ==
    /\ conn = "open" /\ asked < MaxRequests
    /\ asked' = asked + 1
    /\ patient' = (patient /\ Len(got) = asked)
    /\ wire' = wire \o Message(asked')
    /\ UNCHANGED <<server, conn, requestVars, pending, got, loopVars>>

PeerSpoils ==
    /\ conn = "open" /\ ~Contains(wire, Junk)
    /\ wire' = Append(wire, Junk)
    /\ UNCHANGED <<server, conn, asked, patient, requestVars, pending, got, loopVars>>

-----------------------------------------------------------------------------
(* Reading. *)

\* Variant: Reset leaves out the response.
EmptiedButResponse ==
    /\ url' = <<>> /\ headers' = <<>> /\ inField' = FALSE /\ body' = <<>>
    /\ complete' = FALSE /\ UNCHANGED response

\* Request::Reset.
Emptied ==
    /\ url' = <<>> /\ headers' = <<>> /\ inField' = FALSE /\ body' = <<>>
    /\ complete' = FALSE /\ response' = <<>>

\* What llhttp makes of the first n pieces: after llhttp_init it takes only
\* the start of a request.
Understood(n, fresh) == IF fresh /\ wire[1].is # "start" THEN <<Junk>> ELSE SubSeq(wire, 1, n)

\* OnData: Reset if the last message was complete, then Parse.  Reset clears
\* the buffers a write may still be waiting to send, and forgets the first
\* part of a request that came with the end of the last.
OnData ==
    /\ phase = "poll" /\ conn = "open" /\ wire # <<>>
    /\ \E n \in 1..Len(wire) :
         /\ Dispatch(Understood(n, complete))
         /\ wire' = SubSeq(wire, n + 1, Len(wire))
    /\ IF complete
       THEN Emptied /\ pending' = [i \in DOMAIN pending |-> Spoilt]
       ELSE UNCHANGED <<requestVars, pending>>
    /\ UNCHANGED <<server, conn, asked, patient, got, phase, closing, batch>>

\* The parser's next call.
Parsing(is) == phase = "poll" /\ calls # <<>> /\ Head(calls).is = is
Given == Head(calls).of
Parsed ==
    /\ Continue(<<>>)
    /\ UNCHANGED <<server, conn, peerVars, complete, response, pending, got, phase, closing, batch>>

ParserOnUrl ==
    /\ Parsing("start") \/ Parsing("url")
    /\ url' = Append(url, Given)
    /\ UNCHANGED <<headers, inField, body>> /\ Parsed

\* Variant: each part of a name is a header.
ParserOnHeaderFieldAlways ==
    /\ Parsing("field")
    /\ headers' = Append(headers, [key |-> <<Given>>, value |-> <<>>])
    /\ inField' = TRUE
    /\ UNCHANGED <<url, body>> /\ Parsed

\* A name goes on as long as no value came.
ParserOnHeaderField ==
    /\ Parsing("field")
    /\ headers' = IF inField THEN [headers EXCEPT ![Len(headers)].key = Append(@, Given)]
                  ELSE Append(headers, [key |-> <<Given>>, value |-> <<>>])
    /\ inField' = TRUE
    /\ UNCHANGED <<url, body>> /\ Parsed

ParserOnHeaderValue ==
    /\ Parsing("value")
    /\ headers' = [headers EXCEPT ![Len(headers)].value = Append(@, Given)]
    /\ inField' = FALSE
    /\ UNCHANGED <<url, body>> /\ Parsed

ParserOnBody ==
    /\ Parsing("body")
    /\ body' = Append(body, Given)
    /\ UNCHANGED <<url, headers, inField>> /\ Parsed

\* Parse returns an error and OnData closes the client.
ParseFails ==
    /\ Parsing("junk")
    /\ calls' = <<>>
    /\ CloseClient
    /\ UNCHANGED <<server, peerVars, requestVars, pending, got, phase, batch>>

\* Response::End.  Text that is added may move the buffers, and libuv sends
\* at once what the socket takes if nothing else waits.
Respond ==
    /\ response' = Append(response, url)
    /\ \E moved \in BOOLEAN :
         LET waiting == IF moved THEN [i \in DOMAIN pending |-> Spoilt] ELSE pending
         IN \/ pending' = Append(waiting, response') /\ UNCHANGED got
            \/ pending = <<>> /\ UNCHANGED pending /\ got' = Append(got, response')

ClosesServer == server = "open" /\ \E r \in Shutdown : <<url>> = AnswerTo(r)

\* Variant: the handler does not answer what shuts the server down.
MessageCompleteNoAnswer ==
    /\ Parsing("end") /\ server # "deleted"
    /\ complete' = TRUE
    /\ IF ClosesServer
       THEN server' = "closing" /\ CloseHandles(<<"server">>) /\ UNCHANGED <<response, pending, got>>
       ELSE Respond /\ UNCHANGED <<server, closing>>
    /\ Continue(<<>>)
    /\ UNCHANGED <<conn, peerVars, messageVars, phase, batch>>

\* ParserOnMessageComplete: OnRequestComplete of the server, and its handler.
MessageComplete ==
    /\ Parsing("end") /\ server # "deleted"
    /\ complete' = TRUE
    /\ IF ClosesServer
       THEN server' = "closing" /\ CloseHandles(<<"server">>)
       ELSE UNCHANGED <<server, closing>>
    /\ Respond
    /\ Continue(<<>>)
    /\ UNCHANGED <<conn, peerVars, messageVars, phase, batch>>

\* OnRead at the end of the stream or with an error: the client is closed.
ReadEnds ==
    /\ phase = "poll" /\ Idle /\ conn = "open"
    /\ CloseClient
    /\ UNCHANGED <<server, peerVars, requestVars, pending, got, phase, batch, calls>>

-----------------------------------------------------------------------------
(* Writing and closing. *)

\* The socket takes the first write; OnWrite2 finds nobody to tell.
Written ==
    /\ phase = "poll" /\ Idle /\ pending # <<>> /\ conn = "open"
    /\ got' = Append(got, Head(pending))
    /\ pending' = Tail(pending)
    /\ UNCHANGED <<server, conn, peerVars, requestVars, loopVars>>

\* Variant: the first write that fails deletes the Request.
WriteFailsDeletes ==
    /\ Idle /\ pending # <<>>
    /\ \/ phase = "poll" /\ conn = "open"
       \/ phase = "closing" /\ batch # <<>> /\ Head(batch) = "client"
    /\ pending' = Tail(pending)
    /\ conn' = "deleted"
    /\ IF conn = "open" THEN CloseHandles(<<"client">>) ELSE UNCHANGED closing
    /\ UNCHANGED <<server, peerVars, requestVars, got, phase, batch, calls>>

\* OnWrite2 with an error, or cancelled because the client is being closed.
WriteFails ==
    /\ Idle /\ pending # <<>>
    /\ \/ phase = "poll" /\ conn = "open"
       \/ phase = "closing" /\ batch # <<>> /\ Head(batch) = "client"
    /\ pending' = Tail(pending)
    /\ CloseClient
    /\ UNCHANGED <<server, peerVars, requestVars, got, phase, batch, calls>>

\* The client's close callback deletes the Request, then the client.
ClientClosed ==
    /\ pending = <<>> /\ TakeClosed("client")
    /\ conn' = "deleted"
    /\ UNCHANGED <<server, peerVars, requestVars, pending, got, phase, closing, calls>>

ServerClosed ==
    /\ TakeClosed("server")
    /\ server' = "deleted"
    /\ UNCHANGED <<conn, peerVars, requestVars, pending, got, phase, closing, calls>>

-----------------------------------------------------------------------------

Init ==
    /\ LoopInit
    /\ server = "open" /\ conn = "none"
    /\ asked = 0 /\ patient = TRUE /\ wire = <<>> /\ pending = <<>> /\ got = <<>>
    /\ url = <<>> /\ headers = <<>> /\ inField = FALSE /\ body = <<>>
    /\ complete = FALSE /\ response = <<>>

LoopStep == Iterate /\ UNCHANGED <<server, conn, peerVars, requestVars, pending, got>>

Callback ==
    \/ ParserOnUrl \/ ParserOnHeaderField \/ ParserOnHeaderValue \/ ParserOnBody
    \/ ParseFails \/ MessageComplete \/ ClientClosed \/ ServerClosed

Next ==
    \/ Connect \/ PeerAsks \/ PeerSpoils
    \/ OnData \/ ReadEnds \/ Written \/ WriteFails
    \/ ParserOnUrl \/ ParserOnHeaderField \/ ParserOnHeaderValue \/ ParserOnBody
    \/ ParseFails \/ MessageComplete \/ ClientClosed \/ ServerClosed
    \/ LoopStep

Spec == Init /\ [][Next]_vars

\* uv_run never stops, reads what is there and writes what waits; the peer
\* reads.
Fairness ==
    /\ WF_vars(LoopStep) /\ WF_vars(Callback)
    /\ SF_vars(OnData) /\ SF_vars(Written) /\ SF_vars(WriteFails /\ phase = "closing")
FairSpec == Spec /\ Fairness

-----------------------------------------------------------------------------
(* Properties. *)

\* A peer that waits for each response gets the answers to its requests, in
\* their order, each whole and alone, however TCP cuts them up.
AnswersInOrder == patient => \A i \in DOMAIN got : got[i] = AnswerTo(i)

\* A request that a patient peer sent is told apart into its url, its headers
\* and its body, however TCP and the parser cut it, and has nothing of the
\* requests before it; but the name of a header without value and the next
\* name run together (http_message.cc:17-50).
RequestIsWhole ==
    complete /\ patient =>
        \E r \in 1..MaxRequests :
            /\ url = <<r, r>> /\ body = <<r, r>>
            /\ headers = IF r \in EmptyValue THEN <<[key |-> <<1, 1, 2>>, value |-> <<2>>]>>
                         ELSE <<[key |-> <<1, 1>>, value |-> <<1>>], [key |-> <<2>>, value |-> <<2>>]>>

\* libuv never holds the address of a buffer of a Request that was deleted.
BuffersOutliveWrites == conn = "deleted" => pending = <<>>

\* A request that was sent is answered, even the one that shuts the server
\* down, or the connection ends.
AnsweredOrClosed ==
    \A r \in 1..MaxRequests : asked >= r ~> Len(got) >= r \/ conn = "deleted"
=============================================================================
