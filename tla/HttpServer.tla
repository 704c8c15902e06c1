------------------------------ MODULE HttpServer ------------------------------
(***************************************************************************)
(* One connection of HttpServer.cc: the requests of a peer arrive as a      *)
(* stream that is cut anywhere, TcpConnection reads a piece at a time into  *)
(* its input buffer, and HttpContext::parseRequest goes on where it was.    *)
(* A text is a sequence of tokens: a line without its end, CR, LF, or a     *)
(* piece of a body.                                                         *)
(***************************************************************************)
EXTENDS Naturals, FiniteSets, SequencesExt

CONSTANTS
    Shapes,       \* the forms of requests: [line, fields, query, body]
    MaxRequests,  \* bound: requests on the connection
    MaxFields     \* bound: headers of a request

Lines  == {"good", "bad"}           \* does processRequestLine take it?
Fields == {"field", "colonless"}

ASSUME ShapeAssumption ==
    /\ Shapes \subseteq [line : Lines, fields : Seq(Fields), query : BOOLEAN, body : Nat]
    /\ \A s \in Shapes : Len(s.fields) <= MaxFields
    /\ MaxRequests \in Nat /\ MaxFields \in Nat

VARIABLES
    requests,   \* the requests of the peer
    consumed,   \* tokens of them that were read
    buffer,     \* inputBuffer_
    parsing,    \* in the loop of parseRequest
    parseState, \* HttpContext: state_
    request,    \* HttpContext: request_
    open,       \* the connection is kConnected
    aborted,    \* LOG_FATAL has ended the process
    handled,    \* history: the requests httpCallback_ was called with
    sent,       \* history: responses handed to send(): a request's number, or 400
    clean       \* history: no read has ended or gone on where it matters

connection == <<consumed, buffer>>
httpVars ==
    <<requests, connection, parsing, parseState, request, open, aborted, handled, sent, clean>>

-----------------------------------------------------------------------------
(* The text of the requests, with the number of the request in each token   *)

Token(k, r) == [kind |-> k, of |-> r]

Text(r) ==
    LET s == requests[r]
        line(k) == <<Token(k, r), Token("CR", r), Token("LF", r)>>
    IN  line(s.line)
        \o FlattenSeq([i \in DOMAIN s.fields |-> line(s.fields[i])])
        \o <<Token("CR", r), Token("LF", r)>>
        \o [i \in 1 .. s.body |-> Token("body", r)]

Stream == FlattenSeq([r \in DOMAIN requests |-> Text(r)])

\* Where a request ends in the stream, and its header.
End(r) == Len(FlattenSeq([q \in 1 .. r |-> Text(q)]))
HeaderEnd(r) == End(r) - requests[r].body

NoRequest == [line |-> 0, fields |-> 0, params |-> {}, body |-> <<>>]

HttpTypeOK ==
    /\ requests \in [1 .. MaxRequests -> Shapes]
    /\ consumed \in 0 .. Len(Stream)
    /\ Len(buffer) <= consumed /\ buffer = SubSeq(Stream, consumed - Len(buffer) + 1, consumed)
    /\ parsing \in BOOLEAN /\ open \in BOOLEAN /\ aborted \in BOOLEAN /\ clean \in BOOLEAN
    /\ parseState \in {"kExpectRequestLine", "kExpectHeaders", "kExpectBody", "kGotAll"}
    /\ request.line \in 0 .. MaxRequests /\ request.fields \in 0 .. MaxFields
    /\ request.params \subseteq DOMAIN requests

HttpInit ==
    /\ requests \in [1 .. MaxRequests -> Shapes]
    /\ consumed = 0 /\ buffer = <<>>
    /\ parsing = FALSE
    /\ parseState = "kExpectRequestLine" /\ request = NoRequest
    /\ open = TRUE /\ aborted = FALSE
    /\ handled = <<>> /\ sent = <<>> /\ clean = TRUE

-----------------------------------------------------------------------------
\* A piece that ends before the body of a request is complete but after its
\* header, or that goes on with the next request.
Harmful(p, q) ==
    \E r \in DOMAIN requests :
        \/ HeaderEnd(r) <= q /\ q < End(r)
        \/ p < End(r) /\ End(r) < q

\* handleRead: readFd takes what has arrived and onMessage parses it.
OnMessage ==
    /\ ~parsing /\ ~aborted
    /\ \E n \in 1 .. Len(Stream) - consumed :
         /\ consumed' = consumed + n
         /\ buffer' = buffer \o SubSeq(Stream, consumed + 1, consumed + n)
         /\ clean' = (clean /\ ~Harmful(consumed, consumed + n))
    /\ parsing' = TRUE
    /\ UNCHANGED <<requests, parseState, request, open, aborted, handled, sent>>

\* Buffer::findCRLF searches for the first character of CRLF only; 0 is nullptr.
FindCRLF == SelectInSeq(buffer, LAMBDA t : t.kind = "CR")

\* TcpConnection::send takes the response while the connection is open.  Whether
\* it reaches the socket is not known here: sendInLoop drops what write() cannot
\* take (TcpConnection).
SendResponse(m) == sent' = IF open THEN Append(sent, m) ELSE sent

\* Mutant: the end of the line stays in the buffer.
RetrieveLineEnd ==
    IF FindCRLF = Len(buffer) THEN aborted' = TRUE /\ UNCHANGED buffer
    ELSE buffer' = SubSeq(buffer, FindCRLF + 1, Len(buffer)) /\ UNCHANGED aborted

\* retrieveUntil(crlf + 2); behind the last CR there is nothing to retrieve yet.
RetrieveLine ==
    IF FindCRLF = Len(buffer) THEN aborted' = TRUE /\ UNCHANGED buffer
    ELSE buffer' = SubSeq(buffer, FindCRLF + 2, Len(buffer)) /\ UNCHANGED aborted

\* processRequestLine succeeds: parameters of the query are added to params_.
ParseRequestLine ==
    /\ parsing /\ parseState = "kExpectRequestLine"
    /\ FindCRLF = 2 /\ buffer[1].kind = "good"
    /\ LET r == buffer[1].of IN
         request' = [request EXCEPT !.line = r,
                                    !.params = IF requests[r].query THEN @ \cup {r} ELSE @]
    /\ RetrieveLine
    /\ parseState' = "kExpectHeaders" /\ parsing' = ~aborted'
    /\ UNCHANGED <<requests, consumed, open, handled, sent, clean>>

\* It fails: the line stays in the buffer, and the answer is 400 each time.
RejectRequestLine ==
    /\ parsing /\ parseState = "kExpectRequestLine"
    /\ FindCRLF # 0 /\ ~(FindCRLF = 2 /\ buffer[1].kind = "good")
    /\ SendResponse(400)
    /\ parsing' = FALSE
    /\ UNCHANGED <<requests, connection, parseState, request, open, aborted, handled, clean>>

\* A line without a colon, empty or not, ends the headers.
ParseHeader ==
    /\ parsing /\ parseState = "kExpectHeaders"
    /\ FindCRLF # 0
    /\ IF \E i \in 1 .. FindCRLF - 1 : buffer[i].kind = "field"
       THEN request' = [request EXCEPT !.fields = @ + 1] /\ UNCHANGED parseState
       ELSE parseState' = "kExpectBody" /\ UNCHANGED request
    /\ RetrieveLine
    /\ parsing' = ~aborted'
    /\ UNCHANGED <<requests, consumed, open, handled, sent, clean>>

\* hasMore = false: no end of line in what has come so far.
AwaitMore ==
    /\ parsing /\ parseState \in {"kExpectRequestLine", "kExpectHeaders"}
    /\ FindCRLF = 0
    /\ parsing' = FALSE
    /\ UNCHANGED <<requests, connection, parseState, request, open, aborted, handled, sent, clean>>

\* The body is what is in the buffer.
ParseBody ==
    /\ parsing /\ parseState = "kExpectBody"
    /\ request' = [request EXCEPT !.body = buffer]
    /\ buffer' = <<>>
    /\ parseState' = "kGotAll"
    /\ UNCHANGED <<requests, consumed, parsing, open, aborted, handled, sent, clean>>

\* Mutant: the headers stay too.
ResetKeepsHeaders ==
    /\ parseState' = "kExpectRequestLine"
    /\ request' = [NoRequest EXCEPT !.params = request.params, !.fields = request.fields]

\* HttpContext::reset: HttpRequest::swap leaves params_ (and body_) as they are.
Reset ==
    /\ parseState' = "kExpectRequestLine"
    /\ request' = [NoRequest EXCEPT !.params = request.params, !.body = request.body]

\* onRequest calls httpCallback_ and sends the response; Connection, the version
\* or the callback decide whether the connection is shut down.
OnRequest ==
    /\ parsing /\ parseState = "kGotAll"
    /\ handled' = Append(handled, request)
    /\ SendResponse(request.line)
    /\ open' \in {open, FALSE}
    /\ Reset
    /\ parsing' = FALSE
    /\ UNCHANGED <<requests, connection, aborted, clean>>

HttpNext ==
    \/ OnMessage
    \/ ParseRequestLine \/ RejectRequestLine \/ ParseHeader \/ AwaitMore \/ ParseBody
    \/ OnRequest

HttpSpec == HttpInit /\ [][HttpNext]_httpVars

-----------------------------------------------------------------------------
(* Properties                                                               *)

WellFormed(r) ==
    requests[r].line = "good" /\ \A i \in DOMAIN requests[r].fields : requests[r].fields[i] = "field"

Begun(r) == r = 1 \/ End(r - 1) < consumed

\* Wherever the stream is cut into pieces, every request that has come whole is
\* handed to the callback once, in order, with its own headers, its own body and
\* at least its own parameters, provided that requests are well formed and that
\* a body comes in one piece with the end of its header and without the next
\* request (HttpContext.cc:78 takes what is there); their responses are handed to
\* send() in order until one closes the connection, and none is a 400.  The
\* process survives unless a piece ends between CR and LF.
HandledWhole ==
    /\ aborted => Stream[consumed].kind = "CR"
    /\ ~parsing /\ ~aborted /\ clean /\ (\A r \in DOMAIN requests : Begun(r) => WellFormed(r)) =>
         /\ Len(handled) = Cardinality({r \in DOMAIN requests : End(r) <= consumed})
         /\ \A i \in DOMAIN sent : sent[i] = i
         /\ \A r \in DOMAIN handled :
              /\ handled[r].line = r
              /\ handled[r].fields = Len(requests[r].fields)
              /\ handled[r].body = [i \in 1 .. requests[r].body |-> Token("body", r)]
              /\ requests[r].query => r \in handled[r].params
=============================================================================
