----------------------------- MODULE HttpExchange ------------------------------
(* What a client of the server gets for the bytes it sends: TcpConnection's  *)
(* cut of its input into requests, the request handler of serveWithEventLoop *)
(* with SearchApplication::handleRequest behind it, and the answers.  The    *)
(* bytes arrive in portions of any size.  That answers are written in pieces *)
(* and that results come through the task queue is TcpConnection.tla's       *)
(* subject; here an answer is complete in one step.                          *)
EXTENDS HttpRequest

CONSTANT Stream     \* what a client may send on its connection

ASSUME StreamAssumption == Stream \subseteq Seq(0..255)

VARIABLES
    stream,         \* all that this client will send, if it does not shut down
    received,       \* bytes of it that have been read
    input_buffer_,
    peer_closed_,
    requests,       \* history: requests taken from the input
    answers,        \* history: answers to them, all but the last or to all
    open            \* fd_ >= 0

vars == <<stream, received, input_buffer_, peer_closed_, requests, answers, open>>

processing_request_ == Len(requests) > Len(answers)

\* The last answer closes the connection.
close_after_response_ == answers # <<>> /\ Last(answers).close

TypeOK ==
    /\ stream \in Stream
    /\ received \in 0..Len(stream)
    /\ input_buffer_ \in Seq(0..255)
    /\ peer_closed_ \in BOOLEAN
    /\ requests \in Seq(Seq(0..255))
    /\ Len(answers) \in {Len(requests), Len(requests) - 1}
    /\ open \in BOOLEAN

Init ==
    /\ stream \in Stream
    /\ received = 0
    /\ input_buffer_ = <<>>
    /\ peer_closed_ = FALSE
    /\ requests = <<>>
    /\ answers = <<>>
    /\ open = TRUE

--------------------------------------------------------------------------------
(* Input.                                                                    *)

HasCompleteRequest(input) == Find(input, BlankLine) > 0

ProcessRequest(input) ==
    LET request_end == Find(input, BlankLine) + 3
    IN  /\ requests' = Append(requests, SubSeq(input, 1, request_end))
        /\ input_buffer_' = From(input, request_end + 1)

\* What recv gives until it would block, or until it reports the peer's FIN.
Read(n, fin) ==
    /\ open /\ ~peer_closed_
    /\ n > 0 \/ fin
    /\ received' = received + n
    /\ peer_closed_' = fin
    /\ UNCHANGED <<stream, answers>>

\* Fault: the end of a request is looked for in what has just been read.
Faulty_HandleRead(n, fin) ==
    /\ Read(n, fin)
    /\ LET new == SubSeq(stream, received + 1, received + n)
           input == input_buffer_ \o new
       IN  IF ~processing_request_ /\ HasCompleteRequest(new)
           THEN ProcessRequest(input) /\ UNCHANGED open
           ELSE /\ input_buffer_' = input
                /\ open' = ~(fin /\ ~processing_request_)
                /\ UNCHANGED requests

HandleRead(n, fin) ==
    /\ Read(n, fin)
    /\ LET input == input_buffer_ \o SubSeq(stream, received + 1, received + n)
       IN  IF ~processing_request_ /\ HasCompleteRequest(input)
           THEN ProcessRequest(input) /\ UNCHANGED open
           ELSE /\ input_buffer_' = input
                /\ open' = ~(fin /\ ~processing_request_)
                /\ UNCHANGED requests

--------------------------------------------------------------------------------
(* Answers.                                                                  *)

Hex(digit) == IF digit < 10 THEN 48 + digit ELSE 87 + digit

EscapeCharacter(c) ==
    CASE c \in {Quote, Backslash} -> <<Backslash, c>>
      [] c = 8   -> <<Backslash, 98>>
      [] c = 12  -> <<Backslash, 102>>
      [] c = LF  -> <<Backslash, 110>>
      [] c = CR  -> <<Backslash, 114>>
      [] c = Tab -> <<Backslash, 116>>
      [] c < 32 /\ c \notin {8, Tab, LF, 12, CR} ->
            <<Backslash, 117, 48, 48, Hex(c \div 16), Hex(c % 16)>>
      [] OTHER   -> <<c>>

EscapeJson(value) == FlattenSeq([i \in DOMAIN value |-> EscapeCharacter(value[i])])

\* A response and close_after_response: the status, whether its Connection header
\* says close, and of the body of a search what follows {"query":".
Response(status, announced, body, close) ==
    [status |-> status, announced |-> announced, body |-> body, close |-> close]

ToJson(query) == Append(EscapeJson(query), Quote)

\* Fault: badRequest is called without its second argument, which is false then.
Faulty_SearchResponse(request, close) ==
    LET query == FindQueryParam(request, QueryName)
    IN  IF query \subseteq {<<>>} THEN {Response(400, FALSE, <<>>, close)}
        ELSE {Response(200, close, ToJson(q), close) : q \in query}

\* /search, with the results from the cache or not.
SearchResponse(request, close) ==
    LET query == FindQueryParam(request, QueryName)
    IN  IF query \subseteq {<<>>} THEN {Response(400, close, <<>>, close)}
        ELSE {Response(200, close, ToJson(q), close) : q \in query}

Route(request, close) ==
    IF request.path = SearchPath THEN SearchResponse(request, close)
    ELSE {Response(IF request.path = <<Slash>> THEN 200 ELSE 404, close, <<>>, close)}

HandleRequest(raw_request) ==
    LET parsed == {r \in ParseRequest(raw_request) : r.method = Get}
    IN  IF parsed = {} THEN {Response(400, FALSE, <<>>, FALSE)}
        ELSE UNION {UNION {Route(r, close) : close \in ShouldCloseConnection(r)} : r \in parsed}

\* An exception on the way.
InternalServerError == Response(500, TRUE, <<>>, TRUE)

\* What main.cpp has a worker do: it answers /metrics itself.
RequestHandler(raw_request) ==
    LET metrics == {r \in ParseRequest(raw_request) : r.method = Get /\ r.path = MetricsPath}
    IN  {InternalServerError} \cup
            IF metrics = {} THEN HandleRequest(raw_request)
            ELSE UNION {{Response(200, close, <<>>, close) : close \in ShouldCloseConnection(r)} :
                            r \in metrics}

\* finishRequest and handleWrite, with a socket that takes all of the response.
Answer ==
    /\ open /\ processing_request_
    /\ \E response \in RequestHandler(Last(requests)) :
          /\ answers' = Append(answers, response)
          /\ IF ~response.close /\ HasCompleteRequest(input_buffer_)
             THEN ProcessRequest(input_buffer_) /\ UNCHANGED open
             ELSE /\ open' = ~(response.close \/ peer_closed_)
                  /\ UNCHANGED <<requests, input_buffer_>>
    /\ UNCHANGED <<stream, received, peer_closed_>>

Next ==
    \/ \E n \in 0..Len(stream) - received, fin \in BOOLEAN : HandleRead(n, fin)
    \/ Answer

Spec == Init /\ [][Next]_vars

--------------------------------------------------------------------------------
(* Properties.                                                               *)

\* The requests and what is still buffered are the bytes received, in order.
NothingIsSkipped == FlattenSeq(requests) \o input_buffer_ = SubSeq(stream, 1, received)

\* The first blank line of a request is its end.
EndsAtBlankLine ==
    \A i \in DOMAIN requests : Find(requests[i], BlankLine) = Len(requests[i]) - 3

\* A complete request waits only while another one is answered.
NoneIsForgotten ==
    processing_request_ \/ close_after_response_ \/ ~HasCompleteRequest(input_buffer_)

\* Requests are the parts of the stream up to each blank line, wherever its bytes
\* were divided, and none is left behind: not by a connection that waits for
\* input, nor by one that closes because the peer has shut down (TcpConnection.cpp,
\* handleRead, handleWrite, processRequest).
RequestsAreFramed == NothingIsSkipped /\ EndsAtBlankLine /\ NoneIsForgotten

\* The client can tell from the Connection header whether the server will close:
\* no answer follows one that says close, and unless the client has shut down
\* the connection closes after such an answer only (HttpResponse.cpp, response;
\* SearchApplication.cpp, handleRequest; TcpConnection.cpp, handleWrite).
CloseIsAnnounced ==
    /\ \A i \in DOMAIN answers : answers[i].announced => i = Len(requests) /\ ~open
    /\ open \/ peer_closed_ \/ Last(answers).announced

\* What a query string means, said without following the parser: an escape is a
\* percent sign and the two digits after it, and what is in no escape stands for
\* itself, a plus for a blank.
WellEscaped(e) ==
    \A i \in DOMAIN e : e[i] = Percent =>
        i + 2 <= Len(e) /\ \A d \in {e[i + 1], e[i + 2]} : HexValue(d) # {}

Meaning(e) ==
    LET kept == {i \in DOMAIN e : \A k \in {i - 1, i - 2} \cap DOMAIN e : e[k] # Percent}
        place(n) == CHOOSE i \in kept : Cardinality({j \in kept : j <= i}) = n
        number(i) == CHOOSE b \in 0..255 : /\ b \div 16 \in HexValue(e[i + 1])
                                           /\ b % 16 \in HexValue(e[i + 2])
        stands(i) == CASE e[i] = Percent -> number(i)
                       [] e[i] = Plus    -> Space
                       [] OTHER          -> e[i]
    IN  [n \in 1..Cardinality(kept) |-> stands(place(n))]

\* The query string of a search with well-formed headers.
QueryString(request) ==
    LET start == Get \o <<Space>> \o SearchPath \o <<Question>>
        rest == From(request, Len(start) + 1)
        query == Before(rest, Find(rest, <<Space>>))
    IN  IF IsPrefix(start, request) /\ Find(query, NewLine) = 0
           /\ \A line \in ToSet(Tail(Split(request, NewLine))) :
                  line = <<>> \/ Find(line, <<Colon>>) > 1
        THEN {query} ELSE {}

\* Parameters as pairs of places: a name starts after "?" or "&" and ends before
\* the first "=", the value ends before the next "&".
Params(query) ==
    {p \in (DOMAIN query) \X (DOMAIN query) :
        /\ p[1] < p[2] /\ query[p[2]] = Equals
        /\ p[1] = 1 \/ query[p[1] - 1] = Ampersand
        /\ \A i \in p[1]..p[2] - 1 : query[i] \notin {Equals, Ampersand}}

NameOf(query, p) == SubSeq(query, p[1], p[2] - 1)
ValueOf(query, p) ==
    SubSeq(query, p[2] + 1,
           Min({i \in p[2]..Len(query) : i = Len(query) \/ query[i + 1] = Ampersand}))

\* What a reader of the answer takes from its JSON: the string up to the quote
\* that ends the part of the body modelled, none if it is no JSON string.
ReadJson(body) ==
    LET taken(i) == IF body[i] # Backslash THEN 1 ELSE IF body[i + 1] = 117 THEN 6 ELSE 2
        character(i) ==
            IF body[i] = Quote \/ body[i] < 32 THEN {}
            ELSE IF body[i] # Backslash THEN {body[i]}
            ELSE LET c == body[i + 1]
                 IN  CASE c \in {Quote, Backslash} -> {c}
                       [] c = 98  -> {8}
                       [] c = 102 -> {12}
                       [] c = 110 -> {LF}
                       [] c = 114 -> {CR}
                       [] c = 116 -> {Tab}
                       [] c = 117 /\ body[i + 2] = 48 /\ body[i + 3] = 48 ->
                             Byte(HexValue(body[i + 4]), HexValue(body[i + 5]))
                       [] OTHER   -> {}
        read[i \in 1..Len(body)] ==
            IF i = Len(body) THEN IF body[i] = Quote THEN {<<>>} ELSE {}
            ELSE IF i + taken(i) > Len(body) THEN {}
            ELSE Prepend(character(i), read[i + taken(i)])
    IN  IF body = <<>> THEN {} ELSE read[1]

\* A search is refused if an escape of a parameter is malformed or the first
\* parameter named q is missing or empty, and otherwise answered with JSON that
\* names exactly the query the client wrote (HttpRequest.cpp, urlDecode,
\* parseQueryString; SearchApplication.cpp, escapeJson).
AnswersNameTheQuery == \A i \in DOMAIN answers : answers[i].status # 500 =>
    \A query \in QueryString(requests[i]) :
        LET params == Params(query)
            wrong == {p \in params : ~(WellEscaped(NameOf(query, p)) /\ WellEscaped(ValueOf(query, p)))}
            named == {p \in params : Meaning(NameOf(query, p)) = QueryName}
            first == CHOOSE p \in named : \A o \in named : p[1] <= o[1]
            refused == wrong # {} \/ named = {} \/ ValueOf(query, first) = <<>>
        IN  /\ refused <=> answers[i].status = 400
            /\ refused \/ ReadJson(answers[i].body) = {Meaning(ValueOf(query, first))}
================================================================================
