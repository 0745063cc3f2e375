--------------------------- MODULE HttpExchangeProofs --------------------------
(* The Connection header and the connection agree, for any bytes of any      *)
(* clients: that proof does not look into the parser.  The requests are the  *)
(* bytes received, cut at each blank line.  And a search is answered with    *)
(* the query it asks for: this proof goes through the parser, the decoder    *)
(* and the JSON writer, each compared with what its input means.             *)
EXTENDS HttpExchange, SequenceTheorems, WellFoundedInduction, FunctionTheorems,
        FiniteSetTheorems, TLAPS

\* Every answer says what the connection does next.
LEMMA AnnouncedIsDone ==
    ASSUME NEW raw_request, NEW response \in RequestHandler(raw_request)
    PROVE  response.announced = response.close
<1>1. CASE response = InternalServerError
  BY <1>1 DEF InternalServerError, Response
<1>2. CASE response \in HandleRequest(raw_request)
  <2>1. CASE response = Response(400, FALSE, <<>>, FALSE)
    BY <2>1 DEF Response
  <2>2. CASE \E r, close : response \in Route(r, close)
    <3>1. PICK r, close : response \in Route(r, close)
      BY <2>2
    <3>2. CASE response \in SearchResponse(r, close)
      BY <3>2 DEF SearchResponse, Response
    <3>3. CASE response \notin SearchResponse(r, close)
      BY <3>1, <3>3 DEF Route, Response
    <3>4. QED
      BY <3>2, <3>3
  <2> DEFINE parsed == {r \in ParseRequest(raw_request) : r.method = Get}
  <2>3. CASE parsed = {}
    BY <1>2, <2>1, <2>3 DEF HandleRequest
  <2>4. CASE parsed # {}
    <3>1. response \in UNION {UNION {Route(r, close) : close \in ShouldCloseConnection(r)} :
                                r \in parsed}
      BY <1>2, <2>4 DEF HandleRequest
    <3> HIDE DEF parsed
    <3>2. PICK r \in parsed :
                response \in UNION {Route(r, close) : close \in ShouldCloseConnection(r)}
      BY <3>1
    <3>3. QED
      BY <2>2, <3>2
  <2>5. QED
    BY <2>3, <2>4
<1>3. CASE \E close : response = Response(200, close, <<>>, close)
  BY <1>3 DEF Response
<1> DEFINE metrics == {r \in ParseRequest(raw_request) : r.method = Get /\ r.path = MetricsPath}
<1>4. CASE response \in UNION {{Response(200, close, <<>>, close) :
                                    close \in ShouldCloseConnection(r)} : r \in metrics}
  <2> HIDE DEF metrics
  <2>1. PICK r \in metrics :
            response \in {Response(200, close, <<>>, close) : close \in ShouldCloseConnection(r)}
    BY <1>4
  <2>2. QED
    BY <1>3, <2>1
<1>5. QED
  BY <1>1, <1>2, <1>4 DEF RequestHandler

\* The inductive invariant: while the connection is open nothing has been
\* announced, and each request but the last has its answer.
IInv ==
    /\ \E S : answers \in Seq(S)
    /\ \E S : requests \in Seq(S)
    /\ Len(requests) \in {Len(answers), Len(answers) + 1}
    /\ \A i \in DOMAIN answers : answers[i].announced =>
          i = Len(answers) /\ Len(requests) = Len(answers) /\ ~open
    /\ open \/ peer_closed_ \/ (answers # <<>> /\ answers[Len(answers)].announced)

LEMMA InitInv == Init => IInv
<1>1. <<>> \in Seq({}) /\ Len(<<>>) = 0 /\ DOMAIN <<>> = {}
  OBVIOUS
<1>2. QED
  BY <1>1 DEF Init, IInv

\* One more request, or one more answer.
LEMMA AppendIs ==
    ASSUME NEW s, \E S : s \in Seq(S), NEW e
    PROVE  /\ \E S : Append(s, e) \in Seq(S)
           /\ Len(s) \in Nat /\ DOMAIN s = 1..Len(s)
           /\ Len(Append(s, e)) = Len(s) + 1
           /\ DOMAIN Append(s, e) = 1..Len(s) + 1
           /\ \A i \in 1..Len(s) : Append(s, e)[i] = s[i]
           /\ Append(s, e)[Len(s) + 1] = e
<1>1. PICK S : s \in Seq(S)
  OBVIOUS
<1> DEFINE T == S \cup {e}
<1>2. s \in Seq(T) /\ e \in T
  BY <1>1
<1>3. Append(s, e) \in Seq(T)
  BY <1>2
<1> HIDE DEF T
<1>4. QED
  BY <1>2, <1>3

LEMMA ReadStep ==
    ASSUME IInv, NEW n \in Nat, NEW fin \in BOOLEAN, HandleRead(n, fin)
    PROVE  IInv'
<1>1. /\ open /\ answers' = answers /\ peer_closed_' = fin
      /\ \A i \in DOMAIN answers : ~answers[i].announced
  BY DEF HandleRead, Read, IInv
<1>2. CASE requests' = requests /\ open' = ~(fin /\ ~processing_request_)
  BY <1>1, <1>2 DEF IInv
<1>3. CASE /\ ~processing_request_ /\ open' = open
           /\ \E r : requests' = Append(requests, r)
  <2>1. PICK r : requests' = Append(requests, r)
    BY <1>3
  <2>2. (\E S : requests' \in Seq(S)) /\ Len(requests') = Len(requests) + 1
    BY <2>1, AppendIs DEF IInv
  <2>3. Len(answers) \in Nat
    BY DEF IInv
  <2>4. Len(requests) = Len(answers)
    BY <1>3, <2>3 DEF IInv, processing_request_
  <2>5. QED
    BY <1>1, <1>3, <2>2, <2>4 DEF IInv
<1>4. QED
  BY <1>2, <1>3 DEF HandleRead, ProcessRequest

LEMMA AnswerStep == ASSUME IInv, Answer PROVE IInv'
<1>1. PICK response \in RequestHandler(Last(requests)) :
          /\ answers' = Append(answers, response)
          /\ IF ~response.close /\ HasCompleteRequest(input_buffer_)
             THEN ProcessRequest(input_buffer_) /\ UNCHANGED open
             ELSE /\ open' = ~(response.close \/ peer_closed_)
                  /\ UNCHANGED <<requests, input_buffer_>>
  BY DEF Answer
<1>2. response.announced = response.close
  BY AnnouncedIsDone
<1>3. open /\ peer_closed_' = peer_closed_ /\ \A i \in DOMAIN answers : ~answers[i].announced
  BY DEF Answer, IInv
<1>4. /\ \E S : answers' \in Seq(S)
      /\ Len(answers) \in Nat /\ DOMAIN answers = 1..Len(answers)
      /\ Len(answers') = Len(answers) + 1
      /\ DOMAIN answers' = 1..Len(answers) + 1
      /\ \A i \in 1..Len(answers) : answers'[i] = answers[i]
      /\ answers'[Len(answers) + 1] = response
  <2>1. (\E S : answers \in Seq(S)) /\ answers' = Append(answers, response)
    BY <1>1 DEF IInv
  <2>2. \E S : answers' \in Seq(S)
    BY <2>1, AppendIs
  <2>3. /\ Len(answers) \in Nat /\ DOMAIN answers = 1..Len(answers)
        /\ Len(answers') = Len(answers) + 1
        /\ DOMAIN answers' = 1..Len(answers) + 1
    BY <2>1, AppendIs
  <2>4. /\ \A i \in 1..Len(answers) : answers'[i] = answers[i]
        /\ answers'[Len(answers) + 1] = response
    BY <2>1, AppendIs
  <2>5. QED
    BY <2>2, <2>3, <2>4
<1>5. Len(requests) = Len(answers) + 1
  BY <1>4 DEF Answer, processing_request_, IInv
<1>6. \A i \in DOMAIN answers' : answers'[i].announced => i = Len(answers') /\ response.close
  BY <1>2, <1>3, <1>4
<1>7. answers' # <<>> /\ answers'[Len(answers')] = response
  BY <1>4
<1>8. CASE ~response.close /\ HasCompleteRequest(input_buffer_)
  <2>1. PICK r : requests' = Append(requests, r)
    BY <1>1, <1>8 DEF ProcessRequest
  <2>2. (\E S : requests' \in Seq(S)) /\ Len(requests') = Len(requests) + 1
    BY <2>1, AppendIs DEF IInv
  <2>3. open' = open
    BY <1>1, <1>8
  <2>4. QED
    BY <1>3, <1>4, <1>5, <1>6, <1>8, <2>2, <2>3 DEF IInv
<1>9. CASE ~(~response.close /\ HasCompleteRequest(input_buffer_))
  <2>1. requests' = requests /\ open' = ~(response.close \/ peer_closed_)
    BY <1>1, <1>9
  <2>2. \E S : requests' \in Seq(S)
    BY <2>1 DEF IInv
  <2>3. QED
    BY <1>2, <1>3, <1>4, <1>5, <1>6, <1>7, <2>1, <2>2 DEF IInv
<1>10. QED
  BY <1>8, <1>9

\* A client can tell from the Connection headers whether the server will close,
\* whatever it sends and however the bytes arrive (HttpResponse.cpp, response;
\* SearchApplication.cpp, handleRequest; TcpConnection.cpp, handleWrite).
THEOREM HeadersAreKept == Spec => []CloseIsAnnounced
<1>1. Init => IInv
  BY InitInv
<1>2. IInv /\ [Next]_vars => IInv'
  <2> SUFFICES ASSUME IInv, [Next]_vars PROVE IInv'
    OBVIOUS
  <2>1. CASE \E n \in 0..Len(stream) - received, fin \in BOOLEAN : HandleRead(n, fin)
    <3>1. PICK n \in 0..Len(stream) - received, fin \in BOOLEAN : HandleRead(n, fin)
      BY <2>1
    <3>2. n \in Nat
      OBVIOUS
    <3>3. QED
      BY <3>1, <3>2, ReadStep
  <2>2. CASE Answer
    BY <2>2, AnswerStep
  <2>3. CASE UNCHANGED vars
    BY <2>3 DEF vars, IInv
  <2>4. QED
    BY <2>1, <2>2, <2>3 DEF Next
<1>3. IInv => CloseIsAnnounced
  BY DEF IInv, CloseIsAnnounced, Last
<1>4. QED
  BY <1>1, <1>2, <1>3, PTL DEF Spec

--------------------------------------------------------------------------------
(* How the input is divided.  Here the proof does look into Find.            *)

LEMMA BlankLineIs ==
    /\ BlankLine \in Seq(0..255) /\ Len(BlankLine) = 4
    /\ BlankLine[1] = 13 /\ BlankLine[2] = 10 /\ BlankLine[3] = 13 /\ BlankLine[4] = 10
<1>1. NewLine \in Seq(0..255) /\ Len(NewLine) = 2 /\ NewLine[1] = 13 /\ NewLine[2] = 10
  BY DEF NewLine, CR, LF
<1>2. /\ NewLine \o NewLine \in Seq(0..255) /\ Len(NewLine \o NewLine) = 4
      /\ (NewLine \o NewLine)[1] = 13 /\ (NewLine \o NewLine)[2] = 10
      /\ (NewLine \o NewLine)[3] = 13 /\ (NewLine \o NewLine)[4] = 10
  <2>1. /\ NewLine \o NewLine \in Seq(0..255)
        /\ Len(NewLine \o NewLine) = Len(NewLine) + Len(NewLine)
        /\ \A i \in 1..Len(NewLine) + Len(NewLine) : (NewLine \o NewLine)[i] =
              IF i <= Len(NewLine) THEN NewLine[i] ELSE NewLine[i - Len(NewLine)]
    BY <1>1, ConcatProperties, ZenonT(60)
  <2> DEFINE b == NewLine \o NewLine
  <2> HIDE DEF b
  <2>2. \A i \in 1..4 : b[i] = IF i <= 2 THEN NewLine[i] ELSE NewLine[i - 2]
    BY <1>1, <2>1 DEF b
  <2>3. b[1] = 13 /\ b[2] = 10 /\ b[3] = 13 /\ b[4] = 10
    BY <1>1, <2>2
  <2>4. QED
    BY <1>1, <2>1, <2>3 DEF b
<1>3. QED
  BY <1>2 DEF BlankLine

\* A blank line begins at place i.
Blank(s, i) ==
    i + 3 <= Len(s) /\ s[i] = 13 /\ s[i + 1] = 10 /\ s[i + 2] = 13 /\ s[i + 3] = 10

LEMMA PrefixIsBlank ==
    ASSUME NEW s \in Seq(0..255), NEW i \in DOMAIN s
    PROVE  IsPrefix(BlankLine, SubSeq(s, i, Len(s))) <=> Blank(s, i)
<1> DEFINE t == SubSeq(s, i, Len(s))
<1>1. DOMAIN s = 1..Len(s) /\ Len(s) \in Nat /\ i \in 1..Len(s)
  BY LenProperties
<1>2. \A k \in i..Len(s) : s[k] \in 0..255
  BY <1>1, ElementOfSeq
<1>3. /\ t \in Seq(0..255) /\ Len(t) = Len(s) - i + 1
      /\ \A k \in 1..Len(s) - i + 1 : t[k] = s[i + k - 1]
  BY <1>1, <1>2, SubSeqProperties
<1> HIDE DEF t
<1> DEFINE b == SubSeq(BlankLine, 1, 4)
           u == SubSeq(t, 1, 4)
<1>4. b \in Seq(0..255) /\ Len(b) = 4 /\ \A k \in 1..4 : b[k] = BlankLine[k]
  <2>1. \A k \in 1..4 : BlankLine[k] \in 0..255
    BY BlankLineIs, ElementOfSeq
  <2>2. QED
    BY <2>1, SubSeqProperties
<1>5. CASE i + 3 <= Len(s)
  <2>1. \A k \in 1..4 : t[k] \in 0..255
    <3>1. Len(t) \in Nat /\ 4 <= Len(t)
      BY <1>1, <1>3, <1>5
    <3>2. \A k \in 1..4 : k \in 1..Len(t)
      BY <3>1
    <3>3. \A k \in 1..Len(t) : t[k] \in 0..255
      BY <1>3, ElementOfSeq
    <3>4. QED
      BY <3>2, <3>3
  <2>2. u \in Seq(0..255) /\ Len(u) = 4 /\ \A k \in 1..4 : u[k] = t[k]
    BY <2>1, SubSeqProperties
  <2> HIDE DEF b, u
  <2>3. b = u <=> \A k \in 1..4 : b[k] = u[k]
    BY <1>4, <2>2, SeqEqual, SMTT(30)
  <2>4. \A k \in 1..4 : u[k] = s[i + k - 1]
    BY <1>1, <1>3, <1>5, <2>2, SMTT(30)
  <2>5. u[1] = s[i] /\ u[2] = s[i + 1] /\ u[3] = s[i + 2] /\ u[4] = s[i + 3]
    BY <1>1, <2>4
  <2>6. b[1] = 13 /\ b[2] = 10 /\ b[3] = 13 /\ b[4] = 10
    BY <1>4, BlankLineIs
  <2>7. b = u <=> Blank(s, i)
    <3>1. (\A k \in 1..4 : b[k] = u[k])
             <=> b[1] = u[1] /\ b[2] = u[2] /\ b[3] = u[3] /\ b[4] = u[4]
      OBVIOUS
    <3>2. QED
      BY <1>5, <2>3, <2>5, <2>6, <3>1 DEF Blank
  <2>8. Len(BlankLine) <= Len(t)
    BY <1>1, <1>3, <1>5, BlankLineIs
  <2>9. QED
    BY <2>7, <2>8, BlankLineIs DEF IsPrefix, b, u, t
<1>6. CASE ~(i + 3 <= Len(s))
  <2>1. ~(Len(BlankLine) <= Len(t))
    BY <1>1, <1>3, <1>6, BlankLineIs
  <2>2. QED
    BY <1>6, <2>1 DEF IsPrefix, Blank, t
<1>7. QED
  BY <1>5, <1>6

Less == {p \in Nat \X Nat : p[1] < p[2]}

\* The least element of a set of numbers.
LEMMA MinIs ==
    ASSUME NEW T, T \subseteq Nat, T # {}
    PROVE  Min(T) \in T /\ \A y \in T : Min(T) <= y
<1>1. IsWellFoundedOn(Less, Nat)
  <2>1. Less = OpToRel(<, Nat)
    BY Zenon DEF OpToRel, Less
  <2>2. QED
    BY <2>1, NatLessThanWellFounded, Zenon
<1>2. PICK x \in T : \A y \in T : ~(<<y, x>> \in Less)
  BY <1>1, WFMin
<1>3. \A y \in T : x <= y
  <2> SUFFICES ASSUME NEW y \in T PROVE x <= y
    OBVIOUS
  <2>1. x \in Nat /\ y \in Nat
    OBVIOUS
  <2>2. y < x => <<y, x>> \in Less
    BY <2>1 DEF Less
  <2>3. QED
    BY <1>2, <2>1, <2>2
<1>4. QED
  BY <1>3 DEF Min

\* Find gives the first blank line, and 0 if there is none.
LEMMA FindIs ==
    ASSUME NEW s \in Seq(0..255)
    PROVE  LET k == Find(s, BlankLine)
           IN  \/ k = 0 /\ \A i \in 1..Len(s) : ~Blank(s, i)
               \/ /\ k \in 1..Len(s) /\ Blank(s, k)
                  /\ \A i \in 1..Len(s) : Blank(s, i) => k <= i
<1> DEFINE places == {i \in DOMAIN s : IsPrefix(BlankLine, SubSeq(s, i, Len(s)))}
<1>1. DOMAIN s = 1..Len(s)
  BY LenProperties
<1>2. places = {i \in 1..Len(s) : Blank(s, i)}
  BY <1>1, PrefixIsBlank
<1>3. Find(s, BlankLine) = IF places = {} THEN 0 ELSE Min(places)
  BY DEF Find
<1> HIDE DEF places
<1>4. places # {} => Min(places) \in places /\ \A y \in places : Min(places) <= y
  <2>1. places \subseteq Nat
    BY <1>2
  <2>2. QED
    BY <2>1, MinIs
<1>5. QED
  BY <1>2, <1>3, <1>4

\* A request is the input up to its first blank line, and has no other.
LEMMA CutIs ==
    ASSUME NEW s \in Seq(0..255), HasCompleteRequest(s)
    PROVE  LET e == Find(s, BlankLine) + 3
           IN  /\ SubSeq(s, 1, e) \in Seq(0..255)
               /\ Find(SubSeq(s, 1, e), BlankLine) = Len(SubSeq(s, 1, e)) - 3
               /\ From(s, e + 1) \in Seq(0..255)
<1> DEFINE k == Find(s, BlankLine)
           r == SubSeq(s, 1, k + 3)
<1>1. /\ Len(s) \in Nat /\ k \in 1..Len(s) /\ Blank(s, k)
      /\ \A i \in 1..Len(s) : Blank(s, i) => k <= i
  BY FindIs, LenProperties DEF HasCompleteRequest
<1> HIDE DEF k
<1>2. k + 3 \in 1..Len(s)
  BY <1>1 DEF Blank
<1>3. \A i \in 1..Len(s) : s[i] \in 0..255
  BY ElementOfSeq
<1>4. r \in Seq(0..255) /\ Len(r) = k + 3 /\ \A i \in 1..k + 3 : r[i] = s[i]
  BY <1>1, <1>2, <1>3, SubSeqProperties
<1>5. SubSeq(s, k + 4, Len(s)) \in Seq(0..255)
  BY <1>1, <1>3, SubSeqProperties
<1> HIDE DEF r
<1>6. \A i \in 1..Len(r) : Blank(r, i) <=> i <= k /\ Blank(s, i)
  BY <1>1, <1>2, <1>4, SMTT(30) DEF Blank
<1>7. Find(r, BlankLine) = k
  BY <1>1, <1>2, <1>4, <1>6, FindIs
<1>8. From(s, k + 3 + 1) = SubSeq(s, k + 4, Len(s))
  BY <1>1 DEF From
<1>9. Find(r, BlankLine) = Len(r) - 3
  BY <1>1, <1>4, <1>7
<1>10. QED
  BY <1>4, <1>5, <1>8, <1>9 DEF k, r

\* The inductive invariant of the division.
FrameInv == IInv /\ TypeOK /\ EndsAtBlankLine /\ NoneIsForgotten

\* What taking a request from the input does.
LEMMA ProcessIs ==
    ASSUME FrameInv, NEW input \in Seq(0..255), HasCompleteRequest(input),
           ProcessRequest(input)
    PROVE  /\ input_buffer_' \in Seq(0..255)
           /\ requests' \in Seq(Seq(0..255)) /\ Len(requests') = Len(requests) + 1
           /\ EndsAtBlankLine'
<1> DEFINE e == Find(input, BlankLine) + 3
           r == SubSeq(input, 1, e)
<1>1. /\ r \in Seq(0..255) /\ Find(r, BlankLine) = Len(r) - 3
      /\ From(input, e + 1) \in Seq(0..255)
  BY CutIs
<1>2. requests' = Append(requests, r) /\ input_buffer_' = From(input, e + 1)
  BY DEF ProcessRequest
<1> HIDE DEF e, r
<1>3. /\ requests' \in Seq(Seq(0..255)) /\ Len(requests') = Len(requests) + 1
      /\ DOMAIN requests' = 1..Len(requests) + 1 /\ DOMAIN requests = 1..Len(requests)
      /\ Len(requests) \in Nat
      /\ \A i \in 1..Len(requests) : requests'[i] = requests[i]
      /\ requests'[Len(requests) + 1] = r
  <2>1. requests \in Seq(Seq(0..255))
    BY DEF FrameInv, TypeOK
  <2>2. QED
    BY <1>1, <1>2, <2>1, AppendIs
<1>4. \A i \in 1..Len(requests) + 1 : Find(requests'[i], BlankLine) = Len(requests'[i]) - 3
  <2>1. \A i \in 1..Len(requests) : Find(requests[i], BlankLine) = Len(requests[i]) - 3
    BY <1>3 DEF FrameInv, EndsAtBlankLine
  <2>2. \A i \in 1..Len(requests) + 1 : i \in 1..Len(requests) \/ i = Len(requests) + 1
    BY <1>3
  <2>3. QED
    BY <1>1, <1>3, <2>1, <2>2, Zenon
<1>5. QED
  BY <1>1, <1>2, <1>3, <1>4 DEF EndsAtBlankLine

LEMMA FrameInit == Init => FrameInv
<1> SUFFICES ASSUME Init PROVE FrameInv
  OBVIOUS
<1>1. /\ stream \in Stream /\ stream \in Seq(0..255) /\ received = 0 /\ input_buffer_ = <<>>
      /\ peer_closed_ = FALSE /\ requests = <<>> /\ answers = <<>> /\ open = TRUE
  BY StreamAssumption DEF Init
<1>2. /\ Len(stream) \in Nat /\ <<>> \in Seq(0..255) /\ <<>> \in Seq(Seq(0..255))
      /\ Len(<<>>) = 0 /\ DOMAIN <<>> = {}
  BY <1>1, LenProperties
<1>3. TypeOK
  <2>1. received \in 0..Len(stream) /\ input_buffer_ \in Seq(0..255) /\ requests \in Seq(Seq(0..255))
    BY <1>1, <1>2
  <2>2. Len(answers) = Len(requests)
    BY <1>1
  <2>3. QED
    BY <1>1, <2>1, <2>2 DEF TypeOK
<1>4. Find(input_buffer_, BlankLine) = 0
  <2>1. 1..Len(input_buffer_) = {}
    BY <1>1, <1>2
  <2>2. QED
    BY <1>1, <1>2, <2>1, FindIs
<1>5. EndsAtBlankLine
  BY <1>1, <1>2 DEF EndsAtBlankLine
<1>6. NoneIsForgotten
  BY <1>4 DEF NoneIsForgotten, HasCompleteRequest
<1>7. QED
  BY <1>3, <1>5, <1>6, InitInv DEF FrameInv

\* The bytes read and the bytes that were waiting.
LEMMA InputIs ==
    ASSUME FrameInv, NEW n \in 0..Len(stream) - received
    PROVE  /\ received + n \in 0..Len(stream)
           /\ input_buffer_ \o SubSeq(stream, received + 1, received + n) \in Seq(0..255)
<1>1. stream \in Seq(0..255) /\ Len(stream) \in Nat /\ received \in 0..Len(stream)
  BY StreamAssumption, LenProperties DEF FrameInv, TypeOK
<1>2. \A i \in 1..Len(stream) : stream[i] \in 0..255
  BY <1>1, ElementOfSeq
<1>3. \A i \in received + 1..received + n : stream[i] \in 0..255
  BY <1>1, <1>2
<1>4. SubSeq(stream, received + 1, received + n) \in Seq(0..255)
  BY <1>1, <1>3, SubSeqProperties
<1>5. input_buffer_ \in Seq(0..255)
  BY DEF FrameInv, TypeOK
<1>6. QED
  BY <1>1, <1>4, <1>5, ConcatProperties

LEMMA FrameRead ==
    ASSUME FrameInv, NEW n \in 0..Len(stream) - received, NEW fin \in BOOLEAN,
           HandleRead(n, fin)
    PROVE  FrameInv'
<1> DEFINE input == input_buffer_ \o SubSeq(stream, received + 1, received + n)
<1>1. /\ received' \in 0..Len(stream) /\ stream' = stream /\ peer_closed_' \in BOOLEAN
      /\ answers' = answers /\ open /\ input \in Seq(0..255)
  BY InputIs DEF HandleRead, Read
<1>2. IInv'
  <2>1. n \in Nat
    BY DEF FrameInv, TypeOK
  <2>2. QED
    BY <2>1, ReadStep DEF FrameInv
<1>3. /\ requests \in Seq(Seq(0..255)) /\ Len(requests) \in Nat /\ Len(answers) \in Nat
      /\ Len(answers) \in {Len(requests), Len(requests) - 1}
  <2>1. requests \in Seq(Seq(0..255)) /\ Len(answers) \in {Len(requests), Len(requests) - 1}
    BY DEF FrameInv, TypeOK
  <2>2. PICK S : answers \in Seq(S)
    BY DEF FrameInv, IInv
  <2>3. Len(requests) \in Nat /\ Len(answers) \in Nat
    BY <2>1, <2>2, LenProperties
  <2>4. QED
    BY <2>1, <2>3
<1>4. CASE ~processing_request_ /\ HasCompleteRequest(input)
  <2>1. ProcessRequest(input) /\ open' = open
    BY <1>4 DEF HandleRead
  <2> HIDE DEF input
  <2>2. /\ input_buffer_' \in Seq(0..255) /\ requests' \in Seq(Seq(0..255))
        /\ Len(requests') = Len(requests) + 1 /\ EndsAtBlankLine'
    BY <1>1, <1>4, <2>1, ProcessIs
  <2>3. Len(answers) = Len(requests)
    BY <1>3, <1>4 DEF processing_request_
  <2>4. NoneIsForgotten'
    BY <1>1, <1>3, <2>2, <2>3 DEF NoneIsForgotten, processing_request_
  <2>5. TypeOK'
    BY <1>1, <1>3, <2>1, <2>2, <2>3 DEF TypeOK, FrameInv
  <2>6. QED
    BY <1>2, <2>2, <2>4, <2>5 DEF FrameInv
<1>5. CASE ~(~processing_request_ /\ HasCompleteRequest(input))
  <2>1. input_buffer_' = input /\ open' \in BOOLEAN /\ requests' = requests
    BY <1>5 DEF HandleRead
  <2> HIDE DEF input
  <2>2. EndsAtBlankLine'
    BY <2>1 DEF FrameInv, EndsAtBlankLine
  <2>3. NoneIsForgotten'
    BY <1>1, <1>5, <2>1 DEF NoneIsForgotten, processing_request_
  <2>4. TypeOK'
    BY <1>1, <2>1 DEF TypeOK, FrameInv
  <2>5. QED
    BY <1>2, <2>2, <2>3, <2>4 DEF FrameInv
<1>6. QED
  BY <1>4, <1>5

LEMMA FrameAnswer == ASSUME FrameInv, Answer PROVE FrameInv'
<1>1. PICK response \in RequestHandler(Last(requests)) :
          /\ answers' = Append(answers, response)
          /\ IF ~response.close /\ HasCompleteRequest(input_buffer_)
             THEN ProcessRequest(input_buffer_) /\ UNCHANGED open
             ELSE /\ open' = ~(response.close \/ peer_closed_)
                  /\ UNCHANGED <<requests, input_buffer_>>
  BY DEF Answer
<1>2. IInv'
  BY AnswerStep DEF FrameInv
<1>3. /\ Len(answers) \in Nat /\ Len(answers') = Len(answers) + 1
      /\ answers'[Len(answers) + 1] = response
  <2>1. \E S : answers \in Seq(S)
    BY DEF FrameInv, IInv
  <2>2. QED
    BY <1>1, <2>1, AppendIs
<1>4. /\ requests \in Seq(Seq(0..255)) /\ Len(requests) = Len(answers) + 1
      /\ input_buffer_ \in Seq(0..255) /\ open \in BOOLEAN
      /\ stream' = stream /\ received' = received /\ peer_closed_' = peer_closed_
  <2>1. processing_request_ /\ Len(requests) \in {Len(answers), Len(answers) + 1}
    BY DEF Answer, FrameInv, IInv
  <2>2. Len(requests) = Len(answers) + 1
    BY <1>3, <2>1 DEF processing_request_
  <2>3. QED
    BY <2>2 DEF Answer, FrameInv, TypeOK
<1>5. CASE ~response.close /\ HasCompleteRequest(input_buffer_)
  <2>1. ProcessRequest(input_buffer_) /\ open' = open
    BY <1>1, <1>5
  <2>2. /\ input_buffer_' \in Seq(0..255) /\ requests' \in Seq(Seq(0..255))
        /\ Len(requests') = Len(requests) + 1 /\ EndsAtBlankLine'
    BY <1>4, <1>5, <2>1, ProcessIs
  <2>3. NoneIsForgotten'
    BY <1>3, <1>4, <2>2 DEF NoneIsForgotten, processing_request_
  <2>4. TypeOK'
    BY <1>3, <1>4, <2>1, <2>2 DEF TypeOK, FrameInv
  <2>5. QED
    BY <1>2, <2>2, <2>3, <2>4 DEF FrameInv
<1>6. CASE ~(~response.close /\ HasCompleteRequest(input_buffer_))
  <2>1. requests' = requests /\ input_buffer_' = input_buffer_ /\ open' \in BOOLEAN
    BY <1>1, <1>6
  <2>2. EndsAtBlankLine'
    BY <2>1 DEF FrameInv, EndsAtBlankLine
  <2>3. ASSUME response.close PROVE NoneIsForgotten'
    <3>1. close_after_response_'
      <4>1. Len(<<>>) = 0
        OBVIOUS
      <4>2. answers' # <<>> /\ answers'[Len(answers')] = response
        BY <1>3, <4>1
      <4>3. QED
        BY <2>3, <4>2 DEF close_after_response_, Last
    <3>2. QED
      BY <3>1 DEF NoneIsForgotten
  <2>4. ASSUME ~response.close PROVE NoneIsForgotten'
    BY <1>6, <2>1, <2>4 DEF NoneIsForgotten, HasCompleteRequest
  <2>5. TypeOK'
    BY <1>3, <1>4, <2>1 DEF TypeOK, FrameInv
  <2>6. NoneIsForgotten'
    BY <2>3, <2>4
  <2>7. QED
    BY <1>2, <2>2, <2>5, <2>6 DEF FrameInv
<1>7. QED
  BY <1>5, <1>6

LEMMA FrameStep == ASSUME FrameInv, [Next]_vars PROVE FrameInv'
<1>1. CASE \E n \in 0..Len(stream) - received, fin \in BOOLEAN : HandleRead(n, fin)
  BY <1>1, FrameRead
<1>2. CASE Answer
  BY <1>2, FrameAnswer
<1>3. CASE UNCHANGED vars
  BY <1>3 DEF vars, FrameInv, IInv, TypeOK, EndsAtBlankLine, NoneIsForgotten,
       processing_request_, close_after_response_
<1>4. QED
  BY <1>1, <1>2, <1>3 DEF Next

LEMMA Framing == Spec => []FrameInv
<1>1. FrameInv /\ [Next]_vars => FrameInv'
  BY FrameStep
<1>2. QED
  BY <1>1, FrameInit, PTL DEF Spec

\* The variables of an exchange always have their types, and at most one request is
\* without an answer (TcpConnection.cpp, processing_request_).
THEOREM TypeCorrect == Spec => []TypeOK
<1>1. FrameInv => TypeOK
  BY DEF FrameInv
<1>2. QED
  BY <1>1, Framing, PTL

\* Every request handed to a worker ends with the one blank line in it, however
\* the bytes of that line were divided between reads (TcpConnection.cpp,
\* hasCompleteRequest and processRequest).
THEOREM RequestsEndAtBlankLines == Spec => []EndsAtBlankLine
<1>1. FrameInv => EndsAtBlankLine
  BY DEF FrameInv
<1>2. QED
  BY <1>1, Framing, PTL

\* No complete request stays in the input: one is being processed, or the last
\* answer closed the connection, or there is none, also where the peer has shut
\* down (TcpConnection.cpp, handleRead and handleWrite).
THEOREM NoRequestIsForgotten == Spec => []NoneIsForgotten
<1>1. FrameInv => NoneIsForgotten
  BY DEF FrameInv
<1>2. QED
  BY <1>1, Framing, PTL

--------------------------------------------------------------------------------
(* Concatenation of all elements of a sequence.  Induction over its length   *)
(* is the choice of the least place where the claim fails.                   *)

\* g concatenates the first i elements of s, for each i up to n.
Flattens(g, s, n) == g = [i \in 1..n |-> IF i = 1 THEN s[i] ELSE g[i - 1] \o s[i]]

LEMMA FlattensStep ==
    ASSUME NEW g, NEW s, NEW n, Flattens(g, s, n)
    PROVE  \A i \in 1..n : g[i] = IF i = 1 THEN s[i] ELSE g[i - 1] \o s[i]
<1> DEFINE h == [i \in 1..n |-> IF i = 1 THEN s[i] ELSE g[i - 1] \o s[i]]
<1>1. g = h
  BY DEF Flattens
<1>2. \A i \in 1..n : h[i] = IF i = 1 THEN s[i] ELSE g[i - 1] \o s[i]
  OBVIOUS
<1> HIDE DEF h
<1>3. QED
  BY <1>1, <1>2

LEMMA FlattensExists == \A s : \A n \in Nat : \E g : Flattens(g, s, n)
<1> SUFFICES ASSUME NEW s PROVE \A n \in Nat : \E g : Flattens(g, s, n)
  OBVIOUS
<1> DEFINE K == {n \in Nat : ~\E g : Flattens(g, s, n)}
<1> SUFFICES ASSUME K # {} PROVE FALSE
  OBVIOUS
<1>1. PICK n \in K : \A m \in K : n <= m
  <2>1. K \subseteq Nat
    OBVIOUS
  <2> HIDE DEF K
  <2>2. QED
    BY <2>1, MinIs
<1>2. CASE n = 0
  <2> DEFINE g == [i \in {} |-> 0]
  <2>1. 1..n = {}
    BY <1>2
  <2>2. Flattens(g, s, n)
    BY <2>1 DEF Flattens
  <2>3. QED
    BY <2>2
<1>3. CASE n # 0
  <2>1. n \in Nat /\ n - 1 \in Nat /\ n - 1 \notin K
    BY <1>1, <1>3
  <2>2. PICK g : Flattens(g, s, n - 1)
    BY <2>1
  <2> DEFINE last == IF n = 1 THEN s[n] ELSE g[n - 1] \o s[n]
             h == [i \in 1..n |-> IF i = n THEN last ELSE g[i]]
             r == [i \in 1..n |-> IF i = 1 THEN s[i] ELSE h[i - 1] \o s[i]]
  <2>3. \A i \in 1..n - 1 : g[i] = IF i = 1 THEN s[i] ELSE g[i - 1] \o s[i]
    BY <2>2, FlattensStep
  <2>4. \A i \in 1..n : h[i] = r[i]
    <3> SUFFICES ASSUME NEW i \in 1..n PROVE h[i] = r[i]
      OBVIOUS
    <3>1. i # 1 => i - 1 \in 1..n /\ i - 1 # n /\ h[i - 1] = g[i - 1]
      BY <2>1
    <3>2. i # n => i \in 1..n - 1
      BY <2>1
    <3>3. r[i] = IF i = 1 THEN s[i] ELSE g[i - 1] \o s[i]
      BY <3>1
    <3>4. h[i] = IF i = n THEN last ELSE g[i]
      OBVIOUS
    <3> HIDE DEF h, r
    <3>5. QED
      BY <2>3, <3>2, <3>3, <3>4
  <2>5. h = r
    BY <2>4, Zenon
  <2>6. Flattens(h, s, n)
    BY <2>5 DEF Flattens
  <2>7. QED
    BY <2>6
<1>4. QED
  BY <1>2, <1>3

\* What is said of a concatenation does not depend on what comes after.
LEMMA FlattensAgree ==
    ASSUME NEW s, NEW t, NEW n \in Nat, NEW m \in Nat, n <= m, NEW g, NEW h,
           Flattens(g, s, n), Flattens(h, t, m), \A i \in 1..n : s[i] = t[i]
    PROVE  \A i \in 1..n : g[i] = h[i]
<1> DEFINE K == {i \in 1..n : g[i] # h[i]}
<1> SUFFICES ASSUME K # {} PROVE FALSE
  OBVIOUS
<1>1. PICK k \in K : \A j \in K : k <= j
  <2>1. K \subseteq Nat
    OBVIOUS
  <2> HIDE DEF K
  <2>2. QED
    BY <2>1, MinIs
<1>2. k \in 1..n /\ k \in 1..m /\ g[k] # h[k]
  BY <1>1
<1>3. k # 1 => g[k - 1] = h[k - 1]
  <2>1. k # 1 => k - 1 \in 1..n /\ k - 1 \notin K
    BY <1>1, <1>2
  <2>2. QED
    BY <2>1
<1>4. g[k] = IF k = 1 THEN s[k] ELSE g[k - 1] \o s[k]
  BY <1>2, FlattensStep
<1>5. h[k] = IF k = 1 THEN t[k] ELSE h[k - 1] \o t[k]
  BY <1>2, FlattensStep
<1>6. QED
  BY <1>2, <1>3, <1>4, <1>5

LEMMA FlattenIs ==
    ASSUME NEW s, Len(s) \in Nat, Len(s) # 0
    PROVE  \E g : Flattens(g, s, Len(s)) /\ FlattenSeq(s) = g[Len(s)]
<1>1. FlattenSeq(s) = (CHOOSE g : Flattens(g, s, Len(s)))[Len(s)]
  BY DEF FlattenSeq, Flattens
<1>2. \E g : Flattens(g, s, Len(s))
  BY FlattensExists
<1>3. QED
  BY <1>1, <1>2

LEMMA FlattenType ==
    ASSUME NEW S, NEW s \in Seq(Seq(S))
    PROVE  FlattenSeq(s) \in Seq(S)
<1>1. Len(s) \in Nat /\ \A i \in 1..Len(s) : s[i] \in Seq(S)
  <2>1. Len(s) \in Nat
    BY LenProperties
  <2>2. \A i \in 1..Len(s) : s[i] \in Seq(S)
    BY ElementOfSeq
  <2>3. QED
    BY <2>1, <2>2
<1>2. CASE Len(s) = 0
  <2>1. s = <<>> /\ <<>> \in Seq(S)
    BY <1>2, EmptySeq
  <2>2. FlattenSeq(s) = s
    BY <1>2 DEF FlattenSeq
  <2>3. QED
    BY <2>1, <2>2
<1>3. CASE Len(s) # 0
  <2>1. PICK g : Flattens(g, s, Len(s)) /\ FlattenSeq(s) = g[Len(s)]
    BY <1>1, <1>3, FlattenIs
  <2> DEFINE K == {i \in 1..Len(s) : g[i] \notin Seq(S)}
  <2> SUFFICES ASSUME K # {} PROVE FALSE
    BY <1>1, <1>3, <2>1, SMTT(30)
  <2>2. PICK k \in K : \A j \in K : k <= j
    <3>1. K \subseteq Nat
      OBVIOUS
    <3> HIDE DEF K
    <3>2. QED
      BY <3>1, MinIs
  <2>3. k \in 1..Len(s) /\ g[k] \notin Seq(S)
    BY <2>2
  <2>4. k # 1 => g[k - 1] \in Seq(S)
    <3>1. k # 1 => k - 1 \in 1..Len(s) /\ k - 1 \notin K
      BY <1>1, <2>2, <2>3
    <3>2. QED
      BY <3>1
  <2>5. g[k] = IF k = 1 THEN s[k] ELSE g[k - 1] \o s[k]
    BY <2>1, <2>3, FlattensStep
  <2>6. s[k] \in Seq(S)
    BY <1>1, <2>3
  <2>7. QED
    BY <2>3, <2>4, <2>5, <2>6, ConcatProperties
<1>4. QED
  BY <1>2, <1>3

LEMMA FlattenLonger ==
    ASSUME NEW s, NEW t, Len(s) \in Nat, Len(t) = Len(s) + 1, Len(s) # 0,
           \A i \in 1..Len(s) : s[i] = t[i]
    PROVE  FlattenSeq(t) = FlattenSeq(s) \o t[Len(t)]
<1>1. Len(s) \in 1..Len(s) /\ Len(s) <= Len(t) /\ Len(t) \in Nat /\ Len(t) # 0 /\ Len(t) # 1
  OBVIOUS
<1>2. PICK g : Flattens(g, s, Len(s)) /\ FlattenSeq(s) = g[Len(s)]
  BY FlattenIs
<1>3. PICK h : Flattens(h, t, Len(t)) /\ FlattenSeq(t) = h[Len(t)]
  BY <1>1, FlattenIs
<1>4. \A i \in 1..Len(s) : g[i] = h[i]
  BY <1>1, <1>2, <1>3, FlattensAgree, SMTT(30)
<1>5. \A i \in 1..Len(t) : h[i] = IF i = 1 THEN t[i] ELSE h[i - 1] \o t[i]
  BY <1>3, FlattensStep
<1>6. h[Len(t)] = h[Len(s)] \o t[Len(t)]
  <2>1. Len(t) \in 1..Len(t) /\ Len(t) # 1 /\ Len(t) - 1 = Len(s)
    BY <1>1
  <2>2. QED
    BY <1>5, <2>1
<1>7. QED
  BY <1>1, <1>2, <1>3, <1>4, <1>6

LEMMA FlattenAppend ==
    ASSUME NEW S, NEW s \in Seq(Seq(S)), NEW e \in Seq(S)
    PROVE  FlattenSeq(Append(s, e)) = FlattenSeq(s) \o e
<1> DEFINE t == Append(s, e)
<1>1. /\ Len(s) \in Nat /\ Len(t) = Len(s) + 1
      /\ \A i \in 1..Len(s) : s[i] = t[i]
      /\ t[Len(t)] = e
  BY LenProperties, AppendProperties
<1> HIDE DEF t
<1>2. CASE Len(s) = 0
  <2>1. FlattenSeq(s) = <<>>
    <3>1. s = <<>>
      BY <1>2, EmptySeq
    <3>2. QED
      BY <1>2, <3>1 DEF FlattenSeq
  <2>2. PICK h : Flattens(h, t, Len(t)) /\ FlattenSeq(t) = h[Len(t)]
    BY <1>1, FlattenIs
  <2>3. h[Len(t)] = IF Len(t) = 1 THEN t[Len(t)] ELSE h[Len(t) - 1] \o t[Len(t)]
    <3>1. Len(t) \in 1..Len(t)
      BY <1>1
    <3>2. \A i \in 1..Len(t) : h[i] = IF i = 1 THEN t[i] ELSE h[i - 1] \o t[i]
      BY <2>2, FlattensStep
    <3>3. QED
      BY <3>1, <3>2
  <2>4. FlattenSeq(t) = e
    BY <1>1, <1>2, <2>2, <2>3
  <2>5. <<>> \o e = e
    BY ConcatEmptySeq
  <2>6. QED
    BY <2>1, <2>4, <2>5 DEF t
<1>3. CASE Len(s) # 0
  <2>1. FlattenSeq(t) = FlattenSeq(s) \o t[Len(t)]
    BY <1>1, <1>3, FlattenLonger
  <2>2. QED
    BY <1>1, <2>1 DEF t
<1>4. QED
  BY <1>2, <1>3

--------------------------------------------------------------------------------
(* Nothing is skipped.                                                       *)

\* The two parts of the input.
LEMMA CutParts ==
    ASSUME NEW s \in Seq(0..255), HasCompleteRequest(s)
    PROVE  LET e == Find(s, BlankLine) + 3
           IN  SubSeq(s, 1, e) \o From(s, e + 1) = s
<1> DEFINE e == Find(s, BlankLine) + 3
<1>1. e \in 1..Len(s) /\ Len(s) \in Nat
  <2>1. /\ Len(s) \in Nat /\ Find(s, BlankLine) \in 1..Len(s)
        /\ Blank(s, Find(s, BlankLine))
    BY FindIs, LenProperties DEF HasCompleteRequest
  <2>2. QED
    BY <2>1 DEF Blank
<1> HIDE DEF e
<1>2. From(s, e + 1) = SubSeq(s, e + 1, Len(s))
  BY <1>1 DEF From
<1>3. SubSeq(s, 1, e) \o SubSeq(s, e + 1, Len(s)) = SubSeq(s, 1, Len(s))
  <2>1. 1 \in 1..Len(s) + 1 /\ e \in 1 - 1..Len(s) /\ Len(s) \in e..Len(s)
    BY <1>1
  <2>2. QED
    BY <2>1, ConcatAdjacentSubSeq
<1>4. SubSeq(s, 1, Len(s)) = s
  BY SubSeqFull
<1>5. QED
  BY <1>2, <1>3, <1>4 DEF e

LEMMA BytesAssociate ==
    \A s, t, u \in Seq(0..255) : (s \o t) \o u = s \o (t \o u)
BY ConcatAssociative, SMTT(30)

\* Taking a request only divides the input.
LEMMA ProcessSkipsNothing ==
    ASSUME FrameInv, NEW input \in Seq(0..255), HasCompleteRequest(input),
           ProcessRequest(input)
    PROVE  FlattenSeq(requests') \o input_buffer_' = FlattenSeq(requests) \o input
<1> DEFINE e == Find(input, BlankLine) + 3
           r == SubSeq(input, 1, e)
           rest == From(input, e + 1)
<1>1. r \in Seq(0..255) /\ rest \in Seq(0..255) /\ r \o rest = input
  BY CutIs, CutParts
<1>2. requests' = Append(requests, r) /\ input_buffer_' = rest
  BY DEF ProcessRequest
<1>3. requests \in Seq(Seq(0..255))
  BY DEF FrameInv, TypeOK
<1> HIDE DEF r, rest
<1>4. FlattenSeq(requests') = FlattenSeq(requests) \o r
  BY <1>1, <1>2, <1>3, FlattenAppend
<1>5. FlattenSeq(requests) \in Seq(0..255)
  BY <1>3, FlattenType
<1>6. (FlattenSeq(requests) \o r) \o rest = FlattenSeq(requests) \o (r \o rest)
  BY <1>1, <1>5, BytesAssociate, ZenonT(60)
<1>7. QED
  BY <1>1, <1>2, <1>4, <1>6

LEMMA InputFollows ==
    ASSUME FrameInv, NothingIsSkipped, NEW n \in 0..Len(stream) - received
    PROVE  FlattenSeq(requests) \o (input_buffer_ \o SubSeq(stream, received + 1, received + n))
                = SubSeq(stream, 1, received + n)
<1> DEFINE new == SubSeq(stream, received + 1, received + n)
           taken == FlattenSeq(requests)
<1>1. /\ stream \in Seq(0..255) /\ Len(stream) \in Nat /\ received \in 0..Len(stream)
      /\ requests \in Seq(Seq(0..255)) /\ input_buffer_ \in Seq(0..255)
  BY StreamAssumption, LenProperties DEF FrameInv, TypeOK
<1>2. taken \in Seq(0..255)
  BY <1>1, FlattenType
<1>3. new \in Seq(0..255)
  <2>1. \A i \in 1..Len(stream) : stream[i] \in 0..255
    BY <1>1, ElementOfSeq
  <2>2. received + 1 \in Int /\ received + n \in Int
    BY <1>1
  <2>3. \A i \in received + 1..received + n : stream[i] \in 0..255
    BY <1>1, <2>1
  <2>4. QED
    BY <2>2, <2>3, SubSeqProperties
<1>4. SubSeq(stream, 1, received) \o new = SubSeq(stream, 1, received + n)
  <2>1. /\ 1 \in 1..Len(stream) + 1 /\ received \in 1 - 1..Len(stream)
        /\ received + n \in received..Len(stream)
    BY <1>1
  <2>2. QED
    BY <1>1, <2>1, ConcatAdjacentSubSeq
<1>5. taken \o input_buffer_ = SubSeq(stream, 1, received)
  BY DEF NothingIsSkipped
<1> HIDE DEF new, taken
<1>6. (taken \o input_buffer_) \o new = taken \o (input_buffer_ \o new)
  BY <1>1, <1>2, <1>3, BytesAssociate, ZenonT(60)
<1>7. QED
  BY <1>4, <1>5, <1>6 DEF new, taken

LEMMA SkipStep ==
    ASSUME FrameInv, NothingIsSkipped, [Next]_vars
    PROVE  NothingIsSkipped'
<1>1. ASSUME NEW n \in 0..Len(stream) - received, NEW fin \in BOOLEAN, HandleRead(n, fin)
      PROVE  NothingIsSkipped'
  <2> DEFINE input == input_buffer_ \o SubSeq(stream, received + 1, received + n)
  <2>1. received' = received + n /\ stream' = stream /\ input \in Seq(0..255)
    BY <1>1, InputIs DEF HandleRead, Read
  <2>2. FlattenSeq(requests) \o input = SubSeq(stream, 1, received + n)
    BY InputFollows
  <2>3. CASE ~processing_request_ /\ HasCompleteRequest(input)
    <3>1. ProcessRequest(input)
      BY <1>1, <2>3 DEF HandleRead
    <3> HIDE DEF input
    <3>2. FlattenSeq(requests') \o input_buffer_' = FlattenSeq(requests) \o input
      BY <2>1, <2>3, <3>1, ProcessSkipsNothing
    <3>3. QED
      BY <2>1, <2>2, <3>2 DEF NothingIsSkipped
  <2>4. CASE ~(~processing_request_ /\ HasCompleteRequest(input))
    <3>1. input_buffer_' = input /\ requests' = requests
      BY <1>1, <2>4 DEF HandleRead
    <3> HIDE DEF input
    <3>2. QED
      BY <2>1, <2>2, <3>1 DEF NothingIsSkipped
  <2>5. QED
    BY <2>3, <2>4
<1>2. CASE Answer
  <2>1. input_buffer_ \in Seq(0..255) /\ stream' = stream /\ received' = received
    BY <1>2 DEF Answer, FrameInv, TypeOK
  <2>2. CASE HasCompleteRequest(input_buffer_) /\ ProcessRequest(input_buffer_)
    <3>1. FlattenSeq(requests') \o input_buffer_' = FlattenSeq(requests) \o input_buffer_
      BY <2>1, <2>2, ProcessSkipsNothing
    <3>2. QED
      BY <2>1, <3>1 DEF NothingIsSkipped
  <2>3. CASE requests' = requests /\ input_buffer_' = input_buffer_
    BY <2>1, <2>3 DEF NothingIsSkipped
  <2>4. QED
    BY <1>2, <2>2, <2>3 DEF Answer
<1>3. CASE UNCHANGED vars
  BY <1>3 DEF vars, NothingIsSkipped
<1>4. QED
  BY <1>1, <1>2, <1>3 DEF Next

LEMMA SkipInit == Init => NothingIsSkipped
<1> SUFFICES ASSUME Init PROVE NothingIsSkipped
  OBVIOUS
<1>1. requests = <<>> /\ input_buffer_ = <<>> /\ received = 0
  BY DEF Init
<1>2. FlattenSeq(<<>>) = <<>>
  <2>1. Len(<<>>) = 0
    OBVIOUS
  <2>2. QED
    BY <2>1 DEF FlattenSeq
<1>3. SubSeq(stream, 1, 0) = <<>>
  BY SubSeqEmpty
<1>4. <<>> \o <<>> = <<>>
  BY EmptySeq, ConcatEmptySeq
<1>5. QED
  BY <1>1, <1>2, <1>3, <1>4 DEF NothingIsSkipped

\* Whatever a client sends and however the bytes are divided between reads, the
\* requests handed to the workers and what is still buffered are those bytes, in
\* order and each once; every request ends at its first blank line, and no complete
\* one is left behind (TcpConnection.cpp, handleRead, handleWrite, processRequest).
THEOREM RequestsAreCutRight == Spec => []RequestsAreFramed
<1>1. FrameInv /\ NothingIsSkipped /\ [Next]_vars => NothingIsSkipped'
  BY SkipStep
<1>2. FrameInv /\ NothingIsSkipped => RequestsAreFramed
  BY DEF FrameInv, RequestsAreFramed
<1>3. QED
  BY <1>1, <1>2, SkipInit, Framing, PTL DEF Spec

--------------------------------------------------------------------------------
(* What urlDecode gives: its table of decoded ends and the places of the     *)
(* text that stand for a byte, from the last of them to the first.           *)

\* Entries that end at the places of Stop or are made from a later one.
Linked(N, V, Stop, b, nx, H) ==
    /\ \A i \in 1..N : i \in Stop => b[i] \in V
    /\ \A i \in 1..N : i \notin Stop => nx[i] \in i + 1..N /\ \A v \in V : H[i][v] \in V

\* A table of them.
Table(f, N, V, Stop, b, nx, H) ==
    \A i \in 1..N : /\ f[i] = IF i \in Stop THEN b[i] ELSE H[i][f[nx[i]]]
                    /\ f[i] \in V

\* A table whose entries are made from later ones, or end, is well defined.
LEMMA TableExists ==
    ASSUME NEW N \in Nat, NEW V, NEW Stop, NEW b, NEW nx, NEW H, Linked(N, V, Stop, b, nx, H)
    PROVE  \E f : Table(f, N, V, Stop, b, nx, H)
<1>0. /\ \A i \in 1..N : i \in Stop => b[i] \in V
      /\ \A i \in 1..N : i \notin Stop => nx[i] \in i + 1..N /\ \A v \in V : H[i][v] \in V
  BY DEF Linked
<1> DEFINE Entry(f, i) == /\ f[i] = IF i \in Stop THEN b[i] ELSE H[i][f[nx[i]]]
                          /\ f[i] \in V
           Made(f, k) == \A i \in 1..N : i > N - k => Entry(f, i)
           K == {k \in 0..N : ~\E f : Made(f, k)}
<1>1. ASSUME K # {} PROVE FALSE
  <2>1. PICK k \in K : \A m \in K : k <= m
    <3>1. K \subseteq Nat
      OBVIOUS
    <3> HIDE DEF K
    <3>2. QED
      BY <1>1, <3>1, MinIs
  <2>2. CASE k = 0
    <3>1. Made(b, 0)
      OBVIOUS
    <3>2. QED
      BY <2>1, <2>2, <3>1
  <2>3. CASE k # 0
    <3>1. PICK j \in Nat : k = j + 1
      <4>1. k \in Nat
        BY <2>1
      <4>2. k - 1 \in Nat /\ k = (k - 1) + 1
        BY <2>3, <4>1
      <4>3. QED
        BY <4>2
    <3>2. j \in 0..N /\ j \notin K /\ k \in 0..N
      <4>1. k \in 0..N
        BY <2>1
      <4> HIDE DEF K
      <4>2. j \notin K
        BY <2>1, <3>1
      <4>3. QED
        BY <3>1, <4>1, <4>2
    <3>3. PICK f : Made(f, j)
      BY <3>2
    <3>4. PICK p \in Nat : p = N - j
      BY <3>2
    <3>5. p \in 1..N /\ N - k = p - 1 /\ N - j = p
      BY <3>1, <3>2, <3>4
    <3> DEFINE x == IF p \in Stop THEN b[p] ELSE H[p][f[nx[p]]]
               g == [i \in 1..N |-> IF i = p THEN x ELSE f[i]]
    <3>6. \A i \in 1..N : i > p => Entry(f, i)
      BY <3>3, <3>5
    <3>7. \A i \in 1..N : g[i] = IF i = p THEN x ELSE f[i]
      OBVIOUS
    <3>8. x \in V
      <4>1. CASE p \in Stop
        BY <1>0, <3>5, <4>1
      <4>2. CASE p \notin Stop
        <5>1. nx[p] \in 1..N /\ nx[p] > p
          BY <1>0, <3>5, <4>2
        <5>2. f[nx[p]] \in V
          BY <3>6, <5>1
        <5>3. QED
          BY <1>0, <3>5, <4>2, <5>2
      <4>3. QED
        BY <4>1, <4>2
    <3> HIDE DEF g
    <3>9. \A i \in 1..N : i > p - 1 /\ i \notin Stop => nx[i] \in 1..N /\ nx[i] # p
      BY <1>0, <3>5
    <3>10. \A i \in 1..N : i > p - 1 => Entry(g, i)
      <4> SUFFICES ASSUME NEW i \in 1..N, i > p - 1 PROVE Entry(g, i)
        OBVIOUS
      <4>1. i \notin Stop => g[nx[i]] = f[nx[i]]
        BY <3>7, <3>9
      <4>2. CASE i = p
        BY <3>7, <3>8, <4>1, <4>2
      <4>3. CASE i # p
        <5>1. Entry(f, i)
          BY <3>6, <3>5, <4>3
        <5>2. QED
          BY <3>7, <4>1, <4>3, <5>1
      <4>4. QED
        BY <4>2, <4>3
    <3>11. Made(g, k)
      BY <3>5, <3>10
    <3>12. QED
      BY <2>1, <3>11
  <2>4. QED
    BY <2>2, <2>3
<1>2. N \in 0..N /\ K = {}
  BY <1>1
<1>3. PICK f : Made(f, N)
  BY <1>2
<1>4. QED
  BY <1>3 DEF Table

\* How many members of S are not above j.
Rank(S, j) == Cardinality({k \in S : k <= j})

\* The ranks go from none of the members to all of them, one at a time.
LEMMA RankIs ==
    ASSUME NEW n \in Nat, NEW S, S \subseteq 1..n
    PROVE  /\ Rank(S, 0) = 0 /\ Rank(S, n) = Cardinality(S)
           /\ \A j \in 0..n : Rank(S, j) \in Nat
           /\ \A i \in 1..n : Rank(S, i) = IF i \in S THEN Rank(S, i - 1) + 1 ELSE Rank(S, i - 1)
<1>0. \A k \in S : k \in 1..n /\ k \in Int /\ 0 < k /\ k <= n
  OBVIOUS
<1>1. IsFiniteSet(1..n)
  <2>1. 1 \in Int /\ n \in Int
    OBVIOUS
  <2>2. QED
    BY <2>1, FS_Interval
<1>2. \A j : IsFiniteSet({k \in S : k <= j}) /\ Rank(S, j) \in Nat
  <2> SUFFICES ASSUME NEW j PROVE IsFiniteSet({k \in S : k <= j}) /\ Rank(S, j) \in Nat
    OBVIOUS
  <2> DEFINE T == {k \in S : k <= j}
  <2>1. T \in SUBSET (1..n)
    OBVIOUS
  <2> HIDE DEF T
  <2>2. IsFiniteSet(T)
    BY <1>1, <2>1, FS_Subset
  <2>3. Cardinality(T) \in Nat
    BY <2>2, FS_CardinalityType
  <2>4. QED
    BY <2>2, <2>3 DEF T, Rank
<1>3. Rank(S, 0) = 0
  <2>1. \A k \in S : ~(k <= 0)
    BY <1>0
  <2>2. {k \in S : k <= 0} = {}
    BY <2>1, Zenon
  <2>3. QED
    BY <2>2, FS_EmptySet DEF Rank
<1>4. Rank(S, n) = Cardinality(S)
  <2>1. {k \in S : k <= n} = S
    BY <1>0, Zenon
  <2>2. QED
    BY <2>1 DEF Rank
<1>5. ASSUME NEW i \in 1..n
      PROVE  Rank(S, i) = IF i \in S THEN Rank(S, i - 1) + 1 ELSE Rank(S, i - 1)
  <2> DEFINE T == {k \in S : k <= i - 1}
             U == {k \in S : k <= i}
  <2>1. IsFiniteSet(T)
    BY <1>2
  <2>2. i \notin T /\ U = IF i \in S THEN T \cup {i} ELSE T
    <3>1. \A k \in S : (k <= i <=> k <= i - 1 \/ k = i) /\ ~(i <= i - 1)
      BY <1>0
    <3>2. i \notin T
      BY <3>1
    <3>3. U = IF i \in S THEN T \cup {i} ELSE T
      BY <3>1, Zenon
    <3>4. QED
      BY <3>2, <3>3
  <2>3. Rank(S, i) = Cardinality(U) /\ Rank(S, i - 1) = Cardinality(T)
    BY DEF Rank
  <2> HIDE DEF T, U
  <2>4. Cardinality(T \cup {i}) = Cardinality(T) + 1
    BY <2>1, <2>2, FS_AddElement
  <2>5. QED
    BY <2>2, <2>3, <2>4
<1>6. QED
  BY <1>2, <1>3, <1>4, <1>5

\* Ranks do not fall.
LEMMA RankKept ==
    ASSUME NEW n \in Nat, NEW S, S \subseteq 1..n
    PROVE  \A i, j \in 0..n : i <= j => Rank(S, i) <= Rank(S, j)
<1>0. \A k \in S : k \in 1..n
  OBVIOUS
<1>1. /\ Rank(S, 0) = 0
      /\ \A j \in 0..n : Rank(S, j) \in Nat
      /\ \A i \in 1..n : Rank(S, i) = IF i \in S THEN Rank(S, i - 1) + 1 ELSE Rank(S, i - 1)
  BY RankIs
<1>2. ASSUME NEW i \in 0..n, NEW j \in 0..n, i <= j
      PROVE  Rank(S, i) <= Rank(S, j)
  <2> DEFINE K == {k \in i..n : ~(Rank(S, i) <= Rank(S, k))}
  <2>1. ASSUME K # {} PROVE FALSE
    <3>1. PICK k \in K : \A m \in K : k <= m
      <4>1. K \subseteq Nat
        OBVIOUS
      <4> HIDE DEF K
      <4>2. QED
        BY <2>1, <4>1, MinIs
    <3>2. k \in i..n /\ ~(Rank(S, i) <= Rank(S, k))
      BY <3>1
    <3>3. k # i
      BY <1>1, <3>2
    <3>4. PICK p \in i..n : k = p + 1
      <4>1. k - 1 \in i..n /\ k = (k - 1) + 1
        BY <3>2, <3>3
      <4>2. QED
        BY <4>1
    <3>5. p \notin K
      <4> HIDE DEF K
      <4>1. QED
        BY <3>1, <3>4
    <3>6. Rank(S, i) <= Rank(S, p)
      BY <3>4, <3>5
    <3>7. k \in 1..n /\ k - 1 = p /\ p \in 0..n
      BY <3>2, <3>4
    <3>8. QED
      BY <1>1, <3>2, <3>6, <3>7
  <2>2. j \in i..n /\ K = {}
    BY <1>2, <2>1
  <2>3. QED
    BY <2>2
<1>3. QED
  BY <1>2

\* Ranks grow from member to member.
LEMMA RankGrows ==
    ASSUME NEW n \in Nat, NEW S, S \subseteq 1..n
    PROVE  \A i, j \in S : i < j => Rank(S, i) < Rank(S, j)
<1>0. \A k \in S : k \in 1..n
  OBVIOUS
<1>1. /\ Rank(S, 0) = 0
      /\ \A j \in 0..n : Rank(S, j) \in Nat
      /\ \A i \in 1..n : Rank(S, i) = IF i \in S THEN Rank(S, i - 1) + 1 ELSE Rank(S, i - 1)
  BY RankIs
<1>3. ASSUME NEW i \in S, NEW j \in S, i < j
      PROVE  Rank(S, i) < Rank(S, j)
  <2>1. j \in 1..n /\ j - 1 \in 0..n /\ i \in 0..n /\ i <= j - 1
    <3>1. i \in 1..n /\ j \in 1..n
      BY <1>0
    <3>2. QED
      BY <1>3, <3>1
  <2>2. Rank(S, i) <= Rank(S, j - 1)
    BY RankKept, <2>1
  <2>3. QED
    BY <1>1, <2>1, <2>2
<1>4. QED
  BY <1>3

\* Members have different ranks, and every rank has its member.
LEMMA RanksFit ==
    ASSUME NEW n \in Nat, NEW S, S \subseteq 1..n
    PROVE  /\ \A i, j \in S : Rank(S, i) = Rank(S, j) => i = j
           /\ \A i \in S : Rank(S, i) \in 1..Rank(S, n)
           /\ \A m \in 1..Rank(S, n) : \E i \in S : Rank(S, i) = m
<1>0. \A k \in S : k \in 1..n
  OBVIOUS
<1>1. /\ Rank(S, 0) = 0
      /\ \A j \in 0..n : Rank(S, j) \in Nat
      /\ \A i \in 1..n : Rank(S, i) = IF i \in S THEN Rank(S, i - 1) + 1 ELSE Rank(S, i - 1)
  BY RankIs
<1>4. \A i, j \in S : Rank(S, i) = Rank(S, j) => i = j
  <2> SUFFICES ASSUME NEW i \in S, NEW j \in S, Rank(S, i) = Rank(S, j), i # j PROVE FALSE
    OBVIOUS
  <2>1. i \in 0..n /\ j \in 0..n /\ Rank(S, i) \in Nat /\ Rank(S, j) \in Nat
    BY <1>1
  <2>2. i < j \/ j < i
    BY <2>1
  <2>3. \A k, l \in S : k < l => Rank(S, k) < Rank(S, l)
    BY RankGrows
  <2>4. QED
    BY <2>1, <2>2, <2>3
<1>5. \A i \in S : Rank(S, i) \in 1..Rank(S, n)
  <2> SUFFICES ASSUME NEW i \in S PROVE Rank(S, i) \in 1..Rank(S, n)
    OBVIOUS
  <2>1. i \in 1..n /\ i - 1 \in 0..n /\ i \in 0..n /\ n \in 0..n
    OBVIOUS
  <2>2. Rank(S, i) <= Rank(S, n) /\ Rank(S, i) = Rank(S, i - 1) + 1 /\ Rank(S, i - 1) \in Nat
        /\ Rank(S, n) \in Nat
    <3>1. \A k, l \in 0..n : k <= l => Rank(S, k) <= Rank(S, l)
      BY RankKept
    <3>2. QED
      BY <1>1, <2>1, <3>1
  <2>3. QED
    BY <2>2
<1>6. ASSUME NEW m \in 1..Rank(S, n)
      PROVE  \E i \in S : Rank(S, i) = m
  <2> DEFINE K == {k \in 0..n : m <= Rank(S, k)}
  <2>1. n \in K
    BY <1>1
  <2>2. PICK k \in K : \A l \in K : k <= l
    <3>1. K \subseteq Nat
      OBVIOUS
    <3> HIDE DEF K
    <3>2. QED
      BY <2>1, <3>1, MinIs
  <2>3. k \in 0..n /\ m <= Rank(S, k)
    BY <2>2
  <2>4. k # 0
    BY <1>1, <2>3
  <2>5. PICK p \in 0..n : k = p + 1
    <3>1. k - 1 \in 0..n /\ k = (k - 1) + 1
      BY <2>3, <2>4
    <3>2. QED
      BY <3>1
  <2>6. p \notin K
    <3> HIDE DEF K
    <3>1. QED
      BY <2>2, <2>5
  <2>7. ~(m <= Rank(S, p))
    BY <2>6
  <2>8. k \in 1..n /\ k - 1 = p
    BY <2>3, <2>5
  <2>9. Rank(S, k) = IF k \in S THEN Rank(S, p) + 1 ELSE Rank(S, p)
    BY <1>1, <2>8
  <2>10. Rank(S, p) \in Nat /\ Rank(S, k) \in Nat /\ m \in Nat
    <3>1. Rank(S, n) \in Nat
      BY <1>1
    <3>2. QED
      BY <1>1, <2>3, <3>1
  <2>11. k \in S /\ Rank(S, k) = m
    BY <2>3, <2>7, <2>9, <2>10
  <2>12. QED
    BY <2>11
<1>7. QED
  BY <1>4, <1>5, <1>6

\* The digits, and what is none.
LEMMA HexIs ==
    /\ \A c \in 0..255 : HexValue(c) = {} \/ \E h \in 0..15 : HexValue(c) = {h}
    /\ HexValue(37) = {}
<1>1. ASSUME NEW c \in 0..255
      PROVE  HexValue(c) = {} \/ \E h \in 0..15 : HexValue(c) = {h}
  <2>1. CASE c \in 48..57
    <3>1. c - 48 \in 0..15 /\ HexValue(c) = {c - 48}
      BY <2>1 DEF HexValue
    <3>2. QED
      BY <3>1
  <2>2. CASE c \in 97..102
    <3>1. c - 87 \in 0..15 /\ HexValue(c) = {c - 87}
      BY <2>2 DEF HexValue
    <3>2. QED
      BY <3>1
  <2>3. CASE c \in 65..70
    <3>1. c - 55 \in 0..15 /\ HexValue(c) = {c - 55}
      BY <2>3 DEF HexValue
    <3>2. QED
      BY <3>1
  <2>4. CASE c \notin 48..57 \cup 97..102 \cup 65..70
    BY <2>4 DEF HexValue
  <2>5. QED
    BY <2>1, <2>2, <2>3, <2>4
<1>2. HexValue(37) = {}
  BY DEF HexValue
<1>3. QED
  BY <1>1, <1>2, Zenon

\* Two digits make one byte.
LEMMA ByteIs ==
    ASSUME NEW A, NEW B, \A h \in A : h \in 0..15, \A l \in B : l \in 0..15
    PROVE  Byte(A, B) \subseteq 0..255
<1>1. \A h \in 0..15, l \in 0..15 : 16 * h + l \in 0..255
  OBVIOUS
<1>2. QED
  BY <1>1 DEF Byte

\* What is made of bytes is bytes.
LEMMA PrependType ==
    ASSUME NEW S, NEW A, A \subseteq S, NEW R, R \subseteq Seq(S)
    PROVE  Prepend(A, R) \subseteq Seq(S)
<1>1. \A c \in S, r \in Seq(S) : <<c>> \o r \in Seq(S)
  <2> SUFFICES ASSUME NEW c \in S, NEW r \in Seq(S) PROVE <<c>> \o r \in Seq(S)
    OBVIOUS
  <2>1. <<c>> \in Seq(S)
    OBVIOUS
  <2>2. QED
    BY <2>1, ConcatProperties
<1>2. ASSUME NEW x \in Prepend(A, R) PROVE x \in Seq(S)
  <2>1. PICK c \in A, r \in R : x = <<c>> \o r
    BY DEF Prepend
  <2>2. c \in S /\ r \in Seq(S)
    OBVIOUS
  <2>3. QED
    BY <1>1, <2>1, <2>2
<1>3. QED
  BY <1>2

\* The table of urlDecode.
Decodes(from, encoded) ==
    from = [i \in 1..Len(encoded) + 1 |->
            IF i > Len(encoded) THEN {<<>>}
            ELSE IF encoded[i] = Plus THEN Prepend({Space}, from[i + 1])
            ELSE IF encoded[i] # Percent THEN Prepend({encoded[i]}, from[i + 1])
            ELSE IF i + 2 > Len(encoded) THEN {}
            ELSE Prepend(Byte(HexValue(encoded[i + 1]), HexValue(encoded[i + 2])), from[i + 3])]

\* What a character of it stands for.
Stands(encoded, i) ==
    IF encoded[i] = Plus THEN {Space}
    ELSE IF encoded[i] # Percent THEN {encoded[i]}
    ELSE Byte(HexValue(encoded[i + 1]), HexValue(encoded[i + 2]))

\* Bytes stand at a place, if anything.
LEMMA StandsType ==
    ASSUME NEW e \in Seq(0..255), NEW i \in 1..Len(e), e[i] = Percent => i + 2 <= Len(e)
    PROVE  Stands(e, i) \subseteq 0..255
<1>1. Len(e) \in Nat /\ \A k \in 1..Len(e) : e[k] \in 0..255
  BY LenProperties, ElementOfSeq
<1>2. CASE e[i] # Percent
  <2>1. e[i] \in 0..255 /\ 32 \in 0..255
    BY <1>1
  <2>2. Stands(e, i) = {32} \/ Stands(e, i) = {e[i]}
    BY <1>2 DEF Stands, Space
  <2>3. QED
    BY <2>1, <2>2, ZenonT(60)
<1>3. CASE e[i] = Percent
  <2>1. i + 1 \in 1..Len(e) /\ i + 2 \in 1..Len(e)
    BY <1>1, <1>3
  <2> DEFINE A == HexValue(e[i + 1])
             B == HexValue(e[i + 2])
  <2>2. (\A h \in A : h \in 0..15) /\ \A l \in B : l \in 0..15
    <3>1. e[i + 1] \in 0..255 /\ e[i + 2] \in 0..255
      BY <1>1, <2>1
    <3>2. QED
      BY <3>1, HexIs, ZenonT(60)
  <2>3. Stands(e, i) = Byte(A, B)
    BY <1>3 DEF Stands, Percent, Plus
  <2> HIDE DEF A, B
  <2>4. QED
    BY <2>2, <2>3, ByteIs, ZenonT(60)
<1>4. QED
  BY <1>2, <1>3

\* There is a table of decoded ends.
LEMMA DecodesExists ==
    ASSUME NEW e \in Seq(0..255)
    PROVE  \E f : Decodes(f, e)
<1> DEFINE N == Len(e) + 1
           V == SUBSET Seq(0..255)
           Stop == {i \in 1..N : i > Len(e) \/ (e[i] = Percent /\ i + 2 > Len(e))}
           b == [i \in 1..N |-> IF i > Len(e) THEN {<<>>} ELSE {}]
           nx == [i \in 1..N |-> IF e[i] = Percent THEN i + 3 ELSE i + 1]
           H == [i \in 1..N |-> [v \in V |-> Prepend(Stands(e, i), v)]]
<1>1. Len(e) \in Nat /\ N \in Nat
  BY LenProperties
<1>2. \A i \in 1..N : i \in Stop => b[i] \in V
  <2>1. <<>> \in Seq(0..255)
    BY EmptySeq
  <2>2. QED
    BY <2>1
<1>3. \A i \in 1..N : i \notin Stop => i \in 1..Len(e) /\ (e[i] = Percent => i + 2 <= Len(e))
  BY <1>1
<1>4. \A i \in 1..N : i \notin Stop => nx[i] \in i + 1..N
  BY <1>1
<1>5. \A i \in 1..N : i \notin Stop => \A v \in V : H[i][v] \in V
  <2> SUFFICES ASSUME NEW i \in 1..N, i \notin Stop, NEW v \in V PROVE H[i][v] \in V
    OBVIOUS
  <2>1. Stands(e, i) \subseteq 0..255
    BY <1>3, StandsType
  <2>2. Prepend(Stands(e, i), v) \subseteq Seq(0..255)
    BY <2>1, PrependType
  <2>3. QED
    BY <2>2
<1>6. \A i \in 1..N : \A v \in V : H[i][v] = Prepend(Stands(e, i), v)
  OBVIOUS
<1>7. \A i \in 1..N : /\ i \in Stop <=> i > Len(e) \/ (e[i] = Percent /\ i + 2 > Len(e))
                      /\ b[i] = IF i > Len(e) THEN {<<>>} ELSE {}
                      /\ nx[i] = IF e[i] = Percent THEN i + 3 ELSE i + 1
  OBVIOUS
<1> HIDE DEF Stop, b, nx, H, V, N
<1>8. PICK f : Table(f, N, V, Stop, b, nx, H)
  <2>1. Linked(N, V, Stop, b, nx, H)
    BY <1>2, <1>4, <1>5 DEF Linked
  <2>2. QED
    BY <1>1, <2>1, TableExists
<1> DEFINE Entry(i, h) ==
            IF i > Len(e) THEN {<<>>}
            ELSE IF e[i] = Plus THEN Prepend({Space}, h[i + 1])
            ELSE IF e[i] # Percent THEN Prepend({e[i]}, h[i + 1])
            ELSE IF i + 2 > Len(e) THEN {}
            ELSE Prepend(Byte(HexValue(e[i + 1]), HexValue(e[i + 2])), h[i + 3])
           g == [i \in 1..N |-> f[i]]
           r == [i \in 1..N |-> Entry(i, g)]
<1>9. \A i \in 1..N : g[i] = f[i] /\ r[i] = Entry(i, g)
  OBVIOUS
<1>10. \A i \in 1..N : f[i] \in V /\ f[i] = IF i \in Stop THEN b[i] ELSE H[i][f[nx[i]]]
  BY <1>8 DEF Table
<1> HIDE DEF g, r
<1>11. \A i \in 1..N : g[i] = r[i]
  <2> SUFFICES ASSUME NEW i \in 1..N PROVE f[i] = Entry(i, g)
    BY <1>9
  <2>1. CASE i > Len(e)
    BY <1>7, <1>10, <2>1
  <2>2. CASE ~(i > Len(e)) /\ i \in Stop
    <3>1. e[i] = Percent /\ e[i] # Plus /\ i + 2 > Len(e) /\ b[i] = {}
      BY <1>7, <2>2 DEF Percent, Plus
    <3>2. QED
      BY <1>10, <2>2, <3>1
  <2>3. CASE i \notin Stop
    <3>1. nx[i] \in 1..N /\ nx[i] = IF e[i] = Percent THEN i + 3 ELSE i + 1
      BY <1>1, <1>4, <1>7, <2>3
    <3>2. g[nx[i]] = f[nx[i]] /\ f[nx[i]] \in V
      BY <1>10, <1>9, <3>1
    <3>3. f[i] = Prepend(Stands(e, i), g[nx[i]])
      BY <1>6, <1>10, <2>3, <3>2
    <3>4. ~(i > Len(e)) /\ (e[i] = Percent => ~(i + 2 > Len(e)) /\ e[i] # Plus)
      BY <1>7, <2>3 DEF Percent, Plus
    <3>5. CASE e[i] = Percent
      <4>1. Stands(e, i) = Byte(HexValue(e[i + 1]), HexValue(e[i + 2]))
        BY <3>4, <3>5 DEF Stands
      <4>2. QED
        BY <3>1, <3>3, <3>4, <3>5, <4>1
    <3>6. CASE e[i] # Percent
      <4>1. Stands(e, i) = IF e[i] = Plus THEN {Space} ELSE {e[i]}
        BY <3>6 DEF Stands
      <4>2. QED
        BY <3>1, <3>3, <3>4, <3>6, <4>1
    <3>7. QED
      BY <3>5, <3>6
  <2>4. QED
    BY <2>1, <2>2, <2>3
<1>12. g = [i \in 1..N |-> g[i]] /\ r = [i \in 1..N |-> r[i]]
  BY DEF g, r
<1>13. g = r
  BY <1>11, <1>12, Zenon
<1>14. Decodes(g, e)
  BY <1>13 DEF Decodes, N, r
<1>15. QED
  BY <1>14

\* The greatest place where something fails.
LEMMA MaxIs ==
    ASSUME NEW N \in Nat, NEW K, K \subseteq 1..N, K # {}
    PROVE  \E k \in K : \A m \in K : m <= k
<1> DEFINE T == {m \in 0..N : N - m \in K}
<1>1. \A k \in K : k \in 1..N
  OBVIOUS
<1>2. PICK k \in K : TRUE
  OBVIOUS
<1>3. N - k \in T
  BY <1>1
<1>4. PICK t \in T : \A m \in T : t <= m
  <2>1. T \subseteq Nat
    OBVIOUS
  <2> HIDE DEF T
  <2>2. QED
    BY <1>3, <2>1, MinIs
<1>5. N - t \in K /\ t \in 0..N
  OBVIOUS
<1>6. \A m \in K : N - m \in T
  BY <1>1
<1> HIDE DEF T
<1>7. \A m \in K : m <= N - t
  BY <1>1, <1>4, <1>5, <1>6
<1>8. QED
  BY <1>5, <1>7

\* A byte before a text.
LEMMA OneMore ==
    ASSUME NEW S, NEW c \in S, NEW d \in Seq(S)
    PROVE  /\ <<c>> \o d \in Seq(S) /\ Len(<<c>> \o d) = Len(d) + 1 /\ Len(d) \in Nat
           /\ (<<c>> \o d)[1] = c
           /\ \A k \in 1..Len(d) : (<<c>> \o d)[k + 1] = d[k]
<1>1. <<c>> \in Seq(S) /\ Len(<<c>>) = 1 /\ <<c>>[1] = c
  OBVIOUS
<1> DEFINE s == <<c>>
<1> HIDE DEF s
<1>2. /\ s \o d \in Seq(S) /\ Len(s \o d) = 1 + Len(d) /\ Len(d) \in Nat
      /\ \A k \in 1..1 + Len(d) : (s \o d)[k] = IF k <= 1 THEN s[k] ELSE d[k - 1]
  BY <1>1, ConcatProperties, LenProperties DEF s
<1>3. 1 \in 1..1 + Len(d) /\ \A k \in 1..Len(d) : k + 1 \in 1..1 + Len(d) /\ ~(k + 1 <= 1) /\ (k + 1) - 1 = k
  BY <1>2
<1>4. (s \o d)[1] = c /\ \A k \in 1..Len(d) : (s \o d)[k + 1] = d[k]
  BY <1>1, <1>2, <1>3 DEF s
<1>5. QED
  BY <1>2, <1>4 DEF s

\* One byte before one text, and an error on either side.
LEMMA PrependIs ==
    /\ \A c, d : Prepend({c}, {d}) = {<<c>> \o d}
    /\ \A A : Prepend(A, {}) = {}
    /\ \A R : Prepend({}, R) = {}
<1>1. ASSUME NEW c, NEW d PROVE Prepend({c}, {d}) = {<<c>> \o d}
  <2> DEFINE T == Prepend({c}, {d})
  <2>1. ASSUME NEW x \in T PROVE x = <<c>> \o d
    <3>1. PICK u \in {c}, v \in {d} : x = <<u>> \o v
      BY DEF Prepend
    <3>2. u = c /\ v = d
      OBVIOUS
    <3>3. QED
      BY <3>1, <3>2
  <2>2. <<c>> \o d \in T
    <3>1. c \in {c} /\ d \in {d}
      OBVIOUS
    <3>2. QED
      BY <3>1 DEF Prepend
  <2> HIDE DEF T
  <2>3. T = {<<c>> \o d}
    BY <2>1, <2>2, Zenon
  <2>4. QED
    BY <2>3 DEF T
<1>2. ASSUME NEW A PROVE Prepend(A, {}) = {}
  <2> SUFFICES ASSUME NEW x \in Prepend(A, {}) PROVE FALSE
    BY Zenon
  <2>1. PICK u \in A, v \in {} : x = <<u>> \o v
    BY DEF Prepend
  <2>2. QED
    OBVIOUS
<1>3. ASSUME NEW R PROVE Prepend({}, R) = {}
  <2> SUFFICES ASSUME NEW x \in Prepend({}, R) PROVE FALSE
    BY Zenon
  <2>1. PICK u \in {}, v \in R : x = <<u>> \o v
    BY DEF Prepend
  <2>2. QED
    OBVIOUS
<1>4. QED
  BY <1>1, <1>2, <1>3

\* The parts of Meaning.
Kept(e) == {i \in DOMAIN e : \A k \in {i - 1, i - 2} \cap DOMAIN e : e[k] # Percent}

NumberAt(e, i) == CHOOSE b \in 0..255 : /\ b \div 16 \in HexValue(e[i + 1])
                                        /\ b % 16 \in HexValue(e[i + 2])

MeaningAt(e, i) ==
    CASE e[i] = Percent -> NumberAt(e, i)
      [] e[i] = Plus    -> Space
      [] OTHER          -> e[i]

EscapedAt(e, i) ==
    e[i] = Percent => i + 2 <= Len(e) /\ HexValue(e[i + 1]) # {} /\ HexValue(e[i + 2]) # {}

\* A place that is no malformed escape stands for its meaning.
LEMMA StandsOne ==
    ASSUME NEW e \in Seq(0..255), NEW i \in 1..Len(e), EscapedAt(e, i)
    PROVE  MeaningAt(e, i) \in 0..255 /\ Stands(e, i) = {MeaningAt(e, i)}
<1>1. Len(e) \in Nat /\ \A k \in 1..Len(e) : e[k] \in 0..255
  BY LenProperties, ElementOfSeq
<1>2. CASE e[i] # Percent
  <2>1. MeaningAt(e, i) = IF e[i] = Plus THEN Space ELSE e[i]
    BY <1>2 DEF MeaningAt
  <2>2. Stands(e, i) = IF e[i] = Plus THEN {Space} ELSE {e[i]}
    BY <1>2 DEF Stands
  <2>3. e[i] \in 0..255 /\ Space \in 0..255
    BY <1>1 DEF Space
  <2>4. QED
    BY <2>1, <2>2, <2>3
<1>3. CASE e[i] = Percent
  <2>1. i + 1 \in 1..Len(e) /\ i + 2 \in 1..Len(e) /\ HexValue(e[i + 1]) # {} /\ HexValue(e[i + 2]) # {}
    BY <1>1, <1>3 DEF EscapedAt
  <2>2. e[i + 1] \in 0..255 /\ e[i + 2] \in 0..255
    BY <1>1, <2>1
  <2>3. PICK h \in 0..15 : HexValue(e[i + 1]) = {h}
    BY <2>1, <2>2, HexIs
  <2>4. PICK l \in 0..15 : HexValue(e[i + 2]) = {l}
    BY <2>1, <2>2, HexIs
  <2>5. PICK c \in 0..255 : c = 16 * h + l
    OBVIOUS
  <2>6. c \div 16 = h /\ c % 16 = l /\ \A b \in 0..255 : b \div 16 = h /\ b % 16 = l => b = c
    BY <2>5
  <2> DEFINE Is(b) == b \div 16 \in HexValue(e[i + 1]) /\ b % 16 \in HexValue(e[i + 2])
  <2>7. MeaningAt(e, i) = CHOOSE b \in 0..255 : Is(b)
    <3>1. MeaningAt(e, i) = NumberAt(e, i)
      BY <1>3 DEF MeaningAt, Percent, Plus
    <3>2. NumberAt(e, i) = CHOOSE b \in 0..255 : Is(b)
      BY Zenon DEF NumberAt
    <3>3. QED
      BY <3>1, <3>2, Zenon
  <2>8. MeaningAt(e, i) = c
    <3>1. \A b \in 0..255 : Is(b) <=> b = c
      BY <2>3, <2>4, <2>6
    <3> HIDE DEF Is
    <3>2. QED
      BY <2>7, <3>1, Zenon
  <2>9. Stands(e, i) = Byte({h}, {l})
    BY <1>3, <2>3, <2>4 DEF Stands, Percent, Plus
  <2>10. Byte({h}, {l}) = {c}
    BY <2>5 DEF Byte
  <2>11. QED
    BY <2>8, <2>9, <2>10
<1>4. QED
  BY <1>2, <1>3

\* Where a digit is missing there is no byte.
LEMMA NothingStands ==
    ASSUME NEW A, NEW B, A = {} \/ B = {}
    PROVE  Byte(A, B) = {}
BY DEF Byte

\* WellEscaped, place by place.
LEMMA WellEscapedIs ==
    ASSUME NEW e \in Seq(0..255)
    PROVE  WellEscaped(e) <=> \A i \in 1..Len(e) : EscapedAt(e, i)
<1>1. DOMAIN e = 1..Len(e)
  BY LenProperties
<1>2. QED
  BY <1>1 DEF WellEscaped, EscapedAt

\* The entries of a table of decoded ends.
LEMMA DecodesStep ==
    ASSUME NEW f, NEW e, Decodes(f, e), Len(e) \in Nat
    PROVE  /\ f[Len(e) + 1] = {<<>>}
           /\ \A i \in 1..Len(e) :
                /\ e[i] # Percent => f[i] = Prepend(Stands(e, i), f[i + 1])
                /\ e[i] = Percent /\ i + 2 > Len(e) => f[i] = {}
                /\ e[i] = Percent /\ ~(i + 2 > Len(e)) => f[i] = Prepend(Stands(e, i), f[i + 3])
<1> DEFINE Entry(i, h) ==
            IF i > Len(e) THEN {<<>>}
            ELSE IF e[i] = Plus THEN Prepend({Space}, h[i + 1])
            ELSE IF e[i] # Percent THEN Prepend({e[i]}, h[i + 1])
            ELSE IF i + 2 > Len(e) THEN {}
            ELSE Prepend(Byte(HexValue(e[i + 1]), HexValue(e[i + 2])), h[i + 3])
           r == [i \in 1..Len(e) + 1 |-> Entry(i, f)]
<1>1. f = r
  BY DEF Decodes
<1>2. \A i \in 1..Len(e) + 1 : r[i] = Entry(i, f)
  OBVIOUS
<1> HIDE DEF r
<1>3. \A i \in 1..Len(e) + 1 : f[i] = Entry(i, f)
  BY <1>1, <1>2
<1>4. f[Len(e) + 1] = {<<>>}
  <2>1. Len(e) + 1 \in 1..Len(e) + 1 /\ Entry(Len(e) + 1, f) = {<<>>}
    OBVIOUS
  <2> HIDE DEF Entry
  <2>2. QED
    BY <1>3, <2>1
<1>5. ASSUME NEW i \in 1..Len(e)
      PROVE  /\ e[i] # Percent => f[i] = Prepend(Stands(e, i), f[i + 1])
             /\ e[i] = Percent /\ i + 2 > Len(e) => f[i] = {}
             /\ e[i] = Percent /\ ~(i + 2 > Len(e)) => f[i] = Prepend(Stands(e, i), f[i + 3])
  <2>1. f[i] = Entry(i, f) /\ ~(i > Len(e))
    <3>1. i \in 1..Len(e) + 1 /\ ~(i > Len(e))
      OBVIOUS
    <3> HIDE DEF Entry
    <3>2. QED
      BY <1>3, <3>1
  <2>2. CASE e[i] # Percent
    <3>1. Stands(e, i) = IF e[i] = Plus THEN {Space} ELSE {e[i]}
      BY <2>2 DEF Stands
    <3>2. QED
      BY <2>1, <2>2, <3>1
  <2>3. CASE e[i] = Percent
    <3>1. Stands(e, i) = Byte(HexValue(e[i + 1]), HexValue(e[i + 2])) /\ e[i] # Plus
      BY <2>3 DEF Stands, Percent, Plus
    <3>2. QED
      BY <2>1, <2>3, <3>1
  <2>4. QED
    BY <2>2, <2>3
<1>6. QED
  BY <1>4, <1>5

\* What is decoded from place i on, said by the ranks of the places kept.
Told(e, i, d) ==
    /\ d \in Seq(0..255)
    /\ Len(d) = Rank(Kept(e), Len(e)) - Rank(Kept(e), i - 1)
    /\ \A j \in Kept(e) : j >= i => d[Rank(Kept(e), j) - Rank(Kept(e), i - 1)] = MeaningAt(e, j)

DecodedFrom(f, e, i) ==
    IF \A k \in i..Len(e) : EscapedAt(e, k) THEN \E d : f[i] = {d} /\ Told(e, i, d)
    ELSE f[i] = {}

\* The places kept have no percent sign one or two places before.
LEMMA KeptIs ==
    ASSUME NEW e \in Seq(0..255)
    PROVE  /\ Kept(e) \subseteq 1..Len(e) /\ Len(e) \in Nat
           /\ \A i \in 1..Len(e) : i \in Kept(e) <=> /\ i - 1 \in 1..Len(e) => e[i - 1] # Percent
                                                     /\ i - 2 \in 1..Len(e) => e[i - 2] # Percent
<1>1. DOMAIN e = 1..Len(e) /\ Len(e) \in Nat
  BY LenProperties
<1>2. QED
  BY <1>1 DEF Kept

\* Ranks from a kept place on.
LEMMA RankSteps ==
    ASSUME NEW n \in Nat, NEW S, S \subseteq 1..n, NEW i \in S, NEW q \in i + 1..n + 1,
           \A j \in S : j >= i => j = i \/ j >= q
    PROVE  /\ Rank(S, q - 1) = Rank(S, i - 1) + 1
           /\ Rank(S, i) = Rank(S, i - 1) + 1
           /\ Rank(S, i - 1) \in Nat /\ Rank(S, n) \in Nat
           /\ \A j \in S : j >= q => Rank(S, j) \in Rank(S, i - 1) + 2..Rank(S, n)
<1>1. \A j \in S : j \in 1..n
  OBVIOUS
<1>2. /\ \A j \in 0..n : Rank(S, j) \in Nat
      /\ \A j \in 1..n : Rank(S, j) = IF j \in S THEN Rank(S, j - 1) + 1 ELSE Rank(S, j - 1)
  BY RankIs
<1>3. i \in 1..n /\ i - 1 \in 0..n /\ n \in 0..n /\ q - 1 \in i..n
  BY <1>1
<1>4. Rank(S, i) = Rank(S, i - 1) + 1 /\ Rank(S, i - 1) \in Nat /\ Rank(S, n) \in Nat
  BY <1>2, <1>3
<1>5. Rank(S, q - 1) = Rank(S, i)
  <2>1. \A k \in S : k <= q - 1 <=> k <= i
    <3> SUFFICES ASSUME NEW k \in S PROVE k <= q - 1 <=> k <= i
      OBVIOUS
    <3>1. k \in 1..n /\ (k >= i => k = i \/ k >= q)
      BY <1>1
    <3>2. QED
      BY <1>3, <3>1
  <2>2. {k \in S : k <= q - 1} = {k \in S : k <= i}
    BY <2>1, Zenon
  <2>3. QED
    BY <2>2 DEF Rank
<1>6. ASSUME NEW j \in S, j >= q
      PROVE  Rank(S, j) \in Rank(S, i - 1) + 2..Rank(S, n)
  <2>1. j \in 1..n /\ i < j
    BY <1>1, <1>3, <1>6
  <2>2. Rank(S, j) \in 1..Rank(S, n)
    BY RanksFit
  <2>3. Rank(S, i) < Rank(S, j)
    BY <2>1, RankGrows
  <2>4. QED
    BY <1>4, <2>2, <2>3
<1>7. QED
  BY <1>4, <1>5, <1>6

\* One place more.
LEMMA DecodedMore ==
    ASSUME NEW e \in Seq(0..255), NEW f, NEW i \in Kept(e), NEW q \in i + 1..Len(e) + 1,
           EscapedAt(e, i), \A k \in i + 1..q - 1 : EscapedAt(e, k) /\ k \notin Kept(e),
           f[i] = Prepend(Stands(e, i), f[q]), DecodedFrom(f, e, q)
    PROVE  DecodedFrom(f, e, i)
<1> DEFINE S == Kept(e)
           n == Len(e)
           c == MeaningAt(e, i)
<1>1. S \subseteq 1..n /\ n \in Nat /\ i \in 1..n
  BY KeptIs
<1>2. c \in 0..255 /\ f[i] = Prepend({c}, f[q])
  BY <1>1, StandsOne
<1>3. (\A k \in i..n : EscapedAt(e, k)) <=> (\A k \in q..n : EscapedAt(e, k))
  <2>1. \A k \in i..n : k = i \/ k \in i + 1..q - 1 \/ k \in q..n
    BY <1>1
  <2>2. \A k \in q..n : k \in i..n
    BY <1>1
  <2>3. QED
    BY <2>1, <2>2
<1>4. CASE ~\A k \in q..n : EscapedAt(e, k)
  <2>1. f[q] = {}
    BY <1>4 DEF DecodedFrom
  <2>2. f[i] = {}
    BY <1>2, <2>1, PrependIs
  <2>3. QED
    BY <1>3, <1>4, <2>2 DEF DecodedFrom
<1>5. CASE \A k \in q..n : EscapedAt(e, k)
  <2>1. PICK d : f[q] = {d} /\ Told(e, q, d)
    BY <1>5 DEF DecodedFrom
  <2> DEFINE x == <<c>> \o d
  <2>2. f[i] = {x}
    BY <1>2, <2>1, PrependIs
  <2>3. d \in Seq(0..255)
    BY <2>1 DEF Told
  <2>4. /\ x \in Seq(0..255) /\ Len(x) = Len(d) + 1 /\ Len(d) \in Nat /\ x[1] = c
        /\ \A k \in 1..Len(d) : x[k + 1] = d[k]
    BY <1>2, <2>3, OneMore
  <2> HIDE DEF x, c
  <2>5. \A j \in S : j >= i => j = i \/ j >= q
    <3>1. \A j \in S : j \in 1..n
      BY <1>1
    <3>2. \A j \in 1..n : j >= i => j = i \/ j \in i + 1..q - 1 \/ j >= q
      BY <1>1
    <3>3. QED
      BY <3>1, <3>2
  <2>6. /\ Rank(S, q - 1) = Rank(S, i - 1) + 1
        /\ Rank(S, i) = Rank(S, i - 1) + 1
        /\ Rank(S, i - 1) \in Nat /\ Rank(S, n) \in Nat
        /\ \A j \in S : j >= q => Rank(S, j) \in Rank(S, i - 1) + 2..Rank(S, n)
    BY <1>1, <2>5, RankSteps
  <2>7. /\ Len(d) = Rank(S, n) - Rank(S, q - 1)
        /\ \A j \in S : j >= q => d[Rank(S, j) - Rank(S, q - 1)] = MeaningAt(e, j)
    BY <2>1 DEF Told
  <2> HIDE DEF S, n
  <2>8. Len(x) = Rank(S, n) - Rank(S, i - 1)
    BY <2>4, <2>6, <2>7
  <2>9. ASSUME NEW j \in S, j >= i
        PROVE  x[Rank(S, j) - Rank(S, i - 1)] = MeaningAt(e, j)
    <3>1. CASE j = i
      <4>1. Rank(S, j) - Rank(S, i - 1) = 1
        BY <2>6, <3>1
      <4>2. QED
        BY <2>4, <3>1, <4>1 DEF c
    <3>2. CASE j # i
      <4>1. j >= q
        BY <2>5, <2>9, <3>2
      <4>2. PICK k \in Nat : k = Rank(S, j) - Rank(S, q - 1)
        BY <2>6, <4>1
      <4>3. k \in 1..Len(d) /\ Rank(S, j) - Rank(S, i - 1) = k + 1
        BY <2>6, <2>7, <4>1, <4>2, SMTT(30)
      <4>4. x[k + 1] = d[k] /\ d[k] = MeaningAt(e, j)
        BY <2>4, <2>7, <4>1, <4>2, <4>3
      <4>5. QED
        BY <4>3, <4>4
    <3>3. QED
      BY <3>1, <3>2
  <2>10. Told(e, i, x)
    BY <2>4, <2>8, <2>9 DEF Told, S, n
  <2>11. QED
    BY <1>3, <1>5, <2>2, <2>10 DEF DecodedFrom, n
<1>6. QED
  BY <1>4, <1>5

\* The end is decoded as nothing.
LEMMA DecodedEnd ==
    ASSUME NEW e \in Seq(0..255), NEW f, Decodes(f, e)
    PROVE  DecodedFrom(f, e, Len(e) + 1)
<1>1. Kept(e) \subseteq 1..Len(e) /\ Len(e) \in Nat
  BY KeptIs
<1>2. f[Len(e) + 1] = {<<>>}
  BY <1>1, DecodesStep
<1>3. \A k \in Len(e) + 1..Len(e) : EscapedAt(e, k)
  BY <1>1
<1>4. Rank(Kept(e), Len(e)) \in Nat /\ Len(e) + 1 - 1 = Len(e)
  <2>1. \A j \in 0..Len(e) : Rank(Kept(e), j) \in Nat
    BY <1>1, RankIs
  <2>2. Len(e) \in 0..Len(e) /\ Len(e) + 1 - 1 = Len(e)
    BY <1>1
  <2>3. QED
    BY <2>1, <2>2
<1>5. \A j \in Kept(e) : ~(j >= Len(e) + 1)
  BY <1>1
<1>6. Len(<<>>) = 0 /\ <<>> \in Seq(0..255)
  BY EmptySeq
<1>7. Told(e, Len(e) + 1, <<>>)
  BY <1>4, <1>5, <1>6 DEF Told
<1>8. QED
  BY <1>2, <1>3, <1>7 DEF DecodedFrom

\* If the rest is decoded as its meaning, so is the text from here on.
LEMMA DecodedHere ==
    ASSUME NEW e \in Seq(0..255), NEW f, Decodes(f, e), NEW i \in Kept(e),
           \A q \in i + 1..Len(e) + 1 : q = Len(e) + 1 \/ q \in Kept(e) => DecodedFrom(f, e, q)
    PROVE  DecodedFrom(f, e, i)
<1>1. Len(e) \in Nat /\ i \in 1..Len(e)
  BY KeptIs
<1>2. /\ e[i] # Percent => f[i] = Prepend(Stands(e, i), f[i + 1])
      /\ e[i] = Percent /\ i + 2 > Len(e) => f[i] = {}
      /\ e[i] = Percent /\ ~(i + 2 > Len(e)) => f[i] = Prepend(Stands(e, i), f[i + 3])
  BY <1>1, DecodesStep
<1>3. \A k \in 1..Len(e) : k \in Kept(e) <=> /\ k - 1 \in 1..Len(e) => e[k - 1] # Percent
                                             /\ k - 2 \in 1..Len(e) => e[k - 2] # Percent
  BY KeptIs
<1>4. CASE e[i] # Percent
  <2>1. PICK q \in i + 1..Len(e) + 1 : q = i + 1
    BY <1>1
  <2>2. q = Len(e) + 1 \/ q \in Kept(e)
    <3>1. CASE q \in 1..Len(e)
      <4>1. q - 1 = i /\ q - 2 = i - 1
        BY <1>1, <2>1
      <4>2. QED
        BY <1>1, <1>3, <1>4, <3>1, <4>1
    <3>2. QED
      BY <1>1, <2>1, <3>1
  <2>3. DecodedFrom(f, e, q)
    BY <2>2
  <2>4. EscapedAt(e, i)
    BY <1>4 DEF EscapedAt
  <2>5. \A k \in i + 1..q - 1 : EscapedAt(e, k) /\ k \notin Kept(e)
    BY <1>1, <2>1
  <2>6. f[i] = Prepend(Stands(e, i), f[q])
    BY <1>2, <1>4, <2>1
  <2>7. QED
    BY <2>3, <2>4, <2>5, <2>6, DecodedMore
<1>5. CASE e[i] = Percent /\ EscapedAt(e, i)
  <2>1. i + 2 <= Len(e) /\ HexValue(e[i + 1]) # {} /\ HexValue(e[i + 2]) # {}
    BY <1>5 DEF EscapedAt
  <2>2. PICK q \in i + 1..Len(e) + 1 : q = i + 3
    BY <1>1, <2>1
  <2>3. e[i + 1] # Percent /\ e[i + 2] # Percent
    BY <2>1, HexIs DEF Percent
  <2>4. q = Len(e) + 1 \/ q \in Kept(e)
    <3>1. CASE q \in 1..Len(e)
      <4>1. q - 1 = i + 2 /\ q - 2 = i + 1
        BY <1>1, <2>2
      <4>2. QED
        BY <1>3, <2>3, <3>1, <4>1
    <3>2. QED
      BY <1>1, <2>2, <3>1
  <2>5. DecodedFrom(f, e, q)
    BY <2>4
  <2>6. \A k \in i + 1..q - 1 : EscapedAt(e, k) /\ k \notin Kept(e)
    <3> SUFFICES ASSUME NEW k \in i + 1..q - 1 PROVE EscapedAt(e, k) /\ k \notin Kept(e)
      OBVIOUS
    <3>1. k \in 1..Len(e) /\ (k = i + 1 \/ k = i + 2)
      BY <1>1, <2>1, <2>2
    <3>2. e[k] # Percent /\ (k - 1 = i \/ k - 2 = i)
      BY <1>1, <2>3, <3>1
    <3>3. k \notin Kept(e)
      BY <1>1, <1>3, <1>5, <3>1, <3>2
    <3>4. QED
      BY <3>2, <3>3 DEF EscapedAt
  <2>7. f[i] = Prepend(Stands(e, i), f[q])
    BY <1>1, <1>2, <1>5, <2>1, <2>2
  <2>8. QED
    BY <1>5, <2>5, <2>6, <2>7, DecodedMore
<1>6. CASE e[i] = Percent /\ ~EscapedAt(e, i)
  <2>1. i \in i..Len(e)
    BY <1>1
  <2>2. f[i] = {}
    <3>1. CASE i + 2 > Len(e)
      BY <1>2, <1>6, <3>1
    <3>2. CASE ~(i + 2 > Len(e))
      <4>1. HexValue(e[i + 1]) = {} \/ HexValue(e[i + 2]) = {}
        BY <1>1, <1>6, <3>2 DEF EscapedAt
      <4>2. Stands(e, i) = {}
        BY <1>6, <4>1, NothingStands DEF Stands, Percent, Plus
      <4>3. f[i] = Prepend(Stands(e, i), f[i + 3])
        BY <1>2, <1>6, <3>2
      <4>4. QED
        BY <4>2, <4>3, PrependIs
    <3>3. QED
      BY <3>1, <3>2
  <2>3. QED
    BY <1>6, <2>1, <2>2 DEF DecodedFrom
<1>7. QED
  BY <1>4, <1>5, <1>6

\* The text is decoded as its meaning from every kept place on.
LEMMA DecodedAll ==
    ASSUME NEW e \in Seq(0..255), NEW f, Decodes(f, e)
    PROVE  \A i \in 1..Len(e) + 1 : i = Len(e) + 1 \/ i \in Kept(e) => DecodedFrom(f, e, i)
<1> DEFINE K == {i \in Kept(e) : ~DecodedFrom(f, e, i)}
<1>1. Kept(e) \subseteq 1..Len(e) /\ Len(e) \in Nat
  BY KeptIs
<1>2. ASSUME K # {} PROVE FALSE
  <2>1. PICK k \in K : \A m \in K : m <= k
    <3>1. K \subseteq 1..Len(e)
      BY <1>1
    <3> HIDE DEF K
    <3>2. QED
      BY <1>1, <1>2, <3>1, MaxIs
  <2>2. k \in Kept(e) /\ ~DecodedFrom(f, e, k) /\ k \in 1..Len(e)
    BY <1>1, <2>1
  <2>3. ASSUME NEW q \in k + 1..Len(e) + 1, q = Len(e) + 1 \/ q \in Kept(e)
        PROVE  DecodedFrom(f, e, q)
    <3>1. CASE q = Len(e) + 1
      BY <3>1, DecodedEnd
    <3>2. CASE q # Len(e) + 1
      <4>1. q \in Kept(e) /\ ~(q <= k)
        BY <2>2, <2>3, <3>2
      <4>2. q \notin K
        <5> HIDE DEF K
        <5>1. QED
          BY <2>1, <4>1
      <4>3. QED
        BY <4>1, <4>2
    <3>3. QED
      BY <3>1, <3>2
  <2>4. DecodedFrom(f, e, k)
    BY <2>2, <2>3, DecodedHere
  <2>5. QED
    BY <2>2, <2>4
<1>3. \A i \in Kept(e) : DecodedFrom(f, e, i)
  BY <1>2
<1>4. QED
  BY <1>3, DecodedEnd

\* Meaning, by ranks.
LEMMA MeaningIs ==
    ASSUME NEW e \in Seq(0..255)
    PROVE  Meaning(e) = [n \in 1..Cardinality(Kept(e)) |->
                            MeaningAt(e, CHOOSE i \in Kept(e) : Rank(Kept(e), i) = n)]
BY Zenon DEF Meaning, Kept, MeaningAt, NumberAt, Rank

\* What stands at the kept places, in order, is the meaning.
LEMMA ToldIsMeaning ==
    ASSUME NEW e \in Seq(0..255), NEW d, Told(e, 1, d)
    PROVE  d = Meaning(e)
<1> DEFINE S == Kept(e)
           place(n) == CHOOSE i \in S : Rank(S, i) = n
           N == Cardinality(S)
<1>1. S \subseteq 1..Len(e) /\ Len(e) \in Nat
  BY KeptIs
<1>2. Rank(S, 0) = 0 /\ Rank(S, Len(e)) = N /\ N \in Nat
  <2>1. Rank(S, 0) = 0 /\ Rank(S, Len(e)) = N /\ \A j \in 0..Len(e) : Rank(S, j) \in Nat
    BY <1>1, RankIs, ZenonT(60)
  <2>2. Len(e) \in 0..Len(e)
    BY <1>1
  <2>3. QED
    BY <2>1, <2>2
<1>3. \A m \in 1..N : place(m) \in S /\ Rank(S, place(m)) = m
  <2>1. \A m \in 1..Rank(S, Len(e)) : \E i \in S : Rank(S, i) = m
    BY <1>1, RanksFit
  <2> HIDE DEF S, N
  <2>2. QED
    BY <1>2, <2>1
<1>4. /\ d \in Seq(0..255) /\ Len(d) = N - 0
      /\ \A j \in S : j >= 1 => d[Rank(S, j) - 0] = MeaningAt(e, j)
  BY <1>2 DEF Told
<1> HIDE DEF place
<1>5. \A m \in 1..N : d[m] = MeaningAt(e, place(m))
  <2> SUFFICES ASSUME NEW m \in 1..N PROVE d[m] = MeaningAt(e, place(m))
    OBVIOUS
  <2>1. PICK j \in S : j = place(m)
    BY <1>3
  <2>2. j >= 1 /\ Rank(S, j) - 0 = m
    BY <1>1, <1>2, <1>3, <2>1
  <2>3. QED
    BY <1>4, <2>1, <2>2
<1> DEFINE r == [n \in 1..N |-> MeaningAt(e, place(n))]
<1>6. Meaning(e) = r
  BY MeaningIs, Zenon DEF place
<1>7. d = [n \in 1..N |-> d[n]]
  <2>1. DOMAIN d = 1..N /\ d = [n \in DOMAIN d |-> d[n]]
    BY <1>2, <1>4, LenProperties
  <2>2. QED
    BY <2>1
<1>8. r = [n \in 1..N |-> d[n]]
  BY <1>5
<1>9. QED
  BY <1>6, <1>7, <1>8

\* urlDecode gives the meaning of a text that is well escaped, of any length, and
\* nothing for any other: it decodes each escape, keeps every other byte, loses
\* and adds none (HttpRequest.cpp, urlDecode).
THEOREM EscapesAreDecoded ==
    ASSUME NEW e \in Seq(0..255)
    PROVE  /\ UrlDecode(e) = IF WellEscaped(e) THEN {Meaning(e)} ELSE {}
           /\ WellEscaped(e) => Meaning(e) \in Seq(0..255) /\ (Meaning(e) = <<>> <=> e = <<>>)
<1>1. PICK f : Decodes(f, e) /\ UrlDecode(e) = f[1]
  <2>1. UrlDecode(e) = (CHOOSE f : Decodes(f, e))[1]
    BY DEF UrlDecode, Decodes
  <2>2. \E f : Decodes(f, e)
    BY DecodesExists
  <2>3. QED
    BY <2>1, <2>2
<1>2. /\ Kept(e) \subseteq 1..Len(e) /\ Len(e) \in Nat
      /\ 1 \in 1..Len(e) => 1 \in Kept(e)
  <2>1. \A k \in 1..Len(e) : k \in Kept(e) <=> /\ k - 1 \in 1..Len(e) => e[k - 1] # Percent
                                               /\ k - 2 \in 1..Len(e) => e[k - 2] # Percent
    BY KeptIs
  <2>2. ~(1 - 1 \in 1..Len(e)) /\ ~(1 - 2 \in 1..Len(e))
    OBVIOUS
  <2>3. QED
    BY <2>1, <2>2, KeptIs
<1>3. DecodedFrom(f, e, 1)
  <2>1. 1 \in 1..Len(e) + 1 /\ (1 = Len(e) + 1 \/ 1 \in 1..Len(e))
    BY <1>2
  <2>2. \A i \in 1..Len(e) + 1 : i = Len(e) + 1 \/ i \in Kept(e) => DecodedFrom(f, e, i)
    BY <1>1, DecodedAll
  <2>3. QED
    BY <1>2, <2>1, <2>2
<1>4. CASE WellEscaped(e)
  <2>1. PICK d : f[1] = {d} /\ Told(e, 1, d)
    BY <1>3, <1>4, WellEscapedIs DEF DecodedFrom
  <2>2. d = Meaning(e) /\ d \in Seq(0..255)
    BY <2>1, ToldIsMeaning DEF Told
  <2>3. d = <<>> <=> e = <<>>
    <3>1. Len(d) = Cardinality(Kept(e))
      <4>1. Rank(Kept(e), 0) = 0 /\ Rank(Kept(e), Len(e)) = Cardinality(Kept(e))
            /\ \A j \in 0..Len(e) : Rank(Kept(e), j) \in Nat
        BY <1>2, RankIs
      <4>2. Len(d) = Rank(Kept(e), Len(e)) - Rank(Kept(e), 1 - 1) /\ Len(e) \in 0..Len(e)
        BY <1>2, <2>1 DEF Told
      <4>3. QED
        BY <4>1, <4>2
    <3>2. IsFiniteSet(Kept(e))
      <4>1. IsFiniteSet(1..Len(e))
        <5>1. 1 \in Int /\ Len(e) \in Int
          BY <1>2
        <5>2. QED
          BY <5>1, FS_Interval
      <4>2. QED
        BY <1>2, <4>1, FS_Subset
    <3>3. Len(d) = 0 <=> Kept(e) = {}
      BY <3>1, <3>2, FS_EmptySet
    <3>4. Kept(e) = {} <=> Len(e) = 0
      BY <1>2
    <3>5. QED
      BY <2>2, <3>3, <3>4, EmptySeq
  <2>4. QED
    BY <1>1, <1>4, <2>1, <2>2, <2>3
<1>5. CASE ~WellEscaped(e)
  BY <1>1, <1>3, <1>5, WellEscapedIs DEF DecodedFrom
<1>6. QED
  BY <1>4, <1>5

--------------------------------------------------------------------------------
(* What a reader takes from the JSON of a string, piece by piece.            *)

\* The bytes a JSON reader takes at place i, and what they stand for.
Taken(body, i) == IF body[i] # Backslash THEN 1 ELSE IF body[i + 1] = 117 THEN 6 ELSE 2

Named(c) == CASE c \in {Quote, Backslash} -> {c}
              [] c = 98  -> {8}
              [] c = 102 -> {12}
              [] c = 110 -> {LF}
              [] c = 114 -> {CR}
              [] c = 116 -> {Tab}
              [] OTHER   -> {}

Character(body, i) ==
    IF body[i] = Quote \/ body[i] < 32 THEN {}
    ELSE IF body[i] # Backslash THEN {body[i]}
    ELSE LET c == body[i + 1]
         IN  CASE c \in {Quote, Backslash} -> {c}
               [] c = 98  -> {8}
               [] c = 102 -> {12}
               [] c = 110 -> {LF}
               [] c = 114 -> {CR}
               [] c = 116 -> {Tab}
               [] c = 117 /\ body[i + 2] = 48 /\ body[i + 3] = 48 ->
                     Byte(HexValue(body[i + 4]), HexValue(body[i + 5]))
               [] OTHER   -> {}

\* The character of a JSON string at a place.
LEMMA CharacterIs ==
    ASSUME NEW body, NEW i
    PROVE  /\ body[i] = Quote \/ body[i] < 32 => Character(body, i) = {}
           /\ body[i] # Quote /\ ~(body[i] < 32) =>
                /\ body[i] # Backslash => Character(body, i) = {body[i]}
                /\ body[i] = Backslash =>
                     /\ body[i + 1] # 117 => Character(body, i) = Named(body[i + 1])
                     /\ body[i + 1] = 117 => Character(body, i) =
                            IF body[i + 2] = 48 /\ body[i + 3] = 48
                            THEN Byte(HexValue(body[i + 4]), HexValue(body[i + 5])) ELSE {}
<1>1. CASE body[i] = Quote \/ body[i] < 32
  BY <1>1 DEF Character
<1>2. CASE ~(body[i] = Quote \/ body[i] < 32) /\ body[i] # Backslash
  BY <1>2 DEF Character
<1>3. CASE ~(body[i] = Quote \/ body[i] < 32) /\ body[i] = Backslash
  <2> DEFINE c == body[i + 1]
             B == Byte(HexValue(body[i + 4]), HexValue(body[i + 5]))
             u == body[i + 2] = 48 /\ body[i + 3] = 48
  <2>1. Character(body, i) =
             CASE c \in {Quote, Backslash} -> {c}
               [] c = 98  -> {8}
               [] c = 102 -> {12}
               [] c = 110 -> {LF}
               [] c = 114 -> {CR}
               [] c = 116 -> {Tab}
               [] c = 117 /\ body[i + 2] = 48 /\ body[i + 3] = 48 -> B
               [] OTHER   -> {}
    BY <1>3 DEF Character
  <2> HIDE DEF c, B
  <2>2. CASE c = 117
    <3>1. Character(body, i) = IF u THEN B ELSE {}
      BY <2>1, <2>2 DEF Quote, Backslash
    <3>2. QED
      BY <1>3, <2>2, <3>1 DEF c, B
  <2>3. CASE c # 117
    <3>1. Character(body, i) = Named(c)
      BY <2>1, <2>3 DEF Named
    <3>2. QED
      BY <1>3, <2>3, <3>1 DEF c
  <2>4. QED
    BY <2>2, <2>3
<1>4. QED
  BY <1>1, <1>2, <1>3

\* The table of ReadJson.
Reads(read, body) ==
    read = [i \in 1..Len(body) |->
            IF i = Len(body) THEN IF body[i] = Quote THEN {<<>>} ELSE {}
            ELSE IF i + Taken(body, i) > Len(body) THEN {}
            ELSE Prepend(Character(body, i), read[i + Taken(body, i)])]

\* ReadJson is the first entry of a table of ends read.
LEMMA ReadJsonIs ==
    ASSUME NEW body, body # <<>>
    PROVE  ReadJson(body) = (CHOOSE read : Reads(read, body))[1]
BY DEF ReadJson, Reads, Taken, Character

\* A reader takes bytes.
LEMMA CharacterType ==
    ASSUME NEW body \in Seq(0..255), NEW i \in 1..Len(body), i # Len(body),
           i + Taken(body, i) <= Len(body)
    PROVE  Taken(body, i) \in {1, 2, 6} /\ Character(body, i) \subseteq 0..255
<1>1. Len(body) \in Nat /\ \A k \in 1..Len(body) : body[k] \in 0..255
  BY LenProperties, ElementOfSeq
<1>2. Taken(body, i) \in {1, 2, 6}
  BY DEF Taken
<1>3. CASE body[i] = Quote \/ body[i] < 32
  BY <1>2, <1>3, CharacterIs
<1>4. CASE body[i] # Quote /\ ~(body[i] < 32) /\ body[i] # Backslash
  <2>1. Character(body, i) = {body[i]} /\ body[i] \in 0..255
    BY <1>1, <1>4, CharacterIs
  <2>2. QED
    BY <1>2, <2>1
<1>5. CASE body[i] # Quote /\ ~(body[i] < 32) /\ body[i] = Backslash /\ body[i + 1] # 117
  <2>1. Character(body, i) = Named(body[i + 1])
    BY <1>5, CharacterIs
  <2>2. PICK c \in 0..255 : c = body[i + 1]
    <3>1. i + 1 \in 1..Len(body)
      BY <1>1
    <3>2. QED
      BY <1>1, <3>1
  <2>3. Named(c) \subseteq 0..255
    <3>1. Named(c) = {} \/ \E x \in {c, 8, 12, 10, 13, 9} : Named(c) = {x}
      BY DEF Named, LF, CR, Tab
    <3>2. \A x \in {c, 8, 12, 10, 13, 9} : x \in 0..255
      OBVIOUS
    <3>3. CASE Named(c) # {}
      <4>1. PICK x \in {c, 8, 12, 10, 13, 9} : Named(c) = {x}
        BY <3>1, <3>3
      <4>2. x \in 0..255
        BY <3>2
      <4>3. QED
        BY <4>1, <4>2
    <3>4. QED
      BY <3>3
  <2>4. QED
    BY <1>2, <2>1, <2>2, <2>3
<1>6. CASE body[i] # Quote /\ ~(body[i] < 32) /\ body[i] = Backslash /\ body[i + 1] = 117
  <2> DEFINE A == HexValue(body[i + 4])
             B == HexValue(body[i + 5])
  <2>1. Character(body, i) = {} \/ Character(body, i) = Byte(A, B)
    BY <1>6, CharacterIs, SMTT(30)
  <2>2. i + 4 \in 1..Len(body) /\ i + 5 \in 1..Len(body)
    BY <1>1, <1>6 DEF Taken
  <2>3. (\A h \in A : h \in 0..15) /\ \A l \in B : l \in 0..15
    <3>1. body[i + 4] \in 0..255 /\ body[i + 5] \in 0..255
      BY <1>1, <2>2
    <3>2. QED
      BY <3>1, HexIs, ZenonT(60)
  <2> HIDE DEF A, B
  <2>4. Byte(A, B) \subseteq 0..255
    BY <2>3, ByteIs, ZenonT(60)
  <2>5. QED
    BY <1>2, <2>1, <2>4, ZenonT(60)
<1>7. QED
  BY <1>3, <1>4, <1>5, <1>6

\* There is a table of ends read.
LEMMA ReadsExists ==
    ASSUME NEW body \in Seq(0..255)
    PROVE  \E f : Reads(f, body)
<1> DEFINE N == Len(body)
           V == SUBSET Seq(0..255)
           Stop == {i \in 1..N : i = N \/ i + Taken(body, i) > N}
           b == [i \in 1..N |-> IF i = N /\ body[i] = Quote THEN {<<>>} ELSE {}]
           nx == [i \in 1..N |-> i + Taken(body, i)]
           H == [i \in 1..N |-> [v \in V |-> Prepend(Character(body, i), v)]]
<1>1. N \in Nat
  BY LenProperties
<1>2. \A i \in 1..N : i \in Stop => b[i] \in V
  <2>1. <<>> \in Seq(0..255)
    BY EmptySeq
  <2>2. QED
    BY <2>1
<1>3. \A i \in 1..N : i \notin Stop =>
          Taken(body, i) \in {1, 2, 6} /\ i + Taken(body, i) <= N /\ Character(body, i) \subseteq 0..255
  <2> SUFFICES ASSUME NEW i \in 1..N, i \notin Stop
               PROVE  Taken(body, i) \in {1, 2, 6} /\ i + Taken(body, i) <= N
                      /\ Character(body, i) \subseteq 0..255
    OBVIOUS
  <2>1. Taken(body, i) \in {1, 2, 6}
    BY DEF Taken
  <2>2. i # N /\ i + Taken(body, i) <= N
    BY <1>1, <2>1
  <2>3. QED
    BY <2>1, <2>2, CharacterType
<1>4. \A i \in 1..N : i \notin Stop => nx[i] \in i + 1..N
  BY <1>1, <1>3
<1>5. \A i \in 1..N : i \notin Stop => \A v \in V : H[i][v] \in V
  <2> SUFFICES ASSUME NEW i \in 1..N, i \notin Stop, NEW v \in V PROVE H[i][v] \in V
    OBVIOUS
  <2>1. Character(body, i) \subseteq 0..255
    BY <1>3
  <2>2. Prepend(Character(body, i), v) \subseteq Seq(0..255)
    BY <2>1, PrependType
  <2>3. QED
    BY <2>2
<1>6. \A i \in 1..N : \A v \in V : H[i][v] = Prepend(Character(body, i), v)
  OBVIOUS
<1>7. \A i \in 1..N : /\ i \in Stop <=> i = N \/ i + Taken(body, i) > N
                      /\ b[i] = IF i = N /\ body[i] = Quote THEN {<<>>} ELSE {}
                      /\ nx[i] = i + Taken(body, i)
  OBVIOUS
<1> HIDE DEF Stop, b, nx, H, V
<1>8. PICK f : Table(f, N, V, Stop, b, nx, H)
  <2>1. Linked(N, V, Stop, b, nx, H)
    BY <1>2, <1>4, <1>5 DEF Linked
  <2> HIDE DEF N
  <2>2. QED
    BY <1>1, <2>1, TableExists
<1> DEFINE Entry(i, h) ==
            IF i = N THEN IF body[i] = Quote THEN {<<>>} ELSE {}
            ELSE IF i + Taken(body, i) > N THEN {}
            ELSE Prepend(Character(body, i), h[i + Taken(body, i)])
           g == [i \in 1..N |-> f[i]]
           r == [i \in 1..N |-> Entry(i, g)]
<1>9. \A i \in 1..N : g[i] = f[i] /\ r[i] = Entry(i, g)
  OBVIOUS
<1>10. \A i \in 1..N : f[i] \in V /\ f[i] = IF i \in Stop THEN b[i] ELSE H[i][f[nx[i]]]
  BY <1>8 DEF Table
<1>11. g = [i \in 1..N |-> g[i]] /\ r = [i \in 1..N |-> r[i]]
  OBVIOUS
<1> HIDE DEF g, r
<1>12. \A i \in 1..N : g[i] = r[i]
  <2> SUFFICES ASSUME NEW i \in 1..N PROVE f[i] = Entry(i, g)
    BY <1>9
  <2>1. CASE i \in Stop
    BY <1>7, <1>10, <2>1
  <2>2. CASE i \notin Stop
    <3>1. nx[i] \in 1..N /\ nx[i] = i + Taken(body, i)
      BY <1>1, <1>4, <1>7, <2>2
    <3>2. g[nx[i]] = f[nx[i]] /\ f[nx[i]] \in V
      BY <1>9, <1>10, <3>1
    <3>3. f[i] = Prepend(Character(body, i), g[nx[i]])
      BY <1>6, <1>10, <2>2, <3>2
    <3>4. QED
      BY <1>7, <2>2, <3>1, <3>3
  <2>3. QED
    BY <2>1, <2>2
<1>13. g = r
  BY <1>11, <1>12, Zenon
<1>14. Reads(g, body)
  BY <1>13 DEF Reads, r
<1>15. QED
  BY <1>14

\* The entries of a table of ends read.
LEMMA ReadsStep ==
    ASSUME NEW f, NEW body, Reads(f, body), Len(body) \in Nat
    PROVE  \A i \in 1..Len(body) :
                /\ i = Len(body) /\ body[i] = Quote => f[i] = {<<>>}
                /\ i # Len(body) /\ i + Taken(body, i) <= Len(body) =>
                      f[i] = Prepend(Character(body, i), f[i + Taken(body, i)])
<1> DEFINE Entry(i, h) ==
            IF i = Len(body) THEN IF body[i] = Quote THEN {<<>>} ELSE {}
            ELSE IF i + Taken(body, i) > Len(body) THEN {}
            ELSE Prepend(Character(body, i), h[i + Taken(body, i)])
           r == [i \in 1..Len(body) |-> Entry(i, f)]
<1>1. f = r
  BY DEF Reads
<1>2. \A i \in 1..Len(body) : r[i] = Entry(i, f)
  OBVIOUS
<1> HIDE DEF r
<1>3. \A i \in 1..Len(body) : f[i] = Entry(i, f)
  BY <1>1, <1>2
<1>4. \A i \in 1..Len(body) : Taken(body, i) \in Int
  BY DEF Taken
<1>5. QED
  BY <1>3, <1>4

\* A digit that Hex writes is read as its number.
LEMMA HexDigit ==
    ASSUME NEW x \in 0..15
    PROVE  Hex(x) \in 0..255 /\ HexValue(Hex(x)) = {x}
<1>1. CASE x < 10
  <2>1. 48 + x \in 48..57 /\ (48 + x) - 48 = x /\ Hex(x) = 48 + x
    BY <1>1 DEF Hex
  <2>2. PICK c \in 48..57 : c = 48 + x
    BY <2>1
  <2>3. HexValue(c) = {c - 48}
    BY DEF HexValue
  <2>4. QED
    BY <2>1, <2>2, <2>3
<1>2. CASE ~(x < 10)
  <2>1. 87 + x \in 97..102 /\ (87 + x) - 87 = x /\ Hex(x) = 87 + x
    BY <1>2 DEF Hex
  <2>2. PICK c \in 97..102 : c = 87 + x
    BY <2>1
  <2>3. HexValue(c) = {c - 87}
    BY DEF HexValue
  <2>4. QED
    BY <2>1, <2>2, <2>3
<1>3. QED
  BY <1>1, <1>2

\* The piece p begins at place a of the body.
Stretch(body, a, p) == \A k \in 1..Len(p) : body[a + k - 1] = p[k]

\* An escaped character is read as that character.
LEMMA EscapeIs ==
    ASSUME NEW c \in 0..255
    PROVE  /\ EscapeCharacter(c) \in Seq(0..255) /\ Len(EscapeCharacter(c)) \in {1, 2, 6}
           /\ \A body : \A a \in Nat : Stretch(body, a, EscapeCharacter(c)) =>
                Taken(body, a) = Len(EscapeCharacter(c)) /\ Character(body, a) = {c}
<1> DEFINE p == EscapeCharacter(c)
<1>1. CASE c \in {34, 92, 8, 9, 10, 12, 13}
  <2> DEFINE x == CASE c = 34 -> 34 [] c = 92 -> 92 [] c = 8 -> 98 [] c = 12 -> 102
                    [] c = 10 -> 110 [] c = 13 -> 114 [] c = 9 -> 116
  <2>1. p = <<92, x>> /\ x \in 0..255 /\ x # 117
    BY <1>1 DEF EscapeCharacter, Quote, Backslash, LF, CR, Tab
  <2>2. Named(x) = {c}
    BY <1>1 DEF Named, Quote, Backslash, LF, CR, Tab
  <2> HIDE DEF x, p
  <2>3. p \in Seq(0..255) /\ Len(p) = 2 /\ p[1] = 92 /\ p[2] = x
    BY <2>1
  <2>4. ASSUME NEW body, NEW a \in Nat, Stretch(body, a, p)
        PROVE  Taken(body, a) = Len(p) /\ Character(body, a) = {c}
    <3>1. body[a] = 92 /\ body[a + 1] = x
      <4>1. 1 \in 1..Len(p) /\ 2 \in 1..Len(p) /\ a + 1 - 1 = a /\ a + 2 - 1 = a + 1
        BY <2>3
      <4>2. body[a + 1 - 1] = p[1] /\ body[a + 2 - 1] = p[2]
        BY <2>4, <4>1 DEF Stretch
      <4>3. QED
        BY <2>3, <4>1, <4>2
    <3>2. Taken(body, a) = 2
      BY <2>1, <3>1 DEF Taken, Backslash
    <3>3. Character(body, a) = Named(x)
      BY <2>1, <3>1, CharacterIs DEF Quote, Backslash
    <3>4. QED
      BY <2>2, <2>3, <3>2, <3>3
  <2>5. QED
    BY <2>3, <2>4 DEF p
<1>2. CASE c \notin {34, 92, 8, 9, 10, 12, 13} /\ c < 32
  <2> DEFINE h == Hex(c \div 16)
             l == Hex(c % 16)
  <2>1. c \div 16 \in 0..15 /\ c % 16 \in 0..15 /\ 16 * (c \div 16) + (c % 16) = c
    OBVIOUS
  <2>2. h \in 0..255 /\ l \in 0..255 /\ HexValue(h) = {c \div 16} /\ HexValue(l) = {c % 16}
    BY <2>1, HexDigit
  <2>3. p = <<92, 117, 48, 48, h, l>>
    BY <1>2 DEF EscapeCharacter, Quote, Backslash, LF, CR, Tab
  <2>4. Byte(HexValue(h), HexValue(l)) = {c}
    <3>1. \A u, v : Byte({u}, {v}) = {16 * u + v}
      BY DEF Byte
    <3>2. PICK u \in 0..15, v \in 0..15 : u = c \div 16 /\ v = c % 16 /\ 16 * u + v = c
      BY <2>1
    <3> HIDE DEF h, l
    <3>3. HexValue(h) = {u} /\ HexValue(l) = {v}
      BY <2>2, <3>2
    <3>4. Byte({u}, {v}) = {c}
      BY <3>1, <3>2
    <3>5. QED
      BY <3>3, <3>4
  <2> HIDE DEF h, l, p
  <2>5. /\ p \in Seq(0..255) /\ Len(p) = 6
        /\ p[1] = 92 /\ p[2] = 117 /\ p[3] = 48 /\ p[4] = 48 /\ p[5] = h /\ p[6] = l
    BY <2>2, <2>3
  <2>6. ASSUME NEW body, NEW a \in Nat, Stretch(body, a, p)
        PROVE  Taken(body, a) = Len(p) /\ Character(body, a) = {c}
    <3>1. /\ body[a] = 92 /\ body[a + 1] = 117 /\ body[a + 2] = 48 /\ body[a + 3] = 48
          /\ body[a + 4] = h /\ body[a + 5] = l
      <4>1. \A k \in 1..6 : body[a + k - 1] = p[k]
        BY <2>5, <2>6 DEF Stretch
      <4>2. /\ a + 1 - 1 = a /\ a + 2 - 1 = a + 1 /\ a + 3 - 1 = a + 2
            /\ a + 4 - 1 = a + 3 /\ a + 5 - 1 = a + 4 /\ a + 6 - 1 = a + 5
        OBVIOUS
      <4>3. /\ body[a + 1 - 1] = p[1] /\ body[a + 2 - 1] = p[2] /\ body[a + 3 - 1] = p[3]
            /\ body[a + 4 - 1] = p[4] /\ body[a + 5 - 1] = p[5] /\ body[a + 6 - 1] = p[6]
        BY <4>1
      <4>4. QED
        BY <2>5, <4>2, <4>3
    <3>2. Taken(body, a) = 6
      BY <3>1 DEF Taken, Backslash
    <3>3. Character(body, a) = Byte(HexValue(h), HexValue(l))
      BY <3>1, CharacterIs DEF Quote, Backslash
    <3>4. QED
      BY <2>4, <2>5, <3>2, <3>3
  <2>7. QED
    BY <2>5, <2>6 DEF p
<1>3. CASE c \notin {34, 92} /\ ~(c < 32)
  <2>1. p = <<c>>
    BY <1>3 DEF EscapeCharacter, Quote, Backslash, LF, CR, Tab
  <2> HIDE DEF p
  <2>2. p \in Seq(0..255) /\ Len(p) = 1 /\ p[1] = c
    BY <2>1
  <2>3. ASSUME NEW body, NEW a \in Nat, Stretch(body, a, p)
        PROVE  Taken(body, a) = Len(p) /\ Character(body, a) = {c}
    <3>1. body[a] = c
      <4>1. 1 \in 1..Len(p) /\ a + 1 - 1 = a
        BY <2>2
      <4>2. body[a + 1 - 1] = p[1]
        BY <2>3, <4>1 DEF Stretch
      <4>3. QED
        BY <2>2, <4>1, <4>2
    <3>2. Taken(body, a) = 1
      BY <1>3, <3>1 DEF Taken, Backslash
    <3>3. Character(body, a) = {c}
      BY <1>3, <3>1, CharacterIs DEF Quote, Backslash
    <3>4. QED
      BY <2>2, <3>2, <3>3
  <2>4. QED
    BY <2>2, <2>3 DEF p
<1>4. QED
  BY <1>1, <1>2, <1>3

\* Where the pieces of a concatenation are: E[k] bytes are before piece k + 1.
Laid(E, s, t) ==
    /\ E[0] = 0 /\ E[Len(s)] = Len(t)
    /\ \A k \in 0..Len(s) : E[k] \in 0..Len(t)
    /\ \A j, k \in 0..Len(s) : j + 1 = k => E[k] = E[j] + Len(s[k]) /\ Stretch(t, E[j] + 1, s[k])

\* Each piece of a concatenation has its place in it.
LEMMA FlattenLaid ==
    ASSUME NEW S, NEW s \in Seq(Seq(S))
    PROVE  \E E : Laid(E, s, FlattenSeq(s))
<1>1. Len(s) \in Nat /\ \A k \in 1..Len(s) : s[k] \in Seq(S)
  BY LenProperties, ElementOfSeq
<1>2. CASE Len(s) = 0
  <2> DEFINE E == [k \in 0..0 |-> 0]
  <2>1. E[0] = 0
    OBVIOUS
  <2> HIDE DEF E
  <2>2. s = <<>> /\ FlattenSeq(s) = s
    BY <1>2, EmptySeq DEF FlattenSeq
  <2>3. Laid(E, s, FlattenSeq(s))
    BY <1>2, <2>1, <2>2 DEF Laid
  <2>4. QED
    BY <2>3
<1>3. CASE Len(s) # 0
  <2>1. PICK g : Flattens(g, s, Len(s)) /\ FlattenSeq(s) = g[Len(s)]
    BY <1>1, <1>3, FlattenIs
  <2>2. \A i \in 1..Len(s) : g[i] = IF i = 1 THEN s[i] ELSE g[i - 1] \o s[i]
    BY <2>1, FlattensStep, SMTT(30)
  <2> DEFINE K == {k \in 1..Len(s) : g[k] \notin Seq(S)}
  <2>3. \A k \in 1..Len(s) : g[k] \in Seq(S)
    <3>1. ASSUME K # {} PROVE FALSE
      <4>1. PICK k \in K : \A m \in K : k <= m
        <5>1. K \subseteq Nat
          OBVIOUS
        <5> HIDE DEF K
        <5>2. QED
          BY <3>1, <5>1, MinIs
      <4>2. k \in 1..Len(s) /\ g[k] \notin Seq(S)
        BY <4>1
      <4>3. k # 1 => g[k - 1] \in Seq(S)
        <5>1. k # 1 => k - 1 \in 1..Len(s) /\ k - 1 \notin K
          BY <4>1, <4>2
        <5>2. QED
          BY <5>1
      <4>4. g[k] = IF k = 1 THEN s[k] ELSE g[k - 1] \o s[k]
        BY <2>2, <4>2
      <4>5. s[k] \in Seq(S)
        BY <1>1, <4>2
      <4>6. QED
        BY <4>2, <4>3, <4>4, <4>5, ConcatProperties
    <3>2. QED
      BY <3>1
  <2> DEFINE n == Len(s)
             E == [k \in 0..n |-> IF k = 0 THEN 0 ELSE Len(g[k])]
  <2>4. \A k \in 0..n : E[k] = (IF k = 0 THEN 0 ELSE Len(g[k])) /\ E[k] \in Nat
    BY <1>1, <2>3, LenProperties
  <2> HIDE DEF E
  \* One piece more.
  <2>5. ASSUME NEW j \in 0..n, NEW k \in 0..n, j + 1 = k
        PROVE  /\ E[k] = E[j] + Len(s[k]) /\ Stretch(g[k], E[j] + 1, s[k])
               /\ j # 0 => \A x \in 1..E[j] : g[k][x] = g[j][x]
    <3>1. k \in 1..n /\ k - 1 = j /\ s[k] \in Seq(S)
      BY <1>1, <2>5
    <3>2. g[k] = IF k = 1 THEN s[k] ELSE g[k - 1] \o s[k]
      BY <2>2, <3>1
    <3>3. CASE j = 0
      <4>1. g[k] = s[k] /\ E[j] = 0 /\ E[k] = Len(s[k]) /\ Len(s[k]) \in Nat
        BY <2>4, <2>5, <3>1, <3>2, <3>3, LenProperties
      <4>2. \A x \in 1..Len(s[k]) : 0 + 1 + x - 1 = x
        OBVIOUS
      <4>3. QED
        BY <3>3, <4>1, <4>2 DEF Stretch
    <3>4. CASE j # 0
      <4>1. j \in 1..n /\ g[j] \in Seq(S) /\ g[k] = g[j] \o s[k]
        <5>1. j \in 1..n /\ k # 1
          BY <1>1, <2>5, <3>1, <3>4
        <5>2. g[j] \in Seq(S)
          BY <2>3, <5>1
        <5>3. QED
          BY <3>1, <3>2, <5>1, <5>2
      <4> DEFINE u == g[j]
                 v == s[k]
                 w == g[k]
      <4>2. u \in Seq(S) /\ v \in Seq(S) /\ w = u \o v
        BY <3>1, <4>1
      <4> HIDE DEF u, v, w
      <4>3. /\ Len(w) = Len(u) + Len(v) /\ Len(u) \in Nat /\ Len(v) \in Nat
            /\ \A x \in 1..Len(u) + Len(v) : w[x] = IF x <= Len(u) THEN u[x] ELSE v[x - Len(u)]
        BY <4>2, ConcatProperties, LenProperties
      <4>4. E[j] = Len(u) /\ E[k] = Len(w)
        BY <2>4, <2>5, <3>1, <3>4 DEF u, w
      <4>5. Stretch(w, E[j] + 1, v)
        <5> SUFFICES ASSUME NEW x \in 1..Len(v) PROVE w[E[j] + 1 + x - 1] = v[x]
          BY DEF Stretch
        <5>1. PICK y \in Nat : y = E[j] + 1 + x - 1
          <6>1. E[j] + x \in Nat /\ E[j] + x = E[j] + 1 + x - 1
            BY <4>3, <4>4
          <6>2. QED
            BY <6>1
        <5>2. y \in 1..Len(u) + Len(v) /\ ~(y <= Len(u)) /\ y - Len(u) = x
          BY <4>3, <4>4, <5>1
        <5>3. QED
          BY <4>3, <5>1, <5>2
      <4>6. \A x \in 1..E[j] : w[x] = u[x]
        BY <4>3, <4>4
      <4>7. QED
        BY <4>3, <4>4, <4>5, <4>6 DEF u, v, w
    <3>5. QED
      BY <3>3, <3>4
  \* What comes after changes nothing before.
  <2>6. ASSUME NEW j \in 1..n
        PROVE  \A k \in j..n : E[j] <= E[k] /\ \A x \in 1..E[j] : g[k][x] = g[j][x]
    <3> DEFINE L == {k \in j..n : ~(E[j] <= E[k] /\ \A x \in 1..E[j] : g[k][x] = g[j][x])}
    <3>1. ASSUME L # {} PROVE FALSE
      <4>1. PICK k \in L : \A m \in L : k <= m
        <5>1. L \subseteq Nat
          OBVIOUS
        <5> HIDE DEF L
        <5>2. QED
          BY <3>1, <5>1, MinIs
      <4>2. k \in j..n /\ ~(E[j] <= E[k] /\ \A x \in 1..E[j] : g[k][x] = g[j][x])
        BY <4>1
      <4>3. k # j /\ j \in 0..n /\ E[j] \in Nat
        <5>1. j \in 0..n /\ E[j] \in Nat
          BY <2>4
        <5>2. QED
          BY <4>2, <5>1
      <4>4. PICK p \in j..n : p + 1 = k
        <5>1. k - 1 \in j..n /\ (k - 1) + 1 = k
          BY <4>2, <4>3
        <5>2. QED
          BY <5>1
      <4>5. p \notin L
        <5> HIDE DEF L
        <5>1. QED
          BY <4>1, <4>4
      <4>6. E[j] <= E[p] /\ \A x \in 1..E[j] : g[p][x] = g[j][x]
        BY <4>4, <4>5
      <4>7. p \in 0..n /\ k \in 0..n /\ p # 0 /\ k \in 1..n
        BY <4>2, <4>4
      <4>8. E[k] = E[p] + Len(s[k]) /\ \A x \in 1..E[p] : g[k][x] = g[p][x]
        BY <2>5, <4>4, <4>7
      <4>9. E[p] \in Nat /\ Len(s[k]) \in Nat
        BY <1>1, <2>4, <4>7, LenProperties
      <4>10. QED
        BY <4>2, <4>3, <4>6, <4>8, <4>9, SMTT(30)
    <3>2. QED
      BY <3>1
  <2>7. n \in 1..n /\ n \in 0..n /\ 0 \in 0..n
    BY <1>1, <1>3
  <2> DEFINE t == g[n]
  <2>8. E[0] = 0 /\ E[n] = Len(t)
    BY <1>3, <2>4, <2>7
  <2>9. \A k \in 0..n : E[k] \in 0..Len(t)
    <3> SUFFICES ASSUME NEW k \in 0..n PROVE E[k] \in 0..Len(t)
      OBVIOUS
    <3>1. E[k] \in Nat /\ E[n] \in Nat
      BY <2>4, <2>7
    <3>2. k # 0 => E[k] <= E[n]
      <4>1. k # 0 => k \in 1..n /\ n \in k..n
        BY <1>1
      <4>2. QED
        BY <2>6, <4>1
    <3>3. QED
      BY <2>8, <3>1, <3>2
  <2>10. ASSUME NEW j \in 0..n, NEW k \in 0..n, j + 1 = k
         PROVE  E[k] = E[j] + Len(s[k]) /\ Stretch(t, E[j] + 1, s[k])
    <3>1. E[k] = E[j] + Len(s[k]) /\ Stretch(g[k], E[j] + 1, s[k])
      BY <2>5, <2>10
    <3>2. k \in 1..n /\ n \in k..n
      BY <1>1, <2>10
    <3>3. \A x \in 1..E[k] : t[x] = g[k][x]
      BY <2>6, <3>2
    <3>4. E[j] \in Nat /\ Len(s[k]) \in Nat
      BY <1>1, <2>4, <3>2, LenProperties
    <3>5. Stretch(t, E[j] + 1, s[k])
      <4> SUFFICES ASSUME NEW x \in 1..Len(s[k]) PROVE t[E[j] + 1 + x - 1] = s[k][x]
        BY DEF Stretch
      <4>1. PICK y \in Nat : y = E[j] + 1 + x - 1
        BY <3>4
      <4>2. y \in 1..E[k]
        BY <3>1, <3>4, <4>1, SMTT(30)
      <4>3. g[k][y] = s[k][x]
        BY <3>1, <4>1 DEF Stretch
      <4>4. QED
        BY <3>3, <4>1, <4>2, <4>3
    <3>6. QED
      BY <3>1, <3>5
  <2>11. Laid(E, s, t)
    BY <2>8, <2>9, <2>10 DEF Laid
  <2>12. QED
    BY <2>1, <2>11
<1>4. QED
  BY <1>2, <1>3

\* The pieces of a JSON string, one for each character.
Pieces(v) == [i \in DOMAIN v |-> EscapeCharacter(v[i])]

\* The pieces of a JSON string are bytes.
LEMMA PiecesAre ==
    ASSUME NEW v \in Seq(0..255)
    PROVE  /\ Pieces(v) \in Seq(Seq(0..255)) /\ Len(Pieces(v)) = Len(v) /\ Len(v) \in Nat
           /\ \A k \in 1..Len(v) : v[k] \in 0..255 /\ Pieces(v)[k] = EscapeCharacter(v[k])
<1>1. DOMAIN v = 1..Len(v) /\ Len(v) \in Nat /\ \A k \in 1..Len(v) : v[k] \in 0..255
  BY LenProperties, ElementOfSeq
<1>2. \A k \in 1..Len(v) : EscapeCharacter(v[k]) \in Seq(0..255)
  BY <1>1, EscapeIs
<1>3. Pieces(v) = [k \in 1..Len(v) |-> EscapeCharacter(v[k])]
  BY <1>1 DEF Pieces
<1> DEFINE p == [k \in 1..Len(v) |-> EscapeCharacter(v[k])]
<1>4. p \in [1..Len(v) -> Seq(0..255)] /\ \A k \in 1..Len(v) : p[k] = EscapeCharacter(v[k])
  BY <1>2
<1> HIDE DEF p
<1>5. p \in Seq(Seq(0..255)) /\ DOMAIN p = 1..Len(v)
  BY <1>1, <1>4, IsASeq
<1>6. Len(p) = Len(v)
  BY <1>1, <1>5, LenProperties
<1>7. QED
  BY <1>1, <1>3, <1>4, <1>5, <1>6 DEF p

\* What remains of a string is read from where its piece begins.
LEMMA ReadFrom ==
    ASSUME NEW v \in Seq(0..255), NEW body \in Seq(0..255), NEW text \in Seq(0..255),
           Len(body) = Len(text) + 1, body[Len(body)] = Quote,
           \A x \in 1..Len(text) : body[x] = text[x],
           NEW E, Laid(E, Pieces(v), text), NEW f, Reads(f, body)
    PROVE  f[1] = {v}
<1> DEFINE m == Len(v)
           Right(j) == \A b \in 0..m : b + 1 = j => f[E[b] + 1] = {SubSeq(v, j, m)}
           K == {j \in 1..m + 1 : ~Right(j)}
<1>1. /\ m \in Nat /\ Len(Pieces(v)) = m /\ Len(text) \in Nat
      /\ \A k \in 1..m : v[k] \in 0..255 /\ Pieces(v)[k] = EscapeCharacter(v[k])
  BY PiecesAre, LenProperties, ZenonT(60)
<1>2. /\ E[0] = 0 /\ E[m] = Len(text)
      /\ \A k \in 0..m : E[k] \in 0..Len(text)
      /\ \A j, k \in 0..m : j + 1 = k =>
            E[k] = E[j] + Len(Pieces(v)[k]) /\ Stretch(text, E[j] + 1, Pieces(v)[k])
  BY <1>1 DEF Laid
<1>3. \A i \in 1..Len(body) :
                /\ i = Len(body) /\ body[i] = Quote => f[i] = {<<>>}
                /\ i # Len(body) /\ i + Taken(body, i) <= Len(body) =>
                      f[i] = Prepend(Character(body, i), f[i + Taken(body, i)])
  <2>1. Len(body) \in Nat
    BY LenProperties
  <2>2. QED
    BY <2>1, ReadsStep
<1>4. ASSUME K # {} PROVE FALSE
  <2>1. PICK j \in K : \A i \in K : i <= j
    <3>1. K \subseteq 1..m + 1 /\ m + 1 \in Nat
      BY <1>1
    <3> HIDE DEF K
    <3>2. QED
      BY <1>4, <3>1, MaxIs
  <2>2. j \in 1..m + 1
    BY <2>1
  <2>3. PICK b \in 0..m : b + 1 = j /\ f[E[b] + 1] # {SubSeq(v, j, m)}
    BY <2>1
  <2>4. CASE j = m + 1
    <3>1. b = m /\ E[b] + 1 = Len(body) /\ Len(body) \in 1..Len(body)
      BY <1>1, <1>2, <2>3, <2>4
    <3>2. f[E[b] + 1] = {<<>>}
      BY <1>3, <3>1
    <3>3. SubSeq(v, j, m) = <<>>
      <4>1. j \in Int /\ m \in Int /\ m < j
        BY <1>1, <2>4
      <4>2. QED
        BY <4>1, SubSeqEmpty
    <3>4. QED
      BY <2>3, <3>2, <3>3
  <2>5. CASE j # m + 1
    <3>1. j \in 0..m /\ j \in 1..m /\ b \in 0..m /\ b + 1 = j
      BY <1>1, <2>2, <2>3, <2>5
    <3> DEFINE c == v[j]
               p == EscapeCharacter(c)
    <3>2. c \in 0..255 /\ Pieces(v)[j] = p
      BY <1>1, <3>1
    <3>3. /\ p \in Seq(0..255) /\ Len(p) \in {1, 2, 6}
          /\ \A s : \A a \in Nat : Stretch(s, a, p) => Taken(s, a) = Len(p) /\ Character(s, a) = {c}
      BY <3>2, EscapeIs
    <3> HIDE DEF p
    <3>4. E[j] = E[b] + Len(p) /\ Stretch(text, E[b] + 1, p)
      BY <1>2, <3>1, <3>2
    <3>5. E[j] \in 0..Len(text) /\ E[b] \in 0..Len(text)
      BY <1>2, <3>1
    <3> DEFINE eb == E[b]
               ej == E[j]
               lp == Len(p)
               lt == Len(text)
    <3>6. /\ eb \in Nat /\ ej \in Nat /\ lp \in 1..6 /\ lt \in Nat /\ ej = eb + lp /\ ej <= lt
           /\ Len(body) = lt + 1
      BY <1>1, <3>3, <3>4, <3>5
    <3> HIDE DEF eb, ej, lp, lt
    <3>7. PICK a \in Nat : a = eb + 1
      BY <3>6
    <3>8. a = E[b] + 1
      BY <3>7 DEF eb
    <3>9. \A x \in 1..lp : a + x - 1 \in 1..lt
      BY <3>6, <3>7
    <3>10. Stretch(body, a, p)
      <4> SUFFICES ASSUME NEW x \in 1..Len(p) PROVE body[a + x - 1] = p[x]
        BY DEF Stretch
      <4>1. PICK y \in 1..lt : y = a + x - 1
        BY <3>9 DEF lp
      <4>2. y \in 1..Len(text)
        BY <4>1 DEF lt
      <4>3. text[y] = p[x]
        BY <3>4, <3>8, <4>1 DEF Stretch
      <4>4. QED
        BY <4>1, <4>2, <4>3
    <3>11. Taken(body, a) = Len(p) /\ Character(body, a) = {c}
      BY <3>3, <3>10
    <3>12. PICK z \in Nat : z = ej + 1
      BY <3>6, SMTT(30)
    <3>13. a + lp = z /\ a # Len(body) /\ z <= Len(body) /\ a \in 1..Len(body)
      BY <3>6, <3>7, <3>12
    <3>14. f[a] = Prepend({c}, f[z])
      BY <1>3, <3>11, <3>13 DEF lp
    <3>15. f[z] = {SubSeq(v, j + 1, m)}
      <4>1. j + 1 \in 1..m + 1 /\ j + 1 \notin K
        <5>1. j + 1 \in 1..m + 1 /\ ~(j + 1 <= j)
          BY <1>1, <3>1
        <5> HIDE DEF K
        <5>2. QED
          BY <2>1, <5>1
      <4>2. Right(j + 1)
        BY <4>1
      <4>3. QED
        BY <3>1, <3>12, <4>2 DEF ej
    <3>16. SubSeq(v, j, m) = <<c>> \o SubSeq(v, j + 1, m)
      <4>1. j \in 1..Len(v) /\ m \in j..Len(v)
        BY <1>1, <3>1
      <4>2. QED
        BY <4>1, SubSeqRecursiveFirst, SMTT(30)
    <3>17. f[a] = {SubSeq(v, j, m)}
      <4> DEFINE d == SubSeq(v, j + 1, m)
      <4> HIDE DEF d, c
      <4>1. f[z] = {d} /\ SubSeq(v, j, m) = <<c>> \o d
        BY <3>15, <3>16 DEF d
      <4>2. Prepend({c}, {d}) = {<<c>> \o d}
        BY PrependIs
      <4>3. QED
        BY <3>14, <4>1, <4>2
    <3>18. QED
      BY <2>3, <3>8, <3>17
  <2>6. QED
    BY <2>4, <2>5
<1>5. Right(1)
  <2>1. 1 \in 1..m + 1
    BY <1>1
  <2>2. QED
    BY <1>4, <2>1
<1>6. f[E[0] + 1] = {SubSeq(v, 1, m)}
  <2>1. 0 \in 0..m /\ 0 + 1 = 1
    BY <1>1
  <2>2. QED
    BY <1>5, <2>1
<1>7. E[0] + 1 = 1
  BY <1>2
<1>8. SubSeq(v, 1, m) = v
  BY SubSeqFull
<1>9. QED
  BY <1>6, <1>7, <1>8

\* A reader of the body gets back any bytes that escapeJson has written, control
\* characters, quotes and backslashes among them, and finds the end of the string
\* where it is (SearchApplication.cpp, escapeJson).
THEOREM JsonIsReadBack ==
    ASSUME NEW v \in Seq(0..255)
    PROVE  ReadJson(ToJson(v)) = {v}
<1> DEFINE text == FlattenSeq(Pieces(v))
           body == Append(text, Quote)
<1>1. text \in Seq(0..255)
  BY PiecesAre, FlattenType
<1>2. PICK E : Laid(E, Pieces(v), text)
  <2>1. Pieces(v) \in Seq(Seq(0..255))
    BY PiecesAre
  <2>2. QED
    BY <2>1, FlattenLaid
<1>3. ToJson(v) = body
  BY Zenon DEF ToJson, EscapeJson, Pieces
<1> HIDE DEF text
<1>4. Quote \in 0..255
  BY DEF Quote
<1>5. /\ body \in Seq(0..255) /\ Len(body) = Len(text) + 1 /\ body[Len(body)] = Quote
      /\ \A x \in 1..Len(text) : body[x] = text[x]
  BY <1>1, <1>4, AppendProperties
<1>6. Len(text) \in Nat
  BY <1>1, LenProperties
<1> HIDE DEF body
<1>7. body # <<>>
  BY <1>5, <1>6, EmptySeq
<1>8. PICK f : Reads(f, body) /\ ReadJson(body) = f[1]
  <2>1. \E f : Reads(f, body)
    BY <1>5, ReadsExists
  <2>2. QED
    BY <1>7, <2>1, ReadJsonIs
<1>9. f[1] = {v}
  BY <1>1, <1>2, <1>5, <1>8, ReadFrom
<1>10. QED
  BY <1>3, <1>8, <1>9

--------------------------------------------------------------------------------
(* Where a pattern is found, and the pieces between its occurrences.         *)

\* The pattern p is in s at place i.
At(s, p, i) == i + Len(p) <= Len(s) + 1 /\ Stretch(s, i, p)

\* A pattern is a prefix of the rest where it is found.
LEMMA PrefixIs ==
    ASSUME NEW s \in Seq(0..255), NEW i \in 1..Len(s), NEW p \in Seq(0..255), Len(p) # 0
    PROVE  IsPrefix(p, SubSeq(s, i, Len(s))) <=> At(s, p, i)
<1> DEFINE t == SubSeq(s, i, Len(s))
           n == Len(p)
<1>1. Len(s) \in Nat /\ n \in Nat /\ \A k \in 1..n : p[k] \in 0..255
  BY LenProperties, ElementOfSeq, SMTT(30)
<1>2. \A k \in i..Len(s) : s[k] \in 0..255
  <2>1. \A k \in 1..Len(s) : s[k] \in 0..255
    BY ElementOfSeq
  <2>2. QED
    BY <1>1, <2>1
<1>3. /\ t \in Seq(0..255) /\ Len(t) = Len(s) - i + 1
      /\ \A k \in 1..Len(s) - i + 1 : t[k] = s[i + k - 1]
  BY <1>1, <1>2, SubSeqProperties
<1> HIDE DEF t
<1> DEFINE b == SubSeq(p, 1, n)
           u == SubSeq(t, 1, n)
<1>4. b = p
  BY SubSeqFull
<1>5. CASE i + n <= Len(s) + 1
  <2>1. \A k \in 1..n : t[k] \in 0..255 /\ t[k] = s[i + k - 1]
    <3>1. \A k \in 1..n : k \in 1..Len(s) - i + 1
      BY <1>1, <1>5
    <3>2. \A k \in 1..Len(s) - i + 1 : t[k] \in 0..255
      BY <1>3, ElementOfSeq
    <3>3. QED
      BY <1>3, <3>1, <3>2
  <2>2. u \in Seq(0..255) /\ Len(u) = n /\ \A k \in 1..n : u[k] = t[k]
    <3>1. n - 1 + 1 = n /\ 1 <= n /\ \A k \in 1..n : 1 + k - 1 = k
      BY <1>1
    <3>2. QED
      BY <1>1, <2>1, <3>1, SubSeqProperties
  <2> HIDE DEF u
  <2>3. p = u <=> \A k \in 1..n : p[k] = u[k]
    BY <2>2, SeqEqual
  <2>4. n <= Len(t)
    BY <1>1, <1>3, <1>5
  <2>5. p = u <=> Stretch(s, i, p)
    BY <2>1, <2>2, <2>3 DEF Stretch
  <2>6. QED
    BY <1>4, <1>5, <2>4, <2>5 DEF IsPrefix, At, u, t
<1>6. CASE ~(i + n <= Len(s) + 1)
  <2>1. ~(n <= Len(t))
    BY <1>1, <1>3, <1>6
  <2>2. QED
    BY <1>6, <2>1 DEF IsPrefix, At, t
<1>7. QED
  BY <1>5, <1>6

\* k is the first place of a pattern, 0 if there is none.
First(s, p, k) ==
    /\ k \in 0..Len(s) /\ Len(s) \in Nat
    /\ k = 0 => \A i \in 1..Len(s) : ~At(s, p, i)
    /\ k # 0 => At(s, p, k) /\ \A i \in 1..k - 1 : ~At(s, p, i)

\* Find gives the first place of a pattern, or 0 if it has none.
LEMMA FindAny ==
    ASSUME NEW s \in Seq(0..255), NEW p \in Seq(0..255), Len(p) # 0
    PROVE  First(s, p, Find(s, p))
<1> DEFINE places == {i \in DOMAIN s : IsPrefix(p, SubSeq(s, i, Len(s)))}
<1>1. DOMAIN s = 1..Len(s) /\ Len(s) \in Nat
  BY LenProperties
<1>2. places = {i \in 1..Len(s) : At(s, p, i)}
  BY <1>1, PrefixIs
<1>3. Find(s, p) = IF places = {} THEN 0 ELSE Min(places)
  BY DEF Find
<1> HIDE DEF places
<1>4. places # {} => Min(places) \in places /\ \A y \in places : Min(places) <= y
  <2>1. places \subseteq Nat
    BY <1>2
  <2>2. QED
    BY <2>1, MinIs
<1>5. CASE places = {}
  BY <1>1, <1>2, <1>3, <1>5 DEF First
<1>6. CASE places # {}
  <2>1. PICK k \in 1..Len(s) : k = Find(s, p)
    BY <1>2, <1>3, <1>4, <1>6
  <2>2. At(s, p, k) /\ \A i \in 1..Len(s) : At(s, p, i) => k <= i
    BY <1>2, <1>3, <1>4, <1>6, <2>1
  <2>3. \A i \in 1..k - 1 : i \in 1..Len(s) /\ ~(k <= i)
    BY <1>1
  <2>4. QED
    BY <1>1, <2>1, <2>2, <2>3 DEF First
<1>7. QED
  BY <1>5, <1>6

\* A single character.
LEMMA FindByte ==
    ASSUME NEW s \in Seq(0..255), NEW c \in 0..255
    PROVE  /\ Find(s, <<c>>) \in 0..Len(s) /\ Len(s) \in Nat
           /\ Find(s, <<c>>) = 0 => \A i \in 1..Len(s) : s[i] # c
           /\ Find(s, <<c>>) # 0 => /\ s[Find(s, <<c>>)] = c
                                    /\ \A i \in 1..Find(s, <<c>>) - 1 : s[i] # c
<1> DEFINE p == <<c>>
<1>1. p \in Seq(0..255) /\ Len(p) = 1 /\ p[1] = c
  OBVIOUS
<1> HIDE DEF p
<1>2. /\ Find(s, p) \in 0..Len(s) /\ Len(s) \in Nat
      /\ Find(s, p) = 0 => \A i \in 1..Len(s) : ~At(s, p, i)
      /\ Find(s, p) # 0 => At(s, p, Find(s, p)) /\ \A i \in 1..Find(s, p) - 1 : ~At(s, p, i)
  <2>1. Len(p) # 0
    BY <1>1
  <2>2. First(s, p, Find(s, p))
    BY <1>1, <2>1, FindAny
  <2>3. QED
    BY <2>2 DEF First
<1>3. \A i \in 1..Len(s) : At(s, p, i) <=> s[i] = c
  <2> SUFFICES ASSUME NEW i \in 1..Len(s) PROVE At(s, p, i) <=> s[i] = c
    OBVIOUS
  <2>1. i + 1 <= Len(s) + 1 /\ i + 1 - 1 = i
    BY <1>2
  <2>2. Stretch(s, i, p) <=> s[i + 1 - 1] = p[1]
    <3>1. \A k \in 1..Len(p) : k = 1
      BY <1>1
    <3>2. 1 \in 1..Len(p)
      BY <1>1
    <3>3. QED
      BY <3>1, <3>2 DEF Stretch
  <2>3. QED
    BY <1>1, <2>1, <2>2 DEF At
<1>4. PICK k \in 0..Len(s) : k = Find(s, p)
  BY <1>2
<1>5. k # 0 => k \in 1..Len(s) /\ \A i \in 1..k - 1 : i \in 1..Len(s)
  BY <1>2
<1>6. k # 0 => s[k] = c /\ \A i \in 1..k - 1 : s[i] # c
  BY <1>2, <1>3, <1>4, <1>5
<1>7. k = 0 => \A i \in 1..Len(s) : s[i] # c
  BY <1>2, <1>3, <1>4
<1>8. QED
  BY <1>2, <1>4, <1>6, <1>7 DEF p

Crlf(s, i) == i + 1 <= Len(s) /\ s[i] = 13 /\ s[i + 1] = 10

\* Find, for the end of a line.
LEMMA FindLine ==
    ASSUME NEW s \in Seq(0..255)
    PROVE  /\ Find(s, NewLine) \in 0..Len(s) /\ Len(s) \in Nat
           /\ Find(s, NewLine) = 0 => \A i \in 1..Len(s) : ~Crlf(s, i)
           /\ Find(s, NewLine) # 0 => /\ Crlf(s, Find(s, NewLine))
                                      /\ \A i \in 1..Find(s, NewLine) - 1 : ~Crlf(s, i)
<1> DEFINE p == NewLine
<1>1. p \in Seq(0..255) /\ Len(p) = 2 /\ p[1] = 13 /\ p[2] = 10
  BY DEF NewLine, CR, LF
<1> HIDE DEF p
<1>2. /\ Find(s, p) \in 0..Len(s) /\ Len(s) \in Nat
      /\ Find(s, p) = 0 => \A i \in 1..Len(s) : ~At(s, p, i)
      /\ Find(s, p) # 0 => At(s, p, Find(s, p)) /\ \A i \in 1..Find(s, p) - 1 : ~At(s, p, i)
  <2>1. Len(p) # 0
    BY <1>1
  <2>2. First(s, p, Find(s, p))
    BY <1>1, <2>1, FindAny
  <2>3. QED
    BY <2>2 DEF First
<1>3. \A i \in 1..Len(s) : At(s, p, i) <=> Crlf(s, i)
  <2> SUFFICES ASSUME NEW i \in 1..Len(s) PROVE At(s, p, i) <=> Crlf(s, i)
    OBVIOUS
  <2>1. (i + 2 <= Len(s) + 1 <=> i + 1 <= Len(s)) /\ i + 1 - 1 = i /\ i + 2 - 1 = i + 1
    BY <1>2
  <2>2. Stretch(s, i, p) <=> s[i + 1 - 1] = p[1] /\ s[i + 2 - 1] = p[2]
    <3>1. \A k \in 1..Len(p) : k = 1 \/ k = 2
      BY <1>1
    <3>2. 1 \in 1..Len(p) /\ 2 \in 1..Len(p)
      BY <1>1
    <3>3. QED
      BY <3>1, <3>2 DEF Stretch
  <2>3. QED
    BY <1>1, <2>1, <2>2 DEF At, Crlf
<1>4. PICK k \in 0..Len(s) : k = Find(s, p)
  BY <1>2
<1>5. k # 0 => k \in 1..Len(s) /\ \A i \in 1..k - 1 : i \in 1..Len(s)
  BY <1>2
<1>6. k # 0 => Crlf(s, k) /\ \A i \in 1..k - 1 : ~Crlf(s, i)
  BY <1>2, <1>3, <1>4, <1>5
<1>7. k = 0 => \A i \in 1..Len(s) : ~Crlf(s, i)
  BY <1>2, <1>3, <1>4
<1>8. QED
  BY <1>2, <1>4, <1>6, <1>7 DEF p

\* The bytes from place i on.
LEMMA FromIs ==
    ASSUME NEW s \in Seq(0..255), NEW i \in 1..Len(s) + 1
    PROVE  /\ From(s, i) \in Seq(0..255) /\ Len(s) \in Nat
           /\ Len(From(s, i)) = Len(s) + 1 - i
           /\ \A k \in 1..Len(s) + 1 - i : From(s, i)[k] = s[i + k - 1]
<1>1. Len(s) \in Nat /\ \A k \in 1..Len(s) : s[k] \in 0..255
  BY LenProperties, ElementOfSeq
<1>2. i \in Int /\ Len(s) \in Int /\ \A k \in i..Len(s) : s[k] \in 0..255
  BY <1>1
<1>3. /\ SubSeq(s, i, Len(s)) \in Seq(0..255)
      /\ Len(SubSeq(s, i, Len(s))) = IF i <= Len(s) THEN Len(s) - i + 1 ELSE 0
      /\ \A k \in 1..Len(s) - i + 1 : SubSeq(s, i, Len(s))[k] = s[i + k - 1]
  BY <1>2, SubSeqProperties
<1>4. From(s, i) = SubSeq(s, i, Len(s))
  BY DEF From
<1>5. Len(s) - i + 1 = Len(s) + 1 - i /\ (~(i <= Len(s)) => Len(s) + 1 - i = 0)
  BY <1>1
<1>6. QED
  BY <1>1, <1>3, <1>4, <1>5

\* A part of the bytes.
LEMMA PartIs ==
    ASSUME NEW s \in Seq(0..255), NEW i \in 1..Len(s) + 1, NEW j \in i - 1..Len(s)
    PROVE  /\ SubSeq(s, i, j) \in Seq(0..255) /\ Len(s) \in Nat
           /\ Len(SubSeq(s, i, j)) = j + 1 - i
           /\ \A k \in 1..j + 1 - i : SubSeq(s, i, j)[k] = s[i + k - 1]
<1>1. Len(s) \in Nat /\ \A k \in 1..Len(s) : s[k] \in 0..255
  BY LenProperties, ElementOfSeq
<1>2. i \in Int /\ j \in Int /\ \A k \in i..j : s[k] \in 0..255
  <2>1. i \in Int /\ j \in Int /\ \A k \in i..j : k \in 1..Len(s)
    BY <1>1
  <2>2. QED
    BY <1>1, <2>1
<1>3. /\ SubSeq(s, i, j) \in Seq(0..255)
      /\ Len(SubSeq(s, i, j)) = IF i <= j THEN j - i + 1 ELSE 0
      /\ \A k \in 1..j - i + 1 : SubSeq(s, i, j)[k] = s[i + k - 1]
  BY <1>2, SubSeqProperties
<1>4. j - i + 1 = j + 1 - i /\ (~(i <= j) => j + 1 - i = 0)
  BY <1>1
<1>5. QED
  BY <1>1, <1>3, <1>4

\* Places in what follows place i.
LEMMA AtFrom ==
    ASSUME NEW s \in Seq(0..255), NEW i \in 1..Len(s) + 1, NEW p \in Seq(0..255),
           NEW y \in 1..Len(s) + 1 - i, NEW x, x = i + y - 1
    PROVE  At(From(s, i), p, y) <=> At(s, p, x)
<1> DEFINE rest == From(s, i)
<1>1. /\ Len(s) \in Nat /\ Len(rest) = Len(s) + 1 - i /\ Len(p) \in Nat
      /\ \A k \in 1..Len(s) + 1 - i : rest[k] = s[i + k - 1]
  BY FromIs, LenProperties
<1> HIDE DEF rest
<1>2. y + Len(p) <= Len(rest) + 1 <=> x + Len(p) <= Len(s) + 1
  BY <1>1
<1>3. ASSUME y + Len(p) <= Len(rest) + 1, NEW k \in 1..Len(p)
      PROVE  rest[y + k - 1] = s[x + k - 1]
  <2>1. PICK z \in 1..Len(s) + 1 - i : z = y + k - 1
    BY <1>1, <1>3
  <2>2. i + z - 1 = x + k - 1
    BY <1>1, <2>1
  <2>3. rest[z] = s[i + z - 1]
    BY <1>1
  <2>4. QED
    BY <2>1, <2>2, <2>3
<1>4. QED
  BY <1>2, <1>3 DEF At, Stretch, rest

\* The table of Split.
Splits(pieces, s, separator) ==
    pieces = [i \in 1..Len(s) + 1 |->
            LET rest == From(s, i)
                at == Find(rest, separator)
            IN  IF at = 0 THEN <<rest>>
                ELSE <<Before(rest, at)>> \o pieces[i + at - 1 + Len(separator)]]

\* Where the next piece begins.
LEMMA NextPiece ==
    ASSUME NEW s \in Seq(0..255), NEW p \in Seq(0..255), Len(p) # 0,
           NEW i \in 1..Len(s) + 1, Find(From(s, i), p) # 0
    PROVE  /\ Find(From(s, i), p) \in 1..Len(s) + 1 - i /\ Len(p) \in Nat /\ Len(s) \in Nat
           /\ i + Find(From(s, i), p) - 1 + Len(p) \in i + 1..Len(s) + 1
           /\ Before(From(s, i), Find(From(s, i), p)) \in Seq(0..255)
<1> DEFINE rest == From(s, i)
           at == Find(rest, p)
<1>1. rest \in Seq(0..255) /\ Len(rest) = Len(s) + 1 - i /\ Len(s) \in Nat /\ Len(p) \in Nat
  BY FromIs, LenProperties
<1> HIDE DEF rest
<1>2. First(rest, p, at)
  BY <1>1, FindAny
<1>3. at \in 1..Len(rest) /\ at + Len(p) <= Len(rest) + 1
  BY <1>2 DEF First, At, rest
<1> HIDE DEF at
<1>4. i + at - 1 + Len(p) \in i + 1..Len(s) + 1
  BY <1>1, <1>3
<1>5. SubSeq(rest, 1, at - 1) \in Seq(0..255)
  <2>1. 1 \in 1..Len(rest) + 1 /\ at - 1 \in 1 - 1..Len(rest)
    BY <1>1, <1>3
  <2>2. QED
    BY <1>1, <2>1, PartIs
<1>6. QED
  BY <1>1, <1>3, <1>4, <1>5 DEF at, rest, Before

\* There is a table of the pieces from each place on.
LEMMA SplitsExists ==
    ASSUME NEW s \in Seq(0..255), NEW p \in Seq(0..255), Len(p) # 0
    PROVE  \E f : Splits(f, s, p) /\ f[1] \in Seq(Seq(0..255))
<1> DEFINE N == Len(s) + 1
           V == Seq(Seq(0..255))
           at(i) == Find(From(s, i), p)
           Stop == {i \in 1..N : at(i) = 0}
           b == [i \in 1..N |-> <<From(s, i)>>]
           nx == [i \in 1..N |-> i + at(i) - 1 + Len(p)]
           H == [i \in 1..N |-> [v \in V |-> <<Before(From(s, i), at(i))>> \o v]]
<1>1. N \in Nat
  BY LenProperties
<1>2. \A i \in 1..N : i \in Stop => b[i] \in V
  <2> SUFFICES ASSUME NEW i \in 1..N PROVE b[i] \in V
    OBVIOUS
  <2>1. From(s, i) \in Seq(0..255)
    BY FromIs
  <2>2. QED
    BY <2>1
<1>3. \A i \in 1..N : i \notin Stop => nx[i] \in i + 1..N /\ Before(From(s, i), at(i)) \in Seq(0..255)
  <2> SUFFICES ASSUME NEW i \in 1..N, i \notin Stop
               PROVE  nx[i] \in i + 1..N /\ Before(From(s, i), at(i)) \in Seq(0..255)
    OBVIOUS
  <2>1. Find(From(s, i), p) # 0 /\ nx[i] = i + Find(From(s, i), p) - 1 + Len(p)
    OBVIOUS
  <2>2. QED
    BY <2>1, NextPiece
<1>4. \A i \in 1..N : i \notin Stop => \A v \in V : H[i][v] \in V
  <2> SUFFICES ASSUME NEW i \in 1..N, i \notin Stop, NEW v \in V PROVE H[i][v] \in V
    OBVIOUS
  <2>1. Before(From(s, i), at(i)) \in Seq(0..255)
    BY <1>3
  <2>2. H[i][v] = <<Before(From(s, i), at(i))>> \o v
    OBVIOUS
  <2> DEFINE c == Before(From(s, i), at(i))
  <2> HIDE DEF c, H
  <2>3. <<c>> \o v \in Seq(Seq(0..255))
    BY <2>1, OneMore DEF c
  <2>4. QED
    BY <2>2, <2>3 DEF c
<1>5. \A i \in 1..N : /\ i \in Stop <=> at(i) = 0
                      /\ b[i] = <<From(s, i)>>
                      /\ nx[i] = i + at(i) - 1 + Len(p)
                      /\ \A v \in V : H[i][v] = <<Before(From(s, i), at(i))>> \o v
  OBVIOUS
<1> HIDE DEF Stop, b, nx, H, V, N
<1>6. PICK f : Table(f, N, V, Stop, b, nx, H)
  <2>1. Linked(N, V, Stop, b, nx, H)
    BY <1>2, <1>3, <1>4 DEF Linked
  <2>2. QED
    BY <1>1, <2>1, TableExists
<1> DEFINE Entry(i, h) ==
            LET rest == From(s, i)
                a == Find(rest, p)
            IN  IF a = 0 THEN <<rest>>
                ELSE <<Before(rest, a)>> \o h[i + a - 1 + Len(p)]
           g == [i \in 1..N |-> f[i]]
           r == [i \in 1..N |-> Entry(i, g)]
<1>7. \A i \in 1..N : g[i] = f[i] /\ r[i] = Entry(i, g)
  OBVIOUS
<1>8. \A i \in 1..N : f[i] \in V /\ f[i] = IF i \in Stop THEN b[i] ELSE H[i][f[nx[i]]]
  BY <1>6 DEF Table
<1>9. g = [i \in 1..N |-> g[i]] /\ r = [i \in 1..N |-> r[i]]
  OBVIOUS
<1> HIDE DEF g, r
<1>10. \A i \in 1..N : g[i] = r[i]
  <2> SUFFICES ASSUME NEW i \in 1..N PROVE f[i] = Entry(i, g)
    BY <1>7
  <2>1. CASE i \in Stop
    BY <1>5, <1>8, <2>1
  <2>2. CASE i \notin Stop
    <3>1. nx[i] \in 1..N /\ nx[i] = i + at(i) - 1 + Len(p)
      <4>1. nx[i] \in i + 1..N
        BY <1>3, <2>2
      <4>2. nx[i] = i + at(i) - 1 + Len(p)
        BY <1>5
      <4>3. QED
        BY <1>1, <4>1, <4>2
    <3>2. g[nx[i]] = f[nx[i]] /\ f[nx[i]] \in V
      BY <1>7, <1>8, <3>1
    <3>3. f[i] = <<Before(From(s, i), at(i))>> \o g[nx[i]]
      BY <1>5, <1>8, <2>2, <3>2, ZenonT(60)
    <3>4. QED
      BY <1>5, <2>2, <3>1, <3>3
  <2>3. QED
    BY <2>1, <2>2
<1>11. g = r
  BY <1>9, <1>10, Zenon
<1>12. Splits(g, s, p)
  BY <1>11 DEF Splits, r, N
<1>13. 1 \in 1..N
  <2>1. Len(s) \in Nat
    BY LenProperties
  <2>2. QED
    BY <2>1 DEF N
<1>14. g[1] \in Seq(Seq(0..255))
  BY <1>7, <1>8, <1>13 DEF V
<1>15. QED
  BY <1>12, <1>14

\* P cuts s from place i on at each p: piece k is what is between st[k] and en[k].
Cut(P, s, p, i, st, en) ==
    /\ P \in Seq(Seq(0..255)) /\ Len(P) \in Nat /\ Len(P) # 0
    /\ st[1] = i /\ en[Len(P)] = Len(s)
    /\ \A k \in 1..Len(P) :
          /\ st[k] \in 1..Len(s) + 1 /\ en[k] \in st[k] - 1..Len(s)
          /\ P[k] = SubSeq(s, st[k], en[k])
          /\ \A x \in st[k]..en[k] : ~At(s, p, x)
    /\ \A k, l \in 1..Len(P) : l = k + 1 => At(s, p, en[k] + 1) /\ st[l] = en[k] + 1 + Len(p)

\* Without a separator in it the rest is one piece.
LEMMA CutEnd ==
    ASSUME NEW s \in Seq(0..255), NEW p \in Seq(0..255), Len(p) # 0,
           NEW i \in 1..Len(s) + 1, Find(From(s, i), p) = 0
    PROVE  \E st, en : Cut(<<From(s, i)>>, s, p, i, st, en)
<1> DEFINE rest == From(s, i)
           P == <<rest>>
           st == [k \in 1..1 |-> i]
           en == [k \in 1..1 |-> Len(s)]
<1>1. /\ rest \in Seq(0..255) /\ Len(rest) = Len(s) + 1 - i /\ Len(s) \in Nat
      /\ rest = SubSeq(s, i, Len(s))
  BY FromIs DEF From
<1> HIDE DEF rest
<1>2. P \in Seq(Seq(0..255)) /\ Len(P) = 1 /\ P[1] = rest
  BY <1>1
<1>3. st[1] = i /\ en[1] = Len(s)
  OBVIOUS
<1> HIDE DEF P, st, en
<1>4. \A x \in i..Len(s) : ~At(s, p, x)
  <2> SUFFICES ASSUME NEW x \in i..Len(s) PROVE ~At(s, p, x)
    OBVIOUS
  <2>1. PICK y \in 1..Len(s) + 1 - i : x = i + y - 1
    <3>1. x - i + 1 \in 1..Len(s) + 1 - i /\ x = i + (x - i + 1) - 1
      BY <1>1
    <3>2. QED
      BY <3>1
  <2>2. First(rest, p, 0)
    BY <1>1, FindAny DEF rest
  <2>3. ~At(rest, p, y)
    <3>1. y \in 1..Len(rest)
      BY <1>1, <2>1
    <3>2. QED
      BY <2>2, <3>1 DEF First
  <2>4. QED
    BY <2>1, <2>3, AtFrom DEF rest
<1>5. Len(s) \in i - 1..Len(s)
  BY <1>1
<1>6. Cut(P, s, p, i, st, en)
  <2>1. \A k \in 1..Len(P) : k = 1
    BY <1>2
  <2>2. \A k \in 1..Len(P) :
          /\ st[k] \in 1..Len(s) + 1 /\ en[k] \in st[k] - 1..Len(s)
          /\ P[k] = SubSeq(s, st[k], en[k])
          /\ \A x \in st[k]..en[k] : ~At(s, p, x)
    BY <1>1, <1>2, <1>3, <1>4, <1>5, <2>1, SMTT(30)
  <2>3. \A k, l \in 1..Len(P) : ~(l = k + 1)
    BY <1>2
  <2>4. QED
    BY <1>2, <1>3, <2>2, <2>3 DEF Cut
<1>7. QED
  BY <1>6 DEF P, rest

\* A piece before the pieces of what follows its separator.
LEMMA CutMore ==
    ASSUME NEW s \in Seq(0..255), NEW p \in Seq(0..255), Len(p) # 0,
           NEW i \in 1..Len(s) + 1, Find(From(s, i), p) # 0,
           NEW R, NEW st, NEW en,
           Cut(R, s, p, i + Find(From(s, i), p) - 1 + Len(p), st, en)
    PROVE  \E su, eo : Cut(<<Before(From(s, i), Find(From(s, i), p))>> \o R, s, p, i, su, eo)
<1> DEFINE rest == From(s, i)
           at == Find(rest, p)
           c == Before(rest, at)
           g == Len(p)
           j == i + at - 1 + g
<1>1. /\ rest \in Seq(0..255) /\ Len(rest) = Len(s) + 1 - i /\ Len(s) \in Nat /\ g \in Nat
      /\ \A k \in 1..Len(s) + 1 - i : rest[k] = s[i + k - 1]
  BY FromIs, LenProperties
<1>2. at \in 1..Len(s) + 1 - i /\ c \in Seq(0..255) /\ j \in i + 1..Len(s) + 1
  BY NextPiece
<1>3. First(rest, p, at)
  BY <1>1, FindAny
<1>4. Cut(R, s, p, j, st, en)
  OBVIOUS
<1>5. c = SubSeq(rest, 1, at - 1)
  BY DEF Before
<1>6. j = i + at - 1 + g
  OBVIOUS
<1> HIDE DEF rest, c, g, at, j
<1>7. PICK m \in 0..Len(s) - i : at = m + 1
  <2>1. at - 1 \in 0..Len(s) - i /\ at = (at - 1) + 1
    BY <1>1, <1>2
  <2>2. QED
    BY <2>1
<1>8. PICK q \in i - 1..Len(s) - 1 : q = i + m - 1
  <2>1. i + m - 1 \in i - 1..Len(s) - 1
    BY <1>1, <1>7
  <2>2. QED
    BY <2>1
<1>9. c = SubSeq(s, i, q)
  <2> DEFINE u == SubSeq(s, i, q)
             v == SubSeq(rest, 1, m)
  <2>1. /\ u \in Seq(0..255) /\ Len(u) = q + 1 - i
        /\ \A k \in 1..q + 1 - i : u[k] = s[i + k - 1]
    <3>1. q \in i - 1..Len(s)
      BY <1>1, <1>8
    <3>2. QED
      BY <3>1, PartIs
  <2>2. /\ v \in Seq(0..255) /\ Len(v) = m + 1 - 1
        /\ \A k \in 1..m + 1 - 1 : v[k] = rest[1 + k - 1]
    <3>1. 1 \in 1..Len(rest) + 1 /\ m \in 1 - 1..Len(rest)
      BY <1>1, <1>7
    <3>2. QED
      BY <1>1, <3>1, PartIs, ZenonT(60)
  <2> HIDE DEF u, v
  <2>3. q + 1 - i = m /\ m + 1 - 1 = m /\ at - 1 = m
    BY <1>1, <1>7, <1>8
  <2>4. Len(u) = m /\ Len(v) = m
    BY <2>1, <2>2, <2>3
  <2>5. \A k \in 1..m : v[k] = rest[k] /\ rest[k] = s[i + k - 1]
    <3>1. \A k \in 1..m : 1 + k - 1 = k /\ k \in 1..Len(s) + 1 - i
      BY <1>1, <1>7, SMTT(30)
    <3>2. QED
      BY <1>1, <2>2, <2>3, <3>1
  <2>6. \A k \in 1..Len(u) : u[k] = v[k]
    BY <2>1, <2>3, <2>4, <2>5
  <2>7. u = v
    BY <2>1, <2>2, <2>4, <2>6, SeqEqual
  <2>8. c = v
    BY <1>5, <2>3 DEF v
  <2>9. QED
    BY <2>7, <2>8 DEF u
<1>10. At(s, p, q + 1) /\ \A x \in i..q : ~At(s, p, x)
  <2>1. At(s, p, q + 1)
    <3>1. m + 1 \in 1..Len(s) + 1 - i /\ q + 1 = i + (m + 1) - 1
      BY <1>1, <1>7, <1>8
    <3>2. At(rest, p, m + 1)
      BY <1>3, <1>7 DEF First
    <3>3. QED
      BY <3>1, <3>2, AtFrom DEF rest
  <2>2. ASSUME NEW x \in i..q PROVE ~At(s, p, x)
    <3>1. PICK y \in 1..m : x = i + y - 1
      <4>1. x - i + 1 \in 1..m /\ x = i + (x - i + 1) - 1
        BY <1>1, <1>7, <1>8
      <4>2. QED
        BY <4>1
    <3>2. y \in 1..Len(s) + 1 - i /\ y \in 1..at - 1
      BY <1>1, <1>7, <3>1, SMTT(30)
    <3>3. ~At(rest, p, y)
      BY <1>3, <1>7, <3>2 DEF First
    <3>4. QED
      BY <3>1, <3>2, <3>3, AtFrom DEF rest
  <2>3. QED
    BY <2>1, <2>2
<1>11. j = q + 1 + g
  BY <1>1, <1>7, <1>8, <1>6
<1> DEFINE P == <<c>> \o R
           n == Len(R)
           su == [k \in 1..n + 1 |-> IF k = 1 THEN i ELSE st[k - 1]]
           eo == [k \in 1..n + 1 |-> IF k = 1 THEN q ELSE en[k - 1]]
<1>12. /\ R \in Seq(Seq(0..255)) /\ n \in Nat /\ n # 0 /\ st[1] = j /\ en[n] = Len(s)
       /\ \A k \in 1..n :
            /\ st[k] \in 1..Len(s) + 1 /\ en[k] \in st[k] - 1..Len(s)
            /\ R[k] = SubSeq(s, st[k], en[k])
            /\ \A x \in st[k]..en[k] : ~At(s, p, x)
       /\ \A k, l \in 1..n : l = k + 1 => At(s, p, en[k] + 1) /\ st[l] = en[k] + 1 + g
  BY <1>4 DEF Cut, g
<1>13. /\ P \in Seq(Seq(0..255)) /\ Len(P) = n + 1 /\ P[1] = c
       /\ \A k \in 1..n : P[k + 1] = R[k]
  BY <1>2, <1>12, OneMore
<1>14. su[1] = i /\ eo[1] = q /\ \A k \in 1..n : su[k + 1] = st[k] /\ eo[k + 1] = en[k]
  BY <1>12
<1> HIDE DEF P, n, su, eo
<1>15. \A k \in 1..n + 1 : k = 1 \/ \E d \in 1..n : k = d + 1
  <2> SUFFICES ASSUME NEW k \in 1..n + 1, k # 1 PROVE \E d \in 1..n : k = d + 1
    OBVIOUS
  <2>1. k - 1 \in 1..n /\ k = (k - 1) + 1
    BY <1>12
  <2>2. QED
    BY <2>1
<1>16. ASSUME NEW k \in 1..n + 1
       PROVE  /\ su[k] \in 1..Len(s) + 1 /\ eo[k] \in su[k] - 1..Len(s)
              /\ P[k] = SubSeq(s, su[k], eo[k])
              /\ \A x \in su[k]..eo[k] : ~At(s, p, x)
  <2>1. CASE k = 1
    <3>1. i \in 1..Len(s) + 1 /\ q \in i - 1..Len(s)
      BY <1>1, <1>8
    <3>2. su[k] = i /\ eo[k] = q /\ P[k] = c
      BY <1>13, <1>14, <2>1
    <3>3. QED
      BY <1>9, <1>10, <3>1, <3>2
  <2>2. ASSUME NEW d \in 1..n, k = d + 1
        PROVE  /\ su[k] \in 1..Len(s) + 1 /\ eo[k] \in su[k] - 1..Len(s)
               /\ P[k] = SubSeq(s, su[k], eo[k])
               /\ \A x \in su[k]..eo[k] : ~At(s, p, x)
    <3>1. su[k] = st[d] /\ eo[k] = en[d] /\ P[k] = R[d]
      BY <1>13, <1>14, <2>2
    <3>2. QED
      BY <1>12, <3>1
  <2>3. QED
    BY <1>15, <2>1, <2>2
<1>17. ASSUME NEW k \in 1..n + 1, NEW l \in 1..n + 1, l = k + 1
       PROVE  At(s, p, eo[k] + 1) /\ su[l] = eo[k] + 1 + g
  <2>1. CASE k = 1
    <3>1. 1 \in 1..n /\ l = 1 + 1
      BY <1>12, <1>17, <2>1
    <3>2. su[l] = j /\ eo[k] = q
      BY <1>12, <1>14, <2>1, <3>1
    <3>3. QED
      BY <1>10, <1>11, <3>2
  <2>2. ASSUME NEW d \in 1..n, k = d + 1
        PROVE  At(s, p, eo[k] + 1) /\ su[l] = eo[k] + 1 + g
    <3>1. k \in 1..n /\ k = d + 1 /\ l = k + 1
      BY <1>12, <1>17, <2>2
    <3>2. su[l] = st[k] /\ eo[k] = en[d]
      BY <1>14, <2>2, <3>1
    <3>3. QED
      BY <1>12, <3>1, <3>2, ZenonT(60)
  <2>3. QED
    BY <1>15, <2>1, <2>2
<1>18. n + 1 \in 1..n + 1 /\ n + 1 # 0 /\ n + 1 \in Nat /\ n \in 1..n
  BY <1>12
<1>19. eo[n + 1] = Len(s)
  BY <1>12, <1>14, <1>18
<1>20. Cut(P, s, p, i, su, eo)
  BY <1>13, <1>14, <1>16, <1>17, <1>18, <1>19 DEF Cut, g
<1>21. QED
  BY <1>20 DEF P, c, at, rest

\* Split cuts at each separator, and only there.
LEMMA SplitIs ==
    ASSUME NEW s \in Seq(0..255), NEW p \in Seq(0..255), Len(p) # 0
    PROVE  \E st, en : Cut(Split(s, p), s, p, 1, st, en)
<1> DEFINE f == CHOOSE h : Splits(h, s, p)
           N == Len(s) + 1
           K == {i \in 1..N : ~\E st, en : Cut(f[i], s, p, i, st, en)}
<1>1. Split(s, p) = f[1]
  BY DEF Split, Splits
<1>2. Splits(f, s, p)
  <2>1. \E h : Splits(h, s, p)
    BY SplitsExists
  <2>2. QED
    BY <2>1, Zenon
<1>3. N \in Nat /\ Len(s) \in Nat /\ 1 \in 1..N
  BY LenProperties
<1> HIDE DEF f
<1>4. ASSUME NEW i \in 1..N
      PROVE  /\ Find(From(s, i), p) = 0 => f[i] = <<From(s, i)>>
             /\ Find(From(s, i), p) # 0 =>
                    f[i] = <<Before(From(s, i), Find(From(s, i), p))>>
                           \o f[i + Find(From(s, i), p) - 1 + Len(p)]
  <2> DEFINE Entry(h, x) ==
            LET rest == From(s, x)
                at == Find(rest, p)
            IN  IF at = 0 THEN <<rest>>
                ELSE <<Before(rest, at)>> \o h[x + at - 1 + Len(p)]
  <2>1. f = [x \in 1..N |-> Entry(f, x)]
    BY <1>2 DEF Splits
  <2>2. f[i] = Entry(f, i)
    <3> HIDE DEF Entry
    <3>1. QED
      BY <2>1, Zenon
  <2>3. QED
    BY <2>2
<1>5. K = {}
  <2> SUFFICES ASSUME K # {} PROVE FALSE
    OBVIOUS
  <2>1. K \subseteq 1..N
    OBVIOUS
  <2>2. \A i \in 1..N : i \notin K => \E st, en : Cut(f[i], s, p, i, st, en)
    OBVIOUS
  <2>3. \A i \in K : ~\E st, en : Cut(f[i], s, p, i, st, en)
    OBVIOUS
  <2> HIDE DEF K, N
  <2>4. PICK i \in K : \A x \in K : x <= i
    BY <1>3, <2>1, MaxIs
  <2>5. i \in 1..N /\ i \in 1..Len(s) + 1
    BY <2>1 DEF N
  <2>6. CASE Find(From(s, i), p) = 0
    <3>1. \E st, en : Cut(<<From(s, i)>>, s, p, i, st, en)
      BY <2>5, <2>6, CutEnd
    <3>2. f[i] = <<From(s, i)>>
      BY <1>4, <2>5, <2>6
    <3>3. QED
      BY <2>3, <2>4, <3>1, <3>2
  <2>7. CASE Find(From(s, i), p) # 0
    <3> DEFINE j == i + Find(From(s, i), p) - 1 + Len(p)
    <3>1. j \in i + 1..N
      BY <2>5, <2>7, NextPiece DEF N
    <3>2. f[i] = <<Before(From(s, i), Find(From(s, i), p))>> \o f[j]
      BY <1>4, <2>5, <2>7
    <3>3. j \in 1..N /\ j \notin K
      <4> HIDE DEF j
      <4>1. QED
        BY <1>3, <2>4, <2>5, <3>1
    <3>4. PICK st, en : Cut(f[j], s, p, j, st, en)
      BY <2>2, <3>3
    <3>5. \E su, eo : Cut(<<Before(From(s, i), Find(From(s, i), p))>> \o f[j], s, p, i, su, eo)
      BY <2>5, <2>7, <3>4, CutMore
    <3>6. QED
      BY <2>3, <2>4, <3>2, <3>5
  <2>8. QED
    BY <2>6, <2>7
<1>6. QED
  BY <1>1, <1>3, <1>5

\* P are the pieces of s between the bytes c.
ByteCut(P, s, c, st, en) ==
    /\ P \in Seq(Seq(0..255)) /\ Len(P) \in Nat /\ Len(P) # 0 /\ Len(s) \in Nat
    /\ st[1] = 1 /\ en[Len(P)] = Len(s)
    /\ \A k \in 1..Len(P) :
          /\ st[k] \in 1..Len(s) + 1 /\ en[k] \in st[k] - 1..Len(s)
          /\ P[k] = SubSeq(s, st[k], en[k])
          /\ \A x \in st[k]..en[k] : s[x] # c
    /\ \A k, l \in 1..Len(P) : l = k + 1 =>
          en[k] + 1 \in 1..Len(s) /\ s[en[k] + 1] = c /\ st[l] = en[k] + 2

\* P are the lines of s.
LineCut(P, s, st, en) ==
    /\ P \in Seq(Seq(0..255)) /\ Len(P) \in Nat /\ Len(P) # 0 /\ Len(s) \in Nat
    /\ st[1] = 1 /\ en[Len(P)] = Len(s)
    /\ \A k \in 1..Len(P) :
          /\ st[k] \in 1..Len(s) + 1 /\ en[k] \in st[k] - 1..Len(s)
          /\ P[k] = SubSeq(s, st[k], en[k])
          /\ \A x \in st[k]..en[k] : ~Crlf(s, x)
    /\ \A k, l \in 1..Len(P) : l = k + 1 => Crlf(s, en[k] + 1) /\ st[l] = en[k] + 3

\* A pattern of one byte is found where that byte is.
LEMMA ByteAt ==
    ASSUME NEW s \in Seq(0..255), NEW c \in 0..255, NEW i \in 1..Len(s) + 1
    PROVE  At(s, <<c>>, i) <=> i \in 1..Len(s) /\ s[i] = c
<1> DEFINE p == <<c>>
<1>1. Len(p) = 1 /\ p[1] = c /\ Len(s) \in Nat
  BY LenProperties
<1> HIDE DEF p
<1>2. (i + 1 <= Len(s) + 1 <=> i \in 1..Len(s)) /\ i + 1 - 1 = i
  BY <1>1
<1>3. Stretch(s, i, p) <=> s[i + 1 - 1] = p[1]
  <2>1. \A k \in 1..Len(p) : k = 1
    BY <1>1
  <2>2. 1 \in 1..Len(p)
    BY <1>1
  <2>3. QED
    BY <2>1, <2>2 DEF Stretch
<1>4. At(s, p, i) <=> i \in 1..Len(s) /\ s[i] = c
  BY <1>1, <1>2, <1>3 DEF At
<1>5. QED
  BY <1>4 DEF p

\* The end of a line is found where its two bytes are.
LEMMA LineAt ==
    ASSUME NEW s \in Seq(0..255), NEW i \in 1..Len(s) + 1
    PROVE  At(s, NewLine, i) <=> Crlf(s, i)
<1> DEFINE p == NewLine
<1>1. Len(p) = 2 /\ p[1] = 13 /\ p[2] = 10 /\ Len(s) \in Nat
  BY LenProperties DEF NewLine, CR, LF
<1> HIDE DEF p
<1>2. (i + 2 <= Len(s) + 1 <=> i + 1 <= Len(s)) /\ i + 1 - 1 = i /\ i + 2 - 1 = i + 1
  BY <1>1
<1>3. Stretch(s, i, p) <=> s[i + 1 - 1] = p[1] /\ s[i + 2 - 1] = p[2]
  <2>1. \A k \in 1..Len(p) : k = 1 \/ k = 2
    BY <1>1
  <2>2. 1 \in 1..Len(p) /\ 2 \in 1..Len(p)
    BY <1>1
  <2>3. QED
    BY <2>1, <2>2 DEF Stretch
<1>4. At(s, p, i) <=> Crlf(s, i)
  BY <1>1, <1>2, <1>3 DEF At, Crlf
<1>5. QED
  BY <1>4 DEF p

\* Split at a byte.
LEMMA SplitBytes ==
    ASSUME NEW s \in Seq(0..255), NEW c \in 0..255
    PROVE  \E st, en : ByteCut(Split(s, <<c>>), s, c, st, en)
<1> DEFINE p == <<c>>
           P == Split(s, p)
           n == Len(P)
<1>1. p \in Seq(0..255) /\ Len(p) = 1 /\ Len(s) \in Nat
  BY LenProperties
<1> HIDE DEF p
<1>2. PICK st, en : Cut(P, s, p, 1, st, en)
  <2>1. Len(p) # 0
    BY <1>1
  <2>2. QED
    BY <1>1, <2>1, SplitIs
<1> HIDE DEF P
<1>3. /\ P \in Seq(Seq(0..255)) /\ n \in Nat /\ n # 0 /\ st[1] = 1 /\ en[n] = Len(s)
      /\ \A k \in 1..n :
            /\ st[k] \in 1..Len(s) + 1 /\ en[k] \in st[k] - 1..Len(s)
            /\ P[k] = SubSeq(s, st[k], en[k])
            /\ \A x \in st[k]..en[k] : ~At(s, p, x)
      /\ \A k, l \in 1..n : l = k + 1 => At(s, p, en[k] + 1) /\ st[l] = en[k] + 1 + 1
  BY <1>1, <1>2 DEF Cut
<1> HIDE DEF n
<1>4. \A i \in 1..Len(s) + 1 : At(s, p, i) <=> i \in 1..Len(s) /\ s[i] = c
  BY ByteAt DEF p
<1>5. ASSUME NEW k \in 1..n, NEW x \in st[k]..en[k] PROVE s[x] # c
  <2>1. PICK a, b : a = st[k] /\ b = en[k] /\ a \in 1..Len(s) + 1 /\ b \in a - 1..Len(s)
    BY <1>3
  <2>2. x \in a..b
    BY <2>1
  <2>3. x \in 1..Len(s) /\ x \in 1..Len(s) + 1
    BY <1>1, <2>1, <2>2
  <2>4. QED
    BY <1>3, <1>4, <2>3
<1>6. ASSUME NEW k \in 1..n, NEW l \in 1..n, l = k + 1
      PROVE  en[k] + 1 \in 1..Len(s) /\ s[en[k] + 1] = c /\ st[l] = en[k] + 2
  <2>1. PICK a, b : a = st[k] /\ b = en[k] /\ a \in 1..Len(s) + 1 /\ b \in a - 1..Len(s)
    BY <1>3
  <2>2. b + 1 \in 1..Len(s) + 1 /\ b + 1 + 1 = b + 2
    BY <1>1, <2>1, SMTT(30)
  <2>3. At(s, p, b + 1) /\ st[l] = b + 1 + 1
    BY <1>3, <1>6, <2>1
  <2>4. b + 1 \in 1..Len(s) /\ s[b + 1] = c
    BY <1>4, <2>2, <2>3
  <2>5. QED
    BY <2>1, <2>2, <2>3, <2>4
<1>7. ByteCut(P, s, c, st, en)
  BY <1>1, <1>3, <1>5, <1>6 DEF ByteCut, n
<1>8. QED
  BY <1>7 DEF P, p

\* Split into lines.
LEMMA SplitLines ==
    ASSUME NEW s \in Seq(0..255)
    PROVE  \E st, en : LineCut(Split(s, NewLine), s, st, en)
<1> DEFINE p == NewLine
           P == Split(s, p)
           n == Len(P)
<1>1. p \in Seq(0..255) /\ Len(p) = 2 /\ Len(s) \in Nat
  BY LenProperties DEF NewLine, CR, LF
<1> HIDE DEF p
<1>2. PICK st, en : Cut(P, s, p, 1, st, en)
  <2>1. Len(p) # 0
    BY <1>1
  <2>2. QED
    BY <1>1, <2>1, SplitIs
<1> HIDE DEF P
<1>3. /\ P \in Seq(Seq(0..255)) /\ n \in Nat /\ n # 0 /\ st[1] = 1 /\ en[n] = Len(s)
      /\ \A k \in 1..n :
            /\ st[k] \in 1..Len(s) + 1 /\ en[k] \in st[k] - 1..Len(s)
            /\ P[k] = SubSeq(s, st[k], en[k])
            /\ \A x \in st[k]..en[k] : ~At(s, p, x)
      /\ \A k, l \in 1..n : l = k + 1 => At(s, p, en[k] + 1) /\ st[l] = en[k] + 1 + 2
  BY <1>1, <1>2 DEF Cut
<1> HIDE DEF n
<1>4. \A i \in 1..Len(s) + 1 : At(s, p, i) <=> Crlf(s, i)
  BY LineAt DEF p
<1>5. ASSUME NEW k \in 1..n, NEW x \in st[k]..en[k] PROVE ~Crlf(s, x)
  <2>1. PICK a, b : a = st[k] /\ b = en[k] /\ a \in 1..Len(s) + 1 /\ b \in a - 1..Len(s)
    BY <1>3
  <2>2. x \in a..b
    BY <2>1
  <2>3. x \in 1..Len(s) + 1
    BY <1>1, <2>1, <2>2
  <2>4. QED
    BY <1>3, <1>4, <2>3
<1>6. ASSUME NEW k \in 1..n, NEW l \in 1..n, l = k + 1
      PROVE  Crlf(s, en[k] + 1) /\ st[l] = en[k] + 3
  <2>1. PICK a, b : a = st[k] /\ b = en[k] /\ a \in 1..Len(s) + 1 /\ b \in a - 1..Len(s)
    BY <1>3
  <2>2. b + 1 \in 1..Len(s) + 1 /\ b + 1 + 2 = b + 3
    BY <1>1, <2>1, SMTT(30)
  <2>3. At(s, p, b + 1) /\ st[l] = b + 1 + 2
    BY <1>3, <1>6, <2>1
  <2>4. Crlf(s, b + 1)
    BY <1>4, <2>2, <2>3
  <2>5. QED
    BY <2>1, <2>2, <2>3, <2>4
<1>7. LineCut(P, s, st, en)
  BY <1>1, <1>3, <1>5, <1>6 DEF LineCut, n
<1>8. QED
  BY <1>7 DEF P, p

--------------------------------------------------------------------------------
(* The loops over the items of a query string and over the header lines.     *)

\* Max of places.
LEMMA LargestIs ==
    ASSUME NEW n \in Nat, NEW T, T \subseteq 1..n, T # {}
    PROVE  Max(T) \in T /\ \A y \in T : Max(T) >= y
<1>1. PICK m \in T : \A y \in T : y <= m
  BY MaxIs
<1>2. m \in Int /\ \A y \in T : y \in Int
  OBVIOUS
<1>3. \A y \in T : m >= y
  BY <1>1, <1>2
<1>4. QED
  BY <1>3 DEF Max

\* The last of the places up to k.
LEMMA UpTo ==
    ASSUME NEW k \in Nat, k # 0
    PROVE  Max(1..k) = k /\ (1..k) \ {k} = 1..k - 1 /\ 1..k # {}
<1>1. k \in 1..k
  OBVIOUS
<1>2. Max(1..k) \in 1..k /\ \A y \in 1..k : Max(1..k) >= y
  BY <1>1, LargestIs
<1>3. Max(1..k) = k
  <2>1. Max(1..k) >= k
    BY <1>1, <1>2
  <2>2. QED
    BY <1>2, <2>1
<1>4. QED
  BY <1>1, <1>3

\* The two folds of the parser.
Fill(kind, v, x) == IF kind = 1 THEN AddItem(v, x) ELSE AddHeader(v, x)

Filled(f, kind, x, m) ==
    \A s \in SUBSET (1..m) :
        f[s] = IF s = {} THEN {<<>>} ELSE Fill(kind, f[s \ {Max(s)}], x[Max(s)])

\* There is a table of what a loop has made after each element.
LEMMA FillExists ==
    ASSUME NEW kind, NEW x, NEW n \in Nat
    PROVE  \E f : Filled(f, kind, x, n)
<1> DEFINE K == {m \in 0..n : ~\E f : Filled(f, kind, x, m)}
<1> SUFFICES ASSUME K # {} PROVE FALSE
  <2>1. n \in 0..n
    OBVIOUS
  <2>2. QED
    BY <2>1
<1>1. PICK m \in K : \A j \in K : m <= j
  <2>1. K \subseteq Nat
    OBVIOUS
  <2> HIDE DEF K
  <2>2. QED
    BY <2>1, MinIs
<1>2. m \in 0..n /\ ~\E f : Filled(f, kind, x, m)
  BY <1>1
<1>3. CASE m = 0
  <2> DEFINE f == [s \in SUBSET (1..m) |-> {<<>>}]
  <2>1. \A s \in SUBSET (1..m) : s = {}
    BY <1>3
  <2>2. Filled(f, kind, x, m)
    BY <2>1 DEF Filled
  <2>3. QED
    BY <1>2, <2>2
<1>4. CASE m # 0
  <2>1. m \in Nat /\ m \in 1..n /\ m - 1 \in 0..n
    BY <1>2, <1>4
  <2>2. m - 1 \notin K
    <3> HIDE DEF K
    <3>1. QED
      BY <1>1, <2>1
  <2>3. PICK k \in Nat : k = m - 1
    BY <2>1
  <2>4. PICK f : Filled(f, kind, x, k)
    BY <2>1, <2>2, <2>3
  <2>5. \A s \in SUBSET (1..k) :
           f[s] = IF s = {} THEN {<<>>} ELSE Fill(kind, f[s \ {Max(s)}], x[Max(s)])
    BY <2>4 DEF Filled
  <2> HIDE DEF K
  <2> DEFINE h == [s \in SUBSET (1..m) |->
                      IF m \in s THEN Fill(kind, f[s \ {m}], x[m]) ELSE f[s]]
             r(s) == IF s = {} THEN {<<>>} ELSE Fill(kind, h[s \ {Max(s)}], x[Max(s)])
  <2>6. \A s \in SUBSET (1..k) : s \in SUBSET (1..m) /\ m \notin s /\ h[s] = f[s]
    BY <2>1, <2>3
  <2>7. ASSUME NEW s \in SUBSET (1..m) PROVE h[s] = r(s)
    <3>1. CASE m \in s
      <4>1. Max(s) = m
        <5>1. Max(s) \in s /\ \A y \in s : Max(s) >= y
          BY <2>1, <3>1, LargestIs
        <5>2. Max(s) \in 1..m /\ Max(s) >= m
          BY <3>1, <5>1
        <5>3. QED
          BY <2>1, <5>2
      <4>2. s \ {m} \in SUBSET (1..k)
        BY <2>1, <2>3
      <4>3. h[s \ {m}] = f[s \ {m}]
        <5> HIDE DEF h
        <5>1. QED
          BY <2>6, <4>2
      <4>4. h[s] = Fill(kind, f[s \ {m}], x[m])
        BY <3>1
      <4>5. r(s) = Fill(kind, h[s \ {m}], x[m])
        BY <3>1, <4>1
      <4> HIDE DEF h, r
      <4>6. QED
        BY <4>3, <4>4, <4>5
    <3>2. CASE m \notin s
      <4>1. s \in SUBSET (1..k)
        BY <2>1, <2>3, <3>2
      <4>2. h[s] = f[s]
        <5> HIDE DEF h
        <5>1. QED
          BY <2>6, <4>1
      <4>3. h[s \ {Max(s)}] = f[s \ {Max(s)}]
        <5>1. s \ {Max(s)} \in SUBSET (1..k)
          BY <4>1
        <5> HIDE DEF h, r
        <5>2. QED
          BY <2>6, <5>1
      <4> HIDE DEF h
      <4>4. QED
        BY <2>5, <4>1, <4>2, <4>3
    <3>3. QED
      BY <3>1, <3>2
  <2>8. Filled(h, kind, x, m)
    <3> HIDE DEF h
    <3>1. QED
      BY <2>7 DEF Filled
  <2>9. QED
    BY <1>2, <2>8
<1>5. QED
  BY <1>3, <1>4

\* The fold step by step.
Steps(F, kind, x, n) ==
    F[0] = {<<>>} /\ \A k, l \in 0..n : l = k + 1 => F[l] = Fill(kind, F[k], x[l])

\* What a loop makes with each element.
LEMMA FilledSteps ==
    ASSUME NEW kind, NEW x, NEW n \in Nat, NEW f, Filled(f, kind, x, n)
    PROVE  \E F : Steps(F, kind, x, n) /\ F[n] = f[1..n]
<1> DEFINE F == [k \in 0..n |-> f[1..k]]
<1>1. \A s \in SUBSET (1..n) :
         f[s] = IF s = {} THEN {<<>>} ELSE Fill(kind, f[s \ {Max(s)}], x[Max(s)])
  BY DEF Filled
<1>2. \A k \in 0..n : F[k] = f[1..k] /\ 1..k \in SUBSET (1..n)
  OBVIOUS
<1> HIDE DEF F
<1>3. F[0] = {<<>>}
  <2>1. 0 \in 0..n /\ 1..0 = {}
    OBVIOUS
  <2>2. QED
    BY <1>1, <1>2, <2>1
<1>4. ASSUME NEW k \in 0..n, NEW l \in 0..n, l = k + 1
      PROVE  F[l] = Fill(kind, F[k], x[l])
  <2>1. Max(1..l) = l /\ (1..l) \ {l} = 1..l - 1 /\ 1..l # {} /\ l - 1 = k
    <3>1. l \in Nat /\ l # 0 /\ l - 1 = k
      BY <1>4
    <3>2. QED
      BY <3>1, UpTo
  <2>2. f[1..l] = Fill(kind, f[1..k], x[l])
    BY <1>1, <1>2, <2>1
  <2>3. QED
    BY <1>2, <2>2
<1>5. F[n] = f[1..n]
  BY <1>2
<1>6. Steps(F, kind, x, n)
  BY <1>3, <1>4 DEF Steps
<1>7. QED
  BY <1>5, <1>6

\* The folds as TLC's library defines them.
ItemFold(f, x) ==
    f = [s \in SUBSET (DOMAIN x) |->
            IF s = {} THEN {<<>>} ELSE AddItem(f[s \ {Max(s)}], x[Max(s)])]
HeaderFold(f, x) ==
    f = [s \in SUBSET (DOMAIN x) |->
            IF s = {} THEN {<<>>} ELSE AddHeader(f[s \ {Max(s)}], x[Max(s)])]

\* The loop over the items of a query string.
LEMMA ItemFoldIs ==
    ASSUME NEW S, NEW x \in Seq(S)
    PROVE  \E F : Steps(F, 1, x, Len(x)) /\ FoldLeft(AddItem, {<<>>}, x) = F[Len(x)]
<1> DEFINE n == Len(x)
           f == CHOOSE h : ItemFold(h, x)
<1>1. n \in Nat /\ DOMAIN x = 1..n
  BY LenProperties
<1> HIDE DEF n
<1>2. FoldLeft(AddItem, {<<>>}, x) = f[1..n]
  BY <1>1 DEF FoldLeft, MapThenFoldSet, ItemFold
<1>3. \E h : ItemFold(h, x)
  <2>1. PICK g : Filled(g, 1, x, n)
    BY <1>1, FillExists
  <2> DEFINE h == [s \in SUBSET (1..n) |-> g[s]]
             r == [s \in SUBSET (1..n) |->
                      IF s = {} THEN {<<>>} ELSE AddItem(h[s \ {Max(s)}], x[Max(s)])]
  <2>2. ASSUME NEW s \in SUBSET (1..n) PROVE h[s] = r[s]
    <3>1. g[s] = IF s = {} THEN {<<>>} ELSE AddItem(g[s \ {Max(s)}], x[Max(s)])
      BY <2>1 DEF Filled, Fill
    <3>2. h[s \ {Max(s)}] = g[s \ {Max(s)}]
      OBVIOUS
    <3>3. h[s] = g[s] /\ r[s] = IF s = {} THEN {<<>>} ELSE AddItem(h[s \ {Max(s)}], x[Max(s)])
      OBVIOUS
    <3> HIDE DEF h, r
    <3>4. QED
      BY <3>1, <3>2, <3>3
  <2>3. h = [s \in SUBSET (1..n) |-> h[s]] /\ r = [s \in SUBSET (1..n) |-> r[s]]
    OBVIOUS
  <2>4. h = r
    <3> HIDE DEF h, r
    <3>1. QED
      BY <2>2, <2>3, Zenon
  <2>5. ItemFold(h, x)
    BY <1>1, <2>4 DEF ItemFold
  <2>6. QED
    BY <2>5
<1>4. ItemFold(f, x)
  BY <1>3, Zenon
<1> HIDE DEF f
<1>5. Filled(f, 1, x, n)
  <2> DEFINE e(s) == IF s = {} THEN {<<>>} ELSE AddItem(f[s \ {Max(s)}], x[Max(s)])
  <2>1. f = [s \in SUBSET (1..n) |-> e(s)]
    BY <1>1, <1>4 DEF ItemFold
  <2>2. \A s \in SUBSET (1..n) : f[s] = e(s)
    <3> HIDE DEF e
    <3>1. QED
      BY <2>1, Zenon
  <2>3. QED
    BY <2>2 DEF Filled, Fill
<1>6. PICK F : Steps(F, 1, x, n) /\ F[n] = f[1..n]
  BY <1>1, <1>5, FilledSteps
<1>7. QED
  BY <1>2, <1>6 DEF n

\* The loop over the header lines.
LEMMA HeaderFoldIs ==
    ASSUME NEW S, NEW x \in Seq(S)
    PROVE  \E F : Steps(F, 2, x, Len(x)) /\ FoldLeft(AddHeader, {<<>>}, x) = F[Len(x)]
<1> DEFINE n == Len(x)
           f == CHOOSE h : HeaderFold(h, x)
<1>1. n \in Nat /\ DOMAIN x = 1..n
  BY LenProperties
<1> HIDE DEF n
<1>0. \A v, y : Fill(2, v, y) = AddHeader(v, y)
  <2>1. 2 # 1
    OBVIOUS
  <2>2. QED
    BY <2>1 DEF Fill
<1>2. FoldLeft(AddHeader, {<<>>}, x) = f[1..n]
  BY <1>1 DEF FoldLeft, MapThenFoldSet, HeaderFold
<1>3. \E h : HeaderFold(h, x)
  <2>1. PICK g : Filled(g, 2, x, n)
    BY <1>1, FillExists
  <2> DEFINE h == [s \in SUBSET (1..n) |-> g[s]]
             r == [s \in SUBSET (1..n) |->
                      IF s = {} THEN {<<>>} ELSE AddHeader(h[s \ {Max(s)}], x[Max(s)])]
  <2>2. ASSUME NEW s \in SUBSET (1..n) PROVE h[s] = r[s]
    <3>1. g[s] = IF s = {} THEN {<<>>} ELSE AddHeader(g[s \ {Max(s)}], x[Max(s)])
      BY <1>0, <2>1 DEF Filled
    <3>2. h[s \ {Max(s)}] = g[s \ {Max(s)}]
      OBVIOUS
    <3>3. h[s] = g[s] /\ r[s] = IF s = {} THEN {<<>>} ELSE AddHeader(h[s \ {Max(s)}], x[Max(s)])
      OBVIOUS
    <3> HIDE DEF h, r
    <3>4. QED
      BY <3>1, <3>2, <3>3
  <2>3. h = [s \in SUBSET (1..n) |-> h[s]] /\ r = [s \in SUBSET (1..n) |-> r[s]]
    OBVIOUS
  <2>4. h = r
    <3> HIDE DEF h, r
    <3>1. QED
      BY <2>2, <2>3, Zenon
  <2>5. HeaderFold(h, x)
    BY <1>1, <2>4 DEF HeaderFold
  <2>6. QED
    BY <2>5
<1>4. HeaderFold(f, x)
  BY <1>3, Zenon
<1> HIDE DEF f
<1>5. Filled(f, 2, x, n)
  <2> DEFINE e(s) == IF s = {} THEN {<<>>} ELSE AddHeader(f[s \ {Max(s)}], x[Max(s)])
  <2>1. f = [s \in SUBSET (1..n) |-> e(s)]
    BY <1>1, <1>4 DEF HeaderFold
  <2>2. \A s \in SUBSET (1..n) : f[s] = e(s)
    <3> HIDE DEF e
    <3>1. QED
      BY <2>1, Zenon
  <2>3. ASSUME NEW s \in SUBSET (1..n)
        PROVE  f[s] = IF s = {} THEN {<<>>} ELSE Fill(2, f[s \ {Max(s)}], x[Max(s)])
    <3>1. Fill(2, f[s \ {Max(s)}], x[Max(s)]) = AddHeader(f[s \ {Max(s)}], x[Max(s)])
      BY <1>0
    <3>2. f[s] = IF s = {} THEN {<<>>} ELSE AddHeader(f[s \ {Max(s)}], x[Max(s)])
      BY <2>2
    <3>3. QED
      BY <3>1, <3>2
  <2>4. QED
    BY <2>3 DEF Filled
<1>6. PICK F : Steps(F, 2, x, n) /\ F[n] = f[1..n]
  BY <1>1, <1>5, FilledSteps
<1>7. QED
  BY <1>2, <1>6 DEF n

\* Nothing is after the end.
LEMMA NoPart ==
    ASSUME NEW s \in Seq(0..255)
    PROVE  SubSeq(s, Len(s) + 1, Len(s)) = <<>>
<1>1. Len(s) \in Nat
  BY LenProperties
<1>2. Len(s) + 1 \in 1..Len(s) + 1 /\ Len(s) \in Len(s) + 1 - 1..Len(s) /\ Len(s) + 1 - (Len(s) + 1) = 0
  BY <1>1
<1>3. /\ SubSeq(s, Len(s) + 1, Len(s)) \in Seq(0..255)
      /\ Len(SubSeq(s, Len(s) + 1, Len(s))) = Len(s) + 1 - (Len(s) + 1)
  BY <1>2, PartIs
<1>4. QED
  BY <1>2, <1>3, EmptySeq

\* What ends in CRLF has an empty last line.
LEMMA LinesEnd ==
    ASSUME NEW s \in Seq(0..255), NEW m \in 1..Len(s), Len(s) = m + 1, Crlf(s, m),
           NEW P, NEW st, NEW en, LineCut(P, s, st, en)
    PROVE  \E k \in Nat : k # 0 /\ Len(P) = k + 1 /\ P[k + 1] = <<>>
<1> DEFINE n == Len(P)
<1>1. /\ n \in Nat /\ n # 0 /\ Len(s) \in Nat /\ st[1] = 1 /\ en[n] = Len(s)
      /\ \A k \in 1..n :
            /\ st[k] \in 1..Len(s) + 1 /\ en[k] \in st[k] - 1..Len(s)
            /\ P[k] = SubSeq(s, st[k], en[k])
            /\ \A x \in st[k]..en[k] : ~Crlf(s, x)
      /\ \A k, l \in 1..n : l = k + 1 => Crlf(s, en[k] + 1) /\ st[l] = en[k] + 3
  BY DEF LineCut
<1>2. n \in 1..n
  BY <1>1
<1> HIDE DEF n
<1>3. PICK a \in 1..Len(s) + 1 : a = st[n]
  BY <1>1, <1>2
<1>4. a \in m + 1..m + 2
  <2> SUFFICES ASSUME a <= m PROVE FALSE
    BY <1>1, <1>3
  <2>1. m \in a..Len(s)
    BY <1>1, <1>3
  <2>2. \A x \in a..Len(s) : ~Crlf(s, x)
    BY <1>1, <1>2, <1>3
  <2>3. QED
    BY <2>1, <2>2
<1>5. n # 1
  BY <1>1, <1>3, <1>4
<1>6. PICK k \in 1..n : n = k + 1
  <2>1. n - 1 \in 1..n /\ n = (n - 1) + 1
    BY <1>1, <1>5
  <2>2. QED
    BY <2>1
<1>7. PICK b \in 0..Len(s) : b = en[k]
  <2>1. PICK x : x = st[k]
    OBVIOUS
  <2>2. x \in 1..Len(s) + 1 /\ en[k] \in x - 1..Len(s)
    BY <1>1, <2>1
  <2>3. en[k] \in 0..Len(s)
    BY <1>1, <2>2
  <2>4. QED
    BY <2>3
<1>8. Crlf(s, b + 1) /\ a = b + 3
  BY <1>1, <1>2, <1>3, <1>6, <1>7
<1>9. a = m + 2
  <2> SUFFICES ASSUME a = m + 1 PROVE FALSE
    BY <1>1, <1>4
  <2>1. b + 1 + 1 = m
    BY <1>1, <1>8
  <2>2. s[m] = 10
    BY <1>8, <2>1 DEF Crlf
  <2>3. s[m] = 13
    BY DEF Crlf
  <2>4. QED
    BY <2>2, <2>3
<1>10. P[n] = SubSeq(s, Len(s) + 1, Len(s))
  <2>1. a = Len(s) + 1
    BY <1>1, <1>9
  <2>2. QED
    BY <1>1, <1>2, <1>3, <2>1
<1>11. P[n] = <<>>
  BY <1>10, NoPart
<1>12. k \in Nat /\ k # 0
  BY <1>1
<1>13. QED
  BY <1>6, <1>11, <1>12 DEF n

\* Header lines that have a name each are parsed.
LEMMA HeadersThere ==
    ASSUME NEW P \in Seq(Seq(0..255)), NEW k \in Nat, k # 0, Len(P) = k + 1, P[k + 1] = <<>>,
           \A line \in ToSet(Tail(P)) : line = <<>> \/ Find(line, <<Colon>>) > 1
    PROVE  ParseHeaders(Tail(P)) # {}
<1> DEFINE T == Tail(P)
           I == {i \in 1..Len(T) : T[i] = <<>>}
           n == Min(I)
           B == SubSeq(T, 1, n - 1)
           V == Seq(0..255)
<1>1. T \in Seq(V) /\ Len(T) = k /\ \A i \in 1..k : T[i] = P[i + 1]
  <2>1. P # <<>>
    BY EmptySeq
  <2>2. T \in Seq(V) /\ Len(T) = Len(P) - 1 /\ \A i \in 1..Len(P) - 1 : T[i] = P[i + 1]
    BY <2>1, HeadTailProperties
  <2>3. Len(P) - 1 = k
    OBVIOUS
  <2>4. QED
    BY <2>2, <2>3
<1>2. ToSet(T) = {T[i] : i \in 1..k}
  BY <1>1, LenProperties DEF ToSet
<1>3. \A i \in 1..k : T[i] = <<>> \/ Find(T[i], <<Colon>>) > 1
  BY <1>2
<1>4. k \in I
  BY <1>1
<1>5. \A i \in I : i \in 1..k /\ T[i] = <<>>
  BY <1>1
<1>6. \A i \in 1..k : i \notin I => T[i] # <<>>
  BY <1>1
<1>7. I = {i \in 1..Len(T) : T[i] = <<>>}
  OBVIOUS
<1> HIDE DEF T, I, V
<1>8. n \in I /\ \A i \in I : n <= i
  <2>1. I \subseteq Nat /\ I # {}
    BY <1>4, <1>5
  <2>2. QED
    BY <2>1, MinIs
<1>9. ParseHeaders(T) = FoldLeft(AddHeader, {<<>>}, B)
  <2>1. SelectInSeq(T, LAMBDA l : l = <<>>) = n
    BY <1>4, <1>7 DEF SelectInSeq
  <2> HIDE DEF n
  <2>2. n # 0
    BY <1>8, <1>5
  <2>3. QED
    BY <2>1, <2>2 DEF ParseHeaders, Before
<1> HIDE DEF n
<1>10. PICK q \in 0..k - 1 : n = q + 1
  <2>1. n - 1 \in 0..k - 1 /\ n = (n - 1) + 1
    BY <1>8, <1>5
  <2>2. QED
    BY <2>1
<1>11. B \in Seq(V) /\ Len(B) = q /\ \A i \in 1..q : B[i] = T[i]
  <2>1. B = SubSeq(T, 1, q)
    BY <1>10
  <2>2. \A i \in 1..q : T[i] \in V
    <3>1. \A i \in 1..q : i \in 1..k
      BY <1>10
    <3>2. QED
      BY <1>1, <3>1, ElementOfSeq
  <2>3. /\ SubSeq(T, 1, q) \in Seq(V)
        /\ Len(SubSeq(T, 1, q)) = IF 1 <= q THEN q - 1 + 1 ELSE 0
        /\ \A i \in 1..q - 1 + 1 : SubSeq(T, 1, q)[i] = T[1 + i - 1]
    <3>1. 1 \in Int /\ q \in Int
      BY <1>10
    <3>2. QED
      BY <1>1, <2>2, <3>1, SubSeqProperties
  <2>4. q - 1 + 1 = q /\ (~(1 <= q) => q = 0) /\ \A i \in 1..q : 1 + i - 1 = i
    BY <1>10
  <2> HIDE DEF B
  <2>5. QED
    BY <2>1, <2>3, <2>4
<1> HIDE DEF B
<1>12. \A i \in 1..q : Find(B[i], <<Colon>>) > 1
  <2> SUFFICES ASSUME NEW i \in 1..q PROVE Find(B[i], <<Colon>>) > 1
    OBVIOUS
  <2>1. i \in 1..k /\ ~(n <= i)
    BY <1>10
  <2>2. T[i] # <<>>
    BY <1>8, <1>6, <2>1
  <2>3. QED
    BY <1>3, <1>11, <2>1, <2>2
<1>13. PICK F : Steps(F, 2, B, q) /\ FoldLeft(AddHeader, {<<>>}, B) = F[q]
  BY <1>11, HeaderFoldIs
<1>14. F[0] = {<<>>} /\ \A i, j \in 0..q : j = i + 1 => F[j] = AddHeader(F[i], B[j])
  <2>1. \A v, y : Fill(2, v, y) = AddHeader(v, y)
    <3>1. 2 # 1
      OBVIOUS
    <3>2. QED
      BY <3>1 DEF Fill
  <2>2. QED
    BY <1>13, <2>1 DEF Steps
<1>15. ASSUME NEW v, v # {}, NEW line, Find(line, <<Colon>>) > 1, Find(line, <<Colon>>) \in Nat
       PROVE  AddHeader(v, line) # {}
  <2>1. ~(Find(line, <<Colon>>) \in {0, 1})
    BY <1>15
  <2>2. AddHeader(v, line) =
           {Emplace(h, Before(line, Find(line, <<Colon>>)), SkipBlanks(From(line, Find(line, <<Colon>>) + 1))) :
                h \in v}
    BY <2>1 DEF AddHeader
  <2>3. PICK h \in v : TRUE
    BY <1>15
  <2>4. QED
    BY <2>2, <2>3
<1>16. \A i \in 0..q : F[i] # {}
  <2> DEFINE K == {i \in 0..q : F[i] = {}}
  <2> SUFFICES ASSUME K # {} PROVE FALSE
    OBVIOUS
  <2>1. K \subseteq Nat
    OBVIOUS
  <2>2. \A i \in K : i \in 0..q /\ F[i] = {}
    OBVIOUS
  <2>3. \A i \in 0..q : i \notin K => F[i] # {}
    OBVIOUS
  <2> HIDE DEF K
  <2>4. PICK i \in K : \A j \in K : i <= j
    BY <2>1, MinIs
  <2>5. i # 0
    BY <1>14, <2>2
  <2>6. i \in 1..q /\ i - 1 \in 0..q
    BY <2>2, <2>5
  <2>7. PICK j \in 0..q : i = j + 1
    <3>1. i = (i - 1) + 1
      BY <2>6
    <3>2. QED
      BY <2>6, <3>1
  <2>8. F[j] # {}
    <3>1. ~(i <= j)
      BY <2>7
    <3>2. QED
      BY <2>3, <2>4, <3>1
  <2>9. F[i] = AddHeader(F[j], B[i])
    BY <1>14, <2>2, <2>7
  <2>10. Find(B[i], <<Colon>>) > 1 /\ Find(B[i], <<Colon>>) \in Nat
    <3>1. B[i] \in Seq(0..255)
      BY <1>11, <2>6, ElementOfSeq DEF V
    <3>2. Colon \in 0..255
      BY DEF Colon
    <3>3. Find(B[i], <<Colon>>) \in 0..Len(B[i]) /\ Len(B[i]) \in Nat
      BY <3>1, <3>2, FindByte, ZenonT(60)
    <3>4. PICK c : c = Find(B[i], <<Colon>>)
      OBVIOUS
    <3>5. c > 1
      BY <1>12, <2>6, <3>4
    <3>6. c \in Nat
      BY <3>3, <3>4
    <3>7. QED
      BY <3>4, <3>5, <3>6
  <2>11. QED
    BY <1>15, <2>2, <2>8, <2>9, <2>10
<1>17. q \in 0..q
  BY <1>10
<1>18. QED
  BY <1>9, <1>13, <1>16, <1>17 DEF T

--------------------------------------------------------------------------------
(* The request line of a search, and what the parser makes of it.            *)

\* A line of a request for /search up to the question mark.
Started(s) == /\ Len(s) \in Nat /\ Len(s) >= 5
              /\ s[1] = 71 /\ s[2] = 32 /\ s[3] = 47 /\ s[4] = 115 /\ s[5] = 63

\* x is a and then b.
Joined(x, a, b) ==
    /\ x = a \o b /\ x \in Seq(0..255) /\ Len(x) = Len(a) + Len(b)
    /\ \A i \in 1..Len(a) : x[i] = a[i]
    /\ \A i \in 1..Len(b) : x[Len(a) + i] = b[i]

\* Two texts in a row.
LEMMA JoinIs ==
    ASSUME NEW a \in Seq(0..255), NEW b \in Seq(0..255)
    PROVE  \E x : Joined(x, a, b)
<1>1. PICK x : x = a \o b
  OBVIOUS
<1>2. /\ x \in Seq(0..255) /\ Len(x) = Len(a) + Len(b)
      /\ \A i \in 1..Len(a) + Len(b) : x[i] = IF i <= Len(a) THEN a[i] ELSE b[i - Len(a)]
  BY <1>1, ConcatProperties
<1>3. Len(a) \in Nat /\ Len(b) \in Nat
  BY LenProperties
<1>4. \A i \in 1..Len(a) : x[i] = a[i]
  BY <1>2, <1>3
<1>5. \A i \in 1..Len(b) : x[Len(a) + i] = b[i]
  <2> SUFFICES ASSUME NEW i \in 1..Len(b) PROVE x[Len(a) + i] = b[i]
    OBVIOUS
  <2>1. PICK k : k = Len(a) + i
    OBVIOUS
  <2>2. k \in 1..Len(a) + Len(b) /\ ~(k <= Len(a)) /\ k - Len(a) = i
    BY <1>3, <2>1
  <2>3. x[k] = b[k - Len(a)]
    BY <1>2, <2>2
  <2>4. QED
    BY <2>1, <2>2, <2>3
<1>6. QED
  BY <1>1, <1>2, <1>4, <1>5 DEF Joined

\* A request that starts with the start of a search.
LEMMA StartIs ==
    ASSUME NEW s \in Seq(0..255)
    PROVE  /\ Len(Get \o <<Space>> \o SearchPath \o <<Question>>) = 5
           /\ IsPrefix(Get \o <<Space>> \o SearchPath \o <<Question>>, s) => Started(s)
<1> DEFINE p == Get \o <<Space>> \o SearchPath \o <<Question>>
<1>1. /\ p \in Seq(0..255) /\ Len(p) = 5
      /\ p[1] = 71 /\ p[2] = 32 /\ p[3] = 47 /\ p[4] = 115 /\ p[5] = 63
  <2> DEFINE a == Get
             b == <<Space>>
             c == SearchPath
             d == <<Question>>
  <2>1. /\ a \in Seq(0..255) /\ Len(a) = 1 /\ a[1] = 71
        /\ b \in Seq(0..255) /\ Len(b) = 1 /\ b[1] = 32
        /\ c \in Seq(0..255) /\ Len(c) = 2 /\ c[1] = 47 /\ c[2] = 115
        /\ d \in Seq(0..255) /\ Len(d) = 1 /\ d[1] = 63
    BY DEF Get, Space, SearchPath, Slash, Question
  <2>2. p = ((a \o b) \o c) \o d
    OBVIOUS
  <2> HIDE DEF a, b, c, d, p
  <2>3. PICK x : Joined(x, a, b)
    BY <2>1, JoinIs
  <2>4. x \in Seq(0..255) /\ Len(x) = 2 /\ x[1] = 71 /\ x[2] = 32 /\ x = a \o b
    BY <2>1, <2>3 DEF Joined
  <2>5. PICK y : Joined(y, x, c)
    BY <2>1, <2>4, JoinIs
  <2>6. /\ y \in Seq(0..255) /\ Len(y) = 4 /\ y = x \o c
        /\ y[1] = 71 /\ y[2] = 32 /\ y[3] = 47 /\ y[4] = 115
    BY <2>1, <2>4, <2>5 DEF Joined
  <2>7. PICK v : Joined(v, y, d)
    BY <2>1, <2>6, JoinIs
  <2>8. /\ v \in Seq(0..255) /\ Len(v) = 5 /\ v = y \o d
        /\ v[1] = 71 /\ v[2] = 32 /\ v[3] = 47 /\ v[4] = 115 /\ v[5] = 63
    BY <2>1, <2>6, <2>7, SMTT(30) DEF Joined
  <2>9. QED
    BY <2>2, <2>4, <2>6, <2>8
<1> HIDE DEF p
<1>2. Len(s) \in Nat
  BY LenProperties
<1>3. ASSUME IsPrefix(p, s) PROVE Started(s)
  <2>1. Len(p) <= Len(s)
    BY <1>3 DEF IsPrefix
  <2>2. 1 \in 1..Len(s) /\ SubSeq(s, 1, Len(s)) = s
    BY <1>1, <1>2, <2>1, SubSeqFull
  <2>3. IsPrefix(p, SubSeq(s, 1, Len(s)))
    BY <1>3, <2>2
  <2>4. Len(p) # 0
    BY <1>1
  <2>5. At(s, p, 1)
    BY <1>1, <2>2, <2>3, <2>4, PrefixIs, ZenonT(60)
  <2>6. \A k \in 1..5 : s[1 + k - 1] = p[k]
    BY <1>1, <2>5 DEF At, Stretch
  <2>7. \A k \in 1..5 : s[k] = p[k]
    <3>1. \A k \in 1..5 : 1 + k - 1 = k
      OBVIOUS
    <3>2. QED
      BY <2>6, <3>1
  <2>8. 1 \in 1..5 /\ 2 \in 1..5 /\ 3 \in 1..5 /\ 4 \in 1..5 /\ 5 \in 1..5
    OBVIOUS
  <2>9. QED
    BY <1>1, <1>2, <2>1, <2>7, <2>8 DEF Started
<1>4. QED
  BY <1>1, <1>3 DEF p

\* The words of such a line.
LEMMA WordsAre ==
    ASSUME NEW s \in Seq(0..255), Started(s), NEW z \in 6..Len(s),
           s[z] = 32, \A x \in 6..z - 1 : s[x] # 32
    PROVE  /\ Len(Split(s, <<Space>>)) \in Nat /\ Len(Split(s, <<Space>>)) >= 3
           /\ Split(s, <<Space>>)[1] = SubSeq(s, 1, 1)
           /\ Split(s, <<Space>>)[2] = SubSeq(s, 3, z - 1)
<1> DEFINE P == Split(s, <<Space>>)
           n == Len(P)
<1>1. PICK st, en : ByteCut(P, s, 32, st, en)
  <2>1. Space = 32 /\ 32 \in 0..255
    BY DEF Space
  <2>2. QED
    BY <2>1, SplitBytes
<1> HIDE DEF P
<1>2. /\ n \in Nat /\ n # 0 /\ Len(s) \in Nat /\ st[1] = 1 /\ en[n] = Len(s)
      /\ \A k \in 1..n :
            /\ st[k] \in 1..Len(s) + 1 /\ en[k] \in st[k] - 1..Len(s)
            /\ P[k] = SubSeq(s, st[k], en[k])
            /\ \A x \in st[k]..en[k] : s[x] # 32
      /\ \A k, l \in 1..n : l = k + 1 =>
            en[k] + 1 \in 1..Len(s) /\ s[en[k] + 1] = 32 /\ st[l] = en[k] + 2
  BY <1>1 DEF ByteCut
<1> HIDE DEF n
<1>3. s[1] # 32 /\ s[2] = 32 /\ s[3] # 32 /\ s[4] # 32 /\ s[5] # 32 /\ Len(s) >= 5
  BY DEF Started
<1>4. 1 \in 1..n
  BY <1>2
<1>5. PICK a : a = en[1] /\ a \in 0..Len(s)
  <2>1. en[1] \in 1 - 1..Len(s)
    BY <1>2, <1>4
  <2>2. QED
    BY <2>1
<1>6. a <= 1
  <2> SUFFICES ASSUME 2 \in 1..a PROVE FALSE
    BY <1>5
  <2>1. QED
    BY <1>2, <1>3, <1>4, <1>5
<1>7. n # 1
  <2> SUFFICES ASSUME n = 1 PROVE FALSE
    OBVIOUS
  <2>1. a = Len(s)
    BY <1>2, <1>5
  <2>2. QED
    BY <1>2, <1>3, <1>6, <2>1
<1>8. 2 \in 1..n
  BY <1>2, <1>7
<1>9. s[a + 1] = 32 /\ st[2] = a + 2
  BY <1>2, <1>4, <1>5, <1>8
<1>10. a = 1
  <2> SUFFICES ASSUME a = 0 PROVE FALSE
    BY <1>5, <1>6
  <2>1. QED
    BY <1>3, <1>9
<1>11. PICK b : b = en[2] /\ b \in 2..Len(s)
  <2>1. st[2] = 3
    BY <1>9, <1>10
  <2>2. en[2] \in 3 - 1..Len(s)
    BY <1>2, <1>8, <2>1
  <2>3. QED
    BY <2>2
<1>12. st[2] = 3 /\ \A x \in 3..b : s[x] # 32
  <2>1. st[2] = 3
    BY <1>9, <1>10
  <2>2. QED
    BY <1>2, <1>8, <1>11, <2>1
<1>13. b < z
  <2> SUFFICES ASSUME z <= b PROVE FALSE
    BY <1>2, <1>11
  <2>1. z \in 3..b
    BY <1>2, <1>11
  <2>2. QED
    BY <1>12, <2>1
<1>14. n # 2
  <2> SUFFICES ASSUME n = 2 PROVE FALSE
    OBVIOUS
  <2>1. b = Len(s)
    BY <1>2, <1>11
  <2>2. QED
    BY <1>2, <1>13, <2>1
<1>15. 3 \in 1..n
  BY <1>2, <1>7, <1>14
<1>16. s[b + 1] = 32
  BY <1>2, <1>8, <1>11, <1>15
<1>17. b = z - 1
  <2> SUFFICES ASSUME b + 1 < z PROVE FALSE
    BY <1>2, <1>11, <1>13
  <2>0. b \in Int /\ z \in Int /\ b >= 2 /\ b + 1 < z
    BY <1>2, <1>11
  <2>1. b + 1 = 3 \/ b + 1 = 4 \/ b + 1 = 5 \/ b + 1 \in 6..z - 1
    BY <2>0
  <2>2. QED
    BY <1>3, <1>16, <2>1
<1>18. P[1] = SubSeq(s, 1, 1) /\ P[2] = SubSeq(s, 3, z - 1)
  <2>1. st[1] = 1 /\ en[1] = 1 /\ st[2] = 3 /\ en[2] = z - 1
    BY <1>2, <1>5, <1>10, <1>11, <1>12, <1>17
  <2>2. QED
    BY <1>2, <1>4, <1>8, <2>1, ZenonT(60)
<1>19. n >= 3
  BY <1>2, <1>15
<1>20. QED
  BY <1>2, <1>18, <1>19 DEF P, n

\* Without a second space there are no three words.
LEMMA TooFewWords ==
    ASSUME NEW s \in Seq(0..255), s[1] # 32, \A x \in 3..Len(s) : s[x] # 32
    PROVE  Len(Split(s, <<Space>>)) < 3
<1> DEFINE P == Split(s, <<Space>>)
           n == Len(P)
<1>1. PICK st, en : ByteCut(P, s, 32, st, en)
  <2>1. Space = 32 /\ 32 \in 0..255
    BY DEF Space
  <2>2. QED
    BY <2>1, SplitBytes
<1> HIDE DEF P
<1>2. /\ n \in Nat /\ n # 0 /\ Len(s) \in Nat /\ st[1] = 1 /\ en[n] = Len(s)
      /\ \A k \in 1..n :
            /\ st[k] \in 1..Len(s) + 1 /\ en[k] \in st[k] - 1..Len(s)
            /\ P[k] = SubSeq(s, st[k], en[k])
            /\ \A x \in st[k]..en[k] : s[x] # 32
      /\ \A k, l \in 1..n : l = k + 1 =>
            en[k] + 1 \in 1..Len(s) /\ s[en[k] + 1] = 32 /\ st[l] = en[k] + 2
  BY <1>1 DEF ByteCut
<1> HIDE DEF n
<1> SUFFICES ASSUME n >= 3 PROVE FALSE
  BY <1>2 DEF n, P
<1>3. 1 \in 1..n /\ 2 \in 1..n /\ 3 \in 1..n
  BY <1>2
<1>4. PICK a : a = en[1] /\ a + 1 \in 1..Len(s) /\ a \in Int /\ s[a + 1] = 32 /\ st[2] = a + 2
  <2>1. en[1] \in 1 - 1..Len(s)
    BY <1>2, <1>3
  <2>2. en[1] + 1 \in 1..Len(s) /\ s[en[1] + 1] = 32 /\ st[2] = en[1] + 2
    BY <1>2, <1>3
  <2>3. QED
    BY <2>1, <2>2
<1>5. a = 1
  <2>1. ~(a + 1 \in 3..Len(s))
    BY <1>4
  <2>2. a # 0
    <3> SUFFICES ASSUME a = 0 PROVE FALSE
      OBVIOUS
    <3>1. a + 1 = 1
      OBVIOUS
    <3>2. QED
      BY <1>4, <3>1
  <2>3. a \in Int /\ a + 1 \in 1..Len(s) /\ Len(s) \in Int
    BY <1>2, <1>4
  <2>4. QED
    BY <2>1, <2>2, <2>3
<1>6. PICK b : b = en[2] /\ b \in 2..Len(s) /\ b + 1 \in 1..Len(s) /\ s[b + 1] = 32
  <2>1. st[2] = 3
    BY <1>4, <1>5
  <2>2. en[2] \in 3 - 1..Len(s)
    BY <1>2, <1>3, <2>1
  <2>3. en[2] + 1 \in 1..Len(s) /\ s[en[2] + 1] = 32
    BY <1>2, <1>3
  <2>4. QED
    BY <2>2, <2>3
<1>7. b + 1 \in 3..Len(s)
  BY <1>2, <1>6
<1>8. QED
  BY <1>6, <1>7

\* The target of a request for /search.
LEMMA TargetIs ==
    ASSUME NEW s \in Seq(0..255), Started(s), NEW z \in 6..Len(s)
    PROVE  /\ Find(SubSeq(s, 3, z - 1), <<Question>>) = 3
           /\ Before(SubSeq(s, 3, z - 1), 3) = SearchPath
           /\ From(SubSeq(s, 3, z - 1), 4) = SubSeq(s, 6, z - 1)
           /\ SubSeq(s, 1, 1) = Get
<1>1. Len(s) \in Nat /\ Len(s) >= 5 /\ s[1] = 71 /\ s[3] = 47 /\ s[4] = 115 /\ s[5] = 63
  BY DEF Started
<1>2. PICK m \in 3..Len(s) : z = m + 3
  <2>1. z - 3 \in 3..Len(s) /\ z = (z - 3) + 3
    BY <1>1
  <2>2. QED
    BY <2>1
<1>3. PICK y \in 2..Len(s) : y = z - 1 /\ y = m + 2
  <2>1. z - 1 \in 2..Len(s) /\ z - 1 = m + 2
    BY <1>1, <1>2
  <2>2. QED
    BY <2>1
<1>4. PICK t : t = SubSeq(s, 3, y)
  OBVIOUS
<1>5. /\ t \in Seq(0..255) /\ Len(t) = m
      /\ \A k \in 1..m : t[k] = s[3 + k - 1]
  <2>1. 3 \in 1..Len(s) + 1 /\ y \in 3 - 1..Len(s) /\ y + 1 - 3 = m
    BY <1>1, <1>3
  <2>2. QED
    BY <1>4, <2>1, PartIs
<1>6. t[1] = 47 /\ t[2] = 115 /\ t[3] = 63
  <2>1. 1 \in 1..m /\ 2 \in 1..m /\ 3 \in 1..m /\ 3 + 1 - 1 = 3 /\ 3 + 2 - 1 = 4 /\ 3 + 3 - 1 = 5
    BY <1>1, <1>2
  <2>2. QED
    BY <1>1, <1>5, <2>1
<1>7. Find(t, <<Question>>) = 3
  <2>1. PICK c \in 0..255 : c = Question /\ c = 63
    BY DEF Question
  <2>2. PICK f : f = Find(t, <<c>>)
    OBVIOUS
  <2>3. /\ f \in 0..m
        /\ f = 0 => \A i \in 1..m : t[i] # 63
        /\ f # 0 => t[f] = 63 /\ \A i \in 1..f - 1 : t[i] # 63
    <3>1. /\ Find(t, <<c>>) \in 0..Len(t)
          /\ Find(t, <<c>>) = 0 => \A i \in 1..Len(t) : t[i] # c
          /\ Find(t, <<c>>) # 0 => /\ t[Find(t, <<c>>)] = c
                                   /\ \A i \in 1..Find(t, <<c>>) - 1 : t[i] # c
      BY <1>5, FindByte, Zenon
    <3>2. QED
      BY <1>5, <2>1, <2>2, <3>1
  <2>4. f # 0 /\ f # 1 /\ f # 2
    <3>1. 3 \in 1..m
      BY <1>2
    <3>2. QED
      BY <1>6, <2>3, <3>1
  <2>5. f <= 3
    <3> SUFFICES ASSUME 3 \in 1..f - 1 PROVE FALSE
      BY <2>3
    <3>1. QED
      BY <1>6, <2>3, <2>4
  <2>6. f = 3
    BY <2>3, <2>4, <2>5
  <2>7. QED
    BY <2>1, <2>2, <2>6
<1>8. Before(t, 3) = SearchPath
  <2>1. PICK u : u = SubSeq(t, 1, 2)
    OBVIOUS
  <2>2. u \in Seq(0..255) /\ Len(u) = 2 /\ \A k \in 1..2 : u[k] = t[1 + k - 1]
    <3>1. 1 \in 1..Len(t) + 1 /\ 2 \in 1 - 1..Len(t) /\ 2 + 1 - 1 = 2
      BY <1>2, <1>5
    <3>2. QED
      BY <1>5, <2>1, <3>1, PartIs
  <2>3. u[1] = 47 /\ u[2] = 115
    <3>1. 1 + 1 - 1 = 1 /\ 1 + 2 - 1 = 2 /\ 1 \in 1..2 /\ 2 \in 1..2
      OBVIOUS
    <3>2. QED
      BY <1>6, <2>2, <3>1
  <2>4. PICK v : v = SearchPath
    OBVIOUS
  <2>5. v \in Seq(0..255) /\ Len(v) = 2 /\ v[1] = 47 /\ v[2] = 115
    BY <2>4 DEF SearchPath, Slash
  <2>6. \A k \in 1..Len(u) : u[k] = v[k]
    <3>1. \A k \in 1..2 : k = 1 \/ k = 2
      OBVIOUS
    <3>2. QED
      BY <2>2, <2>3, <2>5, <3>1
  <2>7. u = v
    BY <2>2, <2>5, <2>6, SeqEqual
  <2>8. 3 - 1 = 2
    OBVIOUS
  <2>9. QED
    BY <2>1, <2>4, <2>7, <2>8 DEF Before
<1>9. From(t, 4) = SubSeq(s, 6, y)
  <2>1. PICK u : u = From(t, 4)
    OBVIOUS
  <2>2. PICK n \in Nat : m = n + 3
    <3>1. m - 3 \in Nat /\ m = (m - 3) + 3
      BY <1>2
    <3>2. QED
      BY <3>1
  <2>3. u \in Seq(0..255) /\ Len(u) = n /\ \A k \in 1..n : u[k] = t[4 + k - 1]
    <3>1. 4 \in 1..Len(t) + 1 /\ Len(t) + 1 - 4 = n
      BY <1>5, <2>2
    <3>2. QED
      BY <1>5, <2>1, <3>1, FromIs, ZenonT(60)
  <2>4. PICK v : v = SubSeq(s, 6, y)
    OBVIOUS
  <2>5. v \in Seq(0..255) /\ Len(v) = n /\ \A k \in 1..n : v[k] = s[6 + k - 1]
    <3>1. 6 \in 1..Len(s) + 1 /\ y \in 6 - 1..Len(s) /\ y + 1 - 6 = n
      BY <1>1, <1>3, <2>2
    <3>2. QED
      BY <2>4, <3>1, PartIs
  <2>6. ASSUME NEW k \in 1..n PROVE u[k] = v[k]
    <3>1. PICK x \in 1..m : x = 4 + k - 1
      <4>1. 4 + k - 1 \in 1..m
        BY <2>2
      <4>2. QED
        BY <4>1
    <3>2. 3 + x - 1 = 6 + k - 1
      BY <3>1
    <3>3. t[x] = s[3 + x - 1]
      BY <1>5
    <3>4. QED
      BY <2>3, <2>5, <3>1, <3>2, <3>3
  <2>7. u = v
    BY <2>3, <2>5, <2>6, SeqEqual
  <2>8. QED
    BY <2>1, <2>4, <2>7
<1>10. SubSeq(s, 1, 1) = Get
  <2>1. PICK u : u = SubSeq(s, 1, 1)
    OBVIOUS
  <2>2. u \in Seq(0..255) /\ Len(u) = 1 /\ u[1] = s[1]
    <3>1. 1 \in 1..Len(s) + 1 /\ 1 \in 1 - 1..Len(s) /\ 1 + 1 - 1 = 1 /\ 1 \in 1..1
      BY <1>1
    <3>2. u \in Seq(0..255) /\ Len(u) = 1 + 1 - 1 /\ \A k \in 1..1 + 1 - 1 : u[k] = s[1 + k - 1]
      BY <2>1, <3>1, PartIs, SMTT(30)
    <3>3. QED
      BY <3>1, <3>2
  <2>3. PICK v : v = Get
    OBVIOUS
  <2>4. v \in Seq(0..255) /\ Len(v) = 1 /\ v[1] = 71
    BY <2>3 DEF Get
  <2>5. \A k \in 1..Len(u) : u[k] = v[k]
    <3>1. \A k \in 1..1 : k = 1
      OBVIOUS
    <3>2. QED
      BY <1>1, <2>2, <2>4, <3>1
  <2>6. u = v
    BY <2>2, <2>4, <2>5, SeqEqual
  <2>7. QED
    BY <2>1, <2>3, <2>6
<1>11. QED
  BY <1>3, <1>4, <1>7, <1>8, <1>9, <1>10

\* u is the n bytes of s from place i on.
Piece(u, s, i, n) ==
    u \in Seq(0..255) /\ Len(u) = n /\ \A k \in 1..n : u[k] = s[i + k - 1]

\* A part of s is a piece of it.
LEMMA PieceIs ==
    ASSUME NEW s \in Seq(0..255), NEW i \in 1..Len(s) + 1, NEW j \in i - 1..Len(s),
           NEW n, n = j + 1 - i, NEW u, u = SubSeq(s, i, j)
    PROVE  Piece(u, s, i, n)
<1>1. /\ SubSeq(s, i, j) \in Seq(0..255)
      /\ Len(SubSeq(s, i, j)) = j + 1 - i
      /\ \A k \in 1..j + 1 - i : SubSeq(s, i, j)[k] = s[i + k - 1]
  BY PartIs
<1>2. QED
  BY <1>1 DEF Piece

\* What a request for /search with well-formed headers is parsed to.
Searches(R, query, H) ==
    /\ H # {}
    /\ R = {[method |-> Get, path |-> SearchPath, query_params |-> q, headers |-> h] :
                q \in ParseQueryString(query), h \in H}

ParsedTo(R, query) == (query = <<>> /\ R = {}) \/ \E H : Searches(R, query, H)

\* A request that ends a line and names a search with well-formed headers is parsed
\* to that search, or refused if the second blank of its first line is missing.
LEMMA SearchIsParsed ==
    ASSUME NEW raw \in Seq(0..255), NEW m \in 1..Len(raw), Len(raw) = m + 1, Crlf(raw, m),
           NEW query \in QueryString(raw)
    PROVE  query \in Seq(0..255) /\ ParsedTo(ParseRequest(raw), query)
<1> DEFINE rest == From(raw, 6)
           P == Split(raw, NewLine)
           H == ParseHeaders(Tail(P))
<1>1. PICK sp : sp = Find(rest, <<Space>>)
  OBVIOUS
<1>2. /\ Started(raw) /\ query = Before(rest, sp) /\ Find(query, NewLine) = 0
      /\ \A line \in ToSet(Tail(P)) : line = <<>> \/ Find(line, <<Colon>>) > 1
  <2> DEFINE start == Get \o <<Space>> \o SearchPath \o <<Question>>
             q == Before(From(raw, Len(start) + 1), Find(From(raw, Len(start) + 1), <<Space>>))
  <2>1. /\ IsPrefix(start, raw) /\ Find(q, NewLine) = 0 /\ query = q
        /\ \A line \in ToSet(Tail(P)) : line = <<>> \/ Find(line, <<Colon>>) > 1
    BY DEF QueryString
  <2>2. Len(start) = 5 /\ Started(raw)
    BY <2>1, StartIs
  <2>3. Len(start) + 1 = 6
    BY <2>2
  <2> HIDE DEF start
  <2>4. QED
    BY <1>1, <2>1, <2>2, <2>3
<1>3. /\ Len(raw) \in Nat /\ Len(raw) >= 5
      /\ raw[1] = 71 /\ raw[2] = 32 /\ raw[3] = 47 /\ raw[4] = 115 /\ raw[5] = 63
  BY <1>2 DEF Started
<1>4. /\ rest \in Seq(0..255) /\ Len(rest) = Len(raw) - 5
      /\ \A k \in 1..Len(raw) - 5 : rest[k] = raw[6 + k - 1]
  <2>1. 6 \in 1..Len(raw) + 1 /\ Len(raw) + 1 - 6 = Len(raw) - 5
    BY <1>3
  <2>2. QED
    BY <2>1, FromIs, ZenonT(60)
<1>5. /\ sp \in 0..Len(raw) - 5
      /\ sp = 0 => \A i \in 1..Len(raw) - 5 : rest[i] # 32
      /\ sp # 0 => rest[sp] = 32 /\ \A i \in 1..sp - 1 : rest[i] # 32
  <2>1. PICK c \in 0..255 : c = Space /\ c = 32
    BY DEF Space
  <2>2. /\ Find(rest, <<c>>) \in 0..Len(rest)
        /\ Find(rest, <<c>>) = 0 => \A i \in 1..Len(rest) : rest[i] # c
        /\ Find(rest, <<c>>) # 0 => /\ rest[Find(rest, <<c>>)] = c
                                    /\ \A i \in 1..Find(rest, <<c>>) - 1 : rest[i] # c
    BY <1>4, FindByte, ZenonT(60)
  <2> HIDE DEF rest
  <2>3. QED
    BY <1>1, <1>4, <2>1, <2>2
<1> HIDE DEF rest
<1>6. PICK st, en : LineCut(P, raw, st, en)
  BY SplitLines
<1>7. P \in Seq(Seq(0..255))
  BY <1>6 DEF LineCut
<1> HIDE DEF P
<1>8. PICK k \in Nat : k # 0 /\ Len(P) = k + 1 /\ P[k + 1] = <<>>
  BY <1>6, LinesEnd
<1>9. H # {}
  BY <1>2, <1>7, <1>8, HeadersThere
<1> HIDE DEF H
<1>10. Len(P) # 1
  BY <1>8
<1>11. PICK e \in 0..Len(raw) : P[1] = SubSeq(raw, 1, e) /\ Crlf(raw, e + 1)
  <2>1. 1 \in 1..Len(P) /\ 2 \in 1..Len(P) /\ 2 = 1 + 1
    BY <1>8
  <2>2. /\ st[1] = 1 /\ en[1] \in st[1] - 1..Len(raw)
        /\ P[1] = SubSeq(raw, st[1], en[1]) /\ Crlf(raw, en[1] + 1)
    BY <1>6, <2>1 DEF LineCut
  <2>3. en[1] \in 0..Len(raw)
    BY <2>2
  <2>4. QED
    BY <2>2, <2>3
<1>12. raw[e + 1] = 13 /\ raw[e + 1 + 1] = 10
  BY <1>11 DEF Crlf
<1>13. e >= 5
  <2> SUFFICES ASSUME e < 5 PROVE FALSE
    BY <1>3, <1>11
  <2>1. e + 1 = 1 \/ e + 1 = 2 \/ e + 1 = 3 \/ e + 1 = 4 \/ e + 1 = 5
    BY <1>11
  <2>2. QED
    BY <1>3, <1>12, <2>1, SMTT(30)
<1>14. PICK line : line = P[1]
  OBVIOUS
<1>15. line \in Seq(0..255) /\ Len(line) = e /\ \A x \in 1..e : line[x] = raw[x]
  <2>1. 1 \in 1..Len(raw) + 1 /\ e \in 1 - 1..Len(raw) /\ e + 1 - 1 = e
    BY <1>3, <1>11
  <2>2. line \in Seq(0..255) /\ Len(line) = e /\ \A x \in 1..e : line[x] = raw[1 + x - 1]
    <3>1. Piece(line, raw, 1, e)
      BY <1>11, <1>14, <2>1, PieceIs
    <3>2. QED
      BY <3>1 DEF Piece
  <2>3. \A x \in 1..e : 1 + x - 1 = x
    BY <1>11
  <2>4. QED
    BY <2>2, <2>3
<1>16. Started(line)
  <2>1. 1 \in 1..e /\ 2 \in 1..e /\ 3 \in 1..e /\ 4 \in 1..e /\ 5 \in 1..e /\ e \in Nat
    BY <1>11, <1>13
  <2>2. QED
    BY <1>3, <1>13, <1>15, <2>1 DEF Started
<1>17. CASE sp = 0
  <2>1. query = <<>>
    <3>1. 0 - 1 < 1 /\ 1 \in Int /\ 0 - 1 \in Int
      OBVIOUS
    <3>2. QED
      BY <1>2, <1>17, <3>1, SubSeqEmpty DEF Before
  <2>2. line[1] # 32
    BY <1>16 DEF Started
  <2>3. ASSUME NEW x \in 3..Len(line) PROVE line[x] # 32
    <3>1. x \in 1..e /\ x \in 3..Len(raw)
      BY <1>11, <1>15
    <3>2. CASE x <= 5
      <4>1. x = 3 \/ x = 4 \/ x = 5
        BY <3>1, <3>2
      <4>2. QED
        BY <1>3, <1>15, <3>1, <4>1
    <3>3. CASE x > 5
      <4>1. PICK y \in 1..Len(raw) - 5 : 6 + y - 1 = x
        <5>1. x - 5 \in 1..Len(raw) - 5 /\ 6 + (x - 5) - 1 = x
          BY <1>3, <3>1, <3>3
        <5>2. QED
          BY <5>1
      <4>2. QED
        BY <1>4, <1>5, <1>15, <1>17, <3>1, <4>1
    <3>4. QED
      BY <3>1, <3>2, <3>3
  <2>4. Len(Split(line, <<Space>>)) < 3
    BY <1>15, <2>2, <2>3, TooFewWords
  <2>5. ParseRequest(raw) = {}
    <3>1. Len(Split(P[1], <<Space>>)) < 3
      BY <1>14, <2>4
    <3>2. QED
      BY <3>1 DEF ParseRequest, P
  <2>6. <<>> \in Seq(0..255)
    OBVIOUS
  <2>7. QED
    BY <2>1, <2>5, <2>6 DEF ParsedTo, Searches
<1>18. CASE sp # 0
  <2>1. PICK z \in 6..Len(raw) : z = sp + 5
    <3>1. sp + 5 \in 6..Len(raw)
      BY <1>3, <1>5, <1>18
    <3>2. QED
      BY <3>1
  <2>2. raw[z] = 32 /\ \A x \in 6..z - 1 : raw[x] # 32
    <3>1. raw[z] = 32
      <4>1. 6 + sp - 1 = z /\ sp \in 1..Len(raw) - 5
        BY <1>5, <1>18, <2>1
      <4>2. QED
        BY <1>4, <1>5, <1>18, <4>1
    <3>2. ASSUME NEW x \in 6..z - 1 PROVE raw[x] # 32
      <4>1. PICK y \in 1..sp - 1 : 6 + y - 1 = x
        <5>1. x - 5 \in 1..sp - 1 /\ 6 + (x - 5) - 1 = x
          BY <1>5, <2>1
        <5>2. QED
          BY <5>1
      <4>2. y \in 1..Len(raw) - 5
        BY <1>5
      <4>3. QED
        BY <1>4, <1>5, <1>18, <4>1, <4>2
    <3>3. QED
      BY <3>1, <3>2
  <2>3. /\ query \in Seq(0..255) /\ Len(query) = sp - 1
        /\ \A y \in 1..sp - 1 : query[y] = raw[6 + y - 1]
    <3>1. PICK y \in 0..Len(raw) - 5 : y = sp - 1
      <4>1. sp - 1 \in 0..Len(raw) - 5
        BY <1>5, <1>18
      <4>2. QED
        BY <4>1
    <3>2. 1 \in 1..Len(rest) + 1 /\ y \in 1 - 1..Len(rest) /\ y + 1 - 1 = y
      BY <1>3, <1>4, <3>1, SMTT(30)
    <3>3. query = SubSeq(rest, 1, y)
      BY <1>2, <3>1 DEF Before
    <3>4. query \in Seq(0..255) /\ Len(query) = y /\ \A x \in 1..y : query[x] = rest[1 + x - 1]
      <4>1. Piece(query, rest, 1, y)
        BY <1>4, <3>2, <3>3, PieceIs
      <4>2. QED
        BY <4>1 DEF Piece
    <3>5. \A x \in 1..y : 1 + x - 1 = x /\ x \in 1..Len(raw) - 5
      BY <1>3, <3>1
    <3>6. \A x \in 1..y : query[x] = raw[6 + x - 1]
      BY <1>4, <3>4, <3>5
    <3>7. QED
      BY <3>1, <3>4, <3>6
  <2>4. \A y \in 1..sp - 1 : ~Crlf(query, y)
    BY <1>2, <2>3, FindLine
  <2>5. z <= e
    <3> SUFFICES ASSUME e < z PROVE FALSE
      BY <1>11, <2>1
    <3>1. e + 1 # z
      BY <1>12, <2>2
    <3>2. e + 1 + 1 # z
      BY <1>12, <2>2
    <3>3. PICK y \in 1..sp - 1 : 6 + y - 1 = e + 1
      <4>1. e - 4 \in 1..sp - 1 /\ 6 + (e - 4) - 1 = e + 1
        BY <1>5, <1>11, <1>13, <2>1, <3>1
      <4>2. QED
        BY <4>1
    <3>4. PICK x \in 1..sp - 1 : x = y + 1 /\ 6 + x - 1 = e + 1 + 1
      <4>1. y + 1 \in 1..sp - 1 /\ 6 + (y + 1) - 1 = e + 1 + 1
        BY <1>5, <1>11, <2>1, <3>1, <3>2, <3>3
      <4>2. QED
        BY <4>1
    <3>5. query[y] = 13 /\ query[x] = 10
      BY <1>12, <2>3, <3>3, <3>4
    <3>6. y + 1 <= Len(query)
      BY <1>5, <2>3, <3>4
    <3>7. Crlf(query, y)
      BY <3>4, <3>5, <3>6 DEF Crlf
    <3>8. QED
      BY <2>4, <3>7
  <2>6. z \in 6..Len(line)
    BY <1>11, <1>15, <2>1, <2>5
  <2>7. line[z] = 32 /\ \A x \in 6..z - 1 : line[x] # 32
    <3>1. z \in 1..e /\ \A x \in 6..z - 1 : x \in 1..e
      BY <1>11, <2>1, <2>5
    <3>2. QED
      BY <1>15, <2>2, <3>1
  <2>8. /\ Len(Split(line, <<Space>>)) \in Nat /\ Len(Split(line, <<Space>>)) >= 3
        /\ Split(line, <<Space>>)[1] = SubSeq(line, 1, 1)
        /\ Split(line, <<Space>>)[2] = SubSeq(line, 3, z - 1)
    BY <1>15, <1>16, <2>6, <2>7, WordsAre, ZenonT(60)
  <2>9. /\ Find(SubSeq(line, 3, z - 1), <<Question>>) = 3
        /\ Before(SubSeq(line, 3, z - 1), 3) = SearchPath
        /\ From(SubSeq(line, 3, z - 1), 4) = SubSeq(line, 6, z - 1)
        /\ SubSeq(line, 1, 1) = Get
    BY <1>15, <1>16, <2>6, TargetIs
  <2>10. SubSeq(line, 6, z - 1) = query
    <3>1. PICK y \in 5..Len(line) : y = z - 1
      <4>1. z - 1 \in 5..Len(line)
        BY <1>11, <1>15, <2>6
      <4>2. QED
        BY <4>1
    <3>2. PICK u : u = SubSeq(line, 6, y)
      OBVIOUS
    <3>3. 6 \in 1..Len(line) + 1 /\ y \in 6 - 1..Len(line) /\ y + 1 - 6 = sp - 1
      BY <1>5, <1>11, <1>13, <1>15, <2>1, <3>1
    <3>4. u \in Seq(0..255) /\ Len(u) = sp - 1 /\ \A x \in 1..sp - 1 : u[x] = line[6 + x - 1]
      <4>1. Piece(u, line, 6, sp - 1)
        BY <1>15, <3>2, <3>3, PieceIs
      <4>2. QED
        BY <4>1 DEF Piece
    <3>5. ASSUME NEW x \in 1..sp - 1 PROVE line[6 + x - 1] = raw[6 + x - 1]
      <4>1. 6 + x - 1 \in 1..e
        BY <1>5, <1>11, <2>1, <2>5
      <4>2. QED
        BY <1>15, <4>1
    <3>6. \A x \in 1..Len(u) : u[x] = query[x]
      BY <2>3, <3>4, <3>5
    <3>7. u = query
      BY <2>3, <3>4, <3>6, SeqEqual
    <3>8. QED
      BY <3>1, <3>2, <3>7
  <2>11. ParseRequest(raw) =
            {[method |-> Get, path |-> SearchPath, query_params |-> q, headers |-> h] :
                q \in ParseQueryString(query), h \in H}
    <3>1. PICK words : words = Split(P[1], <<Space>>)
      OBVIOUS
    <3>2. words[1] = Get /\ ~(Len(words) < 3)
      <4>1. words = Split(line, <<Space>>)
        BY <1>14, <3>1
      <4>2. Len(words) \in Nat /\ Len(words) >= 3
        BY <2>8, <4>1
      <4>3. words[1] = Get
        BY <2>8, <2>9, <4>1
      <4>4. ~(Len(words) < 3)
        BY <4>2
      <4>5. QED
        BY <4>3, <4>4
    <3>3. PICK target : target = words[2]
      OBVIOUS
    <3>4. Find(target, <<Question>>) = 3 /\ Before(target, 3) = SearchPath /\ From(target, 4) = query
      BY <1>14, <2>8, <2>9, <2>10, <3>1, <3>3
    <3>5. ParseRequest(raw) =
            {[method |-> words[1], path |-> Before(target, 3), query_params |-> q, headers |-> h] :
                q \in ParseQueryString(From(target, 4)), h \in H}
      <4>1. 3 # 0 /\ 3 + 1 = 4
        OBVIOUS
      <4>2. QED
        BY <1>10, <3>1, <3>2, <3>3, <3>4, <4>1, SMTT(30) DEF ParseRequest, P, H
    <3>6. QED
      BY <3>2, <3>4, <3>5
  <2>12. QED
    BY <1>9, <2>3, <2>11 DEF ParsedTo, Searches
<1>19. QED
  BY <1>17, <1>18

--------------------------------------------------------------------------------
(* The parameters of a query string are the items of it that have a name.    *)

\* A parameter of s begins at place i, with its equals sign at place j.
ParamAt(s, i, j) ==
    /\ i \in 1..Len(s) /\ j \in 1..Len(s) /\ i < j /\ s[j] = 61
    /\ i = 1 \/ s[i - 1] = 38
    /\ \A x \in i..j - 1 : s[x] # 61 /\ s[x] # 38

\* Params, place by place.
LEMMA ParamIs ==
    ASSUME NEW s \in Seq(0..255)
    PROVE  /\ \A i, j : <<i, j>> \in Params(s) <=> ParamAt(s, i, j)
           /\ \A p \in Params(s) : p = <<p[1], p[2]>>
<1>1. DOMAIN s = 1..Len(s)
  BY LenProperties
<1>2. Equals = 61 /\ Ampersand = 38
  BY DEF Equals, Ampersand
<1>3. ASSUME NEW i, NEW j PROVE <<i, j>> \in Params(s) <=> ParamAt(s, i, j)
  <2> DEFINE p == <<i, j>>
  <2>1. p = <<i, j>> /\ p[1] = i /\ p[2] = j
    OBVIOUS
  <2> HIDE DEF p
  <2>2. p \in (1..Len(s)) \X (1..Len(s)) <=> i \in 1..Len(s) /\ j \in 1..Len(s)
    BY <2>1
  <2>3. p \in Params(s) <=> /\ p \in (1..Len(s)) \X (1..Len(s))
                            /\ p[1] < p[2] /\ s[p[2]] = 61
                            /\ p[1] = 1 \/ s[p[1] - 1] = 38
                            /\ \A x \in p[1]..p[2] - 1 : s[x] \notin {61, 38}
    BY <1>1, <1>2 DEF Params
  <2>4. QED
    BY <2>1, <2>2, <2>3 DEF ParamAt
<1>4. \A p \in Params(s) : p = <<p[1], p[2]>>
  <2>1. Params(s) \subseteq (DOMAIN s) \X (DOMAIN s)
    BY DEF Params
  <2>2. QED
    BY <2>1
<1>5. QED
  BY <1>3, <1>4

\* t is what is in s from place a to place b, between two ampersands.
Item(s, t, a, b) ==
    /\ Len(s) \in Nat /\ a \in 1..Len(s) + 1 /\ b \in a - 1..Len(s)
    /\ Piece(t, s, a, b + 1 - a)
    /\ \A x \in a..b : s[x] # 38
    /\ a = 1 \/ s[a - 1] = 38
    /\ b = Len(s) \/ (b + 1 \in 1..Len(s) /\ s[b + 1] = 38)

\* A piece between ampersands is an item.
LEMMA ItemIs ==
    ASSUME NEW s \in Seq(0..255), NEW P, NEW st, NEW en, ByteCut(P, s, 38, st, en),
           NEW k \in 1..Len(P)
    PROVE  Item(s, P[k], st[k], en[k])
<1> DEFINE n == Len(P)
<1>1. /\ n \in Nat /\ n # 0 /\ Len(s) \in Nat /\ st[1] = 1 /\ en[n] = Len(s)
      /\ \A i \in 1..n :
            /\ st[i] \in 1..Len(s) + 1 /\ en[i] \in st[i] - 1..Len(s)
            /\ P[i] = SubSeq(s, st[i], en[i])
            /\ \A x \in st[i]..en[i] : s[x] # 38
      /\ \A i, l \in 1..n : l = i + 1 =>
            en[i] + 1 \in 1..Len(s) /\ s[en[i] + 1] = 38 /\ st[l] = en[i] + 2
  BY DEF ByteCut
<1>2. k \in 1..n
  OBVIOUS
<1> HIDE DEF n
<1>3. PICK a, b : a = st[k] /\ b = en[k]
  OBVIOUS
<1>4. /\ a \in 1..Len(s) + 1 /\ b \in a - 1..Len(s) /\ P[k] = SubSeq(s, a, b)
      /\ \A x \in a..b : s[x] # 38
  BY <1>1, <1>2, <1>3
<1>5. PICK u : u = P[k]
  OBVIOUS
<1>6. Piece(u, s, a, b + 1 - a)
  BY <1>4, <1>5, PieceIs
<1>7. a = 1 \/ s[a - 1] = 38
  <2>1. CASE k = 1
    BY <1>1, <1>3, <2>1
  <2>2. CASE k # 1
    <3>1. PICK l \in 1..n : k = l + 1
      <4>1. k - 1 \in 1..n /\ k = (k - 1) + 1
        BY <1>1, <1>2, <2>2
      <4>2. QED
        BY <4>1
    <3>2. PICK c : c = en[l]
      OBVIOUS
    <3>3. c + 1 \in 1..Len(s) /\ s[c + 1] = 38 /\ a = c + 2
      BY <1>1, <1>2, <1>3, <3>1, <3>2
    <3>4. PICK d \in 1..Len(s) : d = c + 1
      BY <3>3
    <3>5. a - 1 = d
      <4>1. st[l] \in Int /\ c \in Int
        <5>1. PICK y \in 1..Len(s) + 1 : y = st[l]
          BY <1>1, <3>1
        <5>2. c \in y - 1..Len(s)
          BY <1>1, <3>2, <5>1
        <5>3. QED
          BY <5>1, <5>2
      <4>2. QED
        BY <3>3, <3>4, <4>1
    <3>6. QED
      BY <3>3, <3>4, <3>5
  <2>3. QED
    BY <2>1, <2>2
<1>8. b = Len(s) \/ (b + 1 \in 1..Len(s) /\ s[b + 1] = 38)
  <2>1. CASE k = n
    BY <1>1, <1>3, <2>1
  <2>2. CASE k # n
    <3>1. PICK l \in 1..n : l = k + 1
      <4>1. k + 1 \in 1..n
        BY <1>1, <1>2, <2>2
      <4>2. QED
        BY <4>1
    <3>2. QED
      BY <1>1, <1>2, <1>3, <3>1
  <2>3. QED
    BY <2>1, <2>2
<1>9. Item(s, u, a, b)
  BY <1>1, <1>4, <1>6, <1>7, <1>8 DEF Item
<1>10. QED
  BY <1>3, <1>5, <1>9

\* An item is a parameter if it has a name before an equals sign.
LEMMA NoParam ==
    ASSUME NEW s \in Seq(0..255), NEW t, NEW a, NEW b, Item(s, t, a, b),
           Find(t, <<Equals>>) \in {0, 1}
    PROVE  \A j : ~ParamAt(s, a, j)
<1> SUFFICES ASSUME NEW j, ParamAt(s, a, j) PROVE FALSE
  OBVIOUS
<1>1. /\ Len(s) \in Nat /\ a \in 1..Len(s) /\ b \in a - 1..Len(s)
      /\ \A x \in a..b : s[x] # 38
      /\ b = Len(s) \/ (b + 1 \in 1..Len(s) /\ s[b + 1] = 38)
      /\ j \in 1..Len(s) /\ a < j /\ s[j] = 61
      /\ \A x \in a..j - 1 : s[x] # 61 /\ s[x] # 38
  BY DEF Item, ParamAt
<1>2. PICK n \in 0..Len(s) : n = b + 1 - a
  <2>1. b + 1 - a \in 0..Len(s)
    BY <1>1
  <2>2. QED
    BY <2>1
<1>3. t \in Seq(0..255) /\ Len(t) = n /\ \A x \in 1..n : t[x] = s[a + x - 1]
  <2>1. Piece(t, s, a, n)
    BY <1>2 DEF Item
  <2>2. QED
    BY <2>1 DEF Piece
<1>4. PICK e : e = Find(t, <<Equals>>)
  OBVIOUS
<1>5. /\ e \in 0..n
      /\ e = 0 => \A i \in 1..n : t[i] # 61
      /\ e # 0 => t[e] = 61
  <2>1. PICK c \in 0..255 : c = Equals /\ c = 61
    BY DEF Equals
  <2>2. /\ Find(t, <<c>>) \in 0..Len(t)
        /\ Find(t, <<c>>) = 0 => \A i \in 1..Len(t) : t[i] # c
        /\ Find(t, <<c>>) # 0 => t[Find(t, <<c>>)] = c
    BY <1>3, FindByte, ZenonT(60)
  <2>3. QED
    BY <1>3, <1>4, <2>1, <2>2
<1>6. CASE e = 1
  <2>1. 1 \in 1..n /\ a + 1 - 1 = a /\ a \in a..j - 1
    BY <1>1, <1>2, <1>5, <1>6
  <2>2. s[a] = 61
    BY <1>3, <1>5, <1>6, <2>1
  <2>3. QED
    BY <1>1, <2>1, <2>2
<1>7. CASE e = 0
  <2>1. b < j
    <3> SUFFICES ASSUME j <= b PROVE FALSE
      BY <1>1
    <3>1. PICK x \in 1..n : a + x - 1 = j
      <4>1. j - a + 1 \in 1..n /\ a + (j - a + 1) - 1 = j
        BY <1>1, <1>2
      <4>2. QED
        BY <4>1
    <3>2. t[x] = 61
      BY <1>1, <1>3, <3>1
    <3>3. QED
      BY <1>5, <1>7, <3>2
  <2>2. b # Len(s)
    BY <1>1, <2>1
  <2>3. s[b + 1] = 38
    BY <1>1, <2>2
  <2>4. b + 1 # j
    BY <1>1, <2>3
  <2>5. b + 1 \in a..j - 1
    BY <1>1, <2>1, <2>4
  <2>6. QED
    BY <1>1, <2>3, <2>5
<1>8. QED
  BY <1>4, <1>6, <1>7

\* The name of an item ends before place e.
NameEnds(t, e) == e = Find(t, <<Equals>>) /\ e \notin {0, 1}

\* v is the equals sign of the parameter that is item t, from place a on.
ParamOf(s, t, a, e, v) ==
    /\ ParamAt(s, a, v) /\ \A j : ParamAt(s, a, j) => j = v
    /\ NameOf(s, <<a, v>>) = Before(t, e) /\ Before(t, e) \in Seq(0..255)
    /\ ValueOf(s, <<a, v>>) = From(t, e + 1) /\ From(t, e + 1) \in Seq(0..255)

\* An item with a name is a parameter.
LEMMA ParamHere ==
    ASSUME NEW s \in Seq(0..255), NEW t, NEW a, NEW b, Item(s, t, a, b),
           NEW e, NameEnds(t, e)
    PROVE  \E v : ParamOf(s, t, a, e, v)
<1>1. /\ Len(s) \in Nat /\ a \in 1..Len(s) + 1 /\ b \in a - 1..Len(s)
      /\ \A x \in a..b : s[x] # 38
      /\ a = 1 \/ s[a - 1] = 38
      /\ b = Len(s) \/ (b + 1 \in 1..Len(s) /\ s[b + 1] = 38)
  BY DEF Item
<1>2. PICK n \in 0..Len(s) : n = b + 1 - a
  <2>1. b + 1 - a \in 0..Len(s)
    BY <1>1
  <2>2. QED
    BY <2>1
<1>3. t \in Seq(0..255) /\ Len(t) = n /\ \A x \in 1..n : t[x] = s[a + x - 1]
  <2>1. Piece(t, s, a, n)
    BY <1>2 DEF Item
  <2>2. QED
    BY <2>1 DEF Piece
<1>4. e \in 2..n /\ t[e] = 61 /\ \A i \in 1..e - 1 : t[i] # 61
  <2>1. PICK c \in 0..255 : c = Equals /\ c = 61
    BY DEF Equals
  <2>2. /\ Find(t, <<c>>) \in 0..Len(t)
        /\ Find(t, <<c>>) # 0 => /\ t[Find(t, <<c>>)] = c
                                 /\ \A i \in 1..Find(t, <<c>>) - 1 : t[i] # c
    BY <1>3, FindByte, Zenon
  <2>3. e \in 0..n /\ t[e] = 61 /\ \A i \in 1..e - 1 : t[i] # 61
    BY <1>3, <2>1, <2>2 DEF NameEnds
  <2>4. e # 0 /\ e # 1
    BY DEF NameEnds
  <2>5. QED
    BY <2>3, <2>4
<1>5. PICK v \in 1..Len(s) : v = a + e - 1 /\ v <= b /\ a < v
  <2>1. /\ a + e - 1 \in 1..Len(s) /\ a + e - 1 <= b /\ a < a + e - 1
    BY <1>1, <1>2, <1>4
  <2>2. QED
    BY <2>1
<1>6. s[v] = 61
  <2>1. e \in 1..n
    BY <1>4
  <2>2. QED
    BY <1>3, <1>4, <1>5, <2>1
<1>7. ASSUME NEW x \in a..v - 1 PROVE s[x] # 61 /\ s[x] # 38
  <2>1. PICK y \in 1..e - 1 : a + y - 1 = x
    <3>1. x - a + 1 \in 1..e - 1 /\ a + (x - a + 1) - 1 = x
      BY <1>1, <1>4, <1>5
    <3>2. QED
      BY <3>1
  <2>2. y \in 1..n /\ x \in a..b
    BY <1>1, <1>2, <1>4, <1>5
  <2>3. s[x] = t[y]
    BY <1>3, <2>1, <2>2
  <2>4. QED
    BY <1>1, <1>4, <2>1, <2>2, <2>3
<1>8. ParamAt(s, a, v)
  <2>1. a \in 1..Len(s)
    BY <1>1, <1>5
  <2>2. QED
    BY <1>1, <1>5, <1>6, <1>7, <2>1 DEF ParamAt
<1>9. ASSUME NEW j, ParamAt(s, a, j) PROVE j = v
  <2>1. j \in 1..Len(s) /\ a < j /\ s[j] = 61 /\ \A x \in a..j - 1 : s[x] # 61
    BY <1>9 DEF ParamAt
  <2>2. ~(j < v)
    <3> SUFFICES ASSUME j \in a..v - 1 PROVE FALSE
      BY <1>1, <1>5, <2>1
    <3>1. QED
      BY <1>7, <2>1
  <2>3. ~(v < j)
    <3> SUFFICES ASSUME v \in a..j - 1 PROVE FALSE
      BY <1>1, <1>5, <2>1
    <3>1. QED
      BY <1>6, <2>1
  <2>4. QED
    BY <1>5, <2>1, <2>2, <2>3
<1>10. NameOf(s, <<a, v>>) = Before(t, e) /\ Before(t, e) \in Seq(0..255)
  <2>1. PICK d \in 1..Len(s) : e = d + 1
    <3>1. e - 1 \in 1..Len(s) /\ e = (e - 1) + 1
      BY <1>2, <1>4
    <3>2. QED
      BY <3>1
  <2>2. PICK y \in 1..Len(s) : y = v - 1
    <3>1. v - 1 \in 1..Len(s)
      BY <1>1, <1>5
    <3>2. QED
      BY <3>1
  <2>3. PICK u, w : u = SubSeq(s, a, y) /\ w = SubSeq(t, 1, d)
    OBVIOUS
  <2>4. Piece(u, s, a, d)
    <3>1. y \in a - 1..Len(s) /\ d = y + 1 - a
      BY <1>1, <1>5, <2>1, <2>2
    <3>2. QED
      BY <1>1, <2>3, <3>1, PieceIs
  <2>5. Piece(w, t, 1, d)
    <3>1. 1 \in 1..Len(t) + 1 /\ d \in 1 - 1..Len(t) /\ d = d + 1 - 1
      BY <1>3, <1>4, <2>1
    <3>2. QED
      BY <1>3, <2>3, <3>1, PieceIs
  <2>6. ASSUME NEW x \in 1..d PROVE u[x] = w[x]
    <3>1. 1 + x - 1 = x /\ x \in 1..n
      BY <1>4, <2>1
    <3>2. u[x] = s[a + x - 1] /\ w[x] = t[1 + x - 1]
      BY <2>4, <2>5 DEF Piece
    <3>3. QED
      BY <1>3, <3>1, <3>2
  <2>7. u = w /\ w \in Seq(0..255)
    <3>1. u \in Seq(0..255) /\ Len(u) = d /\ w \in Seq(0..255) /\ Len(w) = d
      BY <2>4, <2>5 DEF Piece
    <3>2. QED
      BY <2>6, <3>1, SeqEqual
  <2>8. NameOf(s, <<a, v>>) = u
    BY <2>2, <2>3 DEF NameOf
  <2>9. e - 1 = d
    BY <2>1
  <2>10. Before(t, e) = w
    BY <2>3, <2>9 DEF Before
  <2>11. QED
    BY <2>7, <2>8, <2>10
<1>11. ValueOf(s, <<a, v>>) = From(t, e + 1) /\ From(t, e + 1) \in Seq(0..255)
  <2> DEFINE ends == {i \in v..Len(s) : i = Len(s) \/ s[i + 1] = 38}
  <2>1. \A i \in ends : i \in v..Len(s) /\ (i = Len(s) \/ s[i + 1] = 38)
    OBVIOUS
  <2>2. b \in ends
    BY <1>1, <1>5
  <2>3. ValueOf(s, <<a, v>>) = SubSeq(s, v + 1, Min(ends))
    BY DEF ValueOf, Ampersand
  <2> HIDE DEF ends
  <2>4. Min(ends) \in ends /\ \A y \in ends : Min(ends) <= y
    <3>1. ends \subseteq Nat
      BY <1>5, <2>1
    <3>2. QED
      BY <2>2, <3>1, MinIs
  <2>5. Min(ends) = b
    <3>1. PICK i : i = Min(ends)
      OBVIOUS
    <3>2. i \in v..Len(s) /\ i <= b /\ (i = Len(s) \/ s[i + 1] = 38)
      BY <2>1, <2>2, <2>4, <3>1
    <3>3. ~(i < b)
      <4> SUFFICES ASSUME i < b PROVE FALSE
        OBVIOUS
      <4>1. i + 1 \in a..b /\ i # Len(s)
        BY <1>1, <1>5, <3>2
      <4>2. QED
        BY <1>1, <3>2, <4>1
    <3>4. QED
      BY <1>1, <3>1, <3>2, <3>3
  <2>6. PICK d \in 0..Len(s) : d = b - v
    <3>1. b - v \in 0..Len(s)
      BY <1>1, <1>5
    <3>2. QED
      BY <3>1
  <2>7. PICK i \in 1..Len(s) + 1 : i = v + 1
    BY <1>1, <1>5
  <2>8. PICK h \in 3..n + 1 : h = e + 1
    BY <1>2, <1>4
  <2>9. /\ a \in Int /\ b \in Int /\ e \in Int /\ v \in Int /\ n \in Nat /\ d \in Nat
        /\ h \in Int /\ i \in Int /\ n = b + 1 - a /\ v = a + e - 1 /\ d = b - v
        /\ h = e + 1 /\ i = v + 1 /\ 2 <= e /\ e <= n
    BY <1>1, <1>2, <1>4, <1>5, <2>6, <2>7, <2>8
  <2>10. PICK u, w : u = SubSeq(s, i, b) /\ w = SubSeq(t, h, Len(t))
    OBVIOUS
  <2>11. Piece(u, s, i, d)
    <3>1. b \in i - 1..Len(s) /\ d = b + 1 - i
      BY <1>1, <1>5, <2>6, <2>7
    <3>2. QED
      BY <2>10, <3>1, PieceIs
  <2>12. Piece(w, t, h, d)
    <3>1. /\ h \in 1..Len(t) + 1 /\ Len(t) \in h - 1..Len(t) /\ d = Len(t) + 1 - h
      BY <1>3, <2>9
    <3>2. QED
      BY <1>3, <2>10, <3>1, PieceIs
  <2>13. ASSUME NEW x \in 1..d PROVE u[x] = w[x]
    <3>1. PICK y \in 1..n : y = h + x - 1 /\ a + y - 1 = i + x - 1
      <4>1. h + x - 1 \in 1..n /\ a + (h + x - 1) - 1 = i + x - 1
        BY <2>9
      <4>2. QED
        BY <4>1
    <3>2. u[x] = s[i + x - 1] /\ w[x] = t[h + x - 1]
      BY <2>11, <2>12 DEF Piece
    <3>3. t[y] = s[a + y - 1]
      BY <1>3
    <3>4. QED
      BY <3>1, <3>2, <3>3
  <2>14. u = w /\ w \in Seq(0..255)
    <3>1. u \in Seq(0..255) /\ Len(u) = d /\ w \in Seq(0..255) /\ Len(w) = d
      BY <2>11, <2>12 DEF Piece
    <3>2. QED
      BY <2>13, <3>1, SeqEqual
  <2>15. ValueOf(s, <<a, v>>) = u
    BY <2>3, <2>5, <2>7, <2>10
  <2>16. From(t, e + 1) = w
    BY <2>8, <2>10 DEF From
  <2>17. QED
    BY <2>14, <2>15, <2>16
<1>12. QED
  BY <1>8, <1>9, <1>10, <1>11 DEF ParamOf

\* The pieces are in order, and a place in none of them is between two.
LEMMA CutGrows ==
    ASSUME NEW s, NEW c, NEW P, NEW st, NEW en, ByteCut(P, s, c, st, en)
    PROVE  \A k, l \in 1..Len(P) : k < l => st[k] < st[l]
<1> DEFINE n == Len(P)
<1>1. /\ n \in Nat /\ Len(s) \in Nat
      /\ \A i \in 1..n : st[i] \in 1..Len(s) + 1 /\ en[i] \in st[i] - 1..Len(s)
      /\ \A i, l \in 1..n : l = i + 1 => st[l] = en[i] + 2
  BY DEF ByteCut
<1> HIDE DEF n
<1>2. ASSUME NEW i \in 1..n, NEW l \in 1..n, l = i + 1 PROVE st[i] < st[l]
  <2>1. PICK a, b : a = st[i] /\ b = en[i]
    OBVIOUS
  <2>2. a \in 1..Len(s) + 1 /\ b \in a - 1..Len(s) /\ st[l] = b + 2
    BY <1>1, <1>2, <2>1
  <2>3. a < b + 2
    BY <1>1, <2>2
  <2>4. QED
    BY <2>1, <2>2, <2>3
<1>3. ASSUME NEW k \in 1..n PROVE \A l \in 1..n : k < l => st[k] < st[l]
  <2> DEFINE K == {l \in 1..n : k < l /\ ~(st[k] < st[l])}
  <2> SUFFICES ASSUME K # {} PROVE FALSE
    OBVIOUS
  <2>1. \A l \in K : l \in 1..n /\ k < l /\ ~(st[k] < st[l])
    OBVIOUS
  <2>2. \A l \in 1..n : l \notin K /\ k < l => st[k] < st[l]
    OBVIOUS
  <2> HIDE DEF K
  <2>3. K \subseteq Nat
    BY <2>1
  <2>4. PICK l \in K : \A y \in K : l <= y
    BY <2>3, MinIs
  <2>5. PICK i \in 1..n : l = i + 1 /\ k <= i
    <3>1. l - 1 \in 1..n /\ l = (l - 1) + 1 /\ k <= l - 1
      BY <1>1, <2>1
    <3>2. QED
      BY <3>1
  <2>6. st[i] < st[l]
    BY <1>2, <2>1, <2>5
  <2>7. k = i \/ st[k] < st[i]
    <3>1. i \notin K
      <4>1. ~(l <= i)
        BY <2>5
      <4>2. QED
        BY <2>4, <4>1
    <3>2. k = i \/ k < i
      BY <2>5
    <3>3. QED
      BY <2>2, <3>1, <3>2
  <2>8. st[k] < st[l]
    <3>1. st[k] \in Int /\ st[i] \in Int /\ st[l] \in Int
      BY <1>1, <2>1
    <3>2. QED
      BY <2>6, <2>7, <3>1
  <2>9. QED
    BY <2>1, <2>8
<1>4. QED
  BY <1>3 DEF n

\* A parameter begins where an item does.
LEMMA ParamItem ==
    ASSUME NEW s \in Seq(0..255), NEW P, NEW st, NEW en, ByteCut(P, s, 38, st, en),
           NEW i, NEW j, ParamAt(s, i, j)
    PROVE  \E k \in 1..Len(P) : st[k] = i
<1> DEFINE n == Len(P)
<1>1. /\ n \in Nat /\ n # 0 /\ Len(s) \in Nat /\ st[1] = 1 /\ en[n] = Len(s)
      /\ \A k \in 1..n :
            /\ st[k] \in 1..Len(s) + 1 /\ en[k] \in st[k] - 1..Len(s)
            /\ \A x \in st[k]..en[k] : s[x] # 38
      /\ \A k, l \in 1..n : l = k + 1 => st[l] = en[k] + 2
  BY DEF ByteCut
<1>2. i \in 1..Len(s) /\ (i = 1 \/ s[i - 1] = 38)
  BY DEF ParamAt
<1> HIDE DEF n
<1>3. 1 \in 1..n
  BY <1>1
<1>4. CASE i = 1
  BY <1>1, <1>3, <1>4 DEF n
<1>5. CASE i # 1
  <2>1. PICK x \in 1..Len(s) : i = x + 1
    <3>1. i - 1 \in 1..Len(s) /\ i = (i - 1) + 1
      BY <1>1, <1>2, <1>5
    <3>2. QED
      BY <3>1
  <2>2. s[x] = 38
    <3>1. i - 1 = x
      BY <2>1
    <3>2. QED
      BY <1>2, <1>5, <3>1
  <2> DEFINE K == {k \in 1..n : st[k] <= x}
  <2>3. \A k \in 1..n : k \in K <=> st[k] <= x
    OBVIOUS
  <2>4. K \subseteq 1..n
    OBVIOUS
  <2> HIDE DEF K
  <2>5. 1 \in K
    BY <1>1, <1>3, <2>3
  <2>6. PICK k \in K : \A y \in K : y <= k
    BY <1>1, <2>4, <2>5, MaxIs
  <2>7. PICK a, b : a = st[k] /\ b = en[k]
    OBVIOUS
  <2>8. /\ k \in 1..n /\ a \in 1..Len(s) + 1 /\ b \in a - 1..Len(s) /\ a <= x
        /\ \A y \in a..b : s[y] # 38
    BY <1>1, <2>3, <2>4, <2>7
  <2>9. ~(x <= b)
    <3> SUFFICES ASSUME x \in a..b PROVE FALSE
      BY <1>1, <2>8
    <3>1. QED
      BY <2>2, <2>8
  <2>10. k # n
    <3> SUFFICES ASSUME k = n PROVE FALSE
      OBVIOUS
    <3>1. b = Len(s)
      BY <1>1, <2>7
    <3>2. QED
      BY <1>1, <2>9, <3>1
  <2>11. PICK l \in 1..n : l = k + 1
    <3>1. k + 1 \in 1..n
      BY <1>1, <2>8, <2>10
    <3>2. QED
      BY <3>1
  <2>12. st[l] = b + 2
    BY <1>1, <2>7, <2>8, <2>11
  <2>13. ~(st[l] <= x)
    <3>1. ~(l <= k)
      BY <2>8, <2>11
    <3>2. QED
      BY <2>3, <2>6, <3>1
  <2>14. b + 2 = i
    BY <1>1, <2>1, <2>8, <2>9, <2>12, <2>13
  <2>15. QED
    BY <2>12, <2>14 DEF n
<1>6. QED
  BY <1>4, <1>5

\* An item with a malformed escape, one whose name means q, and its value.
Wrong(t) == \E e : NameEnds(t, e) /\ ~(WellEscaped(Before(t, e)) /\ WellEscaped(From(t, e + 1)))
Query(t) == \E e : NameEnds(t, e) /\ Meaning(Before(t, e)) = QueryName
Text(t) == From(t, Find(t, <<Equals>>) + 1)

\* One more entry in a map.
Entry(h, m, a, b) ==
    /\ DOMAIN h = DOMAIN m \cup {a}
    /\ \A x \in DOMAIN m : h[x] = m[x]
    /\ a \notin DOMAIN m => h[a] = b

\* emplace adds an entry or keeps the one there is.
LEMMA EntryIs == \A m, a, b : Entry(Emplace(m, a, b), m, a, b)
<1> SUFFICES ASSUME NEW m, NEW a, NEW b PROVE Entry(Emplace(m, a, b), m, a, b)
  OBVIOUS
<1>1. PICK h : h = Emplace(m, a, b)
  OBVIOUS
<1>2. h = [k \in DOMAIN m \cup {a} |-> IF k \in DOMAIN m THEN m[k] ELSE b]
  BY <1>1 DEF Emplace
<1>3. Entry(h, m, a, b)
  BY <1>2 DEF Entry
<1>4. QED
  BY <1>1, <1>3

Added(v, A, B) == {Emplace(p, key, value) : p \in v, key \in A, value \in B}

\* An item is added with its name and value decoded.
LEMMA AddedIs ==
    ASSUME NEW v, NEW A, NEW B, NEW z
    PROVE  z \in Added(v, A, B) <=> \E p \in v, key \in A, value \in B : z = Emplace(p, key, value)
BY DEF Added

\* What an item does to the parameters.
LEMMA AddItemIs ==
    ASSUME NEW t \in Seq(0..255)
    PROVE  /\ AddItem({}, t) = {}
           /\ (\A e : ~NameEnds(t, e)) => \A v : AddItem(v, t) = v
           /\ Wrong(t) => \A v : AddItem(v, t) = {}
           /\ \A e : NameEnds(t, e) /\ ~Wrong(t) =>
                \A m : AddItem({m}, t) = {Emplace(m, Meaning(Before(t, e)), Meaning(Text(t)))}
<1>1. PICK f : f = Find(t, <<Equals>>)
  OBVIOUS
<1>2. \A e : NameEnds(t, e) <=> e = f /\ f \notin {0, 1}
  BY <1>1 DEF NameEnds
<1>3. ASSUME f \in {0, 1} PROVE \A v : AddItem(v, t) = v
  BY <1>1, <1>3 DEF AddItem
<1>4. CASE f \in {0, 1}
  BY <1>2, <1>3, <1>4 DEF Wrong
<1>5. CASE f \notin {0, 1}
  <2>1. PICK a, b : a = Before(t, f) /\ b = From(t, f + 1)
    OBVIOUS
  <2>2. \A v : AddItem(v, t) = Added(v, UrlDecode(a), UrlDecode(b))
    BY <1>1, <1>5, <2>1 DEF AddItem, Added
  <2>3. a \in Seq(0..255) /\ b \in Seq(0..255)
    <3>1. f \in 0..Len(t) /\ Len(t) \in Nat
      <4>1. PICK c \in 0..255 : c = Equals
        BY DEF Equals
      <4>2. QED
        BY <1>1, <4>1, FindByte, Zenon
    <3>2. PICK d : d = f - 1
      OBVIOUS
    <3>3. 1 \in 1..Len(t) + 1 /\ d \in 1 - 1..Len(t)
      BY <1>5, <3>1, <3>2
    <3>4. a \in Seq(0..255)
      BY <2>1, <3>2, <3>3, PartIs DEF Before
    <3>5. PICK h \in 1..Len(t) + 1 : h = f + 1
      BY <3>1
    <3>6. b \in Seq(0..255)
      BY <2>1, <3>5, FromIs
    <3>7. QED
      BY <3>4, <3>6
  <2>4. /\ UrlDecode(a) = IF WellEscaped(a) THEN {Meaning(a)} ELSE {}
        /\ UrlDecode(b) = IF WellEscaped(b) THEN {Meaning(b)} ELSE {}
    BY <2>3, EscapesAreDecoded
  <2>5. Wrong(t) <=> ~(WellEscaped(a) /\ WellEscaped(b))
    BY <1>2, <1>5, <2>1 DEF Wrong
  <2>6. AddItem({}, t) = {}
    BY <2>2 DEF Added
  <2>7. ASSUME Wrong(t), NEW v PROVE AddItem(v, t) = {}
    <3>1. UrlDecode(a) = {} \/ UrlDecode(b) = {}
      BY <2>4, <2>5, <2>7
    <3>2. Added(v, UrlDecode(a), UrlDecode(b)) = {}
      <4>1. \A z : z \notin Added(v, UrlDecode(a), UrlDecode(b))
        BY <3>1, AddedIs
      <4>2. QED
        BY <4>1
    <3>3. QED
      BY <2>2, <3>2
  <2>8. ASSUME ~Wrong(t), NEW m PROVE AddItem({m}, t) = {Emplace(m, Meaning(a), Meaning(b))}
    <3>1. UrlDecode(a) = {Meaning(a)} /\ UrlDecode(b) = {Meaning(b)}
      BY <2>4, <2>5, <2>8
    <3>3. PICK x, y : x = Meaning(a) /\ y = Meaning(b)
      OBVIOUS
    <3>4. \A z : z \in AddItem({m}, t) <=> z = Emplace(m, x, y)
      <4>1. AddItem({m}, t) = Added({m}, UrlDecode(a), UrlDecode(b))
        BY <2>2
      <4>2. UrlDecode(a) = {x} /\ UrlDecode(b) = {y}
        BY <3>1, <3>3
      <4>3. ASSUME NEW z PROVE z \in AddItem({m}, t) <=> z = Emplace(m, x, y)
        <5>1. z \in Added({m}, {x}, {y}) <=>
                \E p \in {m}, key \in {x}, value \in {y} : z = Emplace(p, key, value)
          BY AddedIs
        <5>2. QED
          BY <4>1, <4>2, <5>1
      <4>4. QED
        BY <4>3
    <3>5. AddItem({m}, t) = {Emplace(m, x, y)}
      BY <3>4, Zenon
    <3>6. QED
      BY <3>3, <3>5
  <2>9. Text(t) = b
    BY <1>1, <2>1 DEF Text
  <2>10. QED
    BY <1>2, <1>5, <2>1, <2>6, <2>7, <2>8, <2>9
<1>6. QED
  BY <1>4, <1>5

\* What the first k items of P make of the parameters.
Holds(v, P, k) ==
    \/ v = {} /\ \E j \in 1..k : Wrong(P[j])
    \/ /\ \A j \in 1..k : ~Wrong(P[j])
       /\ \E m : /\ v = {m}
                 /\ \/ QueryName \notin DOMAIN m /\ \A j \in 1..k : ~Query(P[j])
                    \/ /\ QueryName \in DOMAIN m
                       /\ \E j \in 1..k : /\ Query(P[j]) /\ m[QueryName] = Meaning(Text(P[j]))
                                          /\ \A i \in 1..j - 1 : ~Query(P[i])

\* One more item.
LEMMA HoldsStep ==
    ASSUME NEW P, NEW k \in Nat, NEW l, l = k + 1, NEW t \in Seq(0..255), P[l] = t,
           NEW v, Holds(v, P, k)
    PROVE  Holds(AddItem(v, t), P, l)
<1>1. l \in 1..l /\ \A j \in 1..k : j \in 1..l
  OBVIOUS
<1>2. \A j \in 1..l : j \in 1..k \/ j = l
  OBVIOUS
<1>3. CASE v = {} /\ \E j \in 1..k : Wrong(P[j])
  <2>1. AddItem(v, t) = {}
    BY <1>3, AddItemIs
  <2>2. QED
    BY <1>1, <1>3, <2>1 DEF Holds
<1>4. ASSUME \A j \in 1..k : ~Wrong(P[j]),
             NEW m, v = {m},
             \/ QueryName \notin DOMAIN m /\ \A j \in 1..k : ~Query(P[j])
             \/ /\ QueryName \in DOMAIN m
                /\ \E j \in 1..k : /\ Query(P[j]) /\ m[QueryName] = Meaning(Text(P[j]))
                                   /\ \A i \in 1..j - 1 : ~Query(P[i])
      PROVE  Holds(AddItem(v, t), P, l)
  <2>1. CASE Wrong(t)
    <3>1. AddItem(v, t) = {}
      BY <2>1, AddItemIs
    <3>2. QED
      BY <1>1, <2>1, <3>1 DEF Holds
  <2>2. CASE ~Wrong(t)
    <3>1. \A j \in 1..l : ~Wrong(P[j])
      BY <1>2, <1>4, <2>2
    <3>2. CASE \A e : ~NameEnds(t, e)
      <4>1. AddItem(v, t) = {m}
        BY <1>4, <3>2, AddItemIs
      <4>2. ~Query(t)
        BY <3>2 DEF Query
      <4>3. CASE QueryName \notin DOMAIN m /\ \A j \in 1..k : ~Query(P[j])
        <5>1. \A j \in 1..l : ~Query(P[j])
          BY <1>2, <4>2, <4>3
        <5>2. QED
          BY <3>1, <4>1, <4>3, <5>1 DEF Holds
      <4>4. CASE /\ QueryName \in DOMAIN m
                 /\ \E j \in 1..k : /\ Query(P[j]) /\ m[QueryName] = Meaning(Text(P[j]))
                                    /\ \A i \in 1..j - 1 : ~Query(P[i])
        BY <1>1, <3>1, <4>1, <4>4 DEF Holds
      <4>5. QED
        BY <1>4, <4>3, <4>4
    <3>3. ASSUME NEW e, NameEnds(t, e) PROVE Holds(AddItem(v, t), P, l)
      <4>1. PICK a, b : a = Meaning(Before(t, e)) /\ b = Meaning(Text(t))
        OBVIOUS
      <4>2. PICK h : h = Emplace(m, a, b)
        OBVIOUS
      <4>3. AddItem(v, t) = {h}
        BY <1>4, <2>2, <3>3, <4>1, <4>2, AddItemIs
      <4>4. /\ DOMAIN h = DOMAIN m \cup {a}
            /\ \A x \in DOMAIN m : h[x] = m[x]
            /\ a \notin DOMAIN m => h[a] = b
        <5>1. Entry(h, m, a, b)
          BY <4>2, EntryIs
        <5>2. QED
          BY <5>1 DEF Entry
      <4>5. Query(t) <=> a = QueryName
        BY <3>3, <4>1 DEF Query, NameEnds
      <4>6. CASE QueryName \in DOMAIN m
        <5>1. PICK j \in 1..k : /\ Query(P[j]) /\ m[QueryName] = Meaning(Text(P[j]))
                                /\ \A i \in 1..j - 1 : ~Query(P[i])
          BY <1>4, <4>6
        <5>2. QueryName \in DOMAIN h /\ h[QueryName] = m[QueryName]
          BY <4>4, <4>6
        <5>3. j \in 1..l
          BY <1>1
        <5>4. QED
          BY <3>1, <4>3, <5>1, <5>2, <5>3 DEF Holds
      <4>7. CASE QueryName \notin DOMAIN m
        <5>1. \A j \in 1..k : ~Query(P[j])
          BY <1>4, <4>7
        <5>2. CASE a = QueryName
          <6>1. QueryName \in DOMAIN h /\ h[QueryName] = b
            BY <4>4, <4>7, <5>2
          <6>2. Query(P[l]) /\ b = Meaning(Text(P[l]))
            BY <4>1, <4>5, <5>2
          <6>3. \A i \in 1..l - 1 : ~Query(P[i])
            <7>1. l - 1 = k
              OBVIOUS
            <7>2. QED
              BY <5>1, <7>1
          <6>4. QED
            BY <1>1, <3>1, <4>3, <6>1, <6>2, <6>3 DEF Holds
        <5>3. CASE a # QueryName
          <6>1. QueryName \notin DOMAIN h
            BY <4>4, <4>7, <5>3
          <6>2. \A j \in 1..l : ~Query(P[j])
            BY <1>2, <4>5, <5>1, <5>3
          <6>3. QED
            BY <3>1, <4>3, <6>1, <6>2 DEF Holds
        <5>4. QED
          BY <5>2, <5>3
      <4>8. QED
        BY <4>6, <4>7
    <3>4. QED
      BY <3>2, <3>3
  <2>3. QED
    BY <2>1, <2>2
<1>5. QED
  BY <1>3, <1>4 DEF Holds

\* The parser keeps of each name the first value, and fails with a malformed escape.
LEMMA QueryIsParsed ==
    ASSUME NEW s \in Seq(0..255), NEW P, P = Split(s, <<Ampersand>>), P \in Seq(Seq(0..255))
    PROVE  Holds(ParseQueryString(s), P, Len(P))
<1> DEFINE n == Len(P)
<1>1. n \in Nat /\ \A k \in 1..n : P[k] \in Seq(0..255)
  BY LenProperties, ElementOfSeq
<1>2. PICK F : Steps(F, 1, P, n) /\ FoldLeft(AddItem, {<<>>}, P) = F[n]
  BY ItemFoldIs
<1>3. ParseQueryString(s) = F[n]
  BY <1>2 DEF ParseQueryString
<1> HIDE DEF n
<1>4. F[0] = {<<>>} /\ \A k, l \in 0..n : l = k + 1 => F[l] = AddItem(F[k], P[l])
  BY <1>2 DEF Steps, Fill
<1>5. \A k \in 0..n : Holds(F[k], P, k)
  <2> DEFINE K == {k \in 0..n : ~Holds(F[k], P, k)}
  <2> SUFFICES ASSUME K # {} PROVE FALSE
    OBVIOUS
  <2>1. \A k \in K : k \in 0..n /\ ~Holds(F[k], P, k)
    OBVIOUS
  <2>2. \A k \in 0..n : k \notin K => Holds(F[k], P, k)
    OBVIOUS
  <2> HIDE DEF K
  <2>3. K \subseteq Nat
    BY <2>1
  <2>4. PICK l \in K : \A y \in K : l <= y
    BY <2>3, MinIs
  <2>5. Holds(F[0], P, 0)
    <3>1. QueryName \notin DOMAIN <<>>
      OBVIOUS
    <3>2. \A j \in 1..0 : FALSE
      OBVIOUS
    <3>3. QED
      BY <1>4, <3>1, <3>2 DEF Holds
  <2>6. l # 0
    BY <2>1, <2>5
  <2>7. PICK k \in 0..n : l = k + 1
    <3>1. l - 1 \in 0..n /\ l = (l - 1) + 1
      BY <1>1, <2>1, <2>6
    <3>2. QED
      BY <3>1
  <2>8. Holds(F[k], P, k)
    <3>1. ~(l <= k)
      BY <2>7
    <3>2. QED
      BY <2>2, <2>4, <3>1
  <2>9. F[l] = AddItem(F[k], P[l])
    BY <1>4, <2>1, <2>7
  <2>10. P[l] \in Seq(0..255)
    <3>1. l \in 1..n
      BY <1>1, <2>1, <2>6
    <3>2. QED
      BY <1>1, <3>1
  <2>11. Holds(AddItem(F[k], P[l]), P, l)
    <3>1. k \in Nat
      BY <1>1
    <3>2. QED
      BY <2>7, <2>8, <2>10, <3>1, HoldsStep
  <2>12. QED
    BY <2>1, <2>9, <2>11
<1>6. n \in 0..n
  BY <1>1
<1>7. QED
  BY <1>3, <1>5, <1>6 DEF n

\* The parameters of s are the items of P that have a name.
ItemParams(s, P, st) ==
    /\ \A p \in Params(s) : \E k, e :
          /\ k \in 1..Len(P)
          /\ NameEnds(P[k], e) /\ p[1] = st[k]
          /\ NameOf(s, p) = Before(P[k], e) /\ ValueOf(s, p) = From(P[k], e + 1)
    /\ \A k \in 1..Len(P) : \A e : NameEnds(P[k], e) => \E p \in Params(s) :
          /\ p[1] = st[k]
          /\ NameOf(s, p) = Before(P[k], e) /\ ValueOf(s, p) = From(P[k], e + 1)
    /\ \A p, o \in Params(s) : p[1] = o[1] => p = o

\* The parameters are the items with a name.
LEMMA ItemParamsAre ==
    ASSUME NEW s \in Seq(0..255), NEW P, NEW st, NEW en, ByteCut(P, s, 38, st, en)
    PROVE  ItemParams(s, P, st)
<1>1. ASSUME NEW k \in 1..Len(P), NEW j, ParamAt(s, st[k], j)
      PROVE  \E e : /\ NameEnds(P[k], e)
                    /\ \A y : ParamAt(s, st[k], y) => y = j
                    /\ NameOf(s, <<st[k], j>>) = Before(P[k], e)
                    /\ ValueOf(s, <<st[k], j>>) = From(P[k], e + 1)
  <2>1. PICK t, a, b : t = P[k] /\ a = st[k] /\ b = en[k]
    OBVIOUS
  <2>2. Item(s, t, a, b)
    BY <2>1, ItemIs
  <2>3. PICK e : e = Find(t, <<Equals>>)
    OBVIOUS
  <2>4. ParamAt(s, a, j)
    BY <1>1, <2>1
  <2>5. e \notin {0, 1}
    BY <2>2, <2>3, <2>4, NoParam
  <2>6. NameEnds(t, e)
    BY <2>3, <2>5 DEF NameEnds
  <2>7. PICK v : ParamOf(s, t, a, e, v)
    BY <2>2, <2>6, ParamHere
  <2>8. j = v
    BY <2>4, <2>7 DEF ParamOf
  <2>9. QED
    BY <2>1, <2>6, <2>7, <2>8 DEF ParamOf
<1>2. ASSUME NEW i, NEW j, ParamAt(s, i, j)
      PROVE  \E k \in 1..Len(P) : \E e :
                /\ NameEnds(P[k], e) /\ i = st[k]
                /\ \A y : ParamAt(s, i, y) => y = j
                /\ NameOf(s, <<i, j>>) = Before(P[k], e)
                /\ ValueOf(s, <<i, j>>) = From(P[k], e + 1)
  <2>1. PICK k \in 1..Len(P) : st[k] = i
    BY <1>2, ParamItem
  <2>2. PICK e : /\ NameEnds(P[k], e)
                 /\ \A y : ParamAt(s, st[k], y) => y = j
                 /\ NameOf(s, <<st[k], j>>) = Before(P[k], e)
                 /\ ValueOf(s, <<st[k], j>>) = From(P[k], e + 1)
    BY <1>1, <1>2, <2>1
  <2>3. QED
    BY <2>1, <2>2
<1>3. ASSUME NEW p \in Params(s)
      PROVE  \E k \in 1..Len(P) : \E e :
                /\ NameEnds(P[k], e) /\ p[1] = st[k]
                /\ NameOf(s, p) = Before(P[k], e) /\ ValueOf(s, p) = From(P[k], e + 1)
  <2>1. PICK i, j : i = p[1] /\ j = p[2]
    OBVIOUS
  <2>2. p = <<i, j>>
    BY <2>1, ParamIs
  <2>3. ParamAt(s, i, j)
    BY <2>2, ParamIs
  <2>4. QED
    BY <1>2, <2>1, <2>2, <2>3
<1>4. ASSUME NEW k \in 1..Len(P), NEW e, NameEnds(P[k], e)
      PROVE  \E p \in Params(s) :
                /\ p[1] = st[k]
                /\ NameOf(s, p) = Before(P[k], e) /\ ValueOf(s, p) = From(P[k], e + 1)
  <2>1. PICK t, a, b : t = P[k] /\ a = st[k] /\ b = en[k]
    OBVIOUS
  <2>2. Item(s, t, a, b)
    BY <2>1, ItemIs
  <2>3. NameEnds(t, e)
    BY <1>4, <2>1
  <2>4. PICK v : ParamOf(s, t, a, e, v)
    BY <2>2, <2>3, ParamHere
  <2>5. <<a, v>> \in Params(s)
    BY <2>4, ParamIs DEF ParamOf
  <2>6. <<a, v>>[1] = a
    OBVIOUS
  <2>7. QED
    BY <2>1, <2>4, <2>5, <2>6 DEF ParamOf
<1>5. ASSUME NEW p \in Params(s), NEW o \in Params(s), p[1] = o[1] PROVE p = o
  <2>1. PICK i, j, y : i = p[1] /\ j = p[2] /\ y = o[2]
    OBVIOUS
  <2>2. p = <<i, j>> /\ o = <<i, y>>
    BY <1>5, <2>1, ParamIs
  <2>3. ParamAt(s, i, j) /\ ParamAt(s, i, y)
    BY <2>2, ParamIs
  <2>4. y = j
    BY <1>2, <2>3
  <2>5. QED
    BY <2>2, <2>4
<1>6. QED
  BY <1>3, <1>4, <1>5 DEF ItemParams

\* An item with a name, as a parameter.
LEMMA NamedIsParam ==
    ASSUME NEW s, NEW P, NEW st, ItemParams(s, P, st), NEW k \in 1..Len(P), NEW e, NameEnds(P[k], e)
    PROVE  \E p \in Params(s) : ValueOf(s, p) = From(P[k], e + 1)
<1>1. \E p \in Params(s) :
         /\ p[1] = st[k]
         /\ NameOf(s, p) = Before(P[k], e) /\ ValueOf(s, p) = From(P[k], e + 1)
  BY DEF ItemParams
<1>2. QED
  BY <1>1

\* The parameters and the items that are wrong.
LEMMA WrongIs ==
    ASSUME NEW s \in Seq(0..255), NEW P, NEW st, ItemParams(s, P, st)
    PROVE  {p \in Params(s) : ~(WellEscaped(NameOf(s, p)) /\ WellEscaped(ValueOf(s, p)))} # {}
           <=> \E k \in 1..Len(P) : Wrong(P[k])
<1> DEFINE W == {p \in Params(s) : ~(WellEscaped(NameOf(s, p)) /\ WellEscaped(ValueOf(s, p)))}
<1>1. ASSUME NEW p \in W PROVE \E k \in 1..Len(P) : Wrong(P[k])
  <2>1. p \in Params(s) /\ ~(WellEscaped(NameOf(s, p)) /\ WellEscaped(ValueOf(s, p)))
    OBVIOUS
  <2>2. PICK k, e :
          /\ k \in 1..Len(P)
          /\ NameEnds(P[k], e)
          /\ NameOf(s, p) = Before(P[k], e) /\ ValueOf(s, p) = From(P[k], e + 1)
    BY <2>1 DEF ItemParams
  <2>3. Wrong(P[k])
    BY <2>1, <2>2 DEF Wrong
  <2>4. QED
    BY <2>2, <2>3
<1>2. ASSUME NEW k \in 1..Len(P), Wrong(P[k]) PROVE W # {}
  <2>1. PICK e : /\ NameEnds(P[k], e)
                 /\ ~(WellEscaped(Before(P[k], e)) /\ WellEscaped(From(P[k], e + 1)))
    BY <1>2 DEF Wrong
  <2>2. PICK p \in Params(s) : NameOf(s, p) = Before(P[k], e) /\ ValueOf(s, p) = From(P[k], e + 1)
    BY <2>1 DEF ItemParams
  <2>3. p \in W
    BY <2>1, <2>2
  <2>4. QED
    BY <2>3
<1>3. QED
  BY <1>1, <1>2

\* Of the parameters N of s that are named q, the first is the first item of P
\* that is.
FirstOf(s, P, N) ==
    /\ (\A k \in 1..Len(P) : ~Query(P[k])) => N = {}
    /\ \A k \in 1..Len(P) : Query(P[k]) /\ (\A i \in 1..k - 1 : ~Query(P[i])) =>
         /\ N # {}
         /\ ValueOf(s, CHOOSE p \in N : \A o \in N : p[1] <= o[1]) = Text(P[k])

\* The first parameter named q is the first such item.
LEMMA FirstIs ==
    ASSUME NEW s \in Seq(0..255), NEW P, NEW st, ItemParams(s, P, st), Len(P) \in Nat,
           \A k, l \in 1..Len(P) : k < l => st[k] < st[l],
           NEW N, N = {p \in Params(s) : Meaning(NameOf(s, p)) = QueryName}
    PROVE  FirstOf(s, P, N)
<1>1. ASSUME NEW p \in N
      PROVE  \E k \in 1..Len(P) : p[1] = st[k] /\ Query(P[k])
  <2>1. p \in Params(s) /\ Meaning(NameOf(s, p)) = QueryName
    OBVIOUS
  <2>2. PICK k, e :
          /\ k \in 1..Len(P)
          /\ NameEnds(P[k], e) /\ p[1] = st[k]
          /\ NameOf(s, p) = Before(P[k], e) /\ ValueOf(s, p) = From(P[k], e + 1)
    <3>1. \A x \in Params(s) : \E k, e :
             /\ k \in 1..Len(P)
             /\ NameEnds(P[k], e) /\ x[1] = st[k]
             /\ NameOf(s, x) = Before(P[k], e) /\ ValueOf(s, x) = From(P[k], e + 1)
      BY Zenon DEF ItemParams
    <3>2. QED
      BY <2>1, <3>1, Zenon
  <2>3. Query(P[k])
    BY <2>1, <2>2 DEF Query
  <2>4. QED
    BY <2>2, <2>3
<1>2. ASSUME NEW k \in 1..Len(P), Query(P[k]), \A i \in 1..k - 1 : ~Query(P[i])
      PROVE  /\ N # {}
             /\ ValueOf(s, CHOOSE p \in N : \A o \in N : p[1] <= o[1]) = Text(P[k])
  <2>1. PICK e : NameEnds(P[k], e) /\ Meaning(Before(P[k], e)) = QueryName
    BY <1>2 DEF Query
  <2>2. PICK p \in Params(s) : /\ p[1] = st[k]
                               /\ NameOf(s, p) = Before(P[k], e) /\ ValueOf(s, p) = From(P[k], e + 1)
    BY <2>1 DEF ItemParams
  <2>3. p \in N
    BY <2>1, <2>2
  <2>4. ASSUME NEW o \in N PROVE o[1] = p[1] \/ p[1] < o[1]
    <3>1. PICK l \in 1..Len(P) : o[1] = st[l] /\ Query(P[l])
      BY <1>1
    <3>2. ~(l \in 1..k - 1)
      BY <1>2, <3>1
    <3>3. l = k \/ k < l
      BY <3>2
    <3>4. QED
      BY <2>2, <3>1, <3>3
  <2>5. \A o \in N : o[1] = p[1] => o = p
    BY <2>2, <2>3 DEF ItemParams
  <2>6. \A o \in N : o[1] \in Int
    <3>1. ASSUME NEW o \in Params(s) PROVE o[1] \in Int
      <4>1. DOMAIN s = 1..Len(s)
        BY LenProperties
      <4>2. o \in (DOMAIN s) \X (DOMAIN s)
        BY DEF Params
      <4>3. QED
        BY <4>1, <4>2
    <3>2. QED
      BY <3>1
  <2>7. \A o \in N : p[1] <= o[1]
    BY <2>3, <2>4, <2>6
  <2>8. PICK c : c = CHOOSE x \in N : \A o \in N : x[1] <= o[1]
    OBVIOUS
  <2>9. c \in N /\ \A o \in N : c[1] <= o[1]
    BY <2>3, <2>7, <2>8
  <2>10. c = p
    <3>1. c[1] <= p[1] /\ p[1] <= c[1] /\ c[1] \in Int /\ p[1] \in Int
      BY <2>3, <2>6, <2>7, <2>9
    <3>2. c[1] = p[1]
      BY <3>1
    <3>3. QED
      BY <2>5, <2>9, <3>2
  <2>11. Text(P[k]) = From(P[k], e + 1)
    BY <2>1 DEF Text, NameEnds
  <2>12. QED
    BY <2>2, <2>3, <2>8, <2>10, <2>11
<1>3. QED
  BY <1>1, <1>2 DEF FirstOf

--------------------------------------------------------------------------------
(* What a search is answered.                                                *)

\* What cannot be parsed is refused.
LEMMA RefusedIs ==
    ASSUME NEW raw, ParseRequest(raw) = {}, NEW r \in RequestHandler(raw), r.status # 500
    PROVE  r.status = 400
<1>1. HandleRequest(raw) = {Response(400, FALSE, <<>>, FALSE)}
  BY DEF HandleRequest
<1>2. RequestHandler(raw) = {InternalServerError} \cup HandleRequest(raw)
  BY DEF RequestHandler
<1>3. InternalServerError.status = 500 /\ Response(400, FALSE, <<>>, FALSE).status = 400
  BY DEF InternalServerError, Response
<1>4. r = InternalServerError \/ r = Response(400, FALSE, <<>>, FALSE)
  BY <1>1, <1>2
<1>5. r # InternalServerError
  BY <1>3
<1>6. QED
  BY <1>3, <1>4, <1>5, ZenonT(60)

\* What a search with the parameters m is answered.
AnsweredAs(r, m) ==
    /\ QueryName \notin DOMAIN m => r.status = 400
    /\ QueryName \in DOMAIN m /\ m[QueryName] = <<>> => r.status = 400
    /\ QueryName \in DOMAIN m /\ m[QueryName] # <<>> =>
            r.status = 200 /\ r.body = ToJson(m[QueryName])

\* The answer to a search with given parameters.
LEMMA SearchResponseIs ==
    ASSUME NEW x, NEW c, NEW r \in SearchResponse(x, c)
    PROVE  AnsweredAs(r, x.query_params)
<1>1. PICK m : m = x.query_params
  OBVIOUS
<1>2. PICK q : q = FindQueryParam(x, QueryName)
  OBVIOUS
<1>3. q = {m[k] : k \in DOMAIN m \cap {QueryName}}
  BY <1>1, <1>2 DEF FindQueryParam
<1>4. SearchResponse(x, c) = IF q \subseteq {<<>>} THEN {Response(400, c, <<>>, c)}
                             ELSE {Response(200, c, ToJson(v), c) : v \in q}
  BY <1>2 DEF SearchResponse
<1>5. /\ Response(400, c, <<>>, c).status = 400
      /\ \A b : Response(200, c, b, c).status = 200 /\ Response(200, c, b, c).body = b
  BY DEF Response
<1>6. CASE QueryName \notin DOMAIN m
  <2>1. q \subseteq {<<>>}
    BY <1>3, <1>6
  <2>2. r.status = 400
    BY <1>4, <1>5, <2>1
  <2>3. QED
    BY <1>1, <1>6, <2>2 DEF AnsweredAs
<1>7. CASE QueryName \in DOMAIN m
  <2>1. PICK v : v = m[QueryName]
    OBVIOUS
  <2>2. q = {v}
    BY <1>3, <1>7, <2>1
  <2>3. CASE v = <<>>
    <3>1. r.status = 400
      BY <1>4, <1>5, <2>2, <2>3
    <3>2. QED
      BY <1>1, <1>7, <2>1, <2>3, <3>1 DEF AnsweredAs
  <2>4. CASE v # <<>>
    <3>1. ~(q \subseteq {<<>>})
      BY <2>2, <2>4
    <3>2. PICK w \in q : r = Response(200, c, ToJson(w), c)
      BY <1>4, <3>1
    <3>3. w = v
      BY <2>2
    <3>4. r.status = 200 /\ r.body = ToJson(v)
      BY <1>5, <3>2, <3>3
    <3>5. QED
      BY <1>1, <1>7, <2>1, <2>4, <3>4 DEF AnsweredAs
  <2>5. QED
    BY <2>3, <2>4
<1>8. QED
  BY <1>6, <1>7

\* The answer to a request parsed to a search.
LEMMA SearchAnswered ==
    ASSUME NEW raw, NEW m, NEW H, H # {},
           ParseRequest(raw) = {[method |-> Get, path |-> SearchPath, query_params |-> q, headers |-> h] :
                                    q \in {m}, h \in H},
           NEW r \in RequestHandler(raw), r.status # 500
    PROVE  AnsweredAs(r, m)
<1> DEFINE R == ParseRequest(raw)
<1>1. /\ \A x \in R : x.method = Get /\ x.path = SearchPath /\ x.query_params = m
      /\ R # {}
  <2>1. ASSUME NEW x \in R PROVE x.method = Get /\ x.path = SearchPath /\ x.query_params = m
    <3>1. PICK q \in {m}, h \in H :
             x = [method |-> Get, path |-> SearchPath, query_params |-> q, headers |-> h]
      OBVIOUS
    <3>2. QED
      BY <3>1
  <2>2. PICK h \in H : TRUE
    OBVIOUS
  <2>3. [method |-> Get, path |-> SearchPath, query_params |-> m, headers |-> h] \in R
    BY <2>2
  <2>4. QED
    BY <2>1, <2>3
<1> HIDE DEF R
<1>2. SearchPath # MetricsPath
  <2>1. PICK a, b : a = SearchPath /\ b = MetricsPath
    OBVIOUS
  <2>2. a[2] = 115 /\ b[2] = 109
    BY <2>1 DEF SearchPath, MetricsPath
  <2>3. QED
    BY <2>1, <2>2
<1>3. {x \in R : x.method = Get /\ x.path = MetricsPath} = {}
  BY <1>1, <1>2
<1>4. RequestHandler(raw) = {InternalServerError} \cup HandleRequest(raw)
  BY <1>3 DEF RequestHandler, R
<1>5. r # InternalServerError
  <2>1. InternalServerError.status = 500
    BY DEF InternalServerError, Response
  <2>2. QED
    BY <2>1
<1>6. r \in HandleRequest(raw)
  BY <1>4, <1>5
<1>7. {x \in R : x.method = Get} = R
  BY <1>1
<1>8. HandleRequest(raw) = UNION {UNION {Route(x, c) : c \in ShouldCloseConnection(x)} : x \in R}
  BY <1>1, <1>7 DEF HandleRequest, R
<1>9. PICK x \in R : r \in UNION {Route(x, c) : c \in ShouldCloseConnection(x)}
  BY <1>6, <1>8
<1>10. PICK c \in ShouldCloseConnection(x) : r \in Route(x, c)
  BY <1>9
<1>11. Route(x, c) = SearchResponse(x, c)
  BY <1>1 DEF Route
<1>12. AnsweredAs(r, x.query_params)
  BY <1>10, <1>11, SearchResponseIs
<1>13. QED
  BY <1>1, <1>12

\* The property for one request and one answer.
NamesTheQuery(raw, query, r) ==
    LET params == Params(query)
        wrong == {p \in params : ~(WellEscaped(NameOf(query, p)) /\ WellEscaped(ValueOf(query, p)))}
        named == {p \in params : Meaning(NameOf(query, p)) = QueryName}
        first == CHOOSE p \in named : \A o \in named : p[1] <= o[1]
        refused == wrong # {} \/ named = {} \/ ValueOf(query, first) = <<>>
    IN  /\ refused <=> r.status = 400
        /\ refused \/ ReadJson(r.body) = {Meaning(ValueOf(query, first))}

\* The property holds of each request and any answer to it.
LEMMA AnswerNames ==
    ASSUME NEW raw \in Seq(0..255), NEW k \in 1..Len(raw), Len(raw) = k + 1, Crlf(raw, k),
           NEW query \in QueryString(raw), NEW r \in RequestHandler(raw), r.status # 500
    PROVE  NamesTheQuery(raw, query, r)
<1> DEFINE params == Params(query)
           wrong == {p \in params : ~(WellEscaped(NameOf(query, p)) /\ WellEscaped(ValueOf(query, p)))}
           named == {p \in params : Meaning(NameOf(query, p)) = QueryName}
           first == CHOOSE p \in named : \A o \in named : p[1] <= o[1]
           value == ValueOf(query, first)
           P == Split(query, <<Ampersand>>)
<1>1. query \in Seq(0..255) /\ ParsedTo(ParseRequest(raw), query)
  BY SearchIsParsed
<1>2. PICK st, en : ByteCut(P, query, 38, st, en)
  <2>1. PICK c \in 0..255 : c = Ampersand /\ c = 38
    BY DEF Ampersand
  <2>2. \E st, en : ByteCut(Split(query, <<c>>), query, c, st, en)
    BY <1>1, SplitBytes
  <2>3. QED
    BY <2>1, <2>2
<1>3. P \in Seq(Seq(0..255)) /\ Len(P) \in Nat /\ \A i \in 1..Len(P) : P[i] \in Seq(0..255)
  <2>1. P \in Seq(Seq(0..255)) /\ Len(P) \in Nat
    BY <1>2 DEF ByteCut
  <2> HIDE DEF P
  <2>2. QED
    BY <2>1, ElementOfSeq
<1>4. Holds(ParseQueryString(query), P, Len(P))
  BY <1>1, <1>3, QueryIsParsed
<1> HIDE DEF P
<1>5. ItemParams(query, P, st)
  BY <1>1, <1>2, ItemParamsAre
<1>6. \A i, j \in 1..Len(P) : i < j => st[i] < st[j]
  BY <1>2, CutGrows
<1>7. wrong # {} <=> \E i \in 1..Len(P) : Wrong(P[i])
  BY <1>1, <1>5, WrongIs
<1>8. /\ (\A i \in 1..Len(P) : ~Query(P[i])) => named = {}
      /\ \A i \in 1..Len(P) : Query(P[i]) /\ (\A j \in 1..i - 1 : ~Query(P[j])) =>
            named # {} /\ value = Text(P[i])
  <2>1. PICK N : N = named
    OBVIOUS
  <2>2. FirstOf(query, P, N)
    BY <1>1, <1>3, <1>5, <1>6, <2>1, FirstIs
  <2>3. ValueOf(query, CHOOSE p \in N : \A o \in N : p[1] <= o[1]) = value
    BY <2>1
  <2> HIDE DEF value, named
  <2>4. QED
    BY <2>1, <2>2, <2>3 DEF FirstOf
<1> HIDE DEF wrong, named, value
<1> DEFINE refused == wrong # {} \/ named = {} \/ value = <<>>
<1> SUFFICES /\ refused <=> r.status = 400
             /\ refused \/ ReadJson(r.body) = {Meaning(value)}
  BY DEF NamesTheQuery, wrong, named, value
<1>9. CASE query = <<>> /\ ParseRequest(raw) = {}
  <2>1. r.status = 400
    BY <1>9, RefusedIs
  <2>2. named = {}
    <3>1. Params(query) = {}
      <4>1. DOMAIN query = {}
        BY <1>9
      <4>2. Params(query) \subseteq (DOMAIN query) \X (DOMAIN query)
        BY DEF Params
      <4>3. QED
        BY <4>1, <4>2
    <3>2. QED
      BY <3>1 DEF named
  <2>3. QED
    BY <2>1, <2>2
<1>10. ASSUME NEW H, Searches(ParseRequest(raw), query, H)
       PROVE  /\ refused <=> r.status = 400
              /\ refused \/ ReadJson(r.body) = {Meaning(value)}
  <2>1. CASE ParseQueryString(query) = {} /\ \E j \in 1..Len(P) : Wrong(P[j])
    <3>1. ParseRequest(raw) = {}
      BY <1>10, <2>1 DEF Searches
    <3>2. r.status = 400
      BY <3>1, RefusedIs
    <3>3. wrong # {}
      BY <1>7, <2>1
    <3>4. QED
      BY <3>2, <3>3
  <2>2. ASSUME \A j \in 1..Len(P) : ~Wrong(P[j]), NEW m, ParseQueryString(query) = {m},
               \/ QueryName \notin DOMAIN m /\ \A j \in 1..Len(P) : ~Query(P[j])
               \/ /\ QueryName \in DOMAIN m
                  /\ \E j \in 1..Len(P) : /\ Query(P[j]) /\ m[QueryName] = Meaning(Text(P[j]))
                                          /\ \A i \in 1..j - 1 : ~Query(P[i])
        PROVE  /\ refused <=> r.status = 400
               /\ refused \/ ReadJson(r.body) = {Meaning(value)}
    <3>1. AnsweredAs(r, m)
      <4>1. /\ H # {}
            /\ ParseRequest(raw) =
                 {[method |-> Get, path |-> SearchPath, query_params |-> q, headers |-> h] :
                    q \in {m}, h \in H}
        BY <1>10, <2>2 DEF Searches
      <4>2. QED
        BY <4>1, SearchAnswered
    <3>2. wrong = {}
      BY <1>7, <2>2
    <3>3. CASE QueryName \notin DOMAIN m /\ \A j \in 1..Len(P) : ~Query(P[j])
      <4>1. named = {}
        BY <1>8, <3>3
      <4>2. r.status = 400
        BY <3>1, <3>3 DEF AnsweredAs
      <4>3. QED
        BY <4>1, <4>2
    <3>4. ASSUME QueryName \in DOMAIN m,
                 NEW j \in 1..Len(P), Query(P[j]), m[QueryName] = Meaning(Text(P[j])),
                 \A i \in 1..j - 1 : ~Query(P[i])
          PROVE  /\ refused <=> r.status = 400
                 /\ refused \/ ReadJson(r.body) = {Meaning(value)}
      <4>1. named # {} /\ value = Text(P[j])
        BY <1>8, <3>4
      <4>2. /\ WellEscaped(value) /\ value \in Seq(0..255)
        <5>1. PICK e : NameEnds(P[j], e)
          BY <3>4 DEF Query
        <5>2. WellEscaped(From(P[j], e + 1)) /\ Text(P[j]) = From(P[j], e + 1)
          BY <2>2, <5>1 DEF Wrong, Text, NameEnds
        <5>3. PICK p \in Params(query) : ValueOf(query, p) = From(P[j], e + 1)
          BY <1>5, <3>4, <5>1, NamedIsParam
        <5>4. From(P[j], e + 1) \in Seq(0..255)
          <6>1. PICK t, a, b : t = P[j] /\ a = st[j] /\ b = en[j]
            OBVIOUS
          <6>2. Item(query, t, a, b)
            BY <1>1, <1>2, <6>1, ItemIs
          <6>3. NameEnds(t, e)
            BY <5>1, <6>1
          <6>4. PICK v : ParamOf(query, t, a, e, v)
            BY <1>1, <6>2, <6>3, ParamHere
          <6>5. QED
            BY <6>1, <6>4 DEF ParamOf
        <5>5. QED
          BY <4>1, <5>2, <5>4
      <4>3. Meaning(value) \in Seq(0..255) /\ (Meaning(value) = <<>> <=> value = <<>>)
        BY <4>2, EscapesAreDecoded
      <4>4. CASE value = <<>>
        <5>1. r.status = 400
          BY <3>1, <3>4, <4>1, <4>3, <4>4 DEF AnsweredAs
        <5>2. QED
          BY <4>4, <5>1
      <4>5. CASE value # <<>>
        <5>1. r.status = 200 /\ r.body = ToJson(Meaning(value))
          BY <3>1, <3>4, <4>1, <4>3, <4>5 DEF AnsweredAs
        <5>2. ReadJson(r.body) = {Meaning(value)}
          BY <4>3, <5>1, JsonIsReadBack
        <5>3. QED
          BY <3>2, <4>1, <4>5, <5>1, <5>2
      <4>6. QED
        BY <4>4, <4>5
    <3>5. QED
      BY <2>2, <3>3, <3>4, SMTT(30)
  <2>3. QED
    BY <1>4, <2>1, <2>2 DEF Holds
<1> HIDE DEF refused
<1>11. QED
  BY <1>1, <1>9, <1>10 DEF ParsedTo

--------------------------------------------------------------------------------
(* The answers in the order of the requests.                                 *)

\* A request ends with the end of a line.
LineEnded(r) == \E k \in 1..Len(r) : Len(r) = k + 1 /\ Crlf(r, k)

\* Each answer is one that the handler may give to the request of the same place.
AnswerInv ==
    /\ \A i \in DOMAIN requests : LineEnded(requests[i])
    /\ \A i \in DOMAIN answers : answers[i] \in RequestHandler(requests[i])

\* The cut is after the end of a line.
LEMMA CutEnds ==
    ASSUME NEW s \in Seq(0..255), HasCompleteRequest(s)
    PROVE  LineEnded(SubSeq(s, 1, Find(s, BlankLine) + 3))
<1> DEFINE k == Find(s, BlankLine)
           r == SubSeq(s, 1, k + 3)
<1>1. Len(s) \in Nat /\ k \in 1..Len(s) /\ Blank(s, k)
  BY FindIs, LenProperties DEF HasCompleteRequest
<1> HIDE DEF k
<1>2. k + 3 \in 1..Len(s) /\ s[k + 2] = 13 /\ s[k + 3] = 10
  BY <1>1 DEF Blank
<1>3. \A i \in 1..Len(s) : s[i] \in 0..255
  BY ElementOfSeq
<1>4. Len(r) = k + 3 /\ \A i \in 1..k + 3 : r[i] = s[i]
  BY <1>1, <1>2, <1>3, SubSeqProperties
<1> HIDE DEF r
<1>5. PICK m : m = k + 2
  OBVIOUS
<1>6. m \in 1..Len(r) /\ Len(r) = m + 1 /\ r[m] = 13 /\ r[m + 1] = 10
  <2>1. m \in 1..k + 3 /\ m + 1 \in 1..k + 3 /\ m + 1 = k + 3
    BY <1>1, <1>5
  <2>2. r[m] = s[m] /\ r[m + 1] = s[m + 1]
    BY <1>4, <2>1
  <2>3. QED
    BY <1>2, <1>4, <1>5, <2>1, <2>2
<1>7. Crlf(r, m)
  BY <1>1, <1>5, <1>4, <1>6 DEF Crlf
<1>8. QED
  BY <1>6, <1>7 DEF LineEnded, r, k

\* A request that is taken ends a line, and those before it stay.
LEMMA ProcessKeeps ==
    ASSUME FrameInv, AnswerInv, NEW input \in Seq(0..255), HasCompleteRequest(input),
           ProcessRequest(input)
    PROVE  /\ \A i \in DOMAIN requests' : LineEnded(requests'[i])
           /\ \A i \in DOMAIN requests : requests'[i] = requests[i]
<1> DEFINE r == SubSeq(input, 1, Find(input, BlankLine) + 3)
<1>1. r \in Seq(0..255) /\ LineEnded(r)
  BY CutIs, CutEnds
<1>2. requests' = Append(requests, r)
  BY DEF ProcessRequest
<1> HIDE DEF r
<1>3. /\ DOMAIN requests' = 1..Len(requests) + 1 /\ DOMAIN requests = 1..Len(requests)
      /\ Len(requests) \in Nat
      /\ \A i \in 1..Len(requests) : requests'[i] = requests[i]
      /\ requests'[Len(requests) + 1] = r
  <2>1. requests \in Seq(Seq(0..255))
    BY DEF FrameInv, TypeOK
  <2>2. QED
    BY <1>1, <1>2, <2>1, AppendIs
<1>4. \A i \in 1..Len(requests) + 1 : LineEnded(requests'[i])
  <2>1. \A i \in 1..Len(requests) : LineEnded(requests[i])
    BY <1>3 DEF AnswerInv
  <2>2. \A i \in 1..Len(requests) + 1 : i \in 1..Len(requests) \/ i = Len(requests) + 1
    BY <1>3
  <2>3. QED
    BY <1>1, <1>3, <2>1, <2>2, Zenon
<1>5. QED
  BY <1>3, <1>4

\* What FrameInv says of the two histories.
LEMMA HistoriesAre ==
    ASSUME FrameInv
    PROVE  /\ requests \in Seq(Seq(0..255)) /\ Len(requests) \in Nat
           /\ DOMAIN requests = 1..Len(requests)
           /\ Len(answers) \in Nat /\ DOMAIN answers = 1..Len(answers)
           /\ Len(requests) \in {Len(answers), Len(answers) + 1}
           /\ \A i \in DOMAIN answers : i \in DOMAIN requests
<1>1. requests \in Seq(Seq(0..255))
  BY DEF FrameInv, TypeOK
<1>2. PICK S : answers \in Seq(S)
  BY DEF FrameInv, IInv
<1>3. /\ Len(requests) \in Nat /\ DOMAIN requests = 1..Len(requests)
      /\ Len(answers) \in Nat /\ DOMAIN answers = 1..Len(answers)
  BY <1>1, <1>2, LenProperties
<1>4. Len(requests) \in {Len(answers), Len(answers) + 1}
  BY DEF FrameInv, IInv
<1>5. \A i \in DOMAIN answers : i \in DOMAIN requests
  <2>1. PICK a, b : a = Len(answers) /\ b = Len(requests)
    BY Zenon
  <2>2. a \in Nat /\ b \in Nat /\ b \in {a, a + 1}
    BY <1>3, <1>4, <2>1, Zenon
  <2>3. \A i \in 1..a : i \in 1..b
    BY <2>2
  <2>4. QED
    BY <1>3, <2>1, <2>3
<1>6. QED
  BY <1>1, <1>3, <1>4, <1>5, Zenon

\* A read keeps the answers.
LEMMA HandledRead ==
    ASSUME FrameInv, AnswerInv, NEW n \in 0..Len(stream) - received, NEW fin \in BOOLEAN,
           HandleRead(n, fin)
    PROVE  AnswerInv'
<1> DEFINE input == input_buffer_ \o SubSeq(stream, received + 1, received + n)
<1>1. answers' = answers /\ input \in Seq(0..255)
  BY InputIs DEF HandleRead, Read
<1>2. CASE ~processing_request_ /\ HasCompleteRequest(input)
  <2>1. ProcessRequest(input)
    BY <1>2 DEF HandleRead
  <2> HIDE DEF input
  <2>2. /\ \A i \in DOMAIN requests' : LineEnded(requests'[i])
        /\ \A i \in DOMAIN requests : requests'[i] = requests[i]
    BY <1>1, <1>2, <2>1, ProcessKeeps
  <2>3. \A i \in DOMAIN answers : answers[i] \in RequestHandler(requests'[i])
    BY <2>2, HistoriesAre, Zenon DEF AnswerInv
  <2>4. QED
    BY <1>1, <2>2, <2>3 DEF AnswerInv
<1>3. CASE ~(~processing_request_ /\ HasCompleteRequest(input))
  <2>1. requests' = requests
    BY <1>3 DEF HandleRead
  <2>2. QED
    BY <1>1, <2>1 DEF AnswerInv
<1>4. QED
  BY <1>2, <1>3

\* The answer is to the request of its place.
LEMMA HandledAnswer == ASSUME FrameInv, AnswerInv, Answer PROVE AnswerInv'
<1>1. PICK response \in RequestHandler(Last(requests)) :
          /\ answers' = Append(answers, response)
          /\ \/ HasCompleteRequest(input_buffer_) /\ ProcessRequest(input_buffer_)
             \/ UNCHANGED requests
  BY DEF Answer
<1>2. /\ DOMAIN answers' = 1..Len(answers) + 1
      /\ \A i \in 1..Len(answers) : answers'[i] = answers[i]
      /\ answers'[Len(answers) + 1] = response
  <2>1. \E S : answers \in Seq(S)
    BY DEF FrameInv, IInv
  <2>2. QED
    BY <1>1, <2>1, AppendIs
<1>3. Len(requests) = Len(answers) + 1
  <2>1. processing_request_
    BY DEF Answer
  <2>2. Len(answers) \in Nat /\ Len(requests) \in {Len(answers), Len(answers) + 1}
    BY HistoriesAre, Zenon
  <2>3. QED
    BY <2>1, <2>2 DEF processing_request_
<1>4. /\ \A i \in DOMAIN requests' : LineEnded(requests'[i])
      /\ \A i \in DOMAIN requests : requests'[i] = requests[i]
  <2>1. CASE HasCompleteRequest(input_buffer_) /\ ProcessRequest(input_buffer_)
    <3>1. input_buffer_ \in Seq(0..255)
      BY DEF FrameInv, TypeOK
    <3>2. QED
      BY <2>1, <3>1, ProcessKeeps
  <2>2. CASE UNCHANGED requests
    BY <2>2 DEF AnswerInv
  <2>3. QED
    BY <1>1, <2>1, <2>2
<1>5. response \in RequestHandler(requests[Len(answers) + 1])
  <2>1. Last(requests) = requests[Len(answers) + 1]
    BY <1>3 DEF Last
  <2>2. QED
    BY <1>1, <2>1
<1>6. \A i \in 1..Len(answers) + 1 : requests'[i] = requests[i]
  BY <1>3, <1>4, HistoriesAre
<1>7. \A i \in 1..Len(answers) : answers[i] \in RequestHandler(requests[i])
  BY HistoriesAre, Zenon DEF AnswerInv
<1>8. ASSUME NEW i \in 1..Len(answers) + 1 PROVE answers'[i] \in RequestHandler(requests'[i])
  <2>1. requests'[i] = requests[i]
    BY <1>6
  <2>2. CASE i \in 1..Len(answers)
    BY <1>2, <1>7, <2>1, <2>2
  <2>3. CASE i = Len(answers) + 1
    BY <1>2, <1>5, <2>1, <2>3
  <2>4. i \in 1..Len(answers) \/ i = Len(answers) + 1
    <3>1. Len(answers) \in Nat
      BY HistoriesAre, Zenon
    <3>2. QED
      BY <3>1
  <2>5. QED
    BY <2>2, <2>3, <2>4
<1>9. QED
  BY <1>2, <1>4, <1>8 DEF AnswerInv

LEMMA HandledStep == ASSUME FrameInv, AnswerInv, [Next]_vars PROVE AnswerInv'
<1>1. CASE \E n \in 0..Len(stream) - received, fin \in BOOLEAN : HandleRead(n, fin)
  BY <1>1, HandledRead
<1>2. CASE Answer
  BY <1>2, HandledAnswer
<1>3. CASE UNCHANGED vars
  BY <1>3 DEF vars, AnswerInv
<1>4. QED
  BY <1>1, <1>2, <1>3 DEF Next

LEMMA Handled == Spec => []AnswerInv
<1>1. Init => AnswerInv
  <2>1. DOMAIN <<>> = {}
    OBVIOUS
  <2>2. QED
    BY <2>1 DEF Init, AnswerInv
<1>2. FrameInv /\ AnswerInv /\ [Next]_vars => AnswerInv'
  BY HandledStep
<1>3. QED
  BY <1>1, <1>2, Framing, PTL DEF Spec

\* Whatever a client sends, a search is answered with the query it asks for or is
\* refused, as its query string, read without the parser, says (HttpRequest.cpp,
\* urlDecode, parseQueryString, parseRequest; SearchApplication.cpp, handleRequest,
\* escapeJson).
THEOREM QueriesAreNamed == Spec => []AnswersNameTheQuery
<1>1. FrameInv /\ AnswerInv => AnswersNameTheQuery
  <2> SUFFICES ASSUME FrameInv, AnswerInv, NEW i \in DOMAIN answers, answers[i].status # 500,
                      NEW query \in QueryString(requests[i])
               PROVE  NamesTheQuery(requests[i], query, answers[i])
    BY Zenon DEF AnswersNameTheQuery, NamesTheQuery
  <2>1. PICK raw, r : raw = requests[i] /\ r = answers[i]
    OBVIOUS
  <2>2. i \in DOMAIN requests
    BY HistoriesAre, ZenonT(60)
  <2>3. raw \in Seq(0..255)
    <3>1. requests \in Seq(Seq(0..255)) /\ i \in 1..Len(requests)
      BY <2>2, HistoriesAre, Zenon
    <3>2. QED
      BY <2>1, <3>1, ElementOfSeq
  <2>4. PICK k \in 1..Len(raw) : Len(raw) = k + 1 /\ Crlf(raw, k)
    BY <2>1, <2>2 DEF AnswerInv, LineEnded
  <2>5. r \in RequestHandler(raw) /\ r.status # 500 /\ query \in QueryString(raw)
    BY <2>1 DEF AnswerInv
  <2>6. NamesTheQuery(raw, query, r)
    BY <2>3, <2>4, <2>5, AnswerNames
  <2>7. QED
    BY <2>1, <2>6
<1>2. QED
  BY <1>1, Framing, Handled, PTL
================================================================================
