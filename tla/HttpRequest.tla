------------------------------ MODULE HttpRequest ------------------------------
(* http::parseRequest and what is asked of its result, as operators on       *)
(* sequences of bytes.  One letter stands for each name that is compared:    *)
(* G for GET, c or C for Connection, x or X for close, q for the query       *)
(* parameter, /s and /m for the paths /search and /metrics.  An optional     *)
(* value is a set of at most one element.                                    *)
EXTENDS Naturals, Sequences, SequencesExt, FiniteSetsExt

Tab == 9        LF == 10        CR == 13        Space == 32     Quote == 34
Percent == 37   Ampersand == 38 Plus == 43      Slash == 47     Colon == 58
Equals == 61    Question == 63  Backslash == 92

Get == <<71>>
SearchPath == <<Slash, 115>>
MetricsPath == <<Slash, 109>>
ConnectionName == <<67>>
CloseValue == <<120>>
QueryName == <<113>>

NewLine == <<CR, LF>>
BlankLine == NewLine \o NewLine

\* find: where the first occurrence of the pattern begins, 0 for npos.
Find(s, pattern) ==
    LET places == {i \in DOMAIN s : IsPrefix(pattern, SubSeq(s, i, Len(s)))}
    IN  IF places = {} THEN 0 ELSE Min(places)

\* What is before place i, and what is from it on.
Before(s, i) == SubSeq(s, 1, i - 1)
From(s, i) == SubSeq(s, i, Len(s))

\* The pieces between the separators, as the loops that look for the next
\* separator from a cursor see them.
Split(s, separator) ==
    LET pieces[i \in 1..Len(s) + 1] ==
            LET rest == From(s, i)
                at == Find(rest, separator)
            IN  IF at = 0 THEN <<rest>>
                ELSE <<Before(rest, at)>> \o pieces[i + at - 1 + Len(separator)]
    IN  pieces[1]

HexValue(c) ==
    CASE c \in 48..57  -> {c - 48}
      [] c \in 97..102 -> {c - 87}
      [] c \in 65..70  -> {c - 55}
      [] OTHER         -> {}

\* Two digits.
Byte(high, low) == {16 * h + l : h \in high, l \in low}

\* One more character before what follows it.
Prepend(character, rest) == {<<c>> \o r : c \in character, r \in rest}

UrlDecode(encoded) ==
    LET from[i \in 1..Len(encoded) + 1] ==
            IF i > Len(encoded) THEN {<<>>}
            ELSE IF encoded[i] = Plus THEN Prepend({Space}, from[i + 1])
            ELSE IF encoded[i] # Percent THEN Prepend({encoded[i]}, from[i + 1])
            ELSE IF i + 2 > Len(encoded) THEN {}
            ELSE Prepend(Byte(HexValue(encoded[i + 1]), HexValue(encoded[i + 2])), from[i + 3])
    IN  from[1]

\* Fault: a later value replaces an earlier one.
Faulty_Emplace(map, key, value) ==
    [k \in DOMAIN map \cup {key} |-> IF k = key THEN value ELSE map[k]]

\* emplace keeps the first value of a key.
Emplace(map, key, value) ==
    [k \in DOMAIN map \cup {key} |-> IF k \in DOMAIN map THEN map[k] ELSE value]

\* One item of the query string.
AddItem(params, item) ==
    LET equal_pos == Find(item, <<Equals>>)
    IN  IF equal_pos \in {0, 1} THEN params
        ELSE {Emplace(p, key, value) : p \in params, key \in UrlDecode(Before(item, equal_pos)),
                                       value \in UrlDecode(From(item, equal_pos + 1))}

ParseQueryString(query) == FoldLeft(AddItem, {<<>>}, Split(query, <<Ampersand>>))

SkipBlanks(s) ==
    From(s, Min({i \in 1..Len(s) + 1 : i > Len(s) \/ s[i] \notin {Space, Tab}}))

\* One header line; none without a name.
AddHeader(headers, header_line) ==
    LET colon == Find(header_line, <<Colon>>)
    IN  IF colon \in {0, 1} THEN {}
        ELSE {Emplace(h, Before(header_line, colon), SkipBlanks(From(header_line, colon + 1))) :
                h \in headers}

\* The header lines end at the first empty one or at the end of the request, and
\* each has its CRLF.
ParseHeaders(lines) ==
    LET n == SelectInSeq(lines, LAMBDA l : l = <<>>)
    IN  IF n = 0 THEN {} ELSE FoldLeft(AddHeader, {<<>>}, Before(lines, n))

ParseRequest(raw_request) ==
    LET lines == Split(raw_request, NewLine)
        words == Split(lines[1], <<Space>>)
        target == words[2]
        query_start == Find(target, <<Question>>)
    IN  IF Len(lines) = 1 \/ Len(words) < 3 THEN {}
        ELSE {[method |-> words[1],
               path |-> IF query_start = 0 THEN target ELSE Before(target, query_start),
               query_params |-> params, headers |-> headers] :
                params \in IF query_start = 0 THEN {<<>>}
                           ELSE ParseQueryString(From(target, query_start + 1)),
                headers \in ParseHeaders(Tail(lines))}

\* tolower of the C locale.
Lower(s) == [i \in DOMAIN s |-> IF s[i] \in 65..90 THEN s[i] + 32 ELSE s[i]]

EqualsIgnoreCase(left, right) == Lower(left) = Lower(right)

FindQueryParam(request, key) ==
    {request.query_params[k] : k \in DOMAIN request.query_params \cap {key}}

\* findHeader takes the first match in the order of a hash table: with names that
\* differ in case alone, any of them.
FindHeader(request, name) ==
    {request.headers[k] : k \in {k \in DOMAIN request.headers : EqualsIgnoreCase(k, name)}}

\* What shouldCloseConnection may answer.
ShouldCloseConnection(request) ==
    LET values == FindHeader(request, ConnectionName)
    IN  IF values = {} THEN {FALSE} ELSE {EqualsIgnoreCase(v, CloseValue) : v \in values}
================================================================================
