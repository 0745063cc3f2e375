---------------------------- MODULE MCHttpExchange -----------------------------
(* HttpExchange for TLC: searches with up to four tokens of query string,    *)
(* requests with up to three tokens of header after one search, and two      *)
(* requests on one connection with the beginning of a third.                 *)
EXTENDS HttpExchange

Version == <<Space, 72>> \o NewLine

QueryToken == {
    <<113, Equals>>,            \* q=
    <<Percent, 55, 49, Equals>>, \* %71=, which is q= too
    <<Ampersand>>,
    <<98>>,                     \* b
    <<Plus>>,
    <<Percent, 50>>,            \* %2
    <<50>>,                     \* 2: a quote after %2
    <<Percent, 53, 67>>,        \* %5C, a backslash
    <<Percent, 48, 97>>}        \* %0a, a line feed

HeaderToken == {<<99, Colon>>, <<67, Colon>>, <<Space>>, <<120>>, <<Tab>>, NewLine,
                <<99, Colon, 88>> \o NewLine}  \* c:X

Tokens(set, n) == {FlattenSeq(s) : s \in UNION {[1..k -> set] : k \in 0..n}}

Searches == {Get \o <<Space>> \o SearchPath \o <<Question>> \o query \o Version \o NewLine :
                query \in Tokens(QueryToken, 4)}

WithHeaders == {Get \o <<Space>> \o SearchPath \o <<Question, 113, Equals, 98>> \o Version
                    \o headers \o BlankLine : headers \in Tokens(HeaderToken, 3)}

\* Requests without a query: the known paths, an unknown one, another method, a
\* bare line, with and without a header that asks to close.
Simple == {line \o headers \o NewLine :
    line \in {Get \o <<Space, Slash>> \o Version, Get \o <<Space>> \o MetricsPath \o Version,
              Get \o <<Space>> \o SearchPath \o Version,
              Get \o <<Space, Slash, 110>> \o Version, <<80, Space, Slash>> \o Version,
              <<71, Space>> \o NewLine},
    headers \in {<<>>, <<99, Colon, Space, 88>> \o NewLine}}

MCStream == Searches \cup WithHeaders
    \cup {first \o second \o <<71, Space>> : first \in Simple, second \in Simple}
================================================================================
