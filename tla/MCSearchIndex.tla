----------------------------- MODULE MCSearchIndex -----------------------------
(* SearchIndex for TLC: a blank line, a text that repeats a term, one that   *)
(* begins with a blank and has a stop word and a term that begins like       *)
(* another, and one that another may be joined to; queries with repeated,    *)
(* unknown, joined and stop words; more logarithms than the counts that      *)
(* occur.                                                                    *)
EXTENDS SearchIndex

MCText == {<<>>, <<"B", " ", "b">>, <<" ", "a", "-", "b", "+">>, <<"a", "b">>}

MCQuery == {<<>>, <<"a">>, <<"b">>, <<"b", "b">>, <<"B", "+", "-", "b", " ", "b">>,
            <<"A", "b", " ", "b", "+", " ", "b">>}

\* Three decimals.
MCLnTable == <<0, 693, 1099, 1386, 1609, 1792, 1946, 2079, 2197, 2303, 2398, 2485, 2565>>
================================================================================
