------------------------------- MODULE Tokenizer -------------------------------
(* tokenize and analyzeTerms: a text is cut at every character that is not a *)
(* letter, digit, '+' or '_', in lower case, and the stop words are dropped. *)
(* A few characters stand for theirs: the blank for white space, "-" for     *)
(* every other separator (bytes of UTF-8 among them), "a" is the one stop    *)
(* word that can be written.                                                 *)
EXTENDS Sequences, SequencesExt

Char == {"a", "b", "A", "B", "+", " ", "-"}

IsTokenCharacter(c) == c \notin {" ", "-"}

ToLower == [c \in Char |-> CASE c = "A" -> "a" [] c = "B" -> "b" [] OTHER -> c]

StopWords == {<<"a">>}

\* A token ends, if one has begun.
PushToken(state) ==
    IF state.current_token = <<>> THEN state
    ELSE [tokens |-> Append(state.tokens, state.current_token), current_token |-> <<>>]

\* One iteration of the loop.
NextCharacter(state, c) ==
    IF IsTokenCharacter(c)
    THEN [state EXCEPT !.current_token = Append(@, ToLower[c])]
    ELSE PushToken(state)

\* Fault: a token at the end of the text is forgotten.
Faulty_Tokenize(text) ==
    FoldLeft(NextCharacter, [tokens |-> <<>>, current_token |-> <<>>], text).tokens

Tokenize(text) ==
    PushToken(FoldLeft(NextCharacter, [tokens |-> <<>>, current_token |-> <<>>], text)).tokens

\* One iteration over the tokens.
KeepTerm(terms, token) == IF token \in StopWords THEN terms ELSE Append(terms, token)

AnalyzeTerms(text) == FoldLeft(KeepTerm, <<>>, Tokenize(text))
================================================================================
