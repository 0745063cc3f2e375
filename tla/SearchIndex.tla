------------------------------ MODULE SearchIndex ------------------------------
(* What the server searches: SearchApplication's constructor visits the      *)
(* files below the documents root (loadDocuments), cuts each into chunks     *)
(* (MarkdownChunker), numbers these over all documents, and fills the        *)
(* InvertedIndex; SearchService::search ranks the chunks for a query.  A     *)
(* directory gives its entries in any order, so any document may come next.  *)
(*                                                                           *)
(* Scores are fixed-point numbers, summed exactly: the rounding of double is *)
(* left out.  Of the logarithm only that it increases is said here.          *)
EXTENDS MarkdownChunker, Tokenizer, FiniteSets, FiniteSetsExt

CONSTANTS
    MaxDocuments,   \* bound of the documents below the root
    MaxTotal,       \* bound of the lines in all of them
    Query,          \* queries, sequences of characters
    MaxTopK,        \* largest top_k asked for
    LnTable,        \* Unit times the natural logarithms of 1, 2, ...
    Unit

ASSUME IndexAssumption ==
    /\ MaxDocuments \in Nat /\ MaxTotal \in Nat /\ MaxTopK \in Nat
    /\ Text \subseteq Seq(Char) /\ Query \subseteq Seq(Char)
    /\ LnTable \in Seq(Nat) /\ LnTable # <<>> /\ Unit \in Nat \ {0}
    /\ \A m, n \in DOMAIN LnTable : m < n => LnTable[m] < LnTable[n]

VARIABLES
    stage,              \* where the constructor is; "serving" after it
    documents,          \* documents read
    total,              \* lines read
    chunks_,
    indexed,            \* chunks that the index has
    postings_by_term_

indexVars == <<stage, documents, total, chunks_, indexed, postings_by_term_>>
vars == <<chunkerVars, indexVars>>

Init ==
    /\ ChunkerInit
    /\ stage = "loading"
    /\ documents = 0
    /\ total = 0
    /\ chunks_ = <<>>
    /\ indexed = 0
    /\ postings_by_term_ = [term \in {} |-> <<>>]

--------------------------------------------------------------------------------
(* loadDocuments.                                                            *)

\* The root is missing or no directory, or the iterator cannot read a directory
\* below it: the constructor throws.
LoadFails ==
    /\ stage = "loading"
    /\ stage' = "failed"
    /\ UNCHANGED <<chunkerVars, documents, total, chunks_, indexed, postings_by_term_>>

\* The next regular file that ends in .md or .txt, can be read and is not empty.
OpenDocument ==
    /\ stage = "loading"
    /\ documents < MaxDocuments
    /\ stage' = "reading"
    /\ documents' = documents + 1
    /\ UNCHANGED <<chunkerVars, total, chunks_, indexed, postings_by_term_>>

ReadLine ==
    /\ stage = "reading"
    /\ \/ /\ total < MaxTotal
          /\ total' = total + 1
          /\ \/ \E text \in Text : ReadText(text)
             \/ \E level \in 1..MaxLevel, named \in BOOLEAN : ReadHeading(level, named)
       \/ EndDocument /\ UNCHANGED total
    /\ UNCHANGED <<stage, documents, chunks_, indexed, postings_by_term_>>

\* The characters of a chunk of the document being read.
RawText(chunk) == [i \in DOMAIN chunk.raw_text |-> content[chunk.raw_text[i]].character]

\* Fault: every document counts its chunks from where the last one did.
Faulty_KeepChunks ==
    /\ stage = "reading" /\ ended
    /\ chunks_' = chunks_ \o [i \in DOMAIN chunks |->
            [id |-> chunks[i].id, document |-> documents, raw_text |-> RawText(chunks[i])]]
    /\ first_chunk_id' = Len(chunks)
    /\ lines' = <<>> /\ content' = <<>> /\ document_title' = 0 /\ headings' = <<>>
    /\ current_body' = <<>> /\ chunks' = <<>> /\ ended' = FALSE
    /\ stage' = "loading"
    /\ UNCHANGED <<documents, total, indexed, postings_by_term_>>

\* The document's chunks join the others; next_chunk_id is where the next begins.
KeepChunks ==
    /\ stage = "reading" /\ ended
    /\ chunks_' = chunks_ \o [i \in DOMAIN chunks |->
            [id |-> chunks[i].id, document |-> documents, raw_text |-> RawText(chunks[i])]]
    /\ first_chunk_id' = first_chunk_id + Len(chunks)
    /\ lines' = <<>> /\ content' = <<>> /\ document_title' = 0 /\ headings' = <<>>
    /\ current_body' = <<>> /\ chunks' = <<>> /\ ended' = FALSE
    /\ stage' = "loading"
    /\ UNCHANGED <<documents, total, indexed, postings_by_term_>>

\* There are no more files.
EndLoading ==
    /\ stage = "loading"
    /\ stage' = "indexing"
    /\ UNCHANGED <<chunkerVars, documents, total, chunks_, indexed, postings_by_term_>>

--------------------------------------------------------------------------------
(* InvertedIndex.                                                            *)

TermsOf(chunk) == ToSet(AnalyzeTerms(chunk.raw_text))

\* term_frequencies: how often a term is in the chunk.
Posting(term, chunk) ==
    [chunk_id |-> chunk.id,
     term_frequency |-> LET terms == AnalyzeTerms(chunk.raw_text)
                        IN  Cardinality({i \in DOMAIN terms : terms[i] = term})]

\* The postings of a term; findTerm returns none for a term that is unknown.
FindTerm(term) ==
    IF term \in DOMAIN postings_by_term_ THEN postings_by_term_[term] ELSE <<>>

\* Fault: a posting for each occurrence.
Faulty_AddChunk(chunk) ==
    LET new(term) == Posting(term, chunk)
    IN  postings_by_term_' = [term \in DOMAIN postings_by_term_ \cup TermsOf(chunk) |->
            IF term \in TermsOf(chunk)
            THEN FindTerm(term) \o [i \in 1..new(term).term_frequency |-> new(term)]
            ELSE FindTerm(term)]

AddChunk(chunk) ==
    postings_by_term_' = [term \in DOMAIN postings_by_term_ \cup TermsOf(chunk) |->
        IF term \in TermsOf(chunk) THEN Append(FindTerm(term), Posting(term, chunk))
        ELSE FindTerm(term)]

IndexChunk ==
    /\ stage = "indexing"
    /\ indexed < Len(chunks_)
    /\ indexed' = indexed + 1
    /\ AddChunk(chunks_[indexed'])
    /\ UNCHANGED <<chunkerVars, stage, documents, total, chunks_>>

Serve ==
    /\ stage = "indexing"
    /\ indexed = Len(chunks_)
    /\ stage' = "serving"
    /\ UNCHANGED <<chunkerVars, documents, total, chunks_, indexed, postings_by_term_>>

--------------------------------------------------------------------------------
(* SearchService::search.                                                    *)

\* The logarithm; after the end of the table, which may be as long as it needs to
\* be, it goes on increasing.
Ln(n) == IF n <= Len(LnTable) THEN LnTable[n] ELSE Last(LnTable) + n - Len(LnTable)

\* Fault: the constant that keeps idf above zero is missing.
Faulty_Weight(term_frequency, df) ==
    Ln(term_frequency + 1) * (Ln(Len(chunks_) + 1) - Ln(df + 1))

\* log1p(term_frequency) * idf, for a term with postings in df chunks.
Weight(term_frequency, df) ==
    Ln(term_frequency + 1) * (Ln(Len(chunks_) + 1) - Ln(df + 1) + Unit)

\* chunks_by_id_: emplace keeps the first of two chunks with the same id.
ChunkById(id) == chunks_[SelectInSeq(chunks_, LAMBDA chunk : chunk.id = id)]

RanksHigher(left, right) ==
    \/ left.matched_terms > right.matched_terms
    \/ /\ left.matched_terms = right.matched_terms
       /\ \/ left.score > right.score
          \/ left.score = right.score /\ left.chunk.id < right.chunk.id

\* sort, of which partial_sort gives the beginning.
Sorted(results) ==
    CHOOSE s \in [1..Cardinality(results) -> results] :
        \A i, j \in DOMAIN s : i < j => RanksHigher(s[i], s[j])

\* The candidates are collected term by term, in any order of the terms.
Search(query, top_k) ==
    LET unique_terms == ToSet(AnalyzeTerms(query))
        matches == UNION {{[term |-> term, posting |-> p] : p \in ToSet(FindTerm(term))} :
                            term \in unique_terms}
        ids == {m.posting.chunk_id : m \in matches}
        of(id) == {m \in matches : m.posting.chunk_id = id}
        points == [m \in matches |-> Weight(m.posting.term_frequency, Len(FindTerm(m.term)))]
        results == {[chunk |-> ChunkById(id), matched_terms |-> Cardinality(of(id)),
                     score |-> SumFunctionOnSet(points, of(id))] : id \in ids}
    IN  SubSeq(Sorted(results), 1, Min({top_k, Cardinality(results)}))

--------------------------------------------------------------------------------
Next == LoadFails \/ OpenDocument \/ ReadLine \/ KeepChunks \/ EndLoading \/ IndexChunk \/ Serve

Spec == Init /\ [][Next]_vars

--------------------------------------------------------------------------------
(* Properties.                                                               *)

\* The id of a chunk is its place among the chunks of all documents, so that no
\* two have the same id and chunks_by_id_ finds the chunk a posting is about
\* (loadDocuments, next_chunk_id; flushCurrent; SearchService's constructor).
IdsArePlaces ==
    /\ first_chunk_id = Len(chunks_)
    /\ \A i \in DOMAIN chunks_ : chunks_[i].id = i - 1
    /\ \A i \in DOMAIN chunks : chunks[i].id = Len(chunks_) + i - 1

\* The index says exactly what the chunks say: a term has one posting for each
\* chunk it is in, with its number of occurrences there, in the order of the
\* chunks and whatever the order in which a chunk's terms are added; so the length
\* of a posting list is the document frequency of idf (InvertedIndex.cpp,
\* addChunk; SearchApplication's constructor).
PostingsAreExact ==
    /\ DOMAIN postings_by_term_ = UNION {TermsOf(chunks_[n]) : n \in 1..indexed}
    /\ \A term \in DOMAIN postings_by_term_ :
          LET postings == postings_by_term_[term]
              with == {n \in 1..indexed : term \in TermsOf(chunks_[n])}
          IN  /\ \A i, j \in DOMAIN postings : i < j => postings[i].chunk_id < postings[j].chunk_id
              /\ ToSet(postings) = {Posting(term, chunks_[n]) : n \in with}

\* What a search should give, from the text of the chunks alone: the words of a
\* text are its longest runs of token characters.
WordsAt(text, word) ==
    {at \in (DOMAIN text) \X (DOMAIN text) :
        /\ at[2] - at[1] + 1 = Len(word)
        /\ \A i \in at[1]..at[2] : /\ IsTokenCharacter(text[i])
                                  /\ ToLower[text[i]] = word[i - at[1] + 1]
        /\ \A i \in {at[1] - 1, at[2] + 1} \cap DOMAIN text : ~IsTokenCharacter(text[i])}

QueryTerms(query) ==
    {word \in {[i \in DOMAIN s |-> ToLower[s[i]]] : s \in SubSeqs(query) \ {<<>>}} :
        word \notin StopWords /\ WordsAt(query, word) # {}}

\* A search gives the top_k chunks of a full scan: every one that has a term of
\* the query is found, counted and scored as if there were no index, and the
\* n-th result has n - 1 above it (Tokenizer.cpp, InvertedIndex.cpp,
\* SearchService.cpp, search).
SearchMatchesScan == stage = "serving" => \A query \in Query :
    LET terms == QueryTerms(query)
        count == [i \in DOMAIN chunks_ |->
                    [term \in terms |-> Cardinality(WordsAt(chunks_[i].raw_text, term))]]
        has(i) == {term \in terms : count[i][term] > 0}
        found == {i \in DOMAIN chunks_ : has(i) # {}}
        df == [term \in terms |-> Cardinality({i \in found : count[i][term] > 0})]
        score(i) == SumFunctionOnSet([term \in terms |-> Weight(count[i][term], df[term])], has(i))
        entry == [i \in found |-> [chunk |-> chunks_[i], matched_terms |-> Cardinality(has(i)),
                                   score |-> score(i)]]
        above(i) == {j \in found : RanksHigher(entry[j], entry[i])}
    IN  \A top_k \in 0..MaxTopK :
          LET results == Search(query, top_k)
          IN  /\ Len(results) = Min({top_k, Cardinality(found)})
              /\ \A n \in DOMAIN results :
                    \E i \in found : results[n] = entry[i] /\ Cardinality(above(i)) = n - 1

\* A chunk that has every term of the query at least as often as another, and one
\* of them more often, is never below it (SearchService.cpp, the two logarithms
\* and ranksHigher).
RankIsMonotone == stage = "serving" => \A query \in Query :
    LET results == Search(query, Len(chunks_))
        count(i, term) == Cardinality(WordsAt(results[i].chunk.raw_text, term))
    IN  \A i, j \in DOMAIN results :
          /\ \A term \in QueryTerms(query) : count(i, term) >= count(j, term)
          /\ \E term \in QueryTerms(query) : count(i, term) > count(j, term)
          => i < j
================================================================================
