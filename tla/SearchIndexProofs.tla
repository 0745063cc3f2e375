--------------------------- MODULE SearchIndexProofs ---------------------------
(* For documents of any number and length: the ids of the chunks, the        *)
(* postings of the index, the text the chunks keep, and the headings a chunk *)
(* is cited with, for which it does not matter what the terms of a text are. *)
(* Then the terms: what the tokenizer gives for any text, and that a search  *)
(* of the index gives what a scan of the chunks would, in the right order.   *)
EXTENDS SearchIndex, SequenceTheorems, NaturalsInduction, WellFoundedInduction,
        FunctionTheorems, FiniteSetTheorems, TLAPS

IsSequence(s) == \E S : s \in Seq(S)

LEMMA EmptyIsSequence == IsSequence(<<>>) /\ Len(<<>>) = 0 /\ DOMAIN <<>> = {}
<1>1. <<>> \in Seq({})
  OBVIOUS
<1> QED BY <1>1 DEF IsSequence

\* Append as the proofs use it.
LEMMA AppendIs ==
    ASSUME NEW s, IsSequence(s), NEW e
    PROVE  /\ IsSequence(Append(s, e))
           /\ Len(Append(s, e)) = Len(s) + 1
           /\ DOMAIN s = 1..Len(s) /\ Len(s) \in Nat
           /\ DOMAIN Append(s, e) = 1..Len(s) + 1
           /\ \A i \in 1..Len(s) : Append(s, e)[i] = s[i]
           /\ Append(s, e)[Len(s) + 1] = e
<1>1. PICK S : s \in Seq(S)
  BY DEF IsSequence
<1> DEFINE T == S \cup {e}
<1>2. s \in Seq(T) /\ e \in T
  BY <1>1
<1>3. Append(s, e) \in Seq(T)
  BY <1>2
<1> HIDE DEF T
<1>4. QED BY <1>2, <1>3 DEF IsSequence

\* Concatenation with a function on 1..n.
LEMMA ConcatIs ==
    ASSUME NEW s, IsSequence(s), NEW n \in Nat, NEW t, t = [i \in 1..n |-> t[i]]
    PROVE  /\ IsSequence(s \o t)
           /\ Len(s \o t) = Len(s) + n /\ Len(s) \in Nat
           /\ DOMAIN s = 1..Len(s) /\ DOMAIN (s \o t) = 1..Len(s) + n
           /\ \A i \in 1..Len(s) : (s \o t)[i] = s[i]
           /\ \A i \in Len(s) + 1..Len(s) + n :
                 i - Len(s) \in 1..n /\ (s \o t)[i] = t[i - Len(s)]
<1>1. PICK S : s \in Seq(S)
  BY DEF IsSequence
<1> DEFINE T == S \cup {t[i] : i \in 1..n}
<1>2. \A i \in 1..n : t[i] \in T
  OBVIOUS
<1>3. t \in Seq(T) /\ Len(t) = n
  BY <1>2
<1>4. s \in Seq(T)
  BY <1>1
<1> HIDE DEF T
<1>5. /\ s \o t \in Seq(T)
      /\ Len(s \o t) = Len(s) + n /\ Len(s) \in Nat
      /\ DOMAIN s = 1..Len(s) /\ DOMAIN (s \o t) = 1..Len(s) + n
  BY <1>3, <1>4
<1>6. \A i \in 1..Len(s) : (s \o t)[i] = s[i]
  BY <1>3, <1>4
<1>7. \A i \in Len(s) + 1..Len(s) + n :
         i - Len(s) \in 1..n /\ (s \o t)[i] = t[i - Len(s)]
  BY <1>3, <1>4
<1>8. QED
  BY <1>5, <1>6, <1>7 DEF IsSequence

--------------------------------------------------------------------------------
(* The numbering.                                                            *)

\* The inductive invariant.  Only a document being read has chunks of its own,
\* and the index is filled after the last document.
IInv ==
    /\ stage \in {"loading", "reading", "indexing", "serving", "failed"}
    /\ IsSequence(chunks) /\ IsSequence(chunks_)
    /\ stage # "reading" => chunks = <<>>
    /\ indexed \in 0..Len(chunks_)
    /\ stage \in {"loading", "reading"} => indexed = 0
    /\ \A term \in DOMAIN postings_by_term_ : IsSequence(postings_by_term_[term])
    /\ IdsArePlaces
    /\ PostingsAreExact

LEMMA InitInv == Init => IInv
<1> SUFFICES ASSUME Init PROVE IInv
  OBVIOUS
<1> USE DEF Init, ChunkerInit
<1>1. IdsArePlaces
  BY EmptyIsSequence DEF IdsArePlaces
<1>2. DOMAIN postings_by_term_ = {} /\ 1..indexed = {}
  OBVIOUS
<1>3. PostingsAreExact
  BY <1>2 DEF PostingsAreExact
<1>4. QED
  BY EmptyIsSequence, <1>1, <1>2, <1>3 DEF IInv

\* What leaves the index and the chunks of earlier documents alone.
LEMMA PostingsKept ==
    ASSUME PostingsAreExact, UNCHANGED <<chunks_, indexed, postings_by_term_>>
    PROVE  PostingsAreExact'
BY DEF PostingsAreExact

\* flushCurrent numbers the chunk after those before it.
LEMMA FlushKeeps ==
    ASSUME IInv, FlushCurrent, UNCHANGED <<first_chunk_id, chunks_>>
    PROVE  IsSequence(chunks') /\ IdsArePlaces'
<1>1. CASE UNCHANGED chunks
  BY <1>1 DEF IInv, IdsArePlaces
<1>2. CASE chunks # chunks'
  <2> DEFINE new == [id |-> first_chunk_id + Len(chunks), title |-> document_title,
                     heading_path |-> JoinHeadings, raw_text |-> Trim(current_body)]
  <2>1. chunks' = Append(chunks, new)
    BY <1>2 DEF FlushCurrent
  <2>2. new.id = first_chunk_id + Len(chunks)
    OBVIOUS
  <2> HIDE DEF new
  <2>3. /\ IsSequence(chunks') /\ DOMAIN chunks' = 1..Len(chunks) + 1
        /\ DOMAIN chunks = 1..Len(chunks) /\ Len(chunks) \in Nat
        /\ \A i \in 1..Len(chunks) : chunks'[i] = chunks[i]
        /\ chunks'[Len(chunks) + 1] = new
    BY <2>1, AppendIs DEF IInv
  <2>4. Len(chunks_) \in Nat /\ first_chunk_id = Len(chunks_)
    BY DEF IInv, IsSequence, IdsArePlaces
  <2>5. \A i \in DOMAIN chunks' : chunks'[i].id = Len(chunks_) + i - 1
    <3> SUFFICES ASSUME NEW i \in 1..Len(chunks) + 1 PROVE chunks'[i].id = Len(chunks_) + i - 1
      BY <2>3
    <3>1. CASE i \in 1..Len(chunks)
      BY <2>3, <3>1 DEF IInv, IdsArePlaces
    <3>2. CASE i = Len(chunks) + 1
      BY <2>2, <2>3, <2>4, <3>2
    <3>3. QED
      BY <2>3, <3>1, <3>2
  <2>6. QED
    BY <2>3, <2>5 DEF IInv, IdsArePlaces
<1>3. QED
  BY <1>1, <1>2

LEMMA ReadStep == ASSUME IInv, ReadLine PROVE IInv'
<1> USE DEF ReadLine
<1>1. IsSequence(chunks') /\ IdsArePlaces'
  <2>1. CASE \E text \in Text : ReadText(text)
    BY <2>1 DEF ReadText, IInv, IdsArePlaces
  <2>2. CASE \E level \in 1..MaxLevel, named \in BOOLEAN : ReadHeading(level, named)
    BY <2>2, FlushKeeps DEF ReadHeading
  <2>3. CASE EndDocument
    <3>1. CASE headings = <<>> /\ Trim(current_body) # <<>>
      <4> DEFINE new == [id |-> first_chunk_id, title |-> 0, heading_path |-> <<0>>,
                         raw_text |-> Trim(current_body)]
      <4>1. chunks' = <<new>> /\ new.id = first_chunk_id
        BY <2>3, <3>1 DEF EndDocument
      <4> HIDE DEF new
      <4>2. <<new>> \in Seq({new}) /\ Len(<<new>>) = 1 /\ <<new>>[1] = new
        OBVIOUS
      <4>3. IsSequence(chunks') /\ DOMAIN chunks' = 1..1 /\ chunks'[1].id = first_chunk_id
        <5>1. IsSequence(<<new>>)
          BY <4>2 DEF IsSequence
        <5>2. DOMAIN <<new>> = 1..1
          OBVIOUS
        <5>3. QED
          BY <4>1, <4>2, <5>1, <5>2
      <4>4. UNCHANGED <<first_chunk_id, chunks_>>
        BY <2>3 DEF EndDocument
      <4>5. Len(chunks_) \in Nat
        BY DEF IInv, IsSequence
      <4>6. \A i \in 1..1 : i = 1
        OBVIOUS
      <4>7. QED
        BY <4>3, <4>4, <4>5, <4>6 DEF IInv, IdsArePlaces
    <3>2. CASE ~(headings = <<>> /\ Trim(current_body) # <<>>)
      BY <2>3, <3>2, FlushKeeps DEF EndDocument
    <3>3. QED
      BY <3>1, <3>2
  <2>4. QED
    BY <2>1, <2>2, <2>3
<1>2. UNCHANGED <<stage, chunks_, indexed, postings_by_term_>> /\ stage = "reading"
  OBVIOUS
<1>3. PostingsAreExact'
  BY <1>2, PostingsKept DEF IInv
<1>4. QED
  BY <1>1, <1>2, <1>3 DEF IInv

LEMMA KeepStep == ASSUME IInv, KeepChunks PROVE IInv'
<1> DEFINE n == Len(chunks)
           more == [i \in DOMAIN chunks |->
                       [id |-> chunks[i].id, document |-> documents,
                        raw_text |-> RawText(chunks[i])]]
<1>1. n \in Nat /\ DOMAIN chunks = 1..n
  BY DEF IInv, IsSequence
<1>2. more = [i \in 1..n |-> more[i]]
  BY <1>1
<1>3. \A i \in 1..n : more[i].id = Len(chunks_) + i - 1
  BY <1>1 DEF IInv, IdsArePlaces
<1>4. /\ chunks_' = chunks_ \o more
      /\ first_chunk_id' = Len(chunks_) + n
      /\ chunks' = <<>>
      /\ UNCHANGED <<indexed, postings_by_term_>>
      /\ stage = "reading" /\ stage' = "loading"
  BY DEF KeepChunks, IInv, IdsArePlaces
<1> HIDE DEF n, more
<1>5. /\ IsSequence(chunks_')
      /\ Len(chunks_') = Len(chunks_) + n /\ Len(chunks_) \in Nat
      /\ DOMAIN chunks_ = 1..Len(chunks_) /\ DOMAIN chunks_' = 1..Len(chunks_) + n
      /\ \A i \in 1..Len(chunks_) : chunks_'[i] = chunks_[i]
      /\ \A i \in Len(chunks_) + 1..Len(chunks_) + n :
            i - Len(chunks_) \in 1..n /\ chunks_'[i] = more[i - Len(chunks_)]
  BY <1>1, <1>2, <1>4, ConcatIs DEF IInv
<1>6. \A i \in DOMAIN chunks_' : chunks_'[i].id = i - 1
  <2> SUFFICES ASSUME NEW i \in 1..Len(chunks_) + n PROVE chunks_'[i].id = i - 1
    BY <1>5
  <2>1. CASE i \in 1..Len(chunks_)
    BY <2>1, <1>5 DEF IInv, IdsArePlaces
  <2>2. CASE i \in Len(chunks_) + 1..Len(chunks_) + n
    <3>1. i - Len(chunks_) \in 1..n /\ chunks_'[i] = more[i - Len(chunks_)]
      BY <2>2, <1>5
    <3>2. chunks_'[i].id = Len(chunks_) + (i - Len(chunks_)) - 1
      BY <3>1, <1>3
    <3>3. QED
      BY <3>2, <1>1, <1>5
  <2>3. QED
    BY <2>1, <2>2, <1>1, <1>5
<1>7. IdsArePlaces'
  BY <1>4, <1>5, <1>6, EmptyIsSequence DEF IdsArePlaces
<1>8. indexed = 0
  BY <1>4 DEF IInv
<1>9. PostingsAreExact'
  BY <1>4, <1>8 DEF PostingsAreExact, IInv
<1>10. QED
  BY <1>1, <1>4, <1>5, <1>7, <1>8, <1>9, EmptyIsSequence DEF IInv
--------------------------------------------------------------------------------
(* The index.                                                                *)

LEMMA PostingId == \A term, chunk : Posting(term, chunk).chunk_id = chunk.id
BY DEF Posting

\* The chunks indexed so far that have a term.
With(term) == {n \in 1..indexed : term \in TermsOf(chunks_[n])}

\* What FindTerm gives for any term, known or not.
LEMMA FindTermIs ==
    ASSUME IInv, NEW term
    PROVE  /\ IsSequence(FindTerm(term))
           /\ \A i, j \in DOMAIN FindTerm(term) :
                 i < j => FindTerm(term)[i].chunk_id < FindTerm(term)[j].chunk_id
           /\ ToSet(FindTerm(term)) = {Posting(term, chunks_[n]) : n \in With(term)}
           /\ \A i \in DOMAIN FindTerm(term) : FindTerm(term)[i].chunk_id \in 0..indexed - 1
<1>1. /\ IsSequence(FindTerm(term))
      /\ \A i, j \in DOMAIN FindTerm(term) :
            i < j => FindTerm(term)[i].chunk_id < FindTerm(term)[j].chunk_id
      /\ ToSet(FindTerm(term)) = {Posting(term, chunks_[n]) : n \in With(term)}
  <2>1. CASE term \in DOMAIN postings_by_term_
    BY <2>1 DEF FindTerm, IInv, PostingsAreExact, With
  <2>2. CASE term \notin DOMAIN postings_by_term_
    <3>1. With(term) = {}
      BY <2>2 DEF IInv, PostingsAreExact, With
    <3>2. FindTerm(term) = <<>>
      BY <2>2 DEF FindTerm
    <3>3. QED
      BY <3>1, <3>2, EmptyIsSequence DEF ToSet
  <2>3. QED
    BY <2>1, <2>2
<1>2. ASSUME NEW i \in DOMAIN FindTerm(term)
      PROVE  FindTerm(term)[i].chunk_id \in 0..indexed - 1
  <2>1. PICK n \in With(term) : FindTerm(term)[i] = Posting(term, chunks_[n])
    BY <1>1 DEF ToSet
  <2>2. FindTerm(term)[i].chunk_id = chunks_[n].id
    BY <2>1, PostingId
  <2>3. n \in 1..indexed /\ indexed \in Nat /\ n \in DOMAIN chunks_
    BY DEF With, IInv, IsSequence
  <2>4. QED
    BY <2>2, <2>3 DEF IInv, IdsArePlaces
<1>3. QED
  BY <1>1, <1>2

LEMMA IndexStep == ASSUME IInv, IndexChunk PROVE IInv'
<1> DEFINE chunk == chunks_[indexed + 1]
<1>1. /\ indexed' = indexed + 1 /\ indexed \in Nat /\ indexed' \in 0..Len(chunks_)
      /\ indexed + 1 \in DOMAIN chunks_
      /\ UNCHANGED <<chunks_, chunks, first_chunk_id, stage>> /\ stage = "indexing"
      /\ AddChunk(chunk)
  BY DEF IndexChunk, IInv, IsSequence, chunkerVars, documentVars
<1>2. chunk.id = indexed
  BY <1>1 DEF IInv, IdsArePlaces
<1>3. 1..indexed' = 1..indexed \cup {indexed + 1}
  BY <1>1
<1> HIDE DEF chunk
<1>4. /\ DOMAIN postings_by_term_' = DOMAIN postings_by_term_ \cup TermsOf(chunk)
      /\ \A term \in DOMAIN postings_by_term_' :
            postings_by_term_'[term] = IF term \in TermsOf(chunk)
                                       THEN Append(FindTerm(term), Posting(term, chunk))
                                       ELSE FindTerm(term)
  BY <1>1 DEF AddChunk
<1>5. DOMAIN postings_by_term_' = UNION {TermsOf(chunks_'[n]) : n \in 1..indexed'}
  BY <1>1, <1>3, <1>4 DEF IInv, PostingsAreExact, chunk
<1>6. ASSUME NEW term \in DOMAIN postings_by_term_'
      PROVE  /\ IsSequence(postings_by_term_'[term])
             /\ \A i, j \in DOMAIN postings_by_term_'[term] : i < j =>
                   postings_by_term_'[term][i].chunk_id < postings_by_term_'[term][j].chunk_id
             /\ ToSet(postings_by_term_'[term])
                    = {Posting(term, chunks_'[n]) :
                          n \in {m \in 1..indexed' : term \in TermsOf(chunks_'[m])}}
  <2> DEFINE old == FindTerm(term)
             new == postings_by_term_'[term]
             with == {m \in 1..indexed' : term \in TermsOf(chunks_'[m])}
  <2>1. /\ IsSequence(old)
        /\ \A i, j \in DOMAIN old : i < j => old[i].chunk_id < old[j].chunk_id
        /\ ToSet(old) = {Posting(term, chunks_[n]) : n \in With(term)}
        /\ \A i \in DOMAIN old : old[i].chunk_id \in 0..indexed - 1
    BY FindTermIs
  <2>2. CASE term \in TermsOf(chunk)
    <3>1. new = Append(old, Posting(term, chunk))
      BY <1>4, <2>2
    <3>2. with = With(term) \cup {indexed + 1}
      BY <1>1, <1>3, <2>2 DEF With, chunk
    <3> HIDE DEF old, new, with
    <3>3. /\ IsSequence(new)
          /\ DOMAIN old = 1..Len(old) /\ Len(old) \in Nat
          /\ DOMAIN new = 1..Len(old) + 1
          /\ \A i \in 1..Len(old) : new[i] = old[i]
          /\ new[Len(old) + 1] = Posting(term, chunk)
      BY <2>1, <3>1, AppendIs
    <3>4. new[Len(old) + 1].chunk_id = indexed
      BY <1>2, <3>3, PostingId
    <3>5. ASSUME NEW i \in DOMAIN new, NEW j \in DOMAIN new, i < j
          PROVE  new[i].chunk_id < new[j].chunk_id
      <4>1. i \in 1..Len(old) /\ new[i] = old[i]
        BY <3>3, <3>5
      <4>2. CASE j \in 1..Len(old)
        BY <2>1, <3>3, <3>5, <4>1, <4>2
      <4>3. CASE j = Len(old) + 1
        BY <1>1, <2>1, <3>3, <3>4, <4>1, <4>3
      <4>4. QED
        BY <3>3, <4>2, <4>3
    <3>6. ToSet(new) = ToSet(old) \cup {Posting(term, chunk)}
      BY <3>3 DEF ToSet
    <3>7. ToSet(new) = {Posting(term, chunks_'[n]) : n \in with}
      BY <1>1, <2>1, <3>2, <3>6 DEF chunk
    <3>8. QED
      BY <3>3, <3>5, <3>7 DEF new, with
  <2>3. CASE term \notin TermsOf(chunk)
    <3>1. new = old
      BY <1>4, <2>3
    <3>2. with = With(term)
      BY <1>1, <1>3, <2>3 DEF With, chunk
    <3>3. QED
      BY <1>1, <2>1, <3>1, <3>2
  <2>4. QED
    BY <2>2, <2>3
<1>7. PostingsAreExact'
  BY <1>5, <1>6 DEF PostingsAreExact
<1>8. IdsArePlaces'
  BY <1>1 DEF IInv, IdsArePlaces
<1>9. QED
  BY <1>1, <1>6, <1>7, <1>8 DEF IInv

LEMMA Step == ASSUME IInv, [Next]_vars PROVE IInv'
<1>1. CASE ReadLine
  BY <1>1, ReadStep
<1>2. CASE KeepChunks
  BY <1>2, KeepStep
<1>3. CASE IndexChunk
  BY <1>3, IndexStep
<1>4. CASE LoadFails \/ OpenDocument \/ EndLoading \/ Serve \/ UNCHANGED vars
  <2>1. /\ UNCHANGED <<chunks, chunks_, first_chunk_id, indexed, postings_by_term_>>
        /\ stage' = "reading" => stage = "loading" \/ stage = "reading"
        /\ stage # "reading" \/ stage' = "reading"
        /\ stage' = "loading" => stage = "loading"
        /\ stage' \in {"loading", "reading", "indexing", "serving", "failed"}
    BY <1>4 DEF LoadFails, OpenDocument, EndLoading, Serve, vars, indexVars, chunkerVars,
                documentVars, IInv
  <2>2. PostingsAreExact' /\ IdsArePlaces'
    BY <2>1, PostingsKept DEF IInv, IdsArePlaces
  <2>3. QED
    BY <2>1, <2>2 DEF IInv
<1>5. QED
  BY <1>1, <1>2, <1>3, <1>4 DEF Next

LEMMA Invariance == Spec => []IInv
<1>1. Init => IInv
  BY InitInv
<1>2. IInv /\ [Next]_vars => IInv'
  BY Step
<1>3. QED
  BY <1>1, <1>2, PTL DEF Spec

\* In every state the chunks of all documents are numbered by their places, so
\* that an id names one chunk (loadDocuments, chunkMarkdown).
THEOREM IdsAreUnique == Spec => []IdsArePlaces
<1>1. IInv => IdsArePlaces
  BY DEF IInv
<1>2. QED
  BY <1>1, Invariance, PTL

\* In every state the postings are exactly those of the chunks indexed so far, in
\* their order (InvertedIndex::addChunk).
THEOREM IndexIsExact == Spec => []PostingsAreExact
<1>1. IInv => PostingsAreExact
  BY DEF IInv
<1>2. QED
  BY <1>1, Invariance, PTL

--------------------------------------------------------------------------------
(* Least and greatest numbers.  Induction is the choice of the least number  *)
(* for which the claim fails.                                                *)

Less == {p \in Nat \X Nat : p[1] < p[2]}

\* The least element of a set of numbers.
LEMMA MinIs ==
    ASSUME NEW T, T \subseteq Nat, T # {}
    PROVE  Min(T) \in T /\ \A y \in T : Min(T) <= y
<1>1. IsWellFoundedOn(Less, Nat)
  <2>1. Less = OpToRel(<, Nat)
    BY Zenon DEF OpToRel, Less
  <2>2. QED
    BY <2>1, NatLessThanWellFounded, Zenon
<1>2. PICK x \in T : \A y \in T : ~(<<y, x>> \in Less)
  BY <1>1, WFMin
<1>3. \A y \in T : x <= y
  <2> SUFFICES ASSUME NEW y \in T PROVE x <= y
    OBVIOUS
  <2>1. x \in Nat /\ y \in Nat
    OBVIOUS
  <2>2. y < x => <<y, x>> \in Less
    BY <2>1 DEF Less
  <2>3. QED
    BY <1>2, <2>1, <2>2
<1>4. QED
  BY <1>3 DEF Min

LEMMA MaxIs ==
    ASSUME NEW n \in Nat, NEW T, T \subseteq 1..n, T # {}
    PROVE  Max(T) \in T /\ \A y \in T : Max(T) >= y
<1> DEFINE bounds == {m \in Nat : \A y \in T : y <= m}
<1>1. n \in bounds
  OBVIOUS
<1>2. PICK m \in bounds : \A b \in bounds : m <= b
  <2>1. bounds \subseteq Nat /\ bounds # {}
    BY <1>1
  <2> HIDE DEF bounds
  <2>2. QED
    BY <2>1, MinIs
<1>3. m \in Nat /\ \A y \in T : y <= m
  BY <1>2
<1>4. m \in T
  <2> SUFFICES ASSUME m \notin T PROVE FALSE
    OBVIOUS
  <2>1. m # 0
    <3>1. PICK y \in T : TRUE
      OBVIOUS
    <3>2. y \in 1..n /\ y <= m
      BY <1>3
    <3>3. QED
      BY <1>3, <3>2
  <2>2. m - 1 \in bounds
    BY <1>3, <2>1
  <2>3. QED
    BY <1>2, <1>3, <2>2
<1>5. QED
  BY <1>3, <1>4 DEF Max

--------------------------------------------------------------------------------
(* The text of a document.                                                   *)

PiecesOf(parts, body) == Append([i \in DOMAIN parts |-> parts[i].raw_text], body)

\* The places of the characters that are not blank.
Written(said) == {p \in DOMAIN said : said[p].character # " "}

FirstIn(document, h) ==
    h \in DOMAIN document /\ document[h].level > 0 /\ \A g \in 1..h - 1 : ~(document[g].level > 0)

\* Two places with the first heading between them.
Parted(document, said) ==
    {at \in (DOMAIN said) \X (DOMAIN said) :
        \E h \in DOMAIN document : /\ FirstIn(document, h)
                                   /\ said[at[1]].line < h /\ h < said[at[2]].line}

\* The pieces have only places up to n, those of W among them, in increasing order,
\* and without gaps but those of G.
Told(pieces, n, W, G) ==
    /\ UNION {ToSet(pieces[i]) : i \in DOMAIN pieces} \subseteq 1..n
    /\ W \subseteq UNION {ToSet(pieces[i]) : i \in DOMAIN pieces}
    /\ \A i, j \in DOMAIN pieces : \A k \in DOMAIN pieces[i], l \in DOMAIN pieces[j] :
          i < j \/ (i = j /\ k < l) => pieces[i][k] < pieces[j][l]
    /\ \A i \in DOMAIN pieces : \A k \in 1..Len(pieces[i]) - 1 :
          \/ pieces[i][k + 1] = pieces[i][k] + 1
          \/ <<pieces[i][k], pieces[i][k + 1]>> \in G

LEMMA PiecesIs ==
    ASSUME NEW parts, IsSequence(parts), NEW body
    PROVE  /\ Len(parts) \in Nat /\ DOMAIN parts = 1..Len(parts)
           /\ DOMAIN PiecesOf(parts, body) = 1..Len(parts) + 1
           /\ \A i \in 1..Len(parts) : PiecesOf(parts, body)[i] = parts[i].raw_text
           /\ PiecesOf(parts, body)[Len(parts) + 1] = body
<1> DEFINE texts == [i \in DOMAIN parts |-> parts[i].raw_text]
<1>1. Len(parts) \in Nat /\ DOMAIN parts = 1..Len(parts)
  BY DEF IsSequence
<1>2. IsSequence(texts) /\ Len(texts) = Len(parts)
  <2> DEFINE S == {texts[i] : i \in 1..Len(parts)}
  <2>1. texts \in [1..Len(parts) -> S]
    BY <1>1
  <2> HIDE DEF texts, S
  <2>2. texts \in Seq(S) /\ Len(texts) = Len(parts)
    BY <1>1, <2>1
  <2>3. QED
    BY <2>2 DEF IsSequence
<1>3. \A i \in 1..Len(parts) : texts[i] = parts[i].raw_text
  BY <1>1
<1> HIDE DEF texts
<1>4. PiecesOf(parts, body) = Append(texts, body)
  BY DEF PiecesOf, texts
<1>5. QED
  BY <1>1, <1>2, <1>3, <1>4, AppendIs

\* The last piece is another one.
LEMMA OtherBody ==
    ASSUME NEW parts, IsSequence(parts), NEW body, NEW new
    PROVE  LET p == PiecesOf(parts, body)
               q == PiecesOf(parts, new)
               m == Len(parts)
           IN  /\ m \in Nat /\ DOMAIN p = 1..m + 1 /\ DOMAIN q = 1..m + 1
               /\ \A i \in 1..m : p[i] = q[i]
               /\ p[m + 1] = body /\ q[m + 1] = new
<1> DEFINE p == PiecesOf(parts, body)
           q == PiecesOf(parts, new)
           m == Len(parts)
<1>1. /\ m \in Nat /\ DOMAIN p = 1..m + 1 /\ p[m + 1] = body
      /\ \A i \in 1..m : p[i] = parts[i].raw_text
  BY PiecesIs
<1>2. /\ DOMAIN q = 1..m + 1 /\ q[m + 1] = new
      /\ \A i \in 1..m : q[i] = parts[i].raw_text
  BY PiecesIs
<1> HIDE DEF p, q, m
<1>3. /\ m \in Nat /\ DOMAIN p = 1..m + 1 /\ DOMAIN q = 1..m + 1
      /\ \A i \in 1..m : p[i] = q[i]
      /\ p[m + 1] = body /\ q[m + 1] = new
  BY <1>1, <1>2
<1>4. QED
  BY <1>3 DEF p, q, m

\* More gaps are allowed.
LEMMA ToldWider ==
    ASSUME NEW pieces, NEW n, NEW W, NEW G, NEW H, Told(pieces, n, W, G), G \subseteq H
    PROVE  Told(pieces, n, W, H)
BY DEF Told

\* body goes on with the places after n.
Lengthens(new, body, n, m) ==
    /\ Len(body) \in Nat /\ DOMAIN body = 1..Len(body)
    /\ Len(new) = Len(body) + m /\ DOMAIN new = 1..Len(body) + m
    /\ \A k \in 1..Len(body) : new[k] = body[k]
    /\ \A k \in Len(body) + 1..Len(body) + m : new[k] = n + (k - Len(body))

\* The places that body then has.
HasMore(new, body, n, m) == ToSet(new) = ToSet(body) \cup (n + 1..n + m)

LEMMA Longer ==
    ASSUME NEW body, NEW new, NEW n \in Nat, NEW m \in Nat, Lengthens(new, body, n, m)
    PROVE  HasMore(new, body, n, m)
<1> DEFINE b == Len(body)
<1>0. /\ b \in Nat /\ DOMAIN body = 1..b /\ Len(new) = b + m /\ DOMAIN new = 1..b + m
      /\ \A k \in 1..b : new[k] = body[k]
      /\ \A k \in b + 1..b + m : new[k] = n + (k - b)
  BY DEF Lengthens
<1> HIDE DEF b
<1>1. ASSUME NEW x \in ToSet(new) PROVE x \in ToSet(body) \cup (n + 1..n + m)
  <2>1. PICK k \in 1..b + m : x = new[k]
    BY <1>0 DEF ToSet
  <2>2. CASE k \in 1..b
    BY <1>0, <2>1, <2>2 DEF ToSet
  <2>3. CASE k \in b + 1..b + m
    <3>1. x = n + (k - b)
      BY <1>0, <2>1, <2>3
    <3>2. QED
      BY <1>0, <2>3, <3>1
  <2>4. QED
    BY <1>0, <2>2, <2>3
<1>2. ASSUME NEW x \in ToSet(body) PROVE x \in ToSet(new)
  BY <1>0, <1>2 DEF ToSet
<1>3. ASSUME NEW x \in n + 1..n + m PROVE x \in ToSet(new)
  <2>1. b + (x - n) \in b + 1..b + m /\ b + (x - n) \in 1..b + m
    BY <1>0
  <2>2. PICK k \in b + 1..b + m : k = b + (x - n)
    BY <2>1
  <2>3. new[k] = n + (k - b) /\ n + (k - b) = x /\ k \in 1..b + m
    BY <1>0, <2>2
  <2>4. QED
    BY <1>0, <2>3 DEF ToSet
<1>4. QED
  BY <1>1, <1>2, <1>3 DEF HasMore

\* What was said up to here, and one more line.
LEMMA ToldMore ==
    ASSUME NEW parts, IsSequence(parts), NEW body, NEW new,
           NEW n \in Nat, NEW m \in Nat, Lengthens(new, body, n, m),
           NEW W, NEW V, V \subseteq W \cup (n + 1..n + m), NEW G,
           Told(PiecesOf(parts, body), n, W, G),
           Len(body) # 0 => body[Len(body)] = n \/ <<body[Len(body)], n + 1>> \in G
    PROVE  Told(PiecesOf(parts, new), n + m, V, G)
<1> DEFINE p == PiecesOf(parts, body)
           q == PiecesOf(parts, new)
           c == Len(parts)
           b == Len(body)
<1>1. /\ c \in Nat /\ DOMAIN p = 1..c + 1 /\ DOMAIN q = 1..c + 1
      /\ \A i \in 1..c : p[i] = q[i]
      /\ p[c + 1] = body /\ q[c + 1] = new
  BY OtherBody
<1>2. /\ b \in Nat /\ DOMAIN body = 1..b /\ Len(new) = b + m /\ DOMAIN new = 1..b + m
      /\ \A k \in 1..b : new[k] = body[k]
      /\ \A k \in b + 1..b + m : new[k] = n + (k - b)
  BY DEF Lengthens
<1>3. /\ UNION {ToSet(p[i]) : i \in 1..c + 1} \subseteq 1..n
      /\ W \subseteq UNION {ToSet(p[i]) : i \in 1..c + 1}
      /\ \A i, j \in 1..c + 1 : \A k \in DOMAIN p[i], l \in DOMAIN p[j] :
            i < j \/ (i = j /\ k < l) => p[i][k] < p[j][l]
      /\ \A i \in 1..c + 1 : \A k \in 1..Len(p[i]) - 1 :
            p[i][k + 1] = p[i][k] + 1 \/ <<p[i][k], p[i][k + 1]>> \in G
  BY <1>1 DEF Told
<1>4. b # 0 => body[b] = n \/ <<body[b], n + 1>> \in G
  OBVIOUS
<1> HIDE DEF p, q, c, b
<1>5. ToSet(new) = ToSet(body) \cup (n + 1..n + m)
  <2>1. HasMore(new, body, n, m)
    BY Longer, Zenon
  <2>2. QED
    BY <2>1 DEF HasMore
<1>6. UNION {ToSet(q[i]) : i \in 1..c + 1}
        = (UNION {ToSet(p[i]) : i \in 1..c + 1}) \cup (n + 1..n + m)
  <2>1. \A i \in 1..c + 1 :
          ToSet(q[i]) = IF i = c + 1 THEN ToSet(p[i]) \cup (n + 1..n + m) ELSE ToSet(p[i])
    BY <1>1, <1>5
  <2>2. c + 1 \in 1..c + 1
    BY <1>1
  <2>3. QED
    BY <2>1, <2>2
<1>7. ASSUME NEW i \in 1..c + 1, NEW k \in DOMAIN p[i] PROVE p[i][k] \in 1..n
  <2>1. p[i][k] \in ToSet(p[i])
    BY DEF ToSet
  <2>2. QED
    BY <1>3, <2>1
<1>8. ASSUME NEW i \in 1..c + 1, NEW j \in 1..c + 1,
             NEW k \in DOMAIN q[i], NEW l \in DOMAIN q[j], i < j \/ (i = j /\ k < l)
      PROVE  q[i][k] < q[j][l]
  <2>1. CASE j # c + 1
    <3>1. q[i] = p[i] /\ q[j] = p[j]
      BY <1>1, <1>8, <2>1
    <3>2. QED
      BY <1>3, <1>8, <3>1
  <2>2. CASE j = c + 1
    <3>1. l \in 1..b + m /\ q[j][l] = new[l]
      BY <1>1, <1>2, <2>2
    <3>2. CASE l \in 1..b
      <4>1. l \in DOMAIN p[j] /\ q[j][l] = p[j][l]
        BY <1>1, <1>2, <2>2, <3>2
      <4>2. k \in DOMAIN p[i] /\ q[i][k] = p[i][k]
        <5>1. CASE i = c + 1
          <6>1. k \in 1..b
            BY <1>1, <1>2, <1>8, <2>2, <3>2, <5>1
          <6>2. QED
            BY <1>1, <1>2, <5>1, <6>1
        <5>2. CASE i # c + 1
          BY <1>1, <5>2
        <5>3. QED
          BY <5>1, <5>2
      <4>3. QED
        BY <1>3, <1>8, <4>1, <4>2
    <3>3. CASE l \in b + 1..b + m
      <4>1. q[j][l] = n + (l - b)
        BY <1>2, <3>1, <3>3
      <4>2. CASE k \in DOMAIN p[i] /\ q[i][k] = p[i][k]
        <5>1. PICK x \in 1..n : q[i][k] = x
          BY <1>7, <4>2
        <5>2. x < n + (l - b)
          BY <1>2, <3>3
        <5>3. QED
          BY <4>1, <5>1, <5>2
      <4>3. CASE i = c + 1 /\ k \in b + 1..b + m
        <5>1. q[i][k] = n + (k - b)
          BY <1>1, <1>2, <4>3
        <5>2. k < l
          BY <1>8, <2>2, <4>3
        <5>3. n + (k - b) < n + (l - b)
          BY <1>2, <3>3, <4>3, <5>2
        <5>4. QED
          BY <4>1, <5>1, <5>3
      <4>4. CASE i # c + 1
        BY <1>1, <4>2, <4>4
      <4>5. CASE i = c + 1
        <5>1. k \in 1..b + m
          BY <1>1, <1>2, <4>5
        <5>2. k \in 1..b => k \in DOMAIN p[i] /\ q[i][k] = p[i][k]
          BY <1>1, <1>2, <4>5
        <5>3. QED
          BY <1>2, <4>2, <4>3, <4>5, <5>1, <5>2
      <4>6. QED
        BY <4>4, <4>5
    <3>4. QED
      BY <1>2, <3>1, <3>2, <3>3
  <2>3. QED
    BY <2>1, <2>2
<1>9. ASSUME NEW i \in 1..c + 1, NEW k \in 1..Len(q[i]) - 1
      PROVE  q[i][k + 1] = q[i][k] + 1 \/ <<q[i][k], q[i][k + 1]>> \in G
  <2>1. CASE i # c + 1
    <3>1. q[i] = p[i]
      BY <1>1, <2>1
    <3>2. QED
      BY <1>3, <1>9, <3>1
  <2>2. CASE i = c + 1
    <3>1. q[i] = new /\ p[i] = body /\ k \in 1..b + m - 1
      BY <1>1, <1>2, <2>2
    <3>2. PICK k2 \in Nat : k2 = k + 1
      BY <3>1
    <3>3. CASE k < b
      <4>1. k \in 1..b - 1 /\ k \in 1..b /\ k2 \in 1..b
        BY <1>2, <3>1, <3>2, <3>3
      <4>2. body[k2] = body[k] + 1 \/ <<body[k], body[k2]>> \in G
        BY <1>2, <1>3, <3>1, <3>2, <4>1 DEF b
      <4>3. new[k] = body[k] /\ new[k2] = body[k2]
        BY <1>2, <4>1
      <4>4. QED
        BY <3>1, <3>2, <4>2, <4>3
    <3>4. CASE k = b
      <4>1. b # 0 /\ k \in 1..b /\ k2 \in b + 1..b + m /\ k2 - b = 1
        BY <1>2, <3>1, <3>2, <3>4
      <4>2. new[k] = body[b] /\ new[k2] = n + 1
        BY <1>2, <3>4, <4>1
      <4>3. QED
        BY <1>4, <3>1, <3>2, <4>1, <4>2
    <3>5. CASE k > b
      <4>1. k \in b + 1..b + m /\ k2 \in b + 1..b + m
        BY <1>2, <3>1, <3>2, <3>5
      <4>2. new[k] = n + (k - b) /\ new[k2] = n + (k2 - b)
        BY <1>2, <4>1
      <4>3. n + (k2 - b) = n + (k - b) + 1
        BY <1>2, <3>1, <3>2
      <4>4. QED
        BY <3>1, <3>2, <4>2, <4>3
    <3>6. QED
      BY <1>2, <3>1, <3>3, <3>4, <3>5
  <2>3. QED
    BY <2>1, <2>2
<1>10. Told(q, n + m, V, G)
  <2>1. UNION {ToSet(q[i]) : i \in 1..c + 1} \subseteq 1..n + m
    <3>1. 1..n \subseteq 1..n + m /\ n + 1..n + m \subseteq 1..n + m
      OBVIOUS
    <3>2. QED
      BY <1>3, <1>6, <3>1
  <2>2. V \subseteq UNION {ToSet(q[i]) : i \in 1..c + 1}
    BY <1>3, <1>6
  <2>3. QED
    BY <1>1, <1>8, <1>9, <2>1, <2>2 DEF Told
<1>11. QED
  BY <1>10 DEF q

\* What of body remains has no gaps and all of W.
IsTrimmed(new, body, W) ==
    /\ IsSequence(new)
    /\ \E a \in Nat :
          /\ a + Len(new) <= Len(body)
          /\ \A k \in 1..Len(new) : new[k] = body[a + k]
          /\ \A i \in DOMAIN body : body[i] \in W => i - a \in 1..Len(new)

LEMMA TrimIs ==
    ASSUME NEW body, IsSequence(body)
    PROVE  IsTrimmed(Trim(body), body, Written(content)) /\ ToSet(Trim(body)) \subseteq ToSet(body)
<1> DEFINE kept == {i \in DOMAIN body : ~IsBlank(body[i])}
           n == Len(body)
           new == Trim(body)
<1>1. PICK S : body \in Seq(S)
  BY DEF IsSequence
<1>2. n \in Nat /\ DOMAIN body = 1..n /\ kept \subseteq 1..n /\ kept \subseteq Nat
  BY <1>1
<1>3. \A i \in DOMAIN body : body[i] \in Written(content) => i \in kept
  BY DEF Written, IsBlank
<1>4. new = IF kept = {} THEN <<>> ELSE SubSeq(body, Min(kept), Max(kept))
  BY DEF Trim
<1> HIDE DEF kept, n, new
<1>5. CASE kept = {}
  <2>1. new = <<>> /\ Len(new) = 0 /\ IsSequence(new)
    BY <1>4, <1>5, EmptyIsSequence
  <2>2. 0 + Len(new) <= n /\ 1..Len(new) = {} /\ ToSet(new) = {}
    BY <1>2, <2>1, EmptyIsSequence DEF ToSet
  <2>3. IsTrimmed(new, body, Written(content))
    BY <1>3, <1>5, <2>1, <2>2 DEF IsTrimmed, n
  <2>4. QED
    BY <2>2, <2>3 DEF new
<1>6. CASE kept # {}
  <2>1. Min(kept) \in kept /\ \A i \in kept : Min(kept) <= i
    BY <1>2, <1>6, MinIs
  <2>2. Max(kept) \in kept /\ \A i \in kept : Max(kept) >= i
    BY <1>2, <1>6, MaxIs
  <2>3. PICK f \in 1..n : f = Min(kept)
    BY <1>2, <2>1
  <2>4. PICK t \in 1..n : t = Max(kept)
    BY <1>2, <2>2
  <2>5. f <= t /\ new = SubSeq(body, f, t)
    BY <1>4, <1>6, <2>1, <2>2, <2>3, <2>4
  <2>6. \A i \in f..t : body[i] \in S
    BY <1>1, <1>2, ElementOfSeq DEF n
  <2>7. /\ SubSeq(body, f, t) \in Seq(S)
        /\ Len(SubSeq(body, f, t)) = IF f <= t THEN t - f + 1 ELSE 0
        /\ \A i \in 1..t - f + 1 : SubSeq(body, f, t)[i] = body[f + i - 1]
    BY <2>6, SubSeqProperties
  <2>8. PICK a \in Nat : a = f - 1
    BY <1>2
  <2>9. new \in Seq(S) /\ Len(new) = t - a /\ \A i \in 1..t - a : new[i] = body[a + i]
    <3>1. \A i \in 1..t - f + 1 : f + i - 1 = a + i
      BY <2>8
    <3>2. t - f + 1 = t - a
      BY <2>8
    <3>3. QED
      BY <2>5, <2>7, <3>1, <3>2
  <2>10. a + Len(new) <= n
    BY <2>8, <2>9, <1>2
  <2>11. ASSUME NEW i \in DOMAIN body, body[i] \in Written(content) PROVE i - a \in 1..Len(new)
    <3>1. i \in 1..n /\ f <= i /\ i <= t
      BY <1>2, <1>3, <2>1, <2>2, <2>3, <2>4, <2>11
    <3>2. QED
      BY <1>2, <2>8, <2>9, <3>1
  <2>12. IsTrimmed(new, body, Written(content))
    BY <2>9, <2>10, <2>11 DEF IsTrimmed, IsSequence, n
  <2>13. ToSet(new) \subseteq ToSet(body)
    <3>1. DOMAIN new = 1..t - a /\ \A i \in 1..t - a : a + i \in 1..n
      BY <1>2, <2>5, <2>8, <2>9
    <3>2. QED
      BY <1>2, <2>9, <3>1 DEF ToSet
  <2>14. QED
    BY <2>12, <2>13 DEF new
<1>7. QED
  BY <1>5, <1>6

LEMMA ToldTrimmed ==
    ASSUME NEW parts, IsSequence(parts), NEW body, IsSequence(body), NEW new,
           NEW n, NEW W, NEW G, IsTrimmed(new, body, W), Told(PiecesOf(parts, body), n, W, G)
    PROVE  Told(PiecesOf(parts, new), n, W, G)
<1> DEFINE p == PiecesOf(parts, body)
           q == PiecesOf(parts, new)
           c == Len(parts)
           b == Len(body)
           r == Len(new)
<1>1. /\ c \in Nat /\ DOMAIN p = 1..c + 1 /\ DOMAIN q = 1..c + 1
      /\ \A i \in 1..c : p[i] = q[i]
      /\ p[c + 1] = body /\ q[c + 1] = new
  BY OtherBody
<1>2. b \in Nat /\ DOMAIN body = 1..b /\ r \in Nat /\ DOMAIN new = 1..r
  BY DEF IsSequence, IsTrimmed
<1>3. PICK a \in Nat : /\ a + r <= b
                       /\ \A k \in 1..r : new[k] = body[a + k]
                       /\ \A i \in DOMAIN body : body[i] \in W => i - a \in 1..r
  BY DEF IsTrimmed
<1>4. /\ UNION {ToSet(p[i]) : i \in 1..c + 1} \subseteq 1..n
      /\ W \subseteq UNION {ToSet(p[i]) : i \in 1..c + 1}
      /\ \A i, j \in 1..c + 1 : \A k \in DOMAIN p[i], l \in DOMAIN p[j] :
            i < j \/ (i = j /\ k < l) => p[i][k] < p[j][l]
      /\ \A i \in 1..c + 1 : \A k \in 1..Len(p[i]) - 1 :
            p[i][k + 1] = p[i][k] + 1 \/ <<p[i][k], p[i][k + 1]>> \in G
  BY <1>1 DEF Told
<1> HIDE DEF p, q, c, r, b
<1>5. ASSUME NEW k \in 1..r PROVE a + k \in 1..b /\ new[k] = body[a + k]
  BY <1>2, <1>3
<1>6. ToSet(new) \subseteq ToSet(body)
  BY <1>2, <1>5 DEF ToSet
<1>7. ASSUME NEW x \in W, x \in ToSet(body) PROVE x \in ToSet(new)
  <2>1. PICK i \in 1..b : x = body[i]
    BY <1>2, <1>7 DEF ToSet
  <2>2. i - a \in 1..r
    BY <1>2, <1>3, <2>1
  <2>3. PICK k \in 1..r : k = i - a
    BY <2>2
  <2>4. new[k] = body[a + k] /\ a + k = i
    BY <1>3, <2>3
  <2>5. QED
    BY <1>2, <2>1, <2>4 DEF ToSet
<1>8. \A i \in 1..c + 1 : i # c + 1 => q[i] = p[i]
  BY <1>1
<1>9. c + 1 \in 1..c + 1
  BY <1>1
<1>10. UNION {ToSet(q[i]) : i \in 1..c + 1} \subseteq 1..n
  BY <1>1, <1>4, <1>6, <1>8, <1>9
<1>11. W \subseteq UNION {ToSet(q[i]) : i \in 1..c + 1}
  <2> SUFFICES ASSUME NEW x \in W PROVE \E i \in 1..c + 1 : x \in ToSet(q[i])
    OBVIOUS
  <2>1. PICK i \in 1..c + 1 : x \in ToSet(p[i])
    BY <1>4
  <2>2. QED
    BY <1>1, <1>7, <1>8, <2>1
<1>12. ASSUME NEW i \in 1..c + 1, NEW k \in DOMAIN q[i]
       PROVE  \E k2 \in DOMAIN p[i] : /\ q[i][k] = p[i][k2]
                                      /\ k2 = IF i = c + 1 THEN a + k ELSE k
  <2>1. CASE i = c + 1
    <3>1. k \in 1..r
      BY <1>1, <1>2, <2>1
    <3>2. QED
      BY <1>1, <1>2, <1>5, <2>1, <3>1
  <2>2. CASE i # c + 1
    BY <1>8, <2>2
  <2>3. QED
    BY <2>1, <2>2
<1>13. ASSUME NEW i \in 1..c + 1, NEW j \in 1..c + 1,
              NEW k \in DOMAIN q[i], NEW l \in DOMAIN q[j], i < j \/ (i = j /\ k < l)
       PROVE  q[i][k] < q[j][l]
  <2>1. PICK k2 \in DOMAIN p[i] : /\ q[i][k] = p[i][k2]
                                  /\ k2 = IF i = c + 1 THEN a + k ELSE k
    BY <1>12
  <2>2. PICK l2 \in DOMAIN p[j] : /\ q[j][l] = p[j][l2]
                                  /\ l2 = IF j = c + 1 THEN a + l ELSE l
    BY <1>12
  <2>3. i < j \/ (i = j /\ k2 < l2)
    <3>1. CASE i < j
      BY <3>1
    <3>2. CASE i = j /\ k < l /\ i = c + 1
      <4>1. k \in 1..r /\ l \in 1..r
        BY <1>1, <1>2, <3>2
      <4>2. QED
        BY <1>2, <2>1, <2>2, <3>2, <4>1
    <3>3. CASE i = j /\ k < l /\ i # c + 1
      BY <2>1, <2>2, <3>3
    <3>4. QED
      BY <1>13, <3>1, <3>2, <3>3
  <2>4. QED
    BY <1>4, <2>1, <2>2, <2>3
<1>14. ASSUME NEW i \in 1..c + 1, NEW k \in 1..Len(q[i]) - 1
       PROVE  q[i][k + 1] = q[i][k] + 1 \/ <<q[i][k], q[i][k + 1]>> \in G
  <2>1. CASE i # c + 1
    BY <1>4, <1>8, <1>14, <2>1
  <2>2. CASE i = c + 1
    <3>1. q[i] = new /\ p[i] = body /\ k \in 1..r - 1 /\ Len(p[i]) = b
      BY <1>1, <2>2 DEF r, b
    <3>2. PICK k2 \in 1..r : k2 = k + 1
      BY <1>2, <3>1
    <3>3. new[k] = body[a + k] /\ new[k2] = body[a + k2]
      BY <1>2, <1>3, <3>1, <3>2
    <3>4. PICK i1 \in 1..b - 1 : i1 = a + k
      BY <1>2, <1>3, <3>1
    <3>5. PICK i2 \in 1..b : i2 = a + k2
      BY <1>2, <1>3, <3>2
    <3>6. i2 = i1 + 1
      BY <1>2, <3>1, <3>2, <3>4, <3>5
    <3>7. body[i1 + 1] = body[i1] + 1 \/ <<body[i1], body[i1 + 1]>> \in G
      BY <1>4, <3>1, <3>4
    <3>8. QED
      BY <3>1, <3>2, <3>3, <3>4, <3>5, <3>6, <3>7
  <2>3. QED
    BY <2>1, <2>2
<1>15. Told(q, n, W, G)
  BY <1>1, <1>10, <1>11, <1>13, <1>14 DEF Told
<1>16. QED
  BY <1>15 DEF q

\* A chunk is made of what was not yet in one.
LEMMA ToldFlushed ==
    ASSUME NEW parts, IsSequence(parts), NEW body, NEW n, NEW W, NEW G,
           Told(PiecesOf(parts, body), n, W, G), NEW chunk, chunk.raw_text = body
    PROVE  Told(PiecesOf(Append(parts, chunk), <<>>), n, W, G)
<1> DEFINE p == PiecesOf(parts, body)
           longer == Append(parts, chunk)
           q == PiecesOf(longer, <<>>)
           m == Len(parts)
<1>1. /\ m \in Nat /\ DOMAIN p = 1..m + 1
      /\ \A i \in 1..m : p[i] = parts[i].raw_text
      /\ p[m + 1] = body
  BY PiecesIs
<1>2. /\ IsSequence(longer) /\ Len(longer) = m + 1
      /\ \A i \in 1..m : longer[i] = parts[i]
      /\ longer[m + 1] = chunk
  BY AppendIs
<1> HIDE DEF longer
<1>3. /\ DOMAIN q = 1..m + 1 + 1
      /\ \A i \in 1..m + 1 : q[i] = longer[i].raw_text
      /\ q[m + 1 + 1] = <<>>
  BY <1>2, PiecesIs
<1>4. /\ UNION {ToSet(p[i]) : i \in 1..m + 1} \subseteq 1..n
      /\ W \subseteq UNION {ToSet(p[i]) : i \in 1..m + 1}
      /\ \A i, j \in 1..m + 1 : \A k \in DOMAIN p[i], l \in DOMAIN p[j] :
            i < j \/ (i = j /\ k < l) => p[i][k] < p[j][l]
      /\ \A i \in 1..m + 1 : \A k \in 1..Len(p[i]) - 1 :
            p[i][k + 1] = p[i][k] + 1 \/ <<p[i][k], p[i][k + 1]>> \in G
  BY <1>1 DEF Told
<1> HIDE DEF p, q, m
<1>5. \A i \in 1..m + 1 : q[i] = p[i]
  BY <1>1, <1>2, <1>3
<1>6. 1..m + 1 + 1 = 1..m + 1 \cup {m + 1 + 1}
  BY <1>1
<1>7. /\ DOMAIN q[m + 1 + 1] = {} /\ ToSet(q[m + 1 + 1]) = {}
      /\ 1..Len(q[m + 1 + 1]) - 1 = {}
  BY <1>3, EmptyIsSequence DEF ToSet
<1>8. UNION {ToSet(q[i]) : i \in 1..m + 1 + 1} = UNION {ToSet(p[i]) : i \in 1..m + 1}
  BY <1>5, <1>6, <1>7
<1>9. \A i, j \in 1..m + 1 + 1 : \A k \in DOMAIN q[i], l \in DOMAIN q[j] :
            i < j \/ (i = j /\ k < l) => q[i][k] < q[j][l]
  BY <1>4, <1>5, <1>6, <1>7
<1>10. \A i \in 1..m + 1 + 1 : \A k \in 1..Len(q[i]) - 1 :
            q[i][k + 1] = q[i][k] + 1 \/ <<q[i][k], q[i][k + 1]>> \in G
  BY <1>4, <1>5, <1>6, <1>7
<1>11. Told(q, n, W, G)
  BY <1>3, <1>4, <1>8, <1>9, <1>10 DEF Told
<1>12. QED
  BY <1>11 DEF q, longer

\* What the chunks and the text not yet in one tell.
TextTold ==
    Told(PiecesOf(chunks, IF ended THEN <<>> ELSE current_body),
         Len(content), Written(content), Parted(lines, content))

LEMMA TextToldNext ==
    TextTold' <=> Told(PiecesOf(chunks', IF ended' THEN <<>> ELSE current_body'),
                       Len(content'), Written(content'), Parted(lines', content'))
BY DEF TextTold, Told, PiecesOf, Written, Parted, FirstIn

\* The next character of the text joins the last one of current_body, or the first
\* heading stands between them.
BodyGoesOn ==
    ended \/ current_body = <<>> \/
    LET last == current_body[Len(current_body)]
    IN  \/ last = Len(content)
        \/ \E h \in DOMAIN lines : FirstIn(lines, h) /\ content[last].line < h

\* The text before the first heading has no chunk yet.
TextInv ==
    /\ IsSequence(lines) /\ IsSequence(chunks) /\ IsSequence(current_body) /\ IsSequence(headings)
    /\ IsSequence(content)
    /\ ended \in BOOLEAN
    /\ \A i \in DOMAIN chunks : IsSequence(chunks[i].raw_text)
    /\ \A p \in DOMAIN content : content[p].line \in 1..Len(lines)
    /\ headings = <<>> => /\ chunks = <<>> \/ ended
                          /\ \A n \in DOMAIN lines : ~(lines[n].level > 0)
    /\ BodyGoesOn
    /\ TextTold

LEMMA LostIs == ASSUME IsSequence(content), TextTold PROVE NothingLost
<1> DEFINE pieces == PiecesOf(chunks, IF ended THEN <<>> ELSE current_body)
<1>1. Told(pieces, Len(content), Written(content), Parted(lines, content))
  BY DEF TextTold
<1>2. DOMAIN content = 1..Len(content)
  BY DEF IsSequence
<1>3. Pieces = pieces
  BY DEF Pieces, PiecesOf
<1> HIDE DEF pieces
<1>4. /\ UNION {ToSet(pieces[i]) : i \in DOMAIN pieces} \subseteq DOMAIN content
      /\ Written(content) \subseteq UNION {ToSet(pieces[i]) : i \in DOMAIN pieces}
      /\ \A i, j \in DOMAIN pieces : \A k \in DOMAIN pieces[i], l \in DOMAIN pieces[j] :
              i < j \/ (i = j /\ k < l) => pieces[i][k] < pieces[j][l]
  BY <1>1, <1>2 DEF Told
<1>5. \A p \in DOMAIN content :
         IsBlank(p) \/ p \in UNION {ToSet(pieces[i]) : i \in DOMAIN pieces}
  BY <1>4 DEF Written, IsBlank
<1>6. ASSUME NEW i \in DOMAIN pieces, NEW k \in 1..Len(pieces[i]) - 1
      PROVE  \/ pieces[i][k + 1] = pieces[i][k] + 1
             \/ \E h \in DOMAIN lines :
                  /\ FirstHeading(h)
                  /\ content[pieces[i][k]].line < h /\ h < content[pieces[i][k + 1]].line
  <2>1. \/ pieces[i][k + 1] = pieces[i][k] + 1
        \/ <<pieces[i][k], pieces[i][k + 1]>> \in Parted(lines, content)
    BY <1>1 DEF Told
  <2>2. ASSUME NEW p, NEW q, <<p, q>> \in Parted(lines, content)
        PROVE  \E h \in DOMAIN lines :
                  FirstHeading(h) /\ content[p].line < h /\ h < content[q].line
    BY <2>2 DEF Parted, FirstIn, FirstHeading, IsHeading
  <2>3. QED
    BY <2>1, <2>2
<1>7. QED
  BY <1>3, <1>4, <1>5, <1>6 DEF NothingLost

\* No document, or one of which nothing has been read.
LEMMA TextNew ==
    ASSUME NEW G
    PROVE  Told(PiecesOf(<<>>, <<>>), Len(<<>>), Written(<<>>), G)
<1>1. /\ DOMAIN PiecesOf(<<>>, <<>>) = {1}
      /\ PiecesOf(<<>>, <<>>)[1] = <<>>
  <2>1. 1..0 + 1 = {1}
    OBVIOUS
  <2>2. QED
    BY <2>1, EmptyIsSequence, PiecesIs
<1>2. ToSet(<<>>) = {} /\ Written(<<>>) = {} /\ 1..Len(<<>>) - 1 = {}
  BY EmptyIsSequence DEF ToSet, Written
<1> HIDE DEF PiecesOf
<1>3. QED
  BY <1>1, <1>2, EmptyIsSequence DEF Told

\* One more line.
LEMMA LineIs ==
    ASSUME IsSequence(lines), NEW line, lines' = Append(lines, line)
    PROVE  /\ IsSequence(lines') /\ Len(lines) \in Nat /\ Len(lines') = Len(lines) + 1
           /\ DOMAIN lines = 1..Len(lines) /\ DOMAIN lines' = 1..Len(lines) + 1
           /\ \A n \in 1..Len(lines) : lines'[n] = lines[n]
           /\ lines'[Len(lines) + 1] = line
BY AppendIs

\* The first heading stays the first.
LEMMA FirstStays ==
    ASSUME IsSequence(lines), NEW line, lines' = Append(lines, line), NEW h, FirstIn(lines, h)
    PROVE  FirstIn(lines', h)
<1>1. /\ Len(lines) \in Nat /\ DOMAIN lines = 1..Len(lines) /\ DOMAIN lines' = 1..Len(lines) + 1
      /\ \A n \in 1..Len(lines) : lines'[n] = lines[n]
  BY LineIs
<1>2. h \in 1..Len(lines) /\ \A g \in 1..h - 1 : g \in 1..Len(lines)
  BY <1>1 DEF FirstIn
<1>3. QED
  BY <1>1, <1>2 DEF FirstIn

\* The characters of one more line.
LEMMA ContentIs ==
    ASSUME IsSequence(content), NEW text \in Text, NEW n, content' = content \o Characters(text, n)
    PROVE  LET m == Len(text) + 1
           IN  /\ m \in Nat /\ Len(content) \in Nat /\ DOMAIN content = 1..Len(content)
               /\ IsSequence(content') /\ Len(content') = Len(content) + m
               /\ DOMAIN content' = 1..Len(content) + m
               /\ \A p \in 1..Len(content) : content'[p] = content[p]
               /\ \A p \in Len(content) + 1..Len(content) + m :
                     content'[p].line = n /\ content'[p].character \in Char
<1> DEFINE m == Len(text) + 1
           new == Characters(text, n)
<1>1. text \in Seq(Char) /\ Len(text) \in Nat /\ m \in Nat
  BY IndexAssumption
<1>2. new = [i \in 1..m |-> new[i]]
  BY DEF Characters
<1>3. \A i \in 1..m : new[i].line = n /\ new[i].character \in Char
  <2>1. \A i \in 1..Len(text) : text[i] \in Char
    BY <1>1
  <2>2. " " \in Char
    BY DEF Char
  <2>3. \A i \in 1..m : IF i <= Len(text) THEN text[i] \in Char ELSE TRUE
    BY <1>1, <2>1
  <2>4. \A i \in 1..m :
          new[i] = [line |-> n, character |-> IF i <= Len(text) THEN text[i] ELSE " "]
    BY DEF Characters
  <2> HIDE DEF new, m
  <2>5. ASSUME NEW i \in 1..m PROVE new[i].line = n /\ new[i].character \in Char
    <3>1. PICK c : new[i] = [line |-> n, character |-> c] /\ c = IF i <= Len(text) THEN text[i] ELSE " "
      BY <2>4
    <3>2. c \in Char
      <4>1. CASE i <= Len(text)
        <5>1. c = text[i]
          BY <3>1, <4>1
        <5>2. text[i] \in Char
          BY <2>3, <4>1
        <5>3. QED
          BY <5>1, <5>2
      <4>2. CASE ~(i <= Len(text))
        BY <2>2, <3>1, <4>2
      <4>3. QED
        BY <4>1, <4>2
    <3>3. new[i].line = n /\ new[i].character = c
      <4>1. \A e, x : e = [line |-> n, character |-> x] => e.line = n /\ e.character = x
        OBVIOUS
      <4>2. QED
        BY <3>1, <4>1, Zenon
    <3>4. QED
      BY <3>2, <3>3
  <2>6. QED
    BY <2>5
<1> HIDE DEF new, m
<1>4. /\ IsSequence(content \o new)
      /\ Len(content \o new) = Len(content) + m /\ Len(content) \in Nat
      /\ DOMAIN content = 1..Len(content) /\ DOMAIN (content \o new) = 1..Len(content) + m
      /\ \A i \in 1..Len(content) : (content \o new)[i] = content[i]
      /\ \A i \in Len(content) + 1..Len(content) + m :
            i - Len(content) \in 1..m /\ (content \o new)[i] = new[i - Len(content)]
  BY <1>1, <1>2, ConcatIs
<1>5. content' = content \o new
  BY DEF new
<1>6. QED
  BY <1>1, <1>3, <1>4, <1>5 DEF m

\* flushCurrent moves the text into a chunk.
LEMMA FlushTells ==
    ASSUME TextInv, FlushCurrent, NEW n, NEW G,
           Told(PiecesOf(chunks, current_body), n, Written(content), G)
    PROVE  /\ Told(PiecesOf(chunks', current_body'), n, Written(content), G)
           /\ IsSequence(chunks') /\ IsSequence(current_body')
           /\ \A i \in DOMAIN chunks' : IsSequence(chunks'[i].raw_text)
           /\ headings = <<>> => chunks' = chunks
           /\ headings = <<>> \/ current_body' = <<>>
           /\ current_body' = <<>> \/ current_body' = Trim(current_body)
<1> DEFINE body == Trim(current_body)
<1>1. IsTrimmed(body, current_body, Written(content)) /\ IsSequence(body)
  BY TrimIs DEF TextInv, IsTrimmed
<1>2. Told(PiecesOf(chunks, body), n, Written(content), G)
  BY <1>1, ToldTrimmed DEF TextInv
<1>3. CASE body = <<>> \/ headings = <<>>
  <2>1. current_body' = body /\ chunks' = chunks
    BY <1>3 DEF FlushCurrent
  <2>2. QED
    BY <1>1, <1>2, <1>3, <2>1 DEF TextInv
<1>4. CASE ~(body = <<>> \/ headings = <<>>)
  <2> DEFINE chunk == [id |-> first_chunk_id + Len(chunks), title |-> document_title,
                       heading_path |-> JoinHeadings, raw_text |-> body]
  <2>1. chunks' = Append(chunks, chunk) /\ current_body' = <<>> /\ chunk.raw_text = body
    BY <1>4 DEF FlushCurrent
  <2> HIDE DEF chunk, body
  <2>2. IsSequence(chunks)
    BY DEF TextInv
  <2>3. Told(PiecesOf(chunks', <<>>), n, Written(content), G)
    BY <1>2, <2>1, <2>2, ToldFlushed
  <2>4. /\ IsSequence(chunks') /\ DOMAIN chunks = 1..Len(chunks) /\ Len(chunks) \in Nat
        /\ DOMAIN chunks' = 1..Len(chunks) + 1
        /\ \A i \in 1..Len(chunks) : chunks'[i] = chunks[i]
        /\ chunks'[Len(chunks) + 1] = chunk
    BY <2>1, <2>2, AppendIs
  <2>5. \A i \in 1..Len(chunks) + 1 : i \in 1..Len(chunks) \/ i = Len(chunks) + 1
    BY <2>4
  <2>6. \A i \in DOMAIN chunks' : IsSequence(chunks'[i].raw_text)
    BY <1>1, <2>1, <2>4, <2>5 DEF TextInv
  <2>7. QED
    BY <1>4, <2>1, <2>3, <2>4, <2>6, EmptyIsSequence
<1>5. QED
  BY <1>3, <1>4

\* The text goes on: content with the characters of the line, current_body with
\* their places.
LEMMA ReadIs ==
    ASSUME TextInv, NEW text \in Text, ReadText(text)
    PROVE  LET n == Len(content)
               m == Len(text) + 1
           IN  /\ m \in Nat /\ m # 0 /\ n \in Nat /\ DOMAIN content = 1..n
               /\ IsSequence(content') /\ Len(content') = n + m /\ DOMAIN content' = 1..n + m
               /\ \A p \in 1..n : content'[p] = content[p]
               /\ \A p \in n + 1..n + m :
                     content'[p].line = Len(lines) + 1 /\ content'[p].character \in Char
               /\ IsSequence(current_body') /\ Lengthens(current_body', current_body, n, m)
<1> DEFINE n == Len(content)
           m == Len(text) + 1
           more == [i \in 1..Len(text) + 1 |-> Len(content) + i]
           b == Len(current_body)
           N == Len(lines)
<1>1. /\ lines' = Append(lines, [level |-> 0])
      /\ content' = content \o Characters(text, Len(lines'))
      /\ current_body' = current_body \o more
  BY DEF ReadText
<1>2. Len(lines') = N + 1
  BY <1>1, LineIs DEF TextInv
<1>3. /\ m \in Nat /\ m # 0 /\ n \in Nat /\ DOMAIN content = 1..n
      /\ IsSequence(content') /\ Len(content') = n + m /\ DOMAIN content' = 1..n + m
      /\ \A p \in 1..n : content'[p] = content[p]
      /\ \A p \in n + 1..n + m : content'[p].line = N + 1 /\ content'[p].character \in Char
  <2>1. IsSequence(content) /\ content' = content \o Characters(text, N + 1)
    BY <1>1, <1>2 DEF TextInv
  <2>2. Len(text) \in Nat
    BY IndexAssumption
  <2> HIDE DEF n, m
  <2>3. /\ m \in Nat /\ n \in Nat /\ DOMAIN content = 1..n
        /\ IsSequence(content') /\ Len(content') = n + m /\ DOMAIN content' = 1..n + m
        /\ \A p \in 1..n : content'[p] = content[p]
        /\ \A p \in n + 1..n + m : content'[p].line = N + 1 /\ content'[p].character \in Char
    BY <2>1, ContentIs DEF n, m
  <2>4. m # 0
    BY <2>2 DEF m
  <2>5. QED
    BY <2>3, <2>4
<1>4. IsSequence(current_body') /\ Lengthens(current_body', current_body, n, m)
  <2>1. more = [i \in 1..m |-> more[i]] /\ \A i \in 1..m : more[i] = n + i
    OBVIOUS
  <2> HIDE DEF more, m, n
  <2>2. IsSequence(current_body) /\ current_body' = current_body \o more
    BY <1>1 DEF TextInv
  <2>3. /\ IsSequence(current_body')
        /\ Len(current_body') = b + m /\ b \in Nat
        /\ DOMAIN current_body = 1..b /\ DOMAIN current_body' = 1..b + m
        /\ \A i \in 1..b : current_body'[i] = current_body[i]
        /\ \A i \in b + 1..b + m :
              i - b \in 1..m /\ current_body'[i] = more[i - b]
    <3>1. m \in Nat
      BY <1>3
    <3> HIDE DEF b
    <3>2. QED
      BY <2>1, <2>2, <3>1, ConcatIs DEF b
  <2>4. QED
    BY <2>1, <2>3 DEF Lengthens
<1>5. QED
  BY <1>3, <1>4

LEMMA TextRead == ASSUME TextInv, NEW text \in Text, ReadText(text) PROVE TextInv'
<1> DEFINE line == [level |-> 0]
           n == Len(content)
           m == Len(text) + 1
           b == Len(current_body)
           N == Len(lines)
<1>1. /\ ~ended /\ lines' = Append(lines, line) /\ line.level = 0
      /\ UNCHANGED <<headings, chunks, ended>>
  BY DEF ReadText
<1> HIDE DEF line
<1>2. /\ IsSequence(lines') /\ N \in Nat /\ Len(lines') = N + 1
      /\ DOMAIN lines = 1..N /\ DOMAIN lines' = 1..N + 1
      /\ \A k \in 1..N : lines'[k] = lines[k]
      /\ lines'[N + 1] = line
      /\ \A k \in 1..N + 1 : k \in 1..N \/ k = N + 1
  <2>1. /\ IsSequence(lines') /\ N \in Nat /\ Len(lines') = N + 1
        /\ DOMAIN lines = 1..N /\ DOMAIN lines' = 1..N + 1
        /\ \A k \in 1..N : lines'[k] = lines[k]
        /\ lines'[N + 1] = line
    BY <1>1, LineIs DEF TextInv
  <2>2. QED
    BY <2>1
<1> HIDE DEF n, m, b, N
<1>3. /\ m \in Nat /\ m # 0 /\ n \in Nat /\ DOMAIN content = 1..n
      /\ IsSequence(content') /\ Len(content') = n + m /\ DOMAIN content' = 1..n + m
      /\ \A p \in 1..n : content'[p] = content[p]
      /\ \A p \in n + 1..n + m : content'[p].line = N + 1
      /\ IsSequence(current_body') /\ Lengthens(current_body', current_body, n, m)
  BY ReadIs DEF n, m, N
<1>4. IsSequence(current_body') /\ Lengthens(current_body', current_body, n, m)
  BY <1>3
<1>5. Told(PiecesOf(chunks, current_body), n, Written(content), Parted(lines, content))
  BY <1>1 DEF TextInv, TextTold, n
<1>6. Parted(lines, content) \subseteq Parted(lines', content')
  <2> SUFFICES ASSUME NEW p \in 1..n, NEW q \in 1..n, NEW h \in DOMAIN lines, FirstIn(lines, h),
                      content[p].line < h, h < content[q].line
               PROVE  <<p, q>> \in Parted(lines', content')
    BY <1>3 DEF Parted
  <2>1. FirstIn(lines', h)
    BY <1>1, FirstStays DEF TextInv
  <2>2. h \in DOMAIN lines' /\ p \in DOMAIN content' /\ q \in DOMAIN content'
    BY <1>2, <1>3
  <2>3. content'[p] = content[p] /\ content'[q] = content[q]
    BY <1>3
  <2>4. QED
    BY <2>1, <2>2, <2>3 DEF Parted
<1>7. Told(PiecesOf(chunks, current_body), n, Written(content), Parted(lines', content'))
  BY <1>5, <1>6, ToldWider
<1>8. Written(content') \subseteq Written(content) \cup (n + 1..n + m)
  <2>1. \A p \in 1..n + m : p \in 1..n \/ p \in n + 1..n + m
    BY <1>3
  <2>2. QED
    BY <1>3, <2>1 DEF Written
<1>9. b # 0 => \/ current_body[b] = n
               \/ <<current_body[b], n + 1>> \in Parted(lines', content')
  <2> SUFFICES ASSUME b # 0, current_body[b] # n
               PROVE  <<current_body[b], n + 1>> \in Parted(lines', content')
    OBVIOUS
  <2> DEFINE last == current_body[b]
  <2>1. current_body # <<>>
    BY EmptyIsSequence DEF b
  <2>2. PICK h \in DOMAIN lines : FirstIn(lines, h) /\ content[last].line < h
    BY <1>1, <2>1 DEF TextInv, BodyGoesOn, b, n
  <2>3. FirstIn(lines', h)
    BY <1>1, <2>2, FirstStays DEF TextInv
  <2>4. last \in 1..n
    <3>1. b \in DOMAIN current_body
      <4>1. b \in Nat /\ DOMAIN current_body = 1..b
        BY DEF TextInv, IsSequence, b
      <4>2. QED
        BY <4>1
    <3>2. last \in ToSet(current_body)
      BY <3>1 DEF ToSet
    <3>3. /\ Len(chunks) + 1 \in DOMAIN PiecesOf(chunks, current_body)
          /\ PiecesOf(chunks, current_body)[Len(chunks) + 1] = current_body
      <4>1. /\ Len(chunks) \in Nat
            /\ DOMAIN PiecesOf(chunks, current_body) = 1..Len(chunks) + 1
            /\ PiecesOf(chunks, current_body)[Len(chunks) + 1] = current_body
        BY PiecesIs DEF TextInv
      <4>2. QED
        BY <4>1
    <3>4. QED
      BY <1>5, <3>2, <3>3 DEF Told
  <2>5. n + 1 \in n + 1..n + m /\ n + 1 \in 1..n + m /\ last \in 1..n + m
    BY <1>3, <2>4
  <2>6. content'[last] = content[last] /\ content'[n + 1].line = N + 1
    BY <1>3, <2>4, <2>5
  <2>7. h \in 1..N + 1 /\ h < N + 1
    BY <1>2, <2>2
  <2>8. QED
    BY <1>2, <1>3, <2>2, <2>3, <2>5, <2>6, <2>7 DEF Parted
<1>10. Told(PiecesOf(chunks, current_body'), n + m, Written(content'), Parted(lines', content'))
  <2>1. Len(current_body) # 0 =>
           \/ current_body[Len(current_body)] = n
           \/ <<current_body[Len(current_body)], n + 1>> \in Parted(lines', content')
    BY <1>9 DEF b
  <2>2. IsSequence(chunks)
    BY DEF TextInv
  <2>3. QED
    BY <1>3, <1>4, <1>7, <1>8, <2>1, <2>2, ToldMore
<1>11. TextTold'
  BY <1>1, <1>3, <1>10, TextToldNext
<1>12. BodyGoesOn'
  <2>1. Len(current_body') = b + m /\ b \in Nat
        /\ \A k \in b + 1..b + m : current_body'[k] = n + (k - b)
    BY <1>4 DEF Lengthens, b
  <2>2. PICK k \in b + 1..b + m : k = Len(current_body')
    BY <1>3, <2>1
  <2>3. current_body'[k] = n + m
    BY <1>3, <2>1, <2>2
  <2>4. QED
    BY <1>3, <2>2, <2>3 DEF BodyGoesOn
<1>13. \A p \in DOMAIN content' : content'[p].line \in 1..Len(lines')
  <2>1. \A p \in 1..n + m : p \in 1..n \/ p \in n + 1..n + m
    BY <1>3
  <2>2. \A p \in 1..n : content[p].line \in 1..N
    BY <1>3 DEF TextInv, N
  <2>3. 1..N \subseteq 1..N + 1 /\ N + 1 \in 1..N + 1
    BY <1>2
  <2>4. QED
    BY <1>2, <1>3, <2>1, <2>2, <2>3
<1>14. headings' = <<>> => \A k \in DOMAIN lines' : ~(lines'[k].level > 0)
  <2>1. ~(line.level > 0)
    BY <1>1
  <2>2. QED
    BY <1>1, <1>2, <2>1 DEF TextInv
<1>15. QED
  BY <1>1, <1>2, <1>3, <1>4, <1>11, <1>12, <1>13, <1>14 DEF TextInv

LEMMA TextHeading ==
    ASSUME TextInv, NEW level \in 1..MaxLevel, NEW named, ReadHeading(level, named)
    PROVE  TextInv'
<1> DEFINE line == [level |-> level, named |-> named]
           N == Len(lines)
<1>1. /\ ~ended /\ lines' = Append(lines, line) /\ line.level > 0
      /\ FlushCurrent
      /\ headings' = Append(Cut(level), Len(lines'))
      /\ UNCHANGED <<content, ended>>
  BY ChunkerAssumption DEF ReadHeading
<1> HIDE DEF line
<1>2. /\ IsSequence(lines') /\ N \in Nat /\ Len(lines') = N + 1
      /\ DOMAIN lines = 1..N /\ DOMAIN lines' = 1..N + 1
      /\ \A k \in 1..N : lines'[k] = lines[k]
      /\ lines'[N + 1] = line
  BY <1>1, LineIs DEF TextInv
<1> HIDE DEF N
<1>3. Told(PiecesOf(chunks, current_body), Len(content), Written(content), Parted(lines, content))
  BY <1>1 DEF TextInv, TextTold
<1>4. /\ Told(PiecesOf(chunks', current_body'), Len(content), Written(content), Parted(lines, content))
      /\ IsSequence(chunks') /\ IsSequence(current_body')
      /\ \A i \in DOMAIN chunks' : IsSequence(chunks'[i].raw_text)
      /\ headings = <<>> \/ current_body' = <<>>
      /\ current_body' = <<>> \/ current_body' = Trim(current_body)
  BY <1>1, <1>3, FlushTells
<1>5. Parted(lines, content) \subseteq Parted(lines', content')
  <2> SUFFICES ASSUME NEW p \in DOMAIN content, NEW q \in DOMAIN content, NEW h \in DOMAIN lines,
                      FirstIn(lines, h), content[p].line < h, h < content[q].line
               PROVE  <<p, q>> \in Parted(lines', content)
    BY <1>1 DEF Parted
  <2>1. FirstIn(lines', h)
    BY <1>1, FirstStays DEF TextInv
  <2>2. h \in DOMAIN lines'
    BY <1>2
  <2>3. QED
    BY <2>1, <2>2 DEF Parted
<1>6. TextTold'
  <2>1. Told(PiecesOf(chunks', current_body'), Len(content), Written(content), Parted(lines', content'))
    BY <1>4, <1>5, ToldWider
  <2>2. QED
    BY <1>1, <2>1, TextToldNext
<1>7. IsSequence(Cut(level))
  <2>1. CASE Len(headings) >= level
    <3>1. PICK S : headings \in Seq(S)
      BY DEF TextInv, IsSequence
    <3>2. level \in Nat
      BY ChunkerAssumption
    <3>3. SubSeq(headings, 1, level - 1) \in Seq(S)
      BY <2>1, <3>1, <3>2
    <3>4. QED
      BY <2>1, <3>3 DEF Cut, IsSequence
  <2>2. CASE ~(Len(headings) >= level)
    BY <2>2 DEF Cut, TextInv
  <2>3. QED
    BY <2>1, <2>2
<1>8. IsSequence(headings') /\ headings' # <<>>
  BY <1>1, <1>7, AppendIs, EmptyIsSequence
<1>9. BodyGoesOn'
  <2> SUFFICES ASSUME current_body' # <<>>
               PROVE  \E h \in DOMAIN lines' :
                         /\ FirstIn(lines', h)
                         /\ content'[current_body'[Len(current_body')]].line < h
    BY DEF BodyGoesOn, FirstIn
  <2>1. headings = <<>> /\ current_body' = Trim(current_body)
    BY <1>4
  <2>2. FirstIn(lines', N + 1)
    <3>1. \A k \in 1..N : ~(lines'[k].level > 0)
      BY <1>2, <2>1 DEF TextInv
    <3>2. N + 1 - 1 = N /\ N + 1 \in 1..N + 1
      BY <1>2
    <3>3. QED
      BY <1>1, <1>2, <3>1, <3>2 DEF FirstIn
  <2> DEFINE last == current_body'[Len(current_body')]
  <2>3. last \in DOMAIN content
    <3>1. Len(current_body') \in DOMAIN current_body'
      <4>1. PICK S : current_body' \in Seq(S)
        BY <1>4 DEF IsSequence
      <4>2. QED
        BY <4>1
    <3>2. last \in ToSet(current_body')
      BY <3>1 DEF ToSet
    <3>3. /\ Len(chunks') + 1 \in DOMAIN PiecesOf(chunks', current_body')
          /\ PiecesOf(chunks', current_body')[Len(chunks') + 1] = current_body'
      <4>1. /\ Len(chunks') \in Nat
            /\ DOMAIN PiecesOf(chunks', current_body') = 1..Len(chunks') + 1
            /\ PiecesOf(chunks', current_body')[Len(chunks') + 1] = current_body'
        BY <1>4, PiecesIs
      <4>2. QED
        BY <4>1
    <3>4. DOMAIN content = 1..Len(content)
      BY DEF TextInv, IsSequence
    <3>5. QED
      BY <1>4, <3>2, <3>3, <3>4 DEF Told
  <2>4. content'[last].line \in 1..N
    BY <1>1, <2>3 DEF TextInv, N
  <2>5. content'[last].line < N + 1 /\ N + 1 \in DOMAIN lines'
    BY <1>2, <2>4
  <2>6. QED
    BY <2>2, <2>5
<1>10. \A p \in DOMAIN content' : content'[p].line \in 1..Len(lines')
  <2>1. 1..N \subseteq 1..N + 1
    BY <1>2
  <2>2. QED
    BY <1>1, <1>2, <2>1 DEF TextInv, N
<1>11. QED
  BY <1>1, <1>2, <1>4, <1>6, <1>8, <1>9, <1>10 DEF TextInv

LEMMA TextEnd == ASSUME TextInv, EndDocument PROVE TextInv'
<1> DEFINE body == Trim(current_body)
<1>1. ~ended /\ ended' = TRUE /\ UNCHANGED <<lines, content, headings>>
  BY DEF EndDocument
<1>2. Told(PiecesOf(chunks, current_body), Len(content), Written(content), Parted(lines, content))
  BY <1>1 DEF TextInv, TextTold
<1>3. BodyGoesOn'
  BY <1>1 DEF BodyGoesOn
<1>4. CASE headings = <<>> /\ body # <<>>
  <2> DEFINE chunk == [id |-> first_chunk_id, title |-> 0, heading_path |-> <<0>>,
                       raw_text |-> body]
  <2>1. chunks' = <<chunk>> /\ current_body' = body /\ chunk.raw_text = body
    BY <1>4 DEF EndDocument
  <2>2. IsTrimmed(body, current_body, Written(content)) /\ IsSequence(body)
    BY TrimIs DEF TextInv, IsTrimmed
  <2>3. Told(PiecesOf(chunks, body), Len(content), Written(content), Parted(lines, content))
    BY <1>2, <2>2, ToldTrimmed DEF TextInv
  <2> HIDE DEF chunk, body
  <2>4. chunks = <<>> /\ IsSequence(<<>>) /\ Append(<<>>, chunk) = <<chunk>>
    BY <1>1, <1>4, EmptyIsSequence DEF TextInv
  <2>5. Told(PiecesOf(chunks', <<>>), Len(content), Written(content), Parted(lines, content))
    BY <2>1, <2>3, <2>4, ToldFlushed
  <2>6. TextTold'
    BY <1>1, <2>5, TextToldNext
  <2>7. IsSequence(chunks') /\ \A i \in DOMAIN chunks' : IsSequence(chunks'[i].raw_text)
    <3>1. IsSequence(Append(<<>>, chunk))
      BY <2>4, AppendIs
    <3>2. DOMAIN <<chunk>> = 1..1 /\ <<chunk>>[1] = chunk
      OBVIOUS
    <3>3. QED
      BY <2>1, <2>2, <2>4, <3>1, <3>2
  <2>8. QED
    BY <1>1, <1>3, <2>1, <2>2, <2>6, <2>7 DEF TextInv
<1>5. CASE ~(headings = <<>> /\ body # <<>>)
  <2>1. FlushCurrent
    BY <1>5 DEF EndDocument
  <2>2. /\ Told(PiecesOf(chunks', current_body'), Len(content), Written(content), Parted(lines, content))
        /\ IsSequence(chunks') /\ IsSequence(current_body')
        /\ \A i \in DOMAIN chunks' : IsSequence(chunks'[i].raw_text)
        /\ headings = <<>> \/ current_body' = <<>>
    BY <1>2, <2>1, FlushTells
  <2>3. current_body' = <<>>
    BY <1>5, <2>1, <2>2 DEF FlushCurrent
  <2>4. TextTold'
    BY <1>1, <2>2, <2>3, TextToldNext
  <2>5. QED
    BY <1>1, <1>3, <2>2, <2>4 DEF TextInv
<1>6. QED
  BY <1>4, <1>5

LEMMA TextReset ==
    ASSUME lines' = <<>>, content' = <<>>, headings' = <<>>, current_body' = <<>>, chunks' = <<>>,
           ended' = FALSE
    PROVE  TextInv'
<1>1. Told(PiecesOf(<<>>, <<>>), Len(<<>>), Written(<<>>), Parted(<<>>, <<>>))
  BY TextNew
<1>2. TextTold'
  BY <1>1, TextToldNext
<1>3. BodyGoesOn'
  BY DEF BodyGoesOn
<1>4. QED
  BY <1>2, <1>3, EmptyIsSequence DEF TextInv

LEMMA TextInit == Init => TextInv
<1> SUFFICES ASSUME Init PROVE TextInv
  OBVIOUS
<1>1. /\ lines = <<>> /\ content = <<>> /\ headings = <<>> /\ current_body = <<>> /\ chunks = <<>>
      /\ ended = FALSE
  BY DEF Init, ChunkerInit
<1>2. Told(PiecesOf(<<>>, <<>>), Len(<<>>), Written(<<>>), Parted(<<>>, <<>>))
  BY TextNew
<1>3. TextTold
  BY <1>1, <1>2 DEF TextTold
<1>4. BodyGoesOn
  BY <1>1 DEF BodyGoesOn
<1>5. QED
  BY <1>1, <1>3, <1>4, EmptyIsSequence DEF TextInv

LEMMA TextStep == ASSUME TextInv, [Next]_vars PROVE TextInv'
<1>1. CASE ReadLine
  BY <1>1, TextRead, TextHeading, TextEnd DEF ReadLine
<1>2. CASE KeepChunks
  BY <1>2, TextReset DEF KeepChunks
<1>3. CASE LoadFails \/ OpenDocument \/ EndLoading \/ IndexChunk \/ Serve \/ UNCHANGED vars
  <2>1. UNCHANGED <<lines, content, headings, current_body, chunks, ended>>
    BY <1>3 DEF LoadFails, OpenDocument, EndLoading, IndexChunk, Serve, vars, chunkerVars,
                documentVars
  <2>2. TextTold'
    BY <2>1, TextToldNext DEF TextInv, TextTold
  <2>3. BodyGoesOn'
    BY <2>1 DEF TextInv, BodyGoesOn, FirstIn
  <2>4. QED
    BY <2>1, <2>2, <2>3 DEF TextInv
<1>4. QED
  BY <1>1, <1>2, <1>3 DEF Next

LEMMA TextInvariance == Spec => []TextInv
<1>1. TextInv /\ [Next]_vars => TextInv'
  BY TextStep
<1>2. QED
  BY <1>1, TextInit, PTL DEF Spec

\* For documents of any number and length, and at every moment: every character of
\* the text that is not blank is in exactly one chunk or waits to be flushed, in the
\* order of the document, and a chunk leaves out nothing between two of its
\* characters unless the first heading stands between them (chunkMarkdown,
\* flushCurrent and the end of the loop).
THEOREM NoTextIsLost == Spec => []NothingLost
<1>1. TextInv => NothingLost
  BY LostIs DEF TextInv
<1>2. QED
  BY <1>1, TextInvariance, PTL

--------------------------------------------------------------------------------
(* Folds over sequences.                                                     *)

\* f folds the function H, from b on, over each subset of 1..n, its largest element
\* last.
Folds(f, n, b, H) ==
    \A s \in SUBSET (1..n) : f[s] = IF s = {} THEN b ELSE H[Max(s)][f[s \ {Max(s)}]]

LEMMA FoldsExist ==
    ASSUME NEW n \in Nat, NEW V, NEW b \in V, NEW H, \A i \in 1..n : \A v \in V : H[i][v] \in V
    PROVE  \E f : f \in [SUBSET (1..n) -> V] /\ Folds(f, n, b, H)
<1> DEFINE K == {m \in 0..n : ~\E f : f \in [SUBSET (1..m) -> V] /\ Folds(f, m, b, H)}
<1> SUFFICES ASSUME K # {} PROVE FALSE
  <2>1. n \in 0..n
    OBVIOUS
  <2>2. QED
    BY <2>1
<1>1. PICK m \in K : \A j \in K : m <= j
  <2>1. K \subseteq Nat
    OBVIOUS
  <2> HIDE DEF K
  <2>2. QED
    BY <2>1, MinIs
<1>2. m \in 0..n /\ ~\E f : f \in [SUBSET (1..m) -> V] /\ Folds(f, m, b, H)
  BY <1>1
<1>3. CASE m = 0
  <2> DEFINE f == [s \in SUBSET (1..m) |-> b]
  <2>1. \A s \in SUBSET (1..m) : s = {}
    BY <1>3
  <2>2. Folds(f, m, b, H)
    BY <2>1 DEF Folds
  <2>3. f \in [SUBSET (1..m) -> V]
    OBVIOUS
  <2>4. QED
    BY <1>2, <2>2, <2>3
<1>4. CASE m # 0
  <2>1. m \in Nat /\ m \in 1..n /\ m - 1 \in 0..n
    BY <1>2, <1>4
  <2>2. m - 1 \notin K
    <3> HIDE DEF K
    <3>1. QED
      BY <1>1, <2>1
  <2>3. PICK k \in Nat : k = m - 1
    BY <2>1
  <2>4. PICK f : f \in [SUBSET (1..k) -> V] /\ Folds(f, k, b, H)
    BY <2>1, <2>2, <2>3
  <2>5. \A s \in SUBSET (1..k) : f[s] = IF s = {} THEN b ELSE H[Max(s)][f[s \ {Max(s)}]]
    BY <2>4 DEF Folds
  <2> HIDE DEF K
  <2> DEFINE h == [s \in SUBSET (1..m) |-> IF m \in s THEN H[m][f[s \ {m}]] ELSE f[s]]
             r == [s \in SUBSET (1..m) |-> IF s = {} THEN b ELSE H[Max(s)][h[s \ {Max(s)}]]]
  <2>6. \A s \in SUBSET (1..k) : s \in SUBSET (1..m) /\ m \notin s /\ h[s] = f[s]
    BY <2>1, <2>3
  <2>7. ASSUME NEW s \in SUBSET (1..m) PROVE h[s] = r[s] /\ h[s] \in V
    <3>1. CASE m \in s
      <4>1. Max(s) = m
        <5>1. Max(s) \in s /\ \A y \in s : Max(s) >= y
          BY <2>1, <3>1, MaxIs
        <5>2. Max(s) \in 1..m /\ Max(s) >= m
          BY <3>1, <5>1
        <5>3. QED
          BY <2>1, <5>2
      <4>2. s \ {m} \in SUBSET (1..k)
        BY <2>1, <2>3
      <4>3. h[s \ {m}] = f[s \ {m}] /\ f[s \ {m}] \in V
        <5>1. f[s \ {m}] \in V
          BY <2>4, <4>2
        <5> HIDE DEF h
        <5>2. QED
          BY <2>6, <4>2, <5>1
      <4>4. h[s] = H[m][f[s \ {m}]]
        BY <3>1
      <4>5. r[s] = H[m][h[s \ {m}]]
        BY <3>1, <4>1
      <4> HIDE DEF h, r
      <4>6. H[m][f[s \ {m}]] \in V
        BY <2>1, <4>3
      <4>7. QED
        BY <4>3, <4>4, <4>5, <4>6
    <3>2. CASE m \notin s
      <4>1. s \in SUBSET (1..k)
        BY <2>1, <2>3, <3>2
      <4>2. h[s] = f[s] /\ f[s] \in V
        <5>1. f[s] \in V
          BY <2>4, <4>1
        <5> HIDE DEF h
        <5>2. QED
          BY <2>6, <4>1, <5>1
      <4>3. r[s] = IF s = {} THEN b ELSE H[Max(s)][h[s \ {Max(s)}]]
        OBVIOUS
      <4>4. h[s \ {Max(s)}] = f[s \ {Max(s)}]
        <5>1. s \ {Max(s)} \in SUBSET (1..k)
          BY <4>1
        <5> HIDE DEF h, r
        <5>2. QED
          BY <2>6, <5>1
      <4> HIDE DEF h, r
      <4>5. QED
        BY <2>5, <4>1, <4>2, <4>3, <4>4
    <3>3. QED
      BY <3>1, <3>2
  <2>8. h \in [SUBSET (1..m) -> V]
    BY <2>7
  <2>9. Folds(h, m, b, H)
    <3>1. \A s \in SUBSET (1..m) : r[s] = IF s = {} THEN b ELSE H[Max(s)][h[s \ {Max(s)}]]
      BY DEF r
    <3> HIDE DEF h, r
    <3>2. QED
      BY <2>7, <3>1 DEF Folds
  <2>10. QED
    BY <1>2, <2>8, <2>9
<1>5. QED
  BY <1>3, <1>4

\* The largest number up to k.
LEMMA MaxUpTo ==
    ASSUME NEW k \in Nat, k # 0
    PROVE  Max(1..k) = k /\ (1..k) \ {k} = 1..k - 1 /\ 1..k # {}
<1>1. k \in 1..k
  OBVIOUS
<1>2. Max(1..k) \in 1..k /\ \A y \in 1..k : Max(1..k) >= y
  BY <1>1, MaxIs
<1>3. Max(1..k) = k
  <2>1. Max(1..k) >= k
    BY <1>1, <1>2
  <2>2. QED
    BY <1>2, <2>1
<1>4. QED
  BY <1>1, <1>3

--------------------------------------------------------------------------------
(* The stack of headings.                                                    *)

JoinsTo(f, path, document) ==
    f = [s \in SUBSET (1..Len(path)) |->
            IF s = {} THEN <<>>
            ELSE IF document[path[Max(s)]].named THEN Append(f[s \ {Max(s)}], path[Max(s)])
                 ELSE f[s \ {Max(s)}]]

\* With names for all of them, the path is the stack.
LEMMA JoinNamed ==
    ASSUME headings \in Seq(Nat), \A k \in 1..Len(headings) : lines[headings[k]].named
    PROVE  JoinHeadings = headings
<1> DEFINE n == Len(headings)
           V == Seq(Nat)
           H == [i \in 1..n |-> [v \in V |->
                    IF lines[headings[i]].named THEN Append(v, headings[i]) ELSE v]]
<1>1. n \in Nat /\ DOMAIN headings = 1..n /\ <<>> \in V
  OBVIOUS
<1>2. \A i \in 1..n : headings[i] \in Nat
  OBVIOUS
<1>3. JoinHeadings = (CHOOSE f : JoinsTo(f, headings, lines))[1..n]
  BY <1>1 DEF JoinHeadings, FoldLeft, MapThenFoldSet, JoinsTo
<1>4. \E f : JoinsTo(f, headings, lines)
  <2>1. \A i \in 1..n : \A v \in V :
           H[i][v] = IF lines[headings[i]].named THEN Append(v, headings[i]) ELSE v
    OBVIOUS
  <2>2. \A i \in 1..n : \A v \in V : Append(v, headings[i]) \in V
    BY <1>2
  <2> DEFINE b == <<>>
  <2> HIDE DEF H, V, n, b
  <2>3. \A i \in 1..n : \A v \in V : H[i][v] \in V
    BY <2>1, <2>2
  <2>4. PICK f : f \in [SUBSET (1..n) -> V] /\ Folds(f, n, b, H)
    BY <1>1, <2>3, FoldsExist DEF b
  <2>5. \A s \in SUBSET (1..n) : f[s] = IF s = {} THEN b ELSE H[Max(s)][f[s \ {Max(s)}]]
    BY <2>4 DEF Folds
  <2> DEFINE r == [s \in SUBSET (1..n) |->
                      IF s = {} THEN <<>>
                      ELSE IF lines[headings[Max(s)]].named
                           THEN Append(f[s \ {Max(s)}], headings[Max(s)])
                           ELSE f[s \ {Max(s)}]]
  <2>6. ASSUME NEW s \in SUBSET (1..n) PROVE f[s] = r[s]
    <3>1. CASE s = {}
      BY <2>5, <3>1 DEF b
    <3>2. CASE s # {}
      <4>1. Max(s) \in 1..n
        BY <1>1, <3>2, MaxIs
      <4>2. f[s \ {Max(s)}] \in V
        BY <2>4
      <4>3. f[s] = H[Max(s)][f[s \ {Max(s)}]]
        BY <2>5, <3>2
      <4>4. H[Max(s)][f[s \ {Max(s)}]] = IF lines[headings[Max(s)]].named
                                         THEN Append(f[s \ {Max(s)}], headings[Max(s)])
                                         ELSE f[s \ {Max(s)}]
        BY <2>1, <4>1, <4>2
      <4>5. r[s] = IF lines[headings[Max(s)]].named
                   THEN Append(f[s \ {Max(s)}], headings[Max(s)])
                   ELSE f[s \ {Max(s)}]
        BY <3>2
      <4> HIDE DEF r
      <4>6. QED
        BY <4>3, <4>4, <4>5
    <3>3. QED
      BY <3>1, <3>2
  <2>7. f = r
    <3>1. f = [s \in SUBSET (1..n) |-> f[s]]
      BY <2>4, Zenon
    <3>2. r = [s \in SUBSET (1..n) |-> r[s]]
      OBVIOUS
    <3> HIDE DEF r
    <3>3. QED
      BY <2>6, <3>1, <3>2, Zenon
  <2>8. JoinsTo(f, headings, lines)
    BY <2>7 DEF JoinsTo, n
  <2>9. QED
    BY <2>8
<1>5. PICK f : JoinsTo(f, headings, lines) /\ JoinHeadings = f[1..n]
  BY <1>3, <1>4
<1>6. \A s \in SUBSET (1..n) :
         f[s] = IF s = {} THEN <<>>
                ELSE IF lines[headings[Max(s)]].named THEN Append(f[s \ {Max(s)}], headings[Max(s)])
                     ELSE f[s \ {Max(s)}]
  <2> DEFINE r == [s \in SUBSET (1..n) |->
                      IF s = {} THEN <<>>
                      ELSE IF lines[headings[Max(s)]].named
                           THEN Append(f[s \ {Max(s)}], headings[Max(s)])
                           ELSE f[s \ {Max(s)}]]
  <2>1. f = r
    BY <1>5 DEF JoinsTo
  <2>2. \A s \in SUBSET (1..n) :
         r[s] = IF s = {} THEN <<>>
                ELSE IF lines[headings[Max(s)]].named THEN Append(f[s \ {Max(s)}], headings[Max(s)])
                     ELSE f[s \ {Max(s)}]
    OBVIOUS
  <2> HIDE DEF r
  <2>3. QED
    BY <2>1, <2>2
<1>7. \A k \in 0..n : f[1..k] = SubSeq(headings, 1, k)
  <2> DEFINE K == {k \in 0..n : f[1..k] # SubSeq(headings, 1, k)}
  <2> SUFFICES ASSUME K # {} PROVE FALSE
    OBVIOUS
  <2>1. PICK k \in K : \A j \in K : k <= j
    <3>1. K \subseteq Nat
      OBVIOUS
    <3> HIDE DEF K
    <3>2. QED
      BY <3>1, MinIs
  <2>2. k \in Nat /\ k \in 0..n /\ f[1..k] # SubSeq(headings, 1, k)
    BY <2>1
  <2>3. 1..k \in SUBSET (1..n)
    BY <1>1, <2>2
  <2>4. CASE k = 0
    <3>1. 1..k = {} /\ SubSeq(headings, 1, k) = <<>>
      BY <2>4, SubSeqEmpty
    <3>2. f[1..k] = <<>>
      BY <1>6, <2>3, <3>1
    <3>3. QED
      BY <2>2, <3>1, <3>2
  <2>5. CASE k # 0
    <3>1. Max(1..k) = k /\ (1..k) \ {k} = 1..k - 1 /\ 1..k # {}
      BY <2>2, <2>5, MaxUpTo
    <3>2. k - 1 \in 0..n /\ k - 1 \notin K /\ k \in 1..n
      <4>1. k - 1 \in 0..n /\ k \in 1..n
        BY <1>1, <2>2, <2>5
      <4> HIDE DEF K
      <4>2. QED
        BY <2>1, <2>2, <4>1
    <3>3. f[1..k - 1] = SubSeq(headings, 1, k - 1)
      BY <3>2
    <3>4. f[1..k] = Append(f[1..k - 1], headings[k])
      <4>1. lines[headings[Max(1..k)]].named
        BY <3>1, <3>2
      <4> HIDE DEF n
      <4>2. f[1..k] = Append(f[(1..k) \ {Max(1..k)}], headings[Max(1..k)])
        BY <1>6, <2>3, <3>1, <4>1
      <4>3. QED
        BY <3>1, <4>2
    <3>5. SubSeq(headings, 1, k) = SubSeq(headings, 1, k - 1) \o <<headings[k]>>
      <4>1. 1 \in 1..n /\ k \in 1..n
        BY <1>1, <3>2
      <4>2. QED
        BY <4>1, SubSeqRecursiveSecond
    <3>6. SubSeq(headings, 1, k - 1) \in Seq(Nat) /\ headings[k] \in Nat
      BY <1>1, <1>2, <2>2, <3>2, SubSeqProperties
    <3>7. Append(SubSeq(headings, 1, k - 1), headings[k]) = SubSeq(headings, 1, k - 1) \o <<headings[k]>>
      BY <3>6, AppendIsConcat
    <3>8. QED
      BY <2>2, <3>3, <3>4, <3>5, <3>7
  <2>6. QED
    BY <2>4, <2>5
<1>8. f[1..n] = SubSeq(headings, 1, n)
  BY <1>1, <1>7
<1>9. SubSeq(headings, 1, n) = headings
  BY SubSeqFull
<1>10. QED
  BY <1>5, <1>8, <1>9

\* Ancestors, said of any lines.
Under(document, n) ==
    {h \in 1..n - 1 :
        /\ document[h].level > 0
        /\ \A g \in h + 1..n - 1 : ~(document[g].level > 0) \/ document[g].level > document[h].level}

Increasing(path) == \A j, k \in DOMAIN path : j < k => path[j] < path[k]

\* The characters of a chunk stand under the headings of its path.
CitedRight(chunk, document, said) ==
    \A p \in ToSet(chunk.raw_text) :
        /\ p \in DOMAIN said /\ said[p].line \in 1..Len(document)
        /\ ToSet(chunk.heading_path) = Under(document, said[p].line)
        /\ Increasing(chunk.heading_path)
        /\ chunk.title = chunk.heading_path[1]

\* While the document is well nested, heading k of the stack has level k, and the
\* stack holds the headings that the next line, and the text not yet in a chunk,
\* stand under.
StackIsRight ==
    /\ headings \in Seq(1..Len(lines))
    /\ \A k \in 1..Len(headings) : lines[headings[k]].level = k /\ lines[headings[k]].named
    /\ Increasing(headings)
    /\ ToSet(headings) = Under(lines, Len(lines) + 1)
    /\ lines # <<>> => headings # <<>> /\ document_title = headings[1]
    /\ \A p \in ToSet(current_body) :
          /\ p \in DOMAIN content /\ content[p].line \in 1..Len(lines)
          /\ Under(lines, content[p].line) = ToSet(headings)
    /\ \A i \in DOMAIN chunks : CitedRight(chunks[i], lines, content)

PathInv ==
    /\ TextInv
    /\ \A n \in DOMAIN lines : lines[n].level \in 0..MaxLevel
    /\ WellNested => StackIsRight

\* document with one more line.
Extends(longer, document) ==
    /\ Len(document) \in Nat /\ Len(longer) = Len(document) + 1
    /\ DOMAIN document = 1..Len(document) /\ DOMAIN longer = 1..Len(document) + 1
    /\ \A n \in 1..Len(document) : longer[n] = document[n]

LEMMA UnderKept ==
    ASSUME NEW longer, NEW document, Extends(longer, document),
           NEW n \in 1..Len(document) + 1
    PROVE  Under(longer, n) = Under(document, n)
<1>1. ASSUME NEW h \in 1..n - 1
      PROVE  /\ longer[h] = document[h]
             /\ \A g \in h + 1..n - 1 : longer[g] = document[g]
  BY DEF Extends
<1>2. QED
  BY <1>1 DEF Under

LEMMA UnderText ==
    ASSUME NEW longer, NEW document, Extends(longer, document),
           ~(longer[Len(document) + 1].level > 0)
    PROVE  Under(longer, Len(document) + 2) = Under(document, Len(document) + 1)
<1> DEFINE m == Len(document)
<1>1. m \in Nat /\ m + 2 - 1 = m + 1 /\ m + 1 - 1 = m /\ \A n \in 1..m : longer[n] = document[n]
  BY DEF Extends
<1> HIDE DEF m
<1>2. ASSUME NEW h \in 1..m
      PROVE  (\A g \in h + 1..m + 1 : ~(longer[g].level > 0) \/ longer[g].level > longer[h].level)
             <=> (\A g \in h + 1..m : ~(document[g].level > 0) \/ document[g].level > document[h].level)
  <2>1. h + 1..m + 1 = (h + 1..m) \cup {m + 1}
    BY <1>1
  <2>2. longer[h] = document[h] /\ \A g \in h + 1..m : longer[g] = document[g]
    BY <1>1
  <2>3. ~(longer[m + 1].level > 0)
    BY DEF m
  <2>4. QED
    BY <2>1, <2>2, <2>3
<1>3. \A h \in 1..m + 1 : h \in 1..m \/ h = m + 1
  BY <1>1
<1>4. ~(longer[m + 1].level > 0)
  BY DEF m
<1>5. Under(longer, m + 2) = Under(document, m + 1)
  BY <1>1, <1>2, <1>3, <1>4 DEF Under
<1>6. QED
  BY <1>5 DEF m

LEMMA UnderHeading ==
    ASSUME NEW longer, NEW document, Extends(longer, document), NEW level \in Nat, level > 0,
           longer[Len(document) + 1].level = level,
           \A n \in 1..Len(document) : document[n].level \in Nat
    PROVE  Under(longer, Len(document) + 2)
                = {h \in Under(document, Len(document) + 1) : document[h].level < level}
                        \cup {Len(document) + 1}
<1> DEFINE m == Len(document)
<1>1. m \in Nat /\ m + 2 - 1 = m + 1 /\ m + 1 - 1 = m /\ \A n \in 1..m : longer[n] = document[n]
  BY DEF Extends
<1>2. longer[m + 1].level = level /\ \A n \in 1..m : document[n].level \in Nat
  OBVIOUS
<1> HIDE DEF m
<1>3. ASSUME NEW h \in 1..m
      PROVE  (\A g \in h + 1..m + 1 : ~(longer[g].level > 0) \/ longer[g].level > longer[h].level)
             <=> /\ \A g \in h + 1..m : ~(document[g].level > 0) \/ document[g].level > document[h].level
                 /\ document[h].level < level
  <2>1. h + 1..m + 1 = (h + 1..m) \cup {m + 1}
    BY <1>1
  <2>2. longer[h] = document[h] /\ \A g \in h + 1..m : longer[g] = document[g]
    BY <1>1
  <2>3. document[h].level \in Nat
    BY <1>2
  <2>4. QED
    BY <1>2, <2>1, <2>2, <2>3
<1>4. \A h \in 1..m + 1 : h \in 1..m \/ h = m + 1
  BY <1>1
<1>5. m + 1 \in 1..m + 1 /\ m + 1 + 1..m + 1 = {}
  BY <1>1
<1>6. m + 1 \in Under(longer, m + 2)
  BY <1>1, <1>2, <1>5 DEF Under
<1>7. ASSUME NEW h \in 1..m
      PROVE  h \in Under(longer, m + 2) <=> h \in Under(document, m + 1) /\ document[h].level < level
  BY <1>1, <1>3 DEF Under
<1>8. Under(longer, m + 2) \subseteq 1..m + 1 /\ Under(document, m + 1) \subseteq 1..m
  BY <1>1 DEF Under
<1>9. Under(longer, m + 2)
         = {h \in Under(document, m + 1) : document[h].level < level} \cup {m + 1}
  <2>1. ASSUME NEW h
        PROVE  h \in Under(longer, m + 2)
               <=> h \in {x \in Under(document, m + 1) : document[x].level < level} \cup {m + 1}
    <3>1. CASE h \in 1..m
      <4>1. h # m + 1
        BY <1>1, <3>1
      <4>2. QED
        BY <1>7, <3>1, <4>1
    <3>2. CASE h = m + 1
      BY <1>6, <3>2
    <3>3. CASE h \notin 1..m + 1
      <4>1. h # m + 1 /\ h \notin 1..m
        BY <1>1, <1>5, <3>3
      <4>2. QED
        BY <1>8, <3>3, <4>1
    <3>4. QED
      BY <1>4, <3>1, <3>2, <3>3
  <2>2. QED
    BY <2>1
<1>10. QED
  BY <1>9 DEF m

LEMMA NestedBefore ==
    ASSUME Extends(lines', lines), WellNested'
    PROVE  WellNested
<1>1. /\ Len(lines) \in Nat /\ DOMAIN lines = 1..Len(lines) /\ DOMAIN lines' = 1..Len(lines) + 1
      /\ \A n \in 1..Len(lines) : lines'[n] = lines[n] /\ n \in DOMAIN lines'
  BY DEF Extends
<1>2. \A n \in DOMAIN lines : IsHeading(n) => lines[n].named
  BY <1>1 DEF WellNested, IsHeading
<1>3. ASSUME NEW n \in DOMAIN lines, IsHeading(n)
      PROVE  \/ lines[n].level = 1
             \/ \E m \in 1..n - 1 : /\ lines[m].level \in lines[n].level - 1..MaxLevel
                                    /\ \A k \in m + 1..n - 1 : ~IsHeading(k)
  <2>1. n \in 1..Len(lines) /\ lines'[n] = lines[n] /\ n \in DOMAIN lines'
    BY <1>1
  <2>2. CASE lines'[n].level # 1
    <3>1. PICK m \in 1..n - 1 : /\ lines'[m].level \in lines'[n].level - 1..MaxLevel
                                /\ \A k \in m + 1..n - 1 : ~(lines'[k].level > 0)
      BY <1>3, <2>1, <2>2 DEF WellNested, IsHeading
    <3>2. lines'[m] = lines[m] /\ \A k \in m + 1..n - 1 : lines'[k] = lines[k]
      BY <1>1, <2>1
    <3>3. QED
      BY <2>1, <3>1, <3>2 DEF IsHeading
  <2>3. QED
    BY <2>1, <2>2
<1>4. lines # <<>> => lines[1].level = 1
  <2> SUFFICES ASSUME lines # <<>> PROVE lines[1].level = 1
    OBVIOUS
  <2>1. Len(lines) # 0
    BY <1>1 DEF Extends
  <2>2. 1 \in 1..Len(lines) /\ lines' # <<>>
    BY <1>1, <2>1, EmptyIsSequence DEF Extends
  <2>3. QED
    BY <1>1, <2>2 DEF WellNested
<1>5. QED
  BY <1>2, <1>3, <1>4 DEF WellNested

\* What a well nested document says of its last line.
LEMMA LastHeading ==
    ASSUME Extends(lines', lines), WellNested', NEW level \in Nat, level > 0, NEW named,
           lines'[Len(lines) + 1] = [level |-> level, named |-> named]
    PROVE  /\ named
           /\ \/ level = 1
              \/ \E m \in 1..Len(lines) : /\ lines[m].level \in level - 1..MaxLevel
                                          /\ \A k \in m + 1..Len(lines) : ~(lines[k].level > 0)
<1> DEFINE n == Len(lines) + 1
<1>1. /\ Len(lines) \in Nat /\ n \in DOMAIN lines' /\ n - 1 = Len(lines)
      /\ \A k \in 1..Len(lines) : lines'[k] = lines[k]
  BY DEF Extends
<1>2. lines'[n].level = level /\ lines'[n].named = named
  OBVIOUS
<1> HIDE DEF n
<1>3. named
  BY <1>1, <1>2 DEF WellNested, IsHeading
<1>4. ASSUME level # 1
      PROVE  \E m \in 1..Len(lines) : /\ lines[m].level \in level - 1..MaxLevel
                                       /\ \A k \in m + 1..Len(lines) : ~(lines[k].level > 0)
  <2>1. PICK m \in 1..n - 1 : /\ lines'[m].level \in lines'[n].level - 1..MaxLevel
                              /\ \A k \in m + 1..n - 1 : ~(lines'[k].level > 0)
    BY <1>1, <1>2, <1>4 DEF WellNested, IsHeading
  <2>2. lines'[m] = lines[m] /\ \A k \in m + 1..Len(lines) : lines'[k] = lines[k]
    BY <1>1
  <2>3. QED
    BY <1>1, <1>2, <2>1, <2>2
<1>5. QED
  BY <1>3, <1>4

LEMMA CitedKept ==
    ASSUME NEW longer, NEW document, Extends(longer, document), NEW more, NEW said,
           \A p \in DOMAIN said : p \in DOMAIN more /\ more[p] = said[p],
           NEW chunk, CitedRight(chunk, document, said)
    PROVE  CitedRight(chunk, longer, more)
<1> SUFFICES ASSUME NEW p \in ToSet(chunk.raw_text)
             PROVE  /\ p \in DOMAIN more /\ more[p].line \in 1..Len(longer)
                    /\ ToSet(chunk.heading_path) = Under(longer, more[p].line)
                    /\ Increasing(chunk.heading_path)
                    /\ chunk.title = chunk.heading_path[1]
  BY DEF CitedRight
<1>1. /\ p \in DOMAIN said /\ said[p].line \in 1..Len(document)
      /\ ToSet(chunk.heading_path) = Under(document, said[p].line)
      /\ Increasing(chunk.heading_path)
      /\ chunk.title = chunk.heading_path[1]
  BY DEF CitedRight
<1>2. p \in DOMAIN more /\ more[p] = said[p]
  BY <1>1
<1>3. PICK n \in 1..Len(document) : n = said[p].line
  BY <1>1
<1>4. n \in 1..Len(longer) /\ n \in 1..Len(document) + 1
  BY <1>3 DEF Extends
<1>5. Under(longer, n) = Under(document, n)
  BY <1>4, UnderKept
<1>6. QED
  BY <1>1, <1>2, <1>3, <1>4, <1>5

\* flushCurrent cites the text under the stack.
LEMMA FlushCites ==
    ASSUME TextInv, StackIsRight, FlushCurrent
    PROVE  \A i \in DOMAIN chunks' : CitedRight(chunks'[i], lines, content)
<1>1. CASE UNCHANGED chunks
  BY <1>1 DEF StackIsRight
<1>2. CASE ~(Trim(current_body) = <<>> \/ headings = <<>>)
  <2> DEFINE chunk == [id |-> first_chunk_id + Len(chunks), title |-> document_title,
                       heading_path |-> JoinHeadings, raw_text |-> Trim(current_body)]
  <2>1. headings \in Seq(Nat) /\ \A k \in 1..Len(headings) : lines[headings[k]].named
    <3>1. headings \in Seq(1..Len(lines)) /\ 1..Len(lines) \subseteq Nat
      BY DEF StackIsRight
    <3>2. headings \in Seq(Nat)
      BY <3>1, SeqMonotonic
    <3>3. QED
      BY <3>2 DEF StackIsRight
  <2>2. JoinHeadings = headings
    BY <2>1, JoinNamed
  <2>3. lines # <<>>
    <3> SUFFICES ASSUME lines = <<>> PROVE FALSE
      OBVIOUS
    <3>1. 1..Len(lines) = {}
      BY EmptyIsSequence
    <3>2. DOMAIN headings = 1..Len(headings) /\ Len(headings) \in Nat
      BY DEF StackIsRight
    <3>3. \A k \in 1..Len(headings) : headings[k] \in 1..Len(lines)
      BY DEF StackIsRight
    <3>4. Len(headings) = 0
      BY <3>1, <3>2, <3>3
    <3>5. QED
      BY <1>2, <2>1, <3>4, EmptySeq
  <2>4. chunks' = Append(chunks, chunk)
    BY <1>2 DEF FlushCurrent
  <2>5. chunk.raw_text = Trim(current_body) /\ chunk.heading_path = headings /\ chunk.title = headings[1]
    BY <2>2, <2>3 DEF StackIsRight
  <2> HIDE DEF chunk
  <2>6. CitedRight(chunk, lines, content)
    <3>1. ToSet(Trim(current_body)) \subseteq ToSet(current_body)
      BY TrimIs DEF TextInv
    <3>2. QED
      BY <2>5, <3>1 DEF StackIsRight, CitedRight
  <2>7. /\ DOMAIN chunks = 1..Len(chunks) /\ Len(chunks) \in Nat
        /\ DOMAIN chunks' = 1..Len(chunks) + 1
        /\ \A i \in 1..Len(chunks) : chunks'[i] = chunks[i]
        /\ chunks'[Len(chunks) + 1] = chunk
    BY <2>4, AppendIs DEF TextInv
  <2>8. ASSUME NEW i \in 1..Len(chunks) + 1 PROVE CitedRight(chunks'[i], lines, content)
    <3>1. CASE i \in 1..Len(chunks)
      BY <2>7, <3>1 DEF StackIsRight
    <3>2. CASE i = Len(chunks) + 1
      BY <2>6, <2>7, <3>2
    <3>3. QED
      BY <2>7, <3>1, <3>2
  <2>9. QED
    BY <2>7, <2>8
<1>3. QED
  BY <1>1, <1>2 DEF FlushCurrent

LEMMA ExtendsIs ==
    ASSUME TextInv, NEW line, lines' = Append(lines, line)
    PROVE  Extends(lines', lines) /\ lines'[Len(lines) + 1] = line
BY LineIs DEF TextInv, Extends

LEMMA LevelsKept ==
    ASSUME PathInv, NEW line, line.level \in 0..MaxLevel, lines' = Append(lines, line)
    PROVE  \A n \in DOMAIN lines' : lines'[n].level \in 0..MaxLevel
<1>1. Extends(lines', lines) /\ lines'[Len(lines) + 1] = line
  BY ExtendsIs DEF PathInv
<1>2. \A n \in 1..Len(lines) + 1 : n \in 1..Len(lines) \/ n = Len(lines) + 1
  BY <1>1 DEF Extends
<1>3. QED
  BY <1>1, <1>2 DEF Extends, PathInv

\* Without headings nothing has been read.
LEMMA NothingBefore ==
    ASSUME TextInv, StackIsRight
    PROVE  /\ DOMAIN headings = 1..Len(headings) /\ Len(headings) \in Nat
           /\ headings = <<>> <=> Len(headings) = 0
           /\ headings = <<>> => lines = <<>> /\ Len(lines) = 0 /\ ToSet(current_body) = {}
                                  /\ current_body = <<>>
<1>1. /\ DOMAIN headings = 1..Len(headings) /\ Len(headings) \in Nat
      /\ headings = <<>> <=> Len(headings) = 0
  BY EmptySeq DEF StackIsRight
<1>2. ASSUME headings = <<>>
      PROVE  lines = <<>> /\ Len(lines) = 0 /\ ToSet(current_body) = {} /\ current_body = <<>>
  <2>1. lines = <<>> /\ Len(lines) = 0
    BY <1>2, EmptyIsSequence DEF StackIsRight
  <2>2. 1..Len(lines) = {}
    BY <2>1
  <2>3. ToSet(current_body) = {}
    <3> SUFFICES ASSUME NEW p \in ToSet(current_body) PROVE FALSE
      OBVIOUS
    <3>1. content[p].line \in 1..Len(lines)
      BY DEF StackIsRight
    <3>2. QED
      BY <2>2, <3>1
  <2>4. current_body = <<>>
    <3>1. PICK S : current_body \in Seq(S)
      BY DEF TextInv, IsSequence
    <3>2. DOMAIN current_body = 1..Len(current_body) /\ Len(current_body) \in Nat
      BY <3>1
    <3>3. \A k \in DOMAIN current_body : FALSE
      BY <2>3 DEF ToSet
    <3>4. Len(current_body) = 0
      <4> SUFFICES ASSUME Len(current_body) # 0 PROVE FALSE
        OBVIOUS
      <4>1. 1 \in 1..Len(current_body)
        BY <3>2
      <4>2. QED
        BY <3>2, <3>3, <4>1
    <3>5. QED
      BY <3>1, <3>4, EmptySeq
  <2>5. QED
    BY <2>1, <2>3, <2>4
<1>3. QED
  BY <1>1, <1>2

LEMMA PathText ==
    ASSUME PathInv, NEW text \in Text, ReadText(text)
    PROVE  PathInv'
<1> DEFINE line == [level |-> 0]
           N == Len(lines)
<1>1. /\ lines' = Append(lines, line) /\ line.level = 0
      /\ UNCHANGED <<headings, chunks, document_title>>
  BY DEF ReadText
<1> HIDE DEF line
<1>2. Extends(lines', lines) /\ lines'[N + 1] = line
  BY <1>1, ExtendsIs DEF PathInv
<1>3. /\ N \in Nat /\ Len(lines') = N + 1
      /\ \A n \in 1..N : lines'[n] = lines[n] /\ n \in 1..N + 1
  BY <1>2 DEF Extends
<1>4. /\ \A p \in DOMAIN content : p \in DOMAIN content' /\ content'[p] = content[p]
      /\ \A p \in ToSet(current_body') : \/ p \in ToSet(current_body)
                                         \/ p \in DOMAIN content' /\ content'[p].line = N + 1
  <2> DEFINE n == Len(content)
             m == Len(text) + 1
  <2>1. /\ m \in Nat /\ n \in Nat /\ DOMAIN content = 1..n
        /\ DOMAIN content' = 1..n + m
        /\ \A p \in 1..n : content'[p] = content[p]
        /\ \A p \in n + 1..n + m : content'[p].line = N + 1
        /\ Lengthens(current_body', current_body, n, m)
    BY ReadIs DEF PathInv
  <2> HIDE DEF n, m
  <2>2. ToSet(current_body') = ToSet(current_body) \cup (n + 1..n + m)
    <3>1. HasMore(current_body', current_body, n, m)
      BY <2>1, Longer, Zenon
    <3>2. QED
      BY <3>1 DEF HasMore
  <2>3. 1..n \subseteq 1..n + m /\ n + 1..n + m \subseteq 1..n + m
    BY <2>1
  <2>4. QED
    BY <2>1, <2>2, <2>3
<1>5. \A n \in DOMAIN lines' : lines'[n].level \in 0..MaxLevel
  <2>1. 0 \in 0..MaxLevel
    BY ChunkerAssumption
  <2>2. QED
    BY <1>1, <2>1, LevelsKept
<1>6. ASSUME WellNested' PROVE StackIsRight'
  <2>1. StackIsRight
    BY <1>2, <1>6, NestedBefore DEF PathInv
  <2>2. headings \in Seq(1..N + 1)
    <3>1. headings \in Seq(1..N) /\ 1..N \subseteq 1..N + 1
      BY <1>3, <2>1 DEF StackIsRight
    <3>2. QED
      BY <3>1, SeqMonotonic
  <2>3. \A k \in 1..Len(headings) : lines'[headings[k]].level = k /\ lines'[headings[k]].named
    <3>1. \A k \in 1..Len(headings) : headings[k] \in 1..N
      BY <2>1 DEF StackIsRight
    <3>2. QED
      BY <1>3, <2>1, <3>1 DEF StackIsRight
  <2>4. ToSet(headings) = Under(lines', Len(lines') + 1)
    <3>1. Under(lines', N + 2) = Under(lines, N + 1)
      <4>1. ~(lines'[N + 1].level > 0)
        BY <1>1, <1>2
      <4>2. QED
        BY <1>2, <4>1, UnderText
    <3>2. Len(lines') + 1 = N + 2
      BY <1>3
    <3>3. QED
      BY <2>1, <3>1, <3>2 DEF StackIsRight
  <2>5. headings # <<>> /\ document_title = headings[1]
    <3>1. lines' # <<>>
      BY <1>3, EmptyIsSequence
    <3>2. lines'[1].level = 1
      BY <1>6, <3>1 DEF WellNested
    <3>3. lines # <<>>
      <4> SUFFICES ASSUME lines = <<>> PROVE FALSE
        OBVIOUS
      <4>1. N + 1 = 1
        BY EmptyIsSequence
      <4>2. lines'[1].level = 0
        BY <1>1, <1>2, <4>1
      <4>3. QED
        BY <3>2, <4>2
    <3>4. QED
      BY <2>1, <3>3 DEF StackIsRight
  <2>6. ASSUME NEW p \in ToSet(current_body')
        PROVE  /\ p \in DOMAIN content' /\ content'[p].line \in 1..N + 1
               /\ Under(lines', content'[p].line) = ToSet(headings)
    <3>1. CASE p \in ToSet(current_body)
      <4>1. /\ p \in DOMAIN content /\ content[p].line \in 1..N
            /\ Under(lines, content[p].line) = ToSet(headings)
        BY <2>1, <3>1 DEF StackIsRight
      <4>2. p \in DOMAIN content' /\ content'[p] = content[p]
        BY <1>4, <4>1
      <4>3. PICK n \in 1..N : n = content[p].line
        BY <4>1
      <4>4. n \in 1..N + 1
        BY <1>3, <4>3
      <4> HIDE DEF N
      <4>5. Under(lines', n) = Under(lines, n)
        BY <1>2, <4>4, UnderKept DEF N
      <4>6. QED
        BY <4>1, <4>2, <4>3, <4>4, <4>5
    <3>2. CASE p \in DOMAIN content' /\ content'[p].line = N + 1
      <4>1. N + 1 \in 1..N + 1
        BY <1>3
      <4>2. Under(lines', N + 1) = Under(lines, N + 1)
        BY <1>2, <4>1, UnderKept
      <4>3. QED
        BY <2>1, <3>2, <4>1, <4>2 DEF StackIsRight
    <3>3. QED
      BY <1>4, <3>1, <3>2
  <2>7. \A i \in DOMAIN chunks : CitedRight(chunks[i], lines', content')
    BY <1>2, <1>4, <2>1, CitedKept DEF StackIsRight
  <2>8. QED
    BY <1>1, <1>3, <2>1, <2>2, <2>3, <2>4, <2>5, <2>6, <2>7 DEF StackIsRight, Increasing
<1>7. TextInv'
  BY TextRead DEF PathInv
<1>8. QED
  BY <1>5, <1>6, <1>7 DEF PathInv

\* The stack is cut to the headings above the new one.
LEMMA CutIs ==
    ASSUME StackIsRight, NEW level \in Nat, level > 0, level - 1 <= Len(headings)
    PROVE  /\ Cut(level) \in Seq(1..Len(lines)) /\ Len(Cut(level)) = level - 1
           /\ \A k \in 1..level - 1 : Cut(level)[k] = headings[k]
<1>1. headings \in Seq(1..Len(lines)) /\ Len(headings) \in Nat
  BY DEF StackIsRight
<1>2. CASE Len(headings) >= level
  <2>1. Cut(level) = SubSeq(headings, 1, level - 1)
    BY <1>2 DEF Cut
  <2>2. \A i \in 1..level - 1 : headings[i] \in 1..Len(lines)
    BY <1>1, <1>2, ElementOfSeq
  <2> HIDE DEF Cut
  <2>3. /\ SubSeq(headings, 1, level - 1) \in Seq(1..Len(lines))
        /\ Len(SubSeq(headings, 1, level - 1)) = IF 1 <= level - 1 THEN level - 1 - 1 + 1 ELSE 0
        /\ \A i \in 1..level - 1 - 1 + 1 : SubSeq(headings, 1, level - 1)[i] = headings[1 + i - 1]
    <3>1. 1 \in Int /\ level - 1 \in Int
      OBVIOUS
    <3>2. QED
      BY <2>2, <3>1, SubSeqProperties
  <2>4. \A i \in 1..level - 1 : i \in 1..level - 1 - 1 + 1 /\ 1 + i - 1 = i
    OBVIOUS
  <2>5. QED
    BY <2>1, <2>3, <2>4
<1>3. CASE ~(Len(headings) >= level)
  <2>1. Cut(level) = headings /\ Len(headings) = level - 1
    BY <1>1, <1>3 DEF Cut
  <2>2. QED
    BY <1>1, <2>1
<1>4. QED
  BY <1>2, <1>3

LEMMA PathHeading ==
    ASSUME PathInv, NEW level \in 1..MaxLevel, NEW named, ReadHeading(level, named)
    PROVE  PathInv'
<1> DEFINE line == [level |-> level, named |-> named]
           N == Len(lines)
           L == Len(headings)
           cut == Cut(level)
<1>1. /\ lines' = Append(lines, line) /\ line.level = level
      /\ FlushCurrent
      /\ headings' = Append(cut, Len(lines'))
      /\ document_title' = IF level = 1 THEN Len(lines') ELSE document_title
      /\ UNCHANGED content
  BY DEF ReadHeading
<1>2. Extends(lines', lines) /\ lines'[N + 1] = line
  BY <1>1, ExtendsIs DEF PathInv
<1>3. /\ N \in Nat /\ Len(lines') = N + 1 /\ DOMAIN lines = 1..N
      /\ \A n \in 1..N : lines'[n] = lines[n] /\ n \in 1..N + 1
  BY <1>2 DEF Extends
<1>4. level \in Nat /\ level > 0 /\ level \in 0..MaxLevel
  BY ChunkerAssumption
<1>5. \A n \in DOMAIN lines' : lines'[n].level \in 0..MaxLevel
  <2> HIDE DEF line
  <2>1. QED
    BY <1>1, <1>4, LevelsKept
<1>6. ASSUME WellNested' PROVE StackIsRight'
  <2>1. StackIsRight
    BY <1>2, <1>6, NestedBefore DEF PathInv
  <2>2. /\ DOMAIN headings = 1..L /\ L \in Nat
        /\ headings = <<>> <=> L = 0
        /\ headings = <<>> => lines = <<>> /\ N = 0 /\ ToSet(current_body) = {}
    BY <2>1, NothingBefore DEF PathInv
  <2>3. /\ named
        /\ \/ level = 1
           \/ \E m \in 1..N : /\ lines[m].level \in level - 1..MaxLevel
                              /\ \A k \in m + 1..N : ~(lines[k].level > 0)
    BY <1>2, <1>4, <1>6, LastHeading
  <2>4. level - 1 <= L /\ (level # 1 => N # 0)
    <3>1. CASE level = 1
      BY <2>2, <3>1
    <3>2. CASE level # 1
      <4>1. PICK m \in 1..N : /\ lines[m].level \in level - 1..MaxLevel
                              /\ \A k \in m + 1..N : ~(lines[k].level > 0)
        BY <2>3, <3>2
      <4>2. lines[m].level > 0
        BY <1>4, <3>2, <4>1, ChunkerAssumption
      <4>3. N + 1 - 1 = N
        BY <1>3
      <4>4. m \in Under(lines, N + 1)
        BY <4>1, <4>2, <4>3 DEF Under
      <4>5. m \in ToSet(headings)
        BY <2>1, <4>4 DEF StackIsRight
      <4>6. PICK k \in 1..L : m = headings[k]
        BY <2>2, <4>5 DEF ToSet
      <4>7. lines[m].level = k
        BY <2>1, <4>6 DEF StackIsRight
      <4>8. QED
        BY <1>3, <1>4, <2>2, <4>1, <4>7, ChunkerAssumption
    <3>3. QED
      BY <3>1, <3>2
  <2>5. /\ cut \in Seq(1..N) /\ Len(cut) = level - 1
        /\ \A k \in 1..level - 1 : cut[k] = headings[k]
    BY <1>4, <2>1, <2>4, CutIs
  <2>6. \A k \in 1..L : headings[k] \in 1..N
    BY <2>1, <2>2, ElementOfSeq DEF StackIsRight
  <2> HIDE DEF cut, line, N
  <2>7. /\ headings' \in Seq(1..N + 1) /\ Len(headings') = level
        /\ DOMAIN headings' = 1..level
        /\ \A k \in 1..level - 1 : headings'[k] = headings[k] /\ k \in 1..L
        /\ headings'[level] = N + 1
    <3>1. 1..N \subseteq 1..N + 1 /\ N + 1 \in 1..N + 1
      BY <1>3
    <3>2. cut \in Seq(1..N + 1)
      BY <2>5, <3>1, SeqMonotonic
    <3>3. headings' = Append(cut, N + 1)
      BY <1>1, <1>3
    <3>4. /\ Append(cut, N + 1) \in Seq(1..N + 1)
          /\ Len(Append(cut, N + 1)) = Len(cut) + 1
          /\ \A i \in 1..Len(cut) : Append(cut, N + 1)[i] = cut[i]
          /\ Append(cut, N + 1)[Len(cut) + 1] = N + 1
      BY <3>1, <3>2, AppendProperties
    <3>5. Len(cut) + 1 = level
      BY <1>4, <2>5
    <3>6. headings' \in Seq(1..N + 1) /\ Len(headings') = level /\ headings'[level] = N + 1
      BY <3>3, <3>4, <3>5
    <3>7. \A k \in 1..level - 1 : headings'[k] = headings[k] /\ k \in 1..L
      BY <1>4, <2>2, <2>4, <2>5, <3>3, <3>4
    <3>8. DOMAIN headings' = 1..level
      BY <3>6
    <3>9. QED
      BY <3>6, <3>7, <3>8
  <2>8. \A k \in 1..level : k \in 1..level - 1 \/ k = level
    BY <1>4
  <2>9. lines'[N + 1].level = level /\ lines'[N + 1].named
    BY <1>2, <2>3 DEF line
  <2>10. \A k \in 1..Len(headings') : lines'[headings'[k]].level = k /\ lines'[headings'[k]].named
    <3> SUFFICES ASSUME NEW k \in 1..level
                 PROVE  lines'[headings'[k]].level = k /\ lines'[headings'[k]].named
      BY <2>7
    <3>1. CASE k \in 1..level - 1
      <4>1. headings'[k] = headings[k] /\ k \in 1..L
        BY <2>7, <3>1
      <4>2. lines'[headings[k]] = lines[headings[k]]
        BY <1>3, <2>6, <4>1
      <4>3. QED
        BY <2>1, <4>1, <4>2 DEF StackIsRight
    <3>2. CASE k = level
      BY <2>7, <2>9, <3>2
    <3>3. QED
      BY <2>8, <3>1, <3>2
  <2>11. Increasing(headings')
    <3> SUFFICES ASSUME NEW j \in 1..level, NEW k \in 1..level, j < k
                 PROVE  headings'[j] < headings'[k]
      BY <2>7 DEF Increasing
    <3>1. j \in 1..level - 1
      BY <1>4
    <3>2. headings'[j] = headings[j] /\ j \in 1..L /\ headings[j] \in 1..N
      BY <2>6, <2>7, <3>1
    <3>3. CASE k \in 1..level - 1
      <4>1. headings'[k] = headings[k] /\ k \in 1..L
        BY <2>7, <3>3
      <4>2. headings[j] < headings[k]
        BY <2>1, <2>2, <3>2, <4>1 DEF StackIsRight, Increasing
      <4>3. QED
        BY <3>2, <4>1, <4>2
    <3>4. CASE k = level
      BY <1>3, <2>7, <3>2, <3>4
    <3>5. QED
      BY <2>8, <3>3, <3>4
  <2>12. ToSet(headings') = Under(lines', Len(lines') + 1)
    <3>1. Under(lines', N + 2) = {h \in Under(lines, N + 1) : lines[h].level < level} \cup {N + 1}
      <4>1. \A n \in 1..N : lines[n].level \in Nat
        BY <1>3 DEF PathInv
      <4>2. QED
        BY <1>2, <1>4, <2>9, <4>1, UnderHeading DEF N
    <3>2. Under(lines, N + 1) = {headings[k] : k \in 1..L}
      BY <2>1, <2>2 DEF StackIsRight, ToSet, N
    <3>3. \A k \in 1..L : lines[headings[k]].level = k
      BY <2>1 DEF StackIsRight
    <3>4. ToSet(headings') = {headings'[k] : k \in 1..level}
      BY <2>7 DEF ToSet
    <3>5. ASSUME NEW h PROVE h \in ToSet(headings') <=> h \in Under(lines', N + 2)
      <4>1. ASSUME h \in ToSet(headings') PROVE h \in Under(lines', N + 2)
        <5>1. PICK k \in 1..level : h = headings'[k]
          BY <3>4, <4>1
        <5>2. CASE k = level
          BY <2>7, <3>1, <5>1, <5>2
        <5>3. CASE k \in 1..level - 1
          <6>1. h = headings[k] /\ k \in 1..L /\ k < level
            BY <1>4, <2>7, <5>1, <5>3
          <6>2. lines[h].level < level
            BY <3>3, <6>1
          <6>3. QED
            BY <3>1, <3>2, <6>1, <6>2
        <5>4. QED
          BY <2>8, <5>2, <5>3
      <4>2. ASSUME h \in Under(lines', N + 2) PROVE h \in ToSet(headings')
        <5>1. CASE h = N + 1
          <6>1. level \in 1..level
            BY <1>4
          <6>2. QED
            BY <2>7, <3>4, <5>1, <6>1
        <5>2. CASE h # N + 1
          <6>1. h \in Under(lines, N + 1) /\ lines[h].level < level
            BY <3>1, <4>2, <5>2
          <6>2. PICK k \in 1..L : h = headings[k]
            BY <3>2, <6>1
          <6>3. k < level
            BY <3>3, <6>1, <6>2
          <6>4. k \in 1..level - 1 /\ k \in 1..level
            BY <1>4, <2>2, <6>3
          <6>5. h = headings'[k]
            BY <2>7, <6>2, <6>4
          <6>6. QED
            BY <3>4, <6>4, <6>5
        <5>3. QED
          BY <5>1, <5>2
      <4>3. QED
        BY <4>1, <4>2
    <3>6. Len(lines') + 1 = N + 2
      BY <1>3
    <3>7. QED
      BY <3>5, <3>6
  <2>13. headings' # <<>> /\ document_title' = headings'[1]
    <3>1. headings' # <<>>
      BY <1>4, <2>7, EmptyIsSequence
    <3>2. CASE level = 1
      BY <1>1, <1>3, <2>7, <3>2
    <3>3. CASE level # 1
      <4>1. 1 \in 1..level - 1
        BY <1>4, <3>3
      <4>2. lines # <<>>
        BY <2>4, <3>3, EmptyIsSequence DEF N
      <4>3. document_title = headings[1]
        BY <2>1, <4>2 DEF StackIsRight
      <4>4. QED
        BY <1>1, <2>7, <3>1, <3>3, <4>1, <4>3
    <3>4. QED
      BY <3>2, <3>3
  <2>14. ToSet(current_body') = {}
    <3>1. CASE current_body' = <<>>
      BY <3>1, EmptyIsSequence DEF ToSet
    <3>2. CASE current_body' # <<>>
      <4>1. headings = <<>> /\ current_body' = Trim(current_body)
        BY <1>1, <3>2 DEF FlushCurrent
      <4>2. ToSet(Trim(current_body)) \subseteq ToSet(current_body)
        BY TrimIs DEF PathInv, TextInv
      <4>3. QED
        BY <2>2, <4>1, <4>2
    <3>3. QED
      BY <3>1, <3>2
  <2>15. \A i \in DOMAIN chunks' : CitedRight(chunks'[i], lines', content')
    <3>1. \A i \in DOMAIN chunks' : CitedRight(chunks'[i], lines, content)
      BY <1>1, <2>1, FlushCites DEF PathInv
    <3>2. QED
      BY <1>1, <1>2, <3>1, CitedKept
  <2>16. headings' \in Seq(1..Len(lines'))
    BY <1>3, <2>7
  <2>17. QED
    BY <2>10, <2>11, <2>12, <2>13, <2>14, <2>15, <2>16 DEF StackIsRight
<1>7. TextInv'
  BY TextHeading DEF PathInv
<1>8. QED
  BY <1>5, <1>6, <1>7 DEF PathInv

LEMMA PathEnd == ASSUME PathInv, EndDocument PROVE PathInv'
<1>1. UNCHANGED <<lines, content, headings, document_title>>
  BY DEF EndDocument
<1>2. ASSUME WellNested' PROVE StackIsRight'
  <2>1. WellNested
    BY <1>1, <1>2 DEF WellNested, IsHeading
  <2>2. StackIsRight
    BY <2>1 DEF PathInv
  <2>3. headings = <<>> => current_body = <<>>
    BY <2>2, NothingBefore DEF PathInv
  <2>4. Trim(<<>>) = <<>>
    <3>1. {i \in DOMAIN <<>> : ~IsBlank(<<>>[i])} = {}
      BY EmptyIsSequence
    <3>2. QED
      BY <3>1 DEF Trim
  <2>5. FlushCurrent
    BY <2>3, <2>4 DEF EndDocument
  <2>6. \A i \in DOMAIN chunks' : CitedRight(chunks'[i], lines, content)
    BY <2>2, <2>5, FlushCites DEF PathInv
  <2>7. ToSet(current_body') \subseteq ToSet(current_body)
    <3>1. current_body' = <<>> \/ current_body' = Trim(current_body)
      BY <2>5 DEF FlushCurrent
    <3>2. ToSet(<<>>) = {} /\ ToSet(Trim(current_body)) \subseteq ToSet(current_body)
      BY EmptyIsSequence, TrimIs DEF ToSet, PathInv, TextInv
    <3>3. QED
      BY <3>1, <3>2
  <2>8. QED
    BY <1>1, <2>2, <2>6, <2>7 DEF StackIsRight
<1>3. TextInv'
  BY TextEnd DEF PathInv
<1>4. QED
  BY <1>1, <1>2, <1>3 DEF PathInv

LEMMA StackEmpty ==
    /\ <<>> \in Seq(1..Len(<<>>)) /\ Len(<<>>) = 0 /\ DOMAIN <<>> = {} /\ ToSet(<<>>) = {}
    /\ Under(<<>>, Len(<<>>) + 1) = {} /\ Increasing(<<>>) /\ 1..Len(<<>>) = {}
<1>1. <<>> \in Seq(1..Len(<<>>)) /\ Len(<<>>) = 0 /\ DOMAIN <<>> = {} /\ 1..Len(<<>>) = {}
  BY EmptyIsSequence
<1>2. 1..Len(<<>>) + 1 - 1 = {}
  BY <1>1
<1>3. QED
  BY <1>1, <1>2 DEF ToSet, Under, Increasing

LEMMA PathReset ==
    ASSUME lines' = <<>>, content' = <<>>, headings' = <<>>, current_body' = <<>>, chunks' = <<>>,
           ended' = FALSE
    PROVE  PathInv'
<1>1. StackIsRight'
  BY StackEmpty DEF StackIsRight
<1>2. TextInv'
  BY TextReset
<1>3. QED
  BY <1>1, <1>2, EmptyIsSequence DEF PathInv

LEMMA PathInit == Init => PathInv
<1> SUFFICES ASSUME Init PROVE PathInv
  OBVIOUS
<1>1. lines = <<>> /\ headings = <<>> /\ current_body = <<>> /\ chunks = <<>>
  BY DEF Init, ChunkerInit
<1>2. StackIsRight
  BY <1>1, StackEmpty DEF StackIsRight
<1>3. TextInv
  BY TextInit
<1>4. QED
  BY <1>1, <1>2, <1>3, EmptyIsSequence DEF PathInv

LEMMA PathStep == ASSUME PathInv, [Next]_vars PROVE PathInv'
<1>1. CASE ReadLine
  BY <1>1, PathText, PathHeading, PathEnd DEF ReadLine
<1>2. CASE KeepChunks
  BY <1>2, PathReset DEF KeepChunks
<1>3. CASE LoadFails \/ OpenDocument \/ EndLoading \/ IndexChunk \/ Serve \/ UNCHANGED vars
  <2>1. UNCHANGED <<lines, content, headings, current_body, chunks, ended, document_title>>
    BY <1>3 DEF LoadFails, OpenDocument, EndLoading, IndexChunk, Serve, vars, chunkerVars,
                documentVars
  <2>2. TextInv'
    BY TextStep DEF PathInv
  <2>3. WellNested' => WellNested
    BY <2>1 DEF WellNested, IsHeading
  <2>4. StackIsRight => StackIsRight'
    BY <2>1 DEF StackIsRight
  <2>5. QED
    BY <2>1, <2>2, <2>3, <2>4 DEF PathInv
<1>4. QED
  BY <1>1, <1>2, <1>3 DEF Next

\* In every well nested document, of any length and depth, every line of text is
\* cited under exactly the headings it stands under, in their order, and under its
\* document's title (chunkMarkdown, the stack of headings; joinHeadings).
THEOREM TextIsCitedRight == Spec => []PathsAreAncestors
<1>1. PathInv /\ [Next]_vars => PathInv'
  BY PathStep
<1>2. PathInv => PathsAreAncestors
  <2> SUFFICES ASSUME PathInv, WellNested, NEW i \in DOMAIN chunks, NEW n,
                      n \in {content[p].line : p \in ToSet(chunks[i].raw_text)}
               PROVE  LET path == chunks[i].heading_path
                      IN  /\ ToSet(path) = Ancestors(n)
                          /\ \A j, k \in DOMAIN path : j < k => path[j] < path[k]
                          /\ chunks[i].title = path[1]
    BY DEF PathsAreAncestors
  <2>1. PICK p \in ToSet(chunks[i].raw_text) : n = content[p].line
    OBVIOUS
  <2>2. CitedRight(chunks[i], lines, content)
    BY DEF PathInv, StackIsRight
  <2>3. Ancestors(n) = Under(lines, n)
    BY DEF Ancestors, Under, IsHeading
  <2>4. QED
    BY <2>1, <2>2, <2>3 DEF CitedRight, Increasing
<1>3. QED
  BY <1>1, <1>2, PathInit, PTL DEF Spec

--------------------------------------------------------------------------------
(* The tokenizer.                                                            *)

NoTokens == [tokens |-> <<>>, current_token |-> <<>>]

TokenState == [tokens : Seq(Seq(Char)), current_token : Seq(Char)]

LEMMA TokenStateKept ==
    ASSUME NEW state \in TokenState, NEW c \in Char
    PROVE  NextCharacter(state, c) \in TokenState /\ PushToken(state) \in TokenState
<1>1. state.tokens \in Seq(Seq(Char)) /\ state.current_token \in Seq(Char) /\ ToLower[c] \in Char
  BY DEF TokenState, ToLower, Char
<1>2. PushToken(state) \in TokenState
  <2>1. Append(state.tokens, state.current_token) \in Seq(Seq(Char)) /\ <<>> \in Seq(Char)
    BY <1>1
  <2>2. QED
    BY <2>1 DEF PushToken, TokenState
<1>3. [state EXCEPT !.current_token = Append(@, ToLower[c])] \in TokenState
  <2>1. Append(state.current_token, ToLower[c]) \in Seq(Char)
    BY <1>1
  <2>2. QED
    BY <2>1 DEF TokenState
<1>4. QED
  BY <1>2, <1>3 DEF NextCharacter

TokenizesTo(f, text) ==
    f = [s \in SUBSET (1..Len(text)) |->
            IF s = {} THEN NoTokens ELSE NextCharacter(f[s \ {Max(s)}], text[Max(s)])]

\* The loop of tokenize.
LEMMA TokenizeLoop ==
    ASSUME NEW text \in Seq(Char)
    PROVE  \E r : /\ r[0] = NoTokens
                  /\ \A k \in 1..Len(text) : r[k] = NextCharacter(r[k - 1], text[k])
                  /\ \A k \in 0..Len(text) : r[k] \in TokenState
                  /\ Tokenize(text) = PushToken(r[Len(text)]).tokens
<1> DEFINE n == Len(text)
           H == [i \in 1..n |-> [v \in TokenState |-> NextCharacter(v, text[i])]]
<1>1. n \in Nat /\ DOMAIN text = 1..n /\ \A i \in 1..n : text[i] \in Char
  OBVIOUS
<1>2. NoTokens \in TokenState
  BY DEF NoTokens, TokenState
<1>3. Tokenize(text) = PushToken((CHOOSE f : TokenizesTo(f, text))[1..n]).tokens
  BY <1>1 DEF Tokenize, FoldLeft, MapThenFoldSet, TokenizesTo, NoTokens
<1>4. \A i \in 1..n : \A v \in TokenState : H[i][v] = NextCharacter(v, text[i])
  OBVIOUS
<1> HIDE DEF H, n
<1>5. \A i \in 1..n : \A v \in TokenState : H[i][v] \in TokenState
  BY <1>1, <1>4, TokenStateKept
<1>6. \E f : TokenizesTo(f, text)
  <2>1. PICK f : f \in [SUBSET (1..n) -> TokenState] /\ Folds(f, n, NoTokens, H)
    BY <1>1, <1>2, <1>5, FoldsExist
  <2>2. \A s \in SUBSET (1..n) : f[s] = IF s = {} THEN NoTokens ELSE H[Max(s)][f[s \ {Max(s)}]]
    BY <2>1 DEF Folds
  <2> DEFINE r == [s \in SUBSET (1..n) |->
                      IF s = {} THEN NoTokens ELSE NextCharacter(f[s \ {Max(s)}], text[Max(s)])]
  <2>3. ASSUME NEW s \in SUBSET (1..n) PROVE f[s] = r[s]
    <3>1. CASE s = {}
      BY <2>2, <3>1
    <3>2. CASE s # {}
      <4>1. Max(s) \in 1..n
        BY <1>1, <3>2, MaxIs
      <4>2. f[s \ {Max(s)}] \in TokenState
        BY <2>1
      <4>3. f[s] = NextCharacter(f[s \ {Max(s)}], text[Max(s)])
        BY <1>4, <2>2, <3>2, <4>1, <4>2
      <4>4. r[s] = NextCharacter(f[s \ {Max(s)}], text[Max(s)])
        BY <3>2
      <4> HIDE DEF r
      <4>5. QED
        BY <4>3, <4>4
    <3>3. QED
      BY <3>1, <3>2
  <2>4. f = r
    <3>1. f = [s \in SUBSET (1..n) |-> f[s]]
      BY <2>1, Zenon
    <3>2. r = [s \in SUBSET (1..n) |-> r[s]]
      OBVIOUS
    <3> HIDE DEF r
    <3>3. QED
      BY <2>3, <3>1, <3>2, Zenon
  <2>5. QED
    BY <2>4 DEF TokenizesTo, n
<1>7. PICK f : TokenizesTo(f, text) /\ Tokenize(text) = PushToken(f[1..n]).tokens
  BY <1>3, <1>6
<1>8. \A s \in SUBSET (1..n) :
         f[s] = IF s = {} THEN NoTokens ELSE NextCharacter(f[s \ {Max(s)}], text[Max(s)])
  <2> DEFINE r == [s \in SUBSET (1..n) |->
                      IF s = {} THEN NoTokens ELSE NextCharacter(f[s \ {Max(s)}], text[Max(s)])]
  <2>1. f = r
    BY <1>7 DEF TokenizesTo, n
  <2>2. \A s \in SUBSET (1..n) :
           r[s] = IF s = {} THEN NoTokens ELSE NextCharacter(f[s \ {Max(s)}], text[Max(s)])
    OBVIOUS
  <2> HIDE DEF r
  <2>3. QED
    BY <2>1, <2>2
<1> DEFINE q == [k \in 0..n |-> f[1..k]]
<1>9. \A k \in 0..n : q[k] = f[1..k]
  OBVIOUS
<1>10. q[0] = NoTokens
  <2>1. 1..0 = {} /\ 1..0 \in SUBSET (1..n) /\ 0 \in 0..n
    BY <1>1
  <2> HIDE DEF q
  <2>2. QED
    BY <1>8, <1>9, <2>1
<1> HIDE DEF q
<1>11. ASSUME NEW k \in 1..n PROVE q[k] = NextCharacter(q[k - 1], text[k])
  <2>1. k \in Nat /\ k # 0 /\ 1..k \in SUBSET (1..n) /\ k \in 0..n /\ k - 1 \in 0..n
    BY <1>1
  <2>2. Max(1..k) = k /\ (1..k) \ {k} = 1..k - 1 /\ 1..k # {}
    BY <2>1, MaxUpTo
  <2>3. f[1..k] = NextCharacter(f[(1..k) \ {Max(1..k)}], text[Max(1..k)])
    BY <1>8, <2>1, <2>2
  <2>4. q[k] = f[1..k] /\ q[k - 1] = f[1..k - 1]
    BY <1>9, <2>1
  <2>5. QED
    BY <2>2, <2>3, <2>4
<1>12. \A k \in 0..n : q[k] \in TokenState
  <2> DEFINE K == {k \in 0..n : q[k] \notin TokenState}
  <2> SUFFICES ASSUME K # {} PROVE FALSE
    OBVIOUS
  <2>1. PICK k \in K : \A j \in K : k <= j
    <3>1. K \subseteq Nat
      OBVIOUS
    <3> HIDE DEF K
    <3>2. QED
      BY <3>1, MinIs
  <2>2. k \in 0..n /\ q[k] \notin TokenState
    BY <2>1
  <2>3. k # 0 /\ k \in 1..n /\ k - 1 \in 0..n
    BY <1>1, <1>2, <1>10, <2>2
  <2>4. q[k - 1] \in TokenState
    <3>1. k - 1 \notin K
      <4> HIDE DEF K
      <4>1. QED
        BY <1>1, <2>1, <2>2, <2>3
    <3>2. QED
      BY <2>3, <3>1
  <2>5. QED
    BY <1>1, <1>11, <2>2, <2>3, <2>4, TokenStateKept
<1>13. n \in 0..n
  BY <1>1
<1>14. QED
  BY <1>7, <1>9, <1>10, <1>11, <1>12, <1>13 DEF n

\* The longest runs of token characters, by their first and last place.
Runs(text) ==
    {at \in (DOMAIN text) \X (DOMAIN text) :
        /\ at[1] <= at[2]
        /\ \A i \in at[1]..at[2] : IsTokenCharacter(text[i])
        /\ \A i \in {at[1] - 1, at[2] + 1} \cap DOMAIN text : ~IsTokenCharacter(text[i])}

Word(text, at) == [i \in 1..at[2] - at[1] + 1 |-> ToLower[text[at[1] + i - 1]]]

\* The places 1..m correspond to the elements of R.
Numbers(p, m, R) ==
    /\ \A j \in 1..m : p[j] \in R
    /\ \A j, k \in 1..m : p[j] = p[k] => j = k
    /\ \A x \in R : \E j \in 1..m : p[j] = x

\* The current token is what follows the last separator among k characters.
CurrentHas(text, k, current, c) ==
    /\ c \in 0..k
    /\ current = [i \in 1..c |-> current[i]]
    /\ \A i \in 1..c : IsTokenCharacter(text[k - c + i]) /\ current[i] = ToLower[text[k - c + i]]
    /\ k = c \/ ~IsTokenCharacter(text[k - c])

CurrentIs(text, k, current) == CurrentHas(text, k, current, Len(current))

EndingBefore(text, k) == {at \in Runs(text) : at[2] < k}

Lexed(text, tokens, R) ==
    \E p : /\ Numbers(p, Len(tokens), R)
           /\ \A j \in 1..Len(tokens) : tokens[j] = Word(text, p[j])

LEMMA RunIs ==
    ASSUME NEW text, IsSequence(text), NEW at \in Runs(text)
    PROVE  /\ at[1] \in 1..Len(text) /\ at[2] \in 1..Len(text) /\ at[1] <= at[2]
           /\ at = <<at[1], at[2]>> /\ Len(text) \in Nat
           /\ \A i \in at[1]..at[2] : IsTokenCharacter(text[i])
           /\ at[1] = 1 \/ ~IsTokenCharacter(text[at[1] - 1])
           /\ at[2] = Len(text) \/ ~IsTokenCharacter(text[at[2] + 1])
<1>1. DOMAIN text = 1..Len(text) /\ Len(text) \in Nat
  BY DEF IsSequence
<1>2. /\ at \in (DOMAIN text) \X (DOMAIN text) /\ at[1] <= at[2]
      /\ \A i \in at[1]..at[2] : IsTokenCharacter(text[i])
      /\ \A i \in {at[1] - 1, at[2] + 1} \cap DOMAIN text : ~IsTokenCharacter(text[i])
  BY DEF Runs
<1>3. at[1] \in 1..Len(text) /\ at[2] \in 1..Len(text) /\ at = <<at[1], at[2]>>
  BY <1>1, <1>2
<1>4. at[1] = 1 \/ at[1] - 1 \in DOMAIN text
  BY <1>1, <1>3
<1>5. at[2] = Len(text) \/ at[2] + 1 \in DOMAIN text
  BY <1>1, <1>3
<1>6. QED
  BY <1>1, <1>2, <1>3, <1>4, <1>5

LEMMA RunMade ==
    ASSUME NEW text, IsSequence(text), NEW a \in 1..Len(text), NEW b \in 1..Len(text), a <= b,
           \A i \in a..b : IsTokenCharacter(text[i]),
           a = 1 \/ ~IsTokenCharacter(text[a - 1]),
           b = Len(text) \/ ~IsTokenCharacter(text[b + 1])
    PROVE  <<a, b>> \in Runs(text)
<1>1. DOMAIN text = 1..Len(text) /\ Len(text) \in Nat
  BY DEF IsSequence
<1> DEFINE at == <<a, b>>
<1>2. at \in (DOMAIN text) \X (DOMAIN text) /\ at[1] = a /\ at[2] = b
  BY <1>1
<1>3. \A i \in {a - 1, b + 1} \cap DOMAIN text : ~IsTokenCharacter(text[i])
  <2>1. PICK n \in Nat : n = Len(text)
    BY <1>1
  <2>2. a \in 1..n /\ b \in 1..n /\ DOMAIN text = 1..n
    BY <1>1, <2>1
  <2>3. b = n \/ ~IsTokenCharacter(text[b + 1])
    BY <2>1, Zenon
  <2>4. \A m \in Nat : \A x, y \in 1..m : \A i \in 1..m :
           (i = x - 1 => x # 1) /\ (i = y + 1 => y # m)
    OBVIOUS
  <2>5. \A i \in 1..n : (i = a - 1 => a # 1) /\ (i = b + 1 => b # n)
    BY <2>2, <2>4
  <2>6. QED
    BY <2>2, <2>3, <2>5, Zenon
<1> HIDE DEF at
<1>4. at \in Runs(text)
  BY <1>2, <1>3 DEF Runs
<1>5. QED
  BY <1>4 DEF at

\* The run that ends with character k, if the next one is a separator.
LEMMA RunEndingAt ==
    ASSUME NEW text, IsSequence(text), NEW k \in 0..Len(text), NEW current,
           CurrentIs(text, k, current), k = Len(text) \/ ~IsTokenCharacter(text[k + 1])
    PROVE  {at \in Runs(text) : at[2] = k}
              = IF Len(current) = 0 THEN {} ELSE {<<k - Len(current) + 1, k>>}
<1> DEFINE c == Len(current)
<1>1. /\ c \in Nat /\ c <= k /\ k \in Nat /\ Len(text) \in Nat
      /\ \A i \in 1..c : IsTokenCharacter(text[k - c + i])
      /\ k = c \/ ~IsTokenCharacter(text[k - c])
  BY DEF CurrentIs, CurrentHas, IsSequence
<1> HIDE DEF c
<1>2. \A i \in k - c + 1..k : IsTokenCharacter(text[i])
  <2> SUFFICES ASSUME NEW i \in k - c + 1..k PROVE IsTokenCharacter(text[i])
    OBVIOUS
  <2>1. PICK j \in 1..c : k - c + j = i
    <3>1. i - (k - c) \in 1..c /\ k - c + (i - (k - c)) = i
      BY <1>1
    <3>2. QED
      BY <3>1
  <2>2. QED
    BY <1>1, <2>1
<1>3. ASSUME NEW at \in Runs(text), at[2] = k PROVE c # 0 /\ at = <<k - c + 1, k>>
  <2>1. /\ at[1] \in 1..Len(text) /\ at[1] <= k /\ at = <<at[1], k>>
        /\ \A i \in at[1]..k : IsTokenCharacter(text[i])
        /\ at[1] = 1 \/ ~IsTokenCharacter(text[at[1] - 1])
    BY <1>3, RunIs
  <2>2. ~(at[1] <= k - c)
    <3> SUFFICES ASSUME at[1] <= k - c PROVE FALSE
      OBVIOUS
    <3>1. k - c \in at[1]..k /\ k # c
      BY <1>1, <2>1
    <3>2. QED
      BY <1>1, <2>1, <3>1
  <2>3. ~(at[1] > k - c + 1)
    <3> SUFFICES ASSUME at[1] > k - c + 1 PROVE FALSE
      OBVIOUS
    <3>1. at[1] - 1 \in k - c + 1..k /\ at[1] # 1
      BY <1>1, <2>1
    <3>2. QED
      BY <1>2, <2>1, <3>1
  <2>4. at[1] = k - c + 1
    BY <1>1, <2>1, <2>2, <2>3
  <2>5. QED
    BY <1>1, <2>1, <2>4
<1>4. ASSUME c # 0 PROVE <<k - c + 1, k>> \in Runs(text)
  <2>1. k - c + 1 \in 1..Len(text) /\ k \in 1..Len(text) /\ k - c + 1 <= k
    BY <1>1, <1>4
  <2>2. PICK a \in 1..Len(text) : a = k - c + 1
    BY <2>1
  <2>3. \A i \in a..k : IsTokenCharacter(text[i])
    BY <1>2, <2>2
  <2>4. a <= k /\ (a = 1 \/ ~IsTokenCharacter(text[a - 1]))
    <3>1. a <= k /\ (k = c => a = 1) /\ a - 1 = k - c
      BY <1>1, <2>1, <2>2
    <3>2. QED
      BY <1>1, <3>1, Zenon
  <2>5. <<a, k>> \in Runs(text)
    BY <2>1, <2>3, <2>4, RunMade
  <2>6. QED
    BY <2>2, <2>5
<1>5. \A a : <<a, k>>[2] = k
  OBVIOUS
<1>6. {at \in Runs(text) : at[2] = k} = IF c = 0 THEN {} ELSE {<<k - c + 1, k>>}
  <2>1. CASE c = 0
    BY <1>3, <2>1
  <2>2. CASE c # 0
    <3> DEFINE x == <<k - c + 1, k>>
    <3>1. x \in Runs(text) /\ x[2] = k
      BY <1>4, <1>5, <2>2
    <3>2. \A at \in Runs(text) : at[2] = k => at = x
      BY <1>3
    <3> HIDE DEF x
    <3>3. {at \in Runs(text) : at[2] = k} = {x}
      BY <3>1, <3>2
    <3>4. QED
      BY <2>2, <3>3 DEF x
  <2>3. QED
    BY <2>1, <2>2
<1>7. QED
  BY <1>6 DEF c

\* One more token, of another run.
LEMMA LexedAppend ==
    ASSUME NEW text, NEW tokens, IsSequence(tokens), NEW R, Lexed(text, tokens, R),
           NEW x, x \notin R, NEW e, e = Word(text, x)
    PROVE  Lexed(text, Append(tokens, e), R \cup {x})
<1> DEFINE t == Append(tokens, e)
           m == Len(tokens)
<1>1. /\ Len(t) = m + 1 /\ m \in Nat
      /\ \A i \in 1..m : t[i] = tokens[i]
      /\ t[m + 1] = e
  BY AppendIs
<1> HIDE DEF t, m
<1>2. PICK p : Numbers(p, m, R) /\ \A j \in 1..m : tokens[j] = Word(text, p[j])
  BY DEF Lexed, m
<1> DEFINE q == [j \in 1..m + 1 |-> IF j = m + 1 THEN x ELSE p[j]]
<1>3. q[m + 1] = x /\ \A j \in 1..m : q[j] = p[j]
  BY <1>1
<1> HIDE DEF q
<1>4. 1..m + 1 = 1..m \cup {m + 1} /\ m + 1 \notin 1..m
  BY <1>1
<1>5. Numbers(q, m + 1, R \cup {x})
  BY <1>2, <1>3, <1>4 DEF Numbers
<1>6. \A j \in 1..m + 1 : t[j] = Word(text, q[j])
  BY <1>1, <1>2, <1>3, <1>4
<1>7. QED
  BY <1>1, <1>5, <1>6 DEF Lexed, t

\* A token is pushed when its run has ended.
LEMMA PushIs ==
    ASSUME NEW text, IsSequence(text), NEW k \in 0..Len(text), NEW state,
           IsSequence(state.tokens), Lexed(text, state.tokens, EndingBefore(text, k)),
           CurrentIs(text, k, state.current_token),
           state = [tokens |-> state.tokens, current_token |-> state.current_token],
           k = Len(text) \/ ~IsTokenCharacter(text[k + 1])
    PROVE  /\ Lexed(text, PushToken(state).tokens, EndingBefore(text, k + 1))
           /\ PushToken(state).current_token = <<>>
<1> DEFINE c == Len(state.current_token)
           x == <<k - c + 1, k>>
           R == EndingBefore(text, k)
<1>1. {at \in Runs(text) : at[2] = k} = IF c = 0 THEN {} ELSE {x}
  BY RunEndingAt
<1>2. c \in Nat /\ k \in Nat /\ Len(text) \in Nat /\ c <= k
  BY DEF CurrentIs, CurrentHas, IsSequence
<1>3. EndingBefore(text, k + 1) = R \cup {at \in Runs(text) : at[2] = k}
  <2>1. \A at \in Runs(text) : at[2] < k + 1 <=> at[2] < k \/ at[2] = k
    BY <1>2, RunIs
  <2>2. QED
    BY <2>1 DEF EndingBefore
<1>4. state.current_token = <<>> <=> c = 0
  <2>1. state.current_token = <<>> => c = 0
    <3>1. Len(<<>>) = 0
      BY EmptyIsSequence
    <3>2. QED
      BY <3>1, Zenon
  <2>2. ASSUME c = 0 PROVE state.current_token = <<>>
    <3>1. state.current_token = [i \in 1..0 |-> state.current_token[i]]
      BY <2>2 DEF CurrentIs, CurrentHas
    <3>2. 1..0 = {}
      OBVIOUS
    <3>3. QED
      BY <3>1, <3>2
  <2>3. QED
    BY <2>1, <2>2
<1>5. CASE c = 0
  <2>1. PushToken(state) = state
    BY <1>4, <1>5 DEF PushToken
  <2>2. EndingBefore(text, k + 1) = R
    BY <1>1, <1>3, <1>5
  <2>3. QED
    BY <1>4, <1>5, <2>1, <2>2
<1>6. CASE c # 0
  <2>1. /\ PushToken(state).tokens = Append(state.tokens, state.current_token)
        /\ PushToken(state).current_token = <<>>
    BY <1>4, <1>6 DEF PushToken
  <2>2. EndingBefore(text, k + 1) = R \cup {x}
    BY <1>1, <1>3, <1>6
  <2>3. x \notin R /\ x[2] = k /\ x[1] = k - c + 1
    <3>1. x[2] = k /\ x[1] = k - c + 1
      OBVIOUS
    <3>2. ~(k < k)
      BY <1>2
    <3>3. QED
      BY <3>1, <3>2 DEF EndingBefore
  <2>4. state.current_token = Word(text, x)
    <3> DEFINE u == state.current_token
    <3>1. u = [i \in 1..c |-> u[i]]
      BY DEF CurrentIs, CurrentHas
    <3>2. \A i \in 1..c : u[i] = ToLower[text[k - c + i]]
      BY DEF CurrentIs, CurrentHas
    <3>3. x[2] - x[1] + 1 = c
      BY <1>2, <2>3
    <3>4. \A i \in 1..c : x[1] + i - 1 = k - c + i
      BY <1>2, <2>3
    <3>5. Word(text, x) = [i \in 1..c |-> ToLower[text[x[1] + i - 1]]]
      BY <3>3 DEF Word
    <3> HIDE DEF u, x, c
    <3>6. QED
      BY <3>1, <3>2, <3>4, <3>5 DEF u
  <2> HIDE DEF x, R, c
  <2>5. Lexed(text, Append(state.tokens, state.current_token), R \cup {x})
    <3>1. Lexed(text, state.tokens, R)
      BY DEF R
    <3>2. QED
      BY <2>3, <2>4, <3>1, LexedAppend
  <2>6. QED
    BY <2>1, <2>2, <2>5
<1>7. QED
  BY <1>5, <1>6

LEMMA SequenceIs ==
    ASSUME NEW S, NEW s \in Seq(S)
    PROVE  IsSequence(s) /\ Len(s) \in Nat /\ s = [i \in 1..Len(s) |-> s[i]]
BY DEF IsSequence

\* After k characters.
LexedTo(text, k, state) ==
    /\ Lexed(text, state.tokens, EndingBefore(text, k))
    /\ CurrentIs(text, k, state.current_token)

LEMMA LexedStart ==
    ASSUME NEW text, IsSequence(text)
    PROVE  LexedTo(text, 0, NoTokens)
<1>1. NoTokens.tokens = <<>> /\ NoTokens.current_token = <<>>
  BY DEF NoTokens
<1>2. EndingBefore(text, 0) = {}
  <2>1. \A at \in Runs(text) : at[2] \in Nat /\ at[2] # 0
    BY RunIs
  <2>2. \A at \in Runs(text) : ~(at[2] < 0)
    BY <2>1
  <2>3. QED
    BY <2>2 DEF EndingBefore
<1>3. 1..0 = {} /\ Len(<<>>) = 0
  OBVIOUS
<1> DEFINE e == <<>>
<1> HIDE DEF e
<1>4. Len(e) = 0 => Lexed(text, e, {})
  BY <1>3 DEF Lexed, Numbers
<1>5. e = [i \in 1..0 |-> e[i]]
  BY <1>3 DEF e
<1>6. Len(e) = 0 => CurrentIs(text, 0, e)
  BY <1>3, <1>5 DEF CurrentIs, CurrentHas
<1>7. QED
  BY <1>1, <1>2, <1>3, <1>4, <1>6 DEF LexedTo, e

\* A character of a token.
LEMMA LexedMore ==
    ASSUME NEW text, IsSequence(text), NEW k \in Nat, k + 1 \in 1..Len(text),
           NEW state \in TokenState, LexedTo(text, k, state),
           IsTokenCharacter(text[k + 1]), text[k + 1] \in Char
    PROVE  LexedTo(text, k + 1, NextCharacter(state, text[k + 1]))
<1> DEFINE c == text[k + 1]
           old == state.current_token
           new == NextCharacter(state, text[k + 1])
           cur == Append(old, ToLower[c])
<1>1. /\ old \in Seq(Char) /\ ToLower[c] \in Char
      /\ state = [tokens |-> state.tokens, current_token |-> old]
  BY DEF TokenState, ToLower, Char
<1>2. new.tokens = state.tokens /\ new.current_token = cur
  <2>1. new = [state EXCEPT !.current_token = Append(@, ToLower[c])]
    BY DEF NextCharacter
  <2> HIDE DEF new
  <2>2. QED
    BY <1>1, <2>1
<1>3. EndingBefore(text, k + 1) = EndingBefore(text, k)
  <2>1. ASSUME NEW at \in Runs(text) PROVE at[2] < k + 1 <=> at[2] < k
    <3>1. /\ at[2] \in 1..Len(text) /\ Len(text) \in Nat
          /\ at[2] = Len(text) \/ ~IsTokenCharacter(text[at[2] + 1])
      BY RunIs
    <3>2. at[2] # k
      <4>1. CASE at[2] = Len(text)
        BY <3>1, <4>1
      <4>2. CASE ~IsTokenCharacter(text[at[2] + 1])
        BY <4>2, Zenon
      <4>3. QED
        BY <3>1, <4>1, <4>2, Zenon
    <3>3. QED
      BY <3>1, <3>2
  <2>2. QED
    BY <2>1 DEF EndingBefore
<1>4. cur \in Seq(Char)
  BY <1>1
<1> DEFINE m == Len(old)
<1>5. /\ Len(cur) = m + 1 /\ m \in Nat
      /\ \A i \in 1..m : cur[i] = old[i]
      /\ cur[m + 1] = ToLower[c]
  BY <1>1, SequenceIs, AppendIs
<1>6. cur = [i \in 1..Len(cur) |-> cur[i]]
  BY <1>4, SequenceIs
<1>7. /\ m \in 0..k
      /\ \A i \in 1..m : IsTokenCharacter(text[k - m + i]) /\ old[i] = ToLower[text[k - m + i]]
      /\ k = m \/ ~IsTokenCharacter(text[k - m])
  BY DEF LexedTo, CurrentIs, CurrentHas
<1> HIDE DEF cur, old, new, m
<1>8. ASSUME NEW i \in 1..m + 1
      PROVE  IsTokenCharacter(text[k - m + i]) /\ cur[i] = ToLower[text[k - m + i]]
  <2>1. CASE i \in 1..m
    BY <1>5, <1>7, <2>1
  <2>2. CASE i = m + 1
    <3>1. k - m + i = k + 1
      BY <1>5, <1>7, <2>2
    <3>2. cur[i] = ToLower[c]
      BY <1>5, <2>2
    <3>3. QED
      BY <3>1, <3>2
  <2>3. QED
    BY <1>5, <2>1, <2>2
<1>9. \A j : j = m + 1 => k + 1 - j = k - m /\ (k = m => k + 1 = j) /\ j \in 0..k + 1
  BY <1>5, <1>7
<1>10. CurrentIs(text, k + 1, cur)
  <2>1. PICK l \in Nat : l = m + 1
    BY <1>5
  <2>2. k + 1 - l = k - m /\ (k = m => k + 1 = l) /\ l \in 0..k + 1 /\ Len(cur) = l
    BY <1>5, <1>9, <2>1
  <2>3. \A i \in 1..l : IsTokenCharacter(text[k - m + i]) /\ cur[i] = ToLower[text[k - m + i]]
    BY <1>8, <2>1
  <2>4. PICK e : e = k + 1
    OBVIOUS
  <2>5. e - l = k - m /\ (k = m => e = l) /\ l \in 0..e
    BY <2>2, <2>4
  <2>6. \A i \in 1..l : IsTokenCharacter(text[e - l + i]) /\ cur[i] = ToLower[text[e - l + i]]
    BY <2>3, <2>5, Zenon
  <2>7. e = l \/ ~IsTokenCharacter(text[e - l])
    BY <1>7, <2>5, Zenon
  <2>8. cur = [i \in 1..l |-> cur[i]]
    BY <1>6, <2>2
  <2>9. CurrentHas(text, e, cur, l)
    BY <2>5, <2>6, <2>7, <2>8, Zenon DEF CurrentHas
  <2>10. QED
    BY <2>2, <2>4, <2>9 DEF CurrentIs
<1>11. QED
  BY <1>2, <1>3, <1>10 DEF LexedTo, new

\* A separator.
LEMMA LexedPast ==
    ASSUME NEW text, IsSequence(text), NEW k \in Nat, k + 1 \in 1..Len(text),
           NEW state \in TokenState, LexedTo(text, k, state), ~IsTokenCharacter(text[k + 1])
    PROVE  LexedTo(text, k + 1, NextCharacter(state, text[k + 1]))
<1> DEFINE new == PushToken(state)
<1>1. NextCharacter(state, text[k + 1]) = new
  BY DEF NextCharacter
<1>2. /\ IsSequence(state.tokens)
      /\ state = [tokens |-> state.tokens, current_token |-> state.current_token]
  BY SequenceIs DEF TokenState
<1>3. k \in 0..Len(text)
  BY DEF IsSequence
<1>4. Lexed(text, new.tokens, EndingBefore(text, k + 1)) /\ new.current_token = <<>>
  BY <1>2, <1>3, PushIs DEF LexedTo
<1> HIDE DEF new
<1>5. CurrentIs(text, k + 1, <<>>)
  <2> DEFINE e == <<>>
  <2>1. Len(e) = 0 /\ 1..0 = {}
    OBVIOUS
  <2>2. e = [i \in 1..0 |-> e[i]]
    BY <2>1
  <2> HIDE DEF e
  <2>3. k + 1 - 0 = k + 1 /\ 0 \in 0..k + 1
    OBVIOUS
  <2>4. \A l : l = 0 => k + 1 - l = k + 1 /\ l \in 0..k + 1 /\ 1..l = {}
    BY <2>1, <2>3
  <2>5. PICK l : l = Len(e)
    OBVIOUS
  <2>6. ~IsTokenCharacter(text[k + 1 - l])
    BY <2>1, <2>4, <2>5, Zenon
  <2>7. e = [i \in 1..l |-> e[i]]
    BY <2>1, <2>2, <2>5
  <2>8. CurrentHas(text, k + 1, e, l)
    BY <2>1, <2>4, <2>5, <2>6, <2>7 DEF CurrentHas
  <2>9. QED
    BY <2>5, <2>8 DEF CurrentIs, e
<1>6. QED
  BY <1>1, <1>4, <1>5 DEF LexedTo

\* The tokens of a text are its longest runs of token characters.
LEMMA TokensAre ==
    ASSUME NEW text \in Seq(Char)
    PROVE  IsSequence(Tokenize(text)) /\ Lexed(text, Tokenize(text), Runs(text))
           /\ Tokenize(text) \in Seq(Seq(Char))
<1> DEFINE n == Len(text)
<1>1. IsSequence(text) /\ n \in Nat /\ \A i \in 1..n : text[i] \in Char
  BY SequenceIs
<1>2. PICK r : /\ r[0] = NoTokens
               /\ \A k \in 1..n : r[k] = NextCharacter(r[k - 1], text[k])
               /\ \A k \in 0..n : r[k] \in TokenState
               /\ Tokenize(text) = PushToken(r[n]).tokens
  BY TokenizeLoop
<1> DEFINE K == {k \in 0..n : ~LexedTo(text, k, r[k])}
<1>3. K = {}
  <2> SUFFICES ASSUME K # {} PROVE FALSE
    OBVIOUS
  <2>1. PICK k \in K : \A j \in K : k <= j
    <3>1. K \subseteq Nat
      OBVIOUS
    <3> HIDE DEF K
    <3>2. QED
      BY <3>1, MinIs
  <2>2. k \in 0..n /\ ~LexedTo(text, k, r[k])
    BY <2>1
  <2> HIDE DEF n
  <2>3. k # 0
    BY <1>1, <1>2, <2>2, LexedStart
  <2>4. PICK j \in Nat : k = j + 1
    <3>1. k - 1 \in Nat /\ k = (k - 1) + 1
      BY <1>1, <2>2, <2>3
    <3>2. QED
      BY <3>1
  <2>5. j \in 0..n /\ j + 1 \in 1..n /\ k - 1 = j
    BY <1>1, <2>2, <2>4
  <2>6. LexedTo(text, j, r[j])
    <3>1. j \notin K
      <4> HIDE DEF K
      <4>1. QED
        BY <1>1, <2>1, <2>2, <2>4, <2>5
    <3>2. QED
      BY <2>5, <3>1
  <2> HIDE DEF K
  <2>7. r[j + 1] = NextCharacter(r[j], text[j + 1]) /\ r[j] \in TokenState /\ text[j + 1] \in Char
    BY <1>1, <1>2, <2>4, <2>5
  <2>8. LexedTo(text, j + 1, NextCharacter(r[j], text[j + 1]))
    <3>1. CASE IsTokenCharacter(text[j + 1])
      BY <1>1, <2>5, <2>6, <2>7, <3>1, LexedMore DEF n
    <3>2. CASE ~IsTokenCharacter(text[j + 1])
      BY <1>1, <2>5, <2>6, <2>7, <3>2, LexedPast DEF n
    <3>3. QED
      BY <3>1, <3>2
  <2>9. QED
    BY <2>2, <2>4, <2>7, <2>8
<1>4. n \in 0..n
  BY <1>1
<1>5. LexedTo(text, n, r[n]) /\ r[n] \in TokenState
  BY <1>2, <1>3, <1>4
<1> DEFINE state == r[n]
<1>6. /\ IsSequence(state.tokens)
      /\ state = [tokens |-> state.tokens, current_token |-> state.current_token]
  BY <1>5, SequenceIs DEF TokenState
<1>7. Lexed(text, PushToken(state).tokens, EndingBefore(text, n + 1))
  BY <1>1, <1>4, <1>5, <1>6, PushIs DEF LexedTo
<1>8. EndingBefore(text, n + 1) = Runs(text)
  <2>1. \A at \in Runs(text) : at[2] < n + 1
    BY <1>1, RunIs
  <2>2. QED
    BY <2>1 DEF EndingBefore
<1>9. PushToken(state).tokens \in Seq(Seq(Char))
  <2>1. Append(state.tokens, state.current_token) \in Seq(Seq(Char))
    BY <1>5 DEF TokenState
  <2>2. state.tokens \in Seq(Seq(Char))
    BY <1>5 DEF TokenState
  <2>3. QED
    BY <2>1, <2>2 DEF PushToken
<1>10. QED
  BY <1>2, <1>7, <1>8, <1>9, SequenceIs

FiltersTo(f, tokens) ==
    f = [s \in SUBSET (1..Len(tokens)) |->
            IF s = {} THEN <<>> ELSE KeepTerm(f[s \ {Max(s)}], tokens[Max(s)])]

\* The loop of analyzeTerms.
LEMMA TermsLoop ==
    ASSUME NEW S, NEW tokens \in Seq(S)
    PROVE  \E r : /\ r[0] = <<>>
                  /\ \A k \in 1..Len(tokens) : r[k] = KeepTerm(r[k - 1], tokens[k])
                  /\ FoldLeft(KeepTerm, <<>>, tokens) = r[Len(tokens)]
<1> DEFINE n == Len(tokens)
           V == Seq(S)
           H == [i \in 1..n |-> [v \in V |-> KeepTerm(v, tokens[i])]]
           b == <<>>
<1>1. n \in Nat /\ DOMAIN tokens = 1..n /\ \A i \in 1..n : tokens[i] \in S
  OBVIOUS
<1>2. b \in V
  OBVIOUS
<1>3. FoldLeft(KeepTerm, <<>>, tokens) = (CHOOSE f : FiltersTo(f, tokens))[1..n]
  BY <1>1 DEF FoldLeft, MapThenFoldSet, FiltersTo
<1>4. \A i \in 1..n : \A v \in V : H[i][v] = KeepTerm(v, tokens[i])
  OBVIOUS
<1>5. \A e \in S : \A v \in V : KeepTerm(v, e) \in V
  BY DEF KeepTerm
<1> HIDE DEF H, n, V, b
<1>6. \A i \in 1..n : \A v \in V : H[i][v] \in V
  BY <1>1, <1>4, <1>5
<1>7. \E f : FiltersTo(f, tokens)
  <2>1. PICK f : f \in [SUBSET (1..n) -> V] /\ Folds(f, n, b, H)
    BY <1>1, <1>2, <1>6, FoldsExist
  <2>2. \A s \in SUBSET (1..n) : f[s] = IF s = {} THEN b ELSE H[Max(s)][f[s \ {Max(s)}]]
    BY <2>1 DEF Folds
  <2> DEFINE r == [s \in SUBSET (1..n) |->
                      IF s = {} THEN <<>> ELSE KeepTerm(f[s \ {Max(s)}], tokens[Max(s)])]
  <2>3. ASSUME NEW s \in SUBSET (1..n) PROVE f[s] = r[s]
    <3>1. CASE s = {}
      BY <2>2, <3>1 DEF b
    <3>2. CASE s # {}
      <4>1. Max(s) \in 1..n
        BY <1>1, <3>2, MaxIs
      <4>2. f[s \ {Max(s)}] \in V
        BY <2>1
      <4>3. f[s] = KeepTerm(f[s \ {Max(s)}], tokens[Max(s)])
        BY <1>4, <2>2, <3>2, <4>1, <4>2
      <4>4. r[s] = KeepTerm(f[s \ {Max(s)}], tokens[Max(s)])
        BY <3>2
      <4> HIDE DEF r
      <4>5. QED
        BY <4>3, <4>4
    <3>3. QED
      BY <3>1, <3>2
  <2>4. f = r
    <3>1. f = [s \in SUBSET (1..n) |-> f[s]]
      BY <2>1, Zenon
    <3>2. r = [s \in SUBSET (1..n) |-> r[s]]
      OBVIOUS
    <3> HIDE DEF r
    <3>3. QED
      BY <2>3, <3>1, <3>2, Zenon
  <2>5. QED
    BY <2>4 DEF FiltersTo, n
<1>8. PICK f : FiltersTo(f, tokens) /\ FoldLeft(KeepTerm, <<>>, tokens) = f[1..n]
  BY <1>3, <1>7
<1>9. \A s \in SUBSET (1..n) :
         f[s] = IF s = {} THEN <<>> ELSE KeepTerm(f[s \ {Max(s)}], tokens[Max(s)])
  <2> DEFINE r == [s \in SUBSET (1..n) |->
                      IF s = {} THEN <<>> ELSE KeepTerm(f[s \ {Max(s)}], tokens[Max(s)])]
  <2>1. f = r
    BY <1>8 DEF FiltersTo, n
  <2>2. \A s \in SUBSET (1..n) :
           r[s] = IF s = {} THEN <<>> ELSE KeepTerm(f[s \ {Max(s)}], tokens[Max(s)])
    OBVIOUS
  <2> HIDE DEF r
  <2>3. QED
    BY <2>1, <2>2
<1> DEFINE q == [k \in 0..n |-> f[1..k]]
<1>10. \A k \in 0..n : q[k] = f[1..k]
  OBVIOUS
<1> HIDE DEF q
<1>11. q[0] = <<>>
  <2>1. 1..0 = {} /\ 1..0 \in SUBSET (1..n) /\ 0 \in 0..n
    BY <1>1
  <2>2. QED
    BY <1>9, <1>10, <2>1
<1>12. ASSUME NEW k \in 1..n PROVE q[k] = KeepTerm(q[k - 1], tokens[k])
  <2>1. k \in Nat /\ k # 0 /\ 1..k \in SUBSET (1..n) /\ k \in 0..n /\ k - 1 \in 0..n
    BY <1>1
  <2>2. Max(1..k) = k /\ (1..k) \ {k} = 1..k - 1 /\ 1..k # {}
    BY <2>1, MaxUpTo
  <2>3. f[1..k] = KeepTerm(f[(1..k) \ {Max(1..k)}], tokens[Max(1..k)])
    BY <1>9, <2>1, <2>2
  <2>4. q[k] = f[1..k] /\ q[k - 1] = f[1..k - 1]
    BY <1>10, <2>1
  <2>5. QED
    BY <2>2, <2>3, <2>4
<1>13. n \in 0..n
  BY <1>1
<1>14. QED
  BY <1>8, <1>10, <1>11, <1>12, <1>13 DEF n

\* The runs that are no stop words.
TermRuns(text) == {at \in Runs(text) : Word(text, at) \notin StopWords}

\* The terms of a text are its longest runs that are no stop words.
LEMMA TermsAre ==
    ASSUME NEW text \in Seq(Char)
    PROVE  IsSequence(AnalyzeTerms(text)) /\ Lexed(text, AnalyzeTerms(text), TermRuns(text))
<1> DEFINE tokens == Tokenize(text)
           n == Len(tokens)
<1>1. tokens \in Seq(Seq(Char)) /\ n \in Nat /\ Lexed(text, tokens, Runs(text))
  BY TokensAre
<1>2. PICK r : /\ r[0] = <<>>
               /\ \A k \in 1..n : r[k] = KeepTerm(r[k - 1], tokens[k])
               /\ AnalyzeTerms(text) = r[n]
  BY <1>1, TermsLoop DEF AnalyzeTerms
<1>3. PICK p : Numbers(p, n, Runs(text)) /\ \A j \in 1..n : tokens[j] = Word(text, p[j])
  BY <1>1 DEF Lexed
<1> HIDE DEF n, tokens
<1> DEFINE R(k) == {p[j] : j \in {i \in 1..k : Word(text, p[i]) \notin StopWords}}
           Good(k) == IsSequence(r[k]) /\ Lexed(text, r[k], R(k))
           K == {k \in 0..n : ~Good(k)}
<1>4. Good(0)
  <2>1. R(0) = {}
    OBVIOUS
  <2> HIDE DEF R
  <2> DEFINE e == <<>>
  <2>2. Len(e) = 0 /\ IsSequence(e) /\ 1..0 = {}
    BY EmptyIsSequence
  <2> HIDE DEF e
  <2>3. Lexed(text, e, {})
    BY <2>2 DEF Lexed, Numbers
  <2>4. QED
    BY <1>2, <2>1, <2>2, <2>3 DEF e
<1>5. ASSUME NEW k \in 1..n, NEW j \in Nat, k = j + 1, Good(j) PROVE Good(k)
  <2>1. r[k] = KeepTerm(r[j], tokens[k]) /\ 1..k = 1..j \cup {k} /\ k \notin 1..j
    <3>1. k - 1 = j /\ 1..k = 1..j \cup {k} /\ k \notin 1..j
      BY <1>5
    <3>2. QED
      BY <1>2, <3>1
  <2>2. tokens[k] = Word(text, p[k])
    BY <1>3
  <2>3. CASE Word(text, p[k]) \in StopWords
    <3>1. R(k) = R(j)
      BY <2>1, <2>3
    <3>2. r[k] = r[j]
      BY <2>1, <2>2, <2>3 DEF KeepTerm
    <3> HIDE DEF R
    <3>3. QED
      BY <1>5, <3>1, <3>2
  <2>4. CASE Word(text, p[k]) \notin StopWords
    <3>1. R(k) = R(j) \cup {p[k]}
      BY <2>1, <2>4
    <3>2. r[k] = Append(r[j], tokens[k])
      BY <2>1, <2>2, <2>4 DEF KeepTerm
    <3>3. p[k] \notin R(j)
      <4>1. \A i \in 1..j : i \in 1..n /\ i # k
        BY <1>1, <1>5, <2>1 DEF n
      <4>2. \A i \in 1..j : p[i] # p[k]
        BY <1>3, <4>1 DEF Numbers
      <4>3. QED
        BY <4>2
    <3> HIDE DEF R
    <3>4. IsSequence(r[k]) /\ Lexed(text, r[k], R(j) \cup {p[k]})
      BY <1>5, <2>2, <3>2, <3>3, AppendIs, LexedAppend
    <3>5. QED
      BY <3>1, <3>4
  <2>5. QED
    BY <2>3, <2>4
<1>6. Good(n)
  <2> HIDE DEF R
  <2>1. K = {}
    <3> SUFFICES ASSUME K # {} PROVE FALSE
      OBVIOUS
    <3>1. PICK k \in K : \A j \in K : k <= j
      <4>1. K \subseteq Nat
        OBVIOUS
      <4> HIDE DEF K
      <4>2. QED
        BY <4>1, MinIs
    <3>2. k \in 0..n /\ ~Good(k)
      BY <3>1
    <3> HIDE DEF Good
    <3>3. n \in Nat /\ k # 0
      BY <1>1, <1>4, <3>2 DEF n
    <3>4. PICK j \in Nat : k = j + 1
      <4>1. k - 1 \in Nat /\ k = (k - 1) + 1
        BY <3>2, <3>3
      <4>2. QED
        BY <4>1
    <3>5. k \in 1..n /\ j \in 0..n /\ ~(k <= j)
      BY <3>2, <3>3, <3>4
    <3>6. Good(j)
      BY <3>1, <3>5
    <3>7. QED
      BY <1>5, <3>2, <3>4, <3>5, <3>6
  <2>2. n \in 0..n
    BY <1>1 DEF n
  <2> HIDE DEF Good
  <2>3. QED
    BY <2>1, <2>2
<1>7. R(n) = TermRuns(text)
  <2>1. \A x \in Runs(text) : \E j \in 1..n : p[j] = x
    BY <1>3 DEF Numbers
  <2>2. \A j \in 1..n : p[j] \in Runs(text)
    BY <1>3 DEF Numbers
  <2>3. QED
    BY <2>1, <2>2 DEF TermRuns
<1>8. QED
  BY <1>2, <1>6, <1>7

--------------------------------------------------------------------------------
(* Counting.                                                                 *)

LEMMA SameSize ==
    ASSUME NEW S, IsFiniteSet(S), NEW T, NEW f, \A x \in S : f[x] \in T,
           \A x, y \in S : f[x] = f[y] => x = y, \A z \in T : \E x \in S : f[x] = z
    PROVE  IsFiniteSet(T) /\ Cardinality(T) = Cardinality(S)
<1> DEFINE g == [x \in S |-> f[x]]
<1>1. /\ g \in [S -> T] /\ \A x, y \in S : g[x] = g[y] => x = y
      /\ \A z \in T : \E x \in S : g[x] = z
  OBVIOUS
<1> HIDE DEF g
<1>2. g \in Bijection(S, T)
  BY <1>1, Fun_IsBij
<1>3. ExistsBijection(S, T)
  BY <1>2, Fun_ExistsBij
<1>4. QED
  BY <1>3, FS_Bijection

IsWord(word) == IsSequence(word) /\ word # <<>>

LEMMA WordIs ==
    ASSUME NEW word, IsWord(word)
    PROVE  Len(word) \in Nat /\ Len(word) # 0 /\ word = [i \in 1..Len(word) |-> word[i]]
<1>1. PICK S : word \in Seq(S)
  BY DEF IsWord, IsSequence
<1>2. QED
  BY <1>1 DEF IsWord

\* A word is at the places where it is a longest run.
LEMMA WordsAtIs ==
    ASSUME NEW text, IsSequence(text), NEW word, IsWord(word)
    PROVE  WordsAt(text, word) = {at \in Runs(text) : Word(text, at) = word}
<1> DEFINE m == Len(word)
<1>1. m \in Nat /\ m # 0 /\ word = [i \in 1..m |-> word[i]]
  BY WordIs
<1>2. DOMAIN text = 1..Len(text) /\ Len(text) \in Nat
  BY DEF IsSequence
<1> HIDE DEF m
<1>3. ASSUME NEW at \in WordsAt(text, word)
      PROVE  at \in Runs(text) /\ Word(text, at) = word
  <2>1. /\ at \in (DOMAIN text) \X (DOMAIN text)
        /\ at[2] - at[1] + 1 = m
        /\ \A i \in at[1]..at[2] : /\ IsTokenCharacter(text[i])
                                  /\ ToLower[text[i]] = word[i - at[1] + 1]
        /\ \A i \in {at[1] - 1, at[2] + 1} \cap DOMAIN text : ~IsTokenCharacter(text[i])
    BY DEF WordsAt, m
  <2>2. at[1] \in Nat /\ at[2] \in Nat
    BY <1>2, <2>1
  <2>3. at[1] <= at[2]
    BY <1>1, <2>1, <2>2
  <2>4. at \in Runs(text)
    BY <2>1, <2>3 DEF Runs
  <2>5. \A i \in 1..m : ToLower[text[at[1] + i - 1]] = word[i]
    <3> SUFFICES ASSUME NEW i \in 1..m PROVE ToLower[text[at[1] + i - 1]] = word[i]
      OBVIOUS
    <3>1. PICK k : k = at[1] + i - 1
      OBVIOUS
    <3>2. k \in at[1]..at[2] /\ k - at[1] + 1 = i
      BY <1>1, <2>1, <2>2, <3>1
    <3>3. QED
      BY <2>1, <3>1, <3>2
  <2>6. Word(text, at) = [i \in 1..m |-> ToLower[text[at[1] + i - 1]]]
    BY <2>1 DEF Word
  <2>7. QED
    BY <1>1, <2>4, <2>5, <2>6
<1>4. ASSUME NEW at \in Runs(text), Word(text, at) = word
      PROVE  at \in WordsAt(text, word)
  <2>1. /\ at \in (DOMAIN text) \X (DOMAIN text) /\ at[1] <= at[2]
        /\ \A i \in at[1]..at[2] : IsTokenCharacter(text[i])
        /\ \A i \in {at[1] - 1, at[2] + 1} \cap DOMAIN text : ~IsTokenCharacter(text[i])
    BY DEF Runs
  <2>2. at[1] \in Nat /\ at[2] \in Nat
    BY <1>2, <2>1
  <2>3. at[2] - at[1] + 1 = m
    <3>1. PICK l : l = at[2] - at[1] + 1
      OBVIOUS
    <3>2. l \in Nat /\ l # 0
      BY <2>1, <2>2, <3>1
    <3>3. DOMAIN word = 1..l /\ DOMAIN word = 1..m
      <4>1. DOMAIN Word(text, at) = 1..l
        BY <3>1 DEF Word
      <4>2. DOMAIN word = 1..m
        BY <1>1
      <4>3. QED
        BY <1>4, <4>1, <4>2
    <3>4. l \in 1..l /\ m \in 1..m
      BY <1>1, <3>2
    <3>5. l \in 1..m /\ m \in 1..l
      BY <3>3, <3>4
    <3>6. QED
      BY <1>1, <3>1, <3>2, <3>5
  <2>4. \A i \in 1..m : word[i] = ToLower[text[at[1] + i - 1]]
    <3>1. Word(text, at) = [i \in 1..m |-> ToLower[text[at[1] + i - 1]]]
      BY <2>3 DEF Word
    <3>2. QED
      BY <1>4, <3>1
  <2>5. ASSUME NEW i \in at[1]..at[2] PROVE ToLower[text[i]] = word[i - at[1] + 1]
    <3>1. PICK k : k = i - at[1] + 1
      OBVIOUS
    <3>2. k \in 1..m /\ at[1] + k - 1 = i
      BY <1>1, <2>1, <2>2, <2>3, <3>1
    <3>3. QED
      BY <2>4, <3>1, <3>2
  <2>6. QED
    BY <2>1, <2>3, <2>5 DEF WordsAt, m
<1>5. QED
  <2>1. \A at : at \in WordsAt(text, word) <=> at \in Runs(text) /\ Word(text, at) = word
    BY <1>3, <1>4
  <2>2. QED
    BY <2>1

LEMMA WordsAtFinite ==
    ASSUME NEW text, IsSequence(text), NEW word
    PROVE  IsFiniteSet(WordsAt(text, word)) /\ IsFiniteSet(Runs(text))
<1>1. DOMAIN text = 1..Len(text) /\ Len(text) \in Nat
  BY DEF IsSequence
<1>2. IsFiniteSet(DOMAIN text)
  BY <1>1, FS_Interval
<1>3. IsFiniteSet((DOMAIN text) \X (DOMAIN text))
  BY <1>2, FS_Product
<1>4. /\ WordsAt(text, word) \in SUBSET ((DOMAIN text) \X (DOMAIN text))
      /\ Runs(text) \in SUBSET ((DOMAIN text) \X (DOMAIN text))
  BY DEF WordsAt, Runs
<1>5. QED
  BY <1>3, <1>4, FS_Subset

\* A term is counted as often as the text has it.
LEMMA CountIs ==
    ASSUME NEW text \in Seq(Char), NEW term, IsWord(term), term \notin StopWords
    PROVE  /\ Cardinality(WordsAt(text, term)) \in Nat
           /\ LET terms == AnalyzeTerms(text)
              IN  Cardinality({i \in DOMAIN terms : terms[i] = term})
                      = Cardinality(WordsAt(text, term))
           /\ term \in ToSet(AnalyzeTerms(text)) <=> Cardinality(WordsAt(text, term)) > 0
<1> DEFINE terms == AnalyzeTerms(text)
           T == WordsAt(text, term)
           S == {i \in DOMAIN terms : terms[i] = term}
<1>1. IsSequence(text)
  BY SequenceIs
<1>2. IsSequence(terms) /\ Lexed(text, terms, TermRuns(text))
  BY TermsAre
<1>3. PICK p : /\ Numbers(p, Len(terms), TermRuns(text))
               /\ \A j \in 1..Len(terms) : terms[j] = Word(text, p[j])
  BY <1>2 DEF Lexed
<1> HIDE DEF terms
<1>4. DOMAIN terms = 1..Len(terms) /\ Len(terms) \in Nat
  BY <1>2 DEF IsSequence
<1>5. T = {at \in TermRuns(text) : Word(text, at) = term}
  BY <1>1, WordsAtIs DEF TermRuns
<1>6. IsFiniteSet(S)
  <2>1. S \in SUBSET (1..Len(terms))
    BY <1>4
  <2>2. IsFiniteSet(1..Len(terms))
    BY <1>4, FS_Interval
  <2> HIDE DEF S
  <2>3. QED
    BY <2>1, <2>2, FS_Subset
<1>7. \A x \in S : p[x] \in T
  BY <1>3, <1>4, <1>5 DEF Numbers
<1>8. \A x, y \in S : p[x] = p[y] => x = y
  BY <1>3, <1>4 DEF Numbers
<1>9. \A z \in T : \E x \in S : p[x] = z
  BY <1>3, <1>4, <1>5 DEF Numbers
<1>10. term \in ToSet(terms) <=> S # {}
  BY DEF ToSet
<1> HIDE DEF S, T
<1>11. IsFiniteSet(T) /\ Cardinality(T) = Cardinality(S)
  BY <1>6, <1>7, <1>8, <1>9, SameSize
<1>12. Cardinality(S) \in Nat /\ (Cardinality(S) = 0 <=> S = {})
  BY <1>6, FS_CardinalityType, FS_EmptySet
<1>13. term \in ToSet(terms) <=> Cardinality(T) > 0
  BY <1>10, <1>11, <1>12
<1>14. QED
  BY <1>11, <1>12, <1>13 DEF S, T, terms

\* The terms of a query as the scan sees them are those of the tokenizer.
LEMMA QueryTermsAre ==
    ASSUME NEW query \in Seq(Char)
    PROVE  /\ QueryTerms(query) = ToSet(AnalyzeTerms(query))
           /\ IsFiniteSet(QueryTerms(query))
           /\ \A term \in QueryTerms(query) : IsWord(term) /\ term \notin StopWords
<1>1. IsSequence(query) /\ Len(query) \in Nat
  BY SequenceIs
<1>2. IsSequence(AnalyzeTerms(query)) /\ Lexed(query, AnalyzeTerms(query), TermRuns(query))
  BY TermsAre
<1>3. PICK p : /\ Numbers(p, Len(AnalyzeTerms(query)), TermRuns(query))
               /\ \A j \in 1..Len(AnalyzeTerms(query)) : AnalyzeTerms(query)[j] = Word(query, p[j])
  BY <1>2 DEF Lexed
<1>4. DOMAIN AnalyzeTerms(query) = 1..Len(AnalyzeTerms(query)) /\ Len(AnalyzeTerms(query)) \in Nat
  BY <1>2 DEF IsSequence
<1>5. ToSet(AnalyzeTerms(query)) = {Word(query, at) : at \in TermRuns(query)}
  BY <1>3, <1>4 DEF ToSet, Numbers
<1>6. ASSUME NEW word \in QueryTerms(query)
      PROVE  IsWord(word) /\ word \notin StopWords /\ word \in {Word(query, at) : at \in TermRuns(query)}
  <2>1. PICK s \in SubSeqs(query) \ {<<>>} : word = [i \in DOMAIN s |-> ToLower[s[i]]]
    BY DEF QueryTerms
  <2>2. word \notin StopWords /\ WordsAt(query, word) # {}
    BY DEF QueryTerms
  <2>3. PICK i \in 0..Len(query), j \in 0..Len(query) : s = SubSeq(query, i + 1, j)
    BY <2>1 DEF SubSeqs
  <2>4. s \in Seq(Char)
    BY <1>1, <2>3
  <2>5. IsWord(word)
    <3>1. Len(s) \in Nat /\ DOMAIN s = 1..Len(s) /\ Len(s) # 0 /\ \A k \in 1..Len(s) : s[k] \in Char
      BY <2>1, <2>4
    <3>2. \A c \in Char : ToLower[c] \in Char
      BY DEF ToLower, Char
    <3>3. word \in [1..Len(s) -> Char]
      BY <2>1, <3>1, <3>2
    <3>4. word \in Seq(Char) /\ Len(word) = Len(s)
      BY <3>1, <3>3
    <3>5. Len(<<>>) = 0
      OBVIOUS
    <3>6. QED
      BY <3>1, <3>4, <3>5 DEF IsWord, IsSequence
  <2>6. PICK at : at \in WordsAt(query, word)
    BY <2>2
  <2>7. at \in Runs(query) /\ Word(query, at) = word
    BY <1>1, <2>5, <2>6, WordsAtIs
  <2>8. QED
    BY <2>2, <2>5, <2>7 DEF TermRuns
<1>7. ASSUME NEW at \in TermRuns(query) PROVE Word(query, at) \in QueryTerms(query)
  <2> DEFINE a == at[1]
             b == at[2]
             s == SubSeq(query, a, b)
             word == Word(query, at)
  <2>1. at \in Runs(query) /\ word \notin StopWords
    BY DEF TermRuns
  <2>2. a \in 1..Len(query) /\ b \in 1..Len(query) /\ a <= b
    BY <1>1, <2>1, RunIs
  <2>3. s \in SubSeqs(query)
    <3> HIDE DEF a, b
    <3>1. PICK i \in 0..Len(query) : i + 1 = a
      <4>1. a - 1 \in 0..Len(query) /\ (a - 1) + 1 = a
        BY <1>1, <2>2
      <4>2. QED
        BY <4>1
    <3>2. b \in 0..Len(query)
      BY <1>1, <2>2
    <3>3. SubSeq(query, i + 1, b) \in SubSeqs(query)
      BY <3>1, <3>2 DEF SubSeqs
    <3>4. QED
      BY <3>1, <3>3
  <2> HIDE DEF a, b
  <2>4. Len(s) = b - a + 1 /\ DOMAIN s = 1..b - a + 1 /\ \A i \in 1..b - a + 1 : s[i] = query[a + i - 1]
    BY <1>1, <2>2
  <2>5. s # <<>>
    <3>1. Len(s) # 0 /\ Len(<<>>) = 0
      BY <1>1, <2>2, <2>4
    <3>2. QED
      BY <3>1
  <2> HIDE DEF s
  <2>6. word = [i \in DOMAIN s |-> ToLower[s[i]]]
    BY <2>4 DEF Word, a, b
  <2>7. IsWord(word)
    <3>1. b - a + 1 \in Nat /\ b - a + 1 # 0
      BY <1>1, <2>2
    <3>2. \A i \in 1..b - a + 1 : query[a + i - 1] \in Char
      BY <1>1, <2>2
    <3>3. \A i \in DOMAIN s : ToLower[s[i]] \in Char
      BY <2>4, <3>2 DEF ToLower, Char
    <3>4. PICK l \in Nat : l # 0 /\ DOMAIN s = 1..l
      BY <2>4, <3>1
    <3> HIDE DEF word
    <3>5. word \in [1..l -> Char]
      BY <2>6, <3>3, <3>4
    <3>6. word \in Seq(Char) /\ Len(word) = l
      BY <3>4, <3>5
    <3>7. Len(<<>>) = 0
      OBVIOUS
    <3>8. QED
      BY <3>4, <3>6, <3>7 DEF IsWord, IsSequence
  <2>8. WordsAt(query, word) # {}
    BY <1>1, <2>1, <2>7, WordsAtIs
  <2> HIDE DEF word
  <2>9. word \in QueryTerms(query)
    BY <2>1, <2>3, <2>5, <2>6, <2>8 DEF QueryTerms
  <2>10. QED
    BY <2>9 DEF word
<1>8. QueryTerms(query) = {Word(query, at) : at \in TermRuns(query)}
  BY <1>6, <1>7
<1>9. IsFiniteSet(QueryTerms(query))
  <2>1. IsFiniteSet(TermRuns(query))
    <3>1. TermRuns(query) \in SUBSET Runs(query)
      BY DEF TermRuns
    <3>2. QED
      BY <1>1, <3>1, WordsAtFinite, FS_Subset
  <2> DEFINE f == [at \in TermRuns(query) |-> Word(query, at)]
  <2>2. f \in Surjection(TermRuns(query), QueryTerms(query))
    <3>1. f \in [TermRuns(query) -> QueryTerms(query)]
      BY <1>8
    <3>2. \A t \in QueryTerms(query) : \E at \in TermRuns(query) : f[at] = t
      BY <1>8
    <3>3. QED
      BY <3>1, <3>2, Fun_IsSurj
  <2>3. QED
    BY <2>1, <2>2, FS_Surjection
<1>10. QED
  BY <1>5, <1>6, <1>8, <1>9

--------------------------------------------------------------------------------
(* Sums over finite sets.  Induction over the subsets of a finite set is the *)
(* choice of a smallest counterexample.                                      *)

LEMMA SmallestSet ==
    ASSUME NEW S, IsFiniteSet(S), NEW K, K \subseteq SUBSET S, K # {}
    PROVE  \E T \in K : \A U \in SUBSET T : U # T => U \notin K
<1>1. IsWellFoundedOn(StrictSubsetOrdering(S), SUBSET S)
  BY FS_StrictSubsetOrderingWellFounded, FS_FiniteSubsetsOfFinite
<1>2. PICK T \in K : \A U \in K : ~(<<U, T>> \in StrictSubsetOrdering(S))
  BY <1>1, WFMin
<1>3. ASSUME NEW U \in SUBSET T, U # T, U \in K PROVE FALSE
  <2>1. <<U, T>> \in (SUBSET S) \X (SUBSET S)
    OBVIOUS
  <2>2. <<U, T>> \in StrictSubsetOrdering(S)
    BY <1>3, <2>1 DEF StrictSubsetOrdering
  <2>3. QED
    BY <1>2, <1>3, <2>2
<1>4. QED
  BY <1>3

Pick(t) == CHOOSE x \in t : TRUE

LEMMA PickIs == \A t : t # {} => Pick(t) \in t
BY DEF Pick

\* g gives the sum of e over each subset of S.
Sums(g, S, e) ==
    g = [t \in SUBSET S |-> IF t = {} THEN 0 ELSE e[Pick(t)] + g[t \ {Pick(t)}]]

LEMMA SumsStep ==
    ASSUME NEW S, NEW e, NEW g, Sums(g, S, e)
    PROVE  \A t \in SUBSET S : g[t] = IF t = {} THEN 0 ELSE e[Pick(t)] + g[t \ {Pick(t)}]
<1> DEFINE rhs == [u \in SUBSET S |-> IF u = {} THEN 0 ELSE e[Pick(u)] + g[u \ {Pick(u)}]]
<1>1. g = rhs
  BY DEF Sums
<1>2. \A t \in SUBSET S : rhs[t] = IF t = {} THEN 0 ELSE e[Pick(t)] + g[t \ {Pick(t)}]
  OBVIOUS
<1> HIDE DEF rhs
<1>3. QED
  BY <1>1, <1>2

LEMMA SumsAgree ==
    ASSUME NEW S, IsFiniteSet(S), NEW U \in SUBSET S, NEW e, NEW g, NEW h,
           Sums(g, S, e), Sums(h, U, e)
    PROVE  \A t \in SUBSET U : g[t] = h[t]
<1> DEFINE K == {t \in SUBSET U : g[t] # h[t]}
<1>1. SUFFICES ASSUME K # {} PROVE FALSE
  OBVIOUS
<1>2. PICK T \in K : \A V \in SUBSET T : V # T => V \notin K
  <2>1. IsFiniteSet(U) /\ K \subseteq SUBSET U
    BY FS_Subset
  <2> HIDE DEF K
  <2>2. QED
    BY <1>1, <2>1, SmallestSet
<1>3. T \in SUBSET U /\ T \in SUBSET S
  OBVIOUS
<1>4. \A t \in SUBSET S : g[t] = IF t = {} THEN 0 ELSE e[Pick(t)] + g[t \ {Pick(t)}]
  BY SumsStep
<1>5. \A t \in SUBSET U : h[t] = IF t = {} THEN 0 ELSE e[Pick(t)] + h[t \ {Pick(t)}]
  BY SumsStep
<1>6. T # {} => g[T \ {Pick(T)}] = h[T \ {Pick(T)}]
  BY <1>2, PickIs
<1>7. QED
  BY <1>3, <1>4, <1>5, <1>6

LEMMA SumsExist ==
    ASSUME NEW S, IsFiniteSet(S), NEW e
    PROVE  \E g : Sums(g, S, e)
<1> DEFINE K == {T \in SUBSET S : ~\E g : Sums(g, T, e)}
<1>1. SUFFICES ASSUME K # {} PROVE FALSE
  OBVIOUS
<1>2. PICK T \in K : \A U \in SUBSET T : U # T => U \notin K
  <2>1. K \subseteq SUBSET S
    OBVIOUS
  <2> HIDE DEF K
  <2>2. QED
    BY <1>1, <2>1, SmallestSet
<1> DEFINE G(U) == CHOOSE g : Sums(g, U, e)
           g == [t \in SUBSET T |->
                    IF t = {} THEN 0 ELSE e[Pick(t)] + G(t \ {Pick(t)})[t \ {Pick(t)}]]
<1>3. ASSUME NEW U \in SUBSET T, U # T PROVE Sums(G(U), U, e)
  BY <1>2, <1>3
<1> HIDE DEF G
<1>4. ASSUME NEW U \in SUBSET T, U # T PROVE g[U] = G(U)[U]
  <2>1. G(U)[U] = IF U = {} THEN 0 ELSE e[Pick(U)] + G(U)[U \ {Pick(U)}]
    BY <1>3, <1>4, SumsStep
  <2>2. CASE U # {}
    <3> DEFINE V == U \ {Pick(U)}
    <3>1. V \in SUBSET U /\ V \in SUBSET T /\ V # T /\ V \in SUBSET V /\ IsFiniteSet(U)
      BY <1>4, <2>2, PickIs, FS_Subset
    <3>2. Sums(G(V), V, e) /\ Sums(G(U), U, e)
      BY <1>3, <1>4, <3>1
    <3> HIDE DEF V
    <3>3. G(U)[V] = G(V)[V]
      BY <3>1, <3>2, SumsAgree
    <3>4. g[U] = e[Pick(U)] + G(V)[V]
      BY <2>2 DEF V
    <3>5. QED
      BY <2>1, <2>2, <3>3, <3>4 DEF V
  <2>3. CASE U = {}
    BY <2>1, <2>3
  <2>4. QED
    BY <2>2, <2>3
<1>5. ASSUME NEW t \in SUBSET T, t # {}
      PROVE  g[t \ {Pick(t)}] = G(t \ {Pick(t)})[t \ {Pick(t)}]
  BY <1>4, <1>5, PickIs
<1>6. g = [t \in SUBSET T |-> IF t = {} THEN 0 ELSE e[Pick(t)] + g[t \ {Pick(t)}]]
  <2> DEFINE r == [t \in SUBSET T |-> IF t = {} THEN 0 ELSE e[Pick(t)] + g[t \ {Pick(t)}]]
  <2>1. \A t \in SUBSET T : g[t] = r[t]
    BY <1>5
  <2>2. QED
    BY <2>1, Zenon
<1>7. Sums(g, T, e)
  BY <1>6 DEF Sums
<1>8. QED
  BY <1>7

\* The equations of a sum.
LEMMA SumIs ==
    ASSUME NEW S, IsFiniteSet(S), NEW e
    PROVE  SumFunctionOnSet(e, S) =
               IF S = {} THEN 0 ELSE e[Pick(S)] + SumFunctionOnSet(e, S \ {Pick(S)})
<1> DEFINE G(U) == CHOOSE g : Sums(g, U, e)
<1>1. \A U : SumFunctionOnSet(e, U) = G(U)[U]
  BY DEF SumFunctionOnSet, FoldFunctionOnSet, MapThenFoldSet, Sums, Pick
<1>2. \A U \in SUBSET S : Sums(G(U), U, e)
  BY FS_Subset, SumsExist
<1> HIDE DEF G
<1>3. G(S)[S] = IF S = {} THEN 0 ELSE e[Pick(S)] + G(S)[S \ {Pick(S)}]
  BY <1>2, SumsStep
<1> DEFINE V == S \ {Pick(S)}
<1>4. V \in SUBSET S /\ V \in SUBSET V
  OBVIOUS
<1>5. Sums(G(S), S, e) /\ Sums(G(V), V, e)
  BY <1>2, <1>4
<1>6. G(S)[V] = G(V)[V]
  <2> HIDE DEF V
  <2>1. QED
    BY <1>4, <1>5, SumsAgree
<1>7. QED
  BY <1>1, <1>3, <1>6

\* A sum of integers is one, and functions that agree have the same sum.
LEMMA SumType ==
    ASSUME NEW S, IsFiniteSet(S), NEW e, \A x \in S : e[x] \in Int
    PROVE  SumFunctionOnSet(e, S) \in Int
<1> DEFINE K == {T \in SUBSET S : SumFunctionOnSet(e, T) \notin Int}
<1>1. SUFFICES ASSUME K # {} PROVE FALSE
  OBVIOUS
<1>2. PICK T \in K : \A U \in SUBSET T : U # T => U \notin K
  <2>1. K \subseteq SUBSET S
    OBVIOUS
  <2> HIDE DEF K
  <2>2. QED
    BY <1>1, <2>1, SmallestSet
<1>3. IsFiniteSet(T)
  BY FS_Subset
<1>4. T # {} => e[Pick(T)] \in Int /\ SumFunctionOnSet(e, T \ {Pick(T)}) \in Int
  BY <1>2, PickIs
<1>5. SumFunctionOnSet(e, T) =
          IF T = {} THEN 0 ELSE e[Pick(T)] + SumFunctionOnSet(e, T \ {Pick(T)})
  BY <1>3, SumIs
<1>6. SumFunctionOnSet(e, T) \notin Int
  OBVIOUS
<1> HIDE DEF K
<1>7. QED
  BY <1>4, <1>5, <1>6

LEMMA SumSame ==
    ASSUME NEW S, IsFiniteSet(S), NEW e, NEW f, \A x \in S : e[x] = f[x]
    PROVE  SumFunctionOnSet(e, S) = SumFunctionOnSet(f, S)
<1> DEFINE K == {T \in SUBSET S : SumFunctionOnSet(e, T) # SumFunctionOnSet(f, T)}
<1>1. SUFFICES ASSUME K # {} PROVE FALSE
  OBVIOUS
<1>2. PICK T \in K : \A U \in SUBSET T : U # T => U \notin K
  <2>1. K \subseteq SUBSET S
    OBVIOUS
  <2> HIDE DEF K
  <2>2. QED
    BY <1>1, <2>1, SmallestSet
<1>3. IsFiniteSet(T)
  BY FS_Subset
<1>4. T # {} => /\ e[Pick(T)] = f[Pick(T)]
                /\ SumFunctionOnSet(e, T \ {Pick(T)}) = SumFunctionOnSet(f, T \ {Pick(T)})
  BY <1>2, PickIs
<1>5. QED
  BY <1>3, <1>4, SumIs

\* The sum with any one summand apart.
LEMMA SumWithout ==
    ASSUME NEW S, IsFiniteSet(S), NEW e, \A x \in S : e[x] \in Int
    PROVE  \A x \in S : SumFunctionOnSet(e, S) = e[x] + SumFunctionOnSet(e, S \ {x})
<1> DEFINE Sum_(T) == SumFunctionOnSet(e, T)
           K == {T \in SUBSET S : \E x \in T : Sum_(T) # e[x] + Sum_(T \ {x})}
<1>1. SUFFICES ASSUME K # {} PROVE FALSE
  OBVIOUS
<1>2. PICK T \in K : \A U \in SUBSET T : U # T => U \notin K
  <2>1. K \subseteq SUBSET S
    OBVIOUS
  <2> HIDE DEF K
  <2>2. QED
    BY <1>1, <2>1, SmallestSet
<1>3. PICK x \in T : Sum_(T) # e[x] + Sum_(T \ {x})
  OBVIOUS
<1>4. ASSUME NEW U \in SUBSET T
      PROVE  /\ Sum_(U) \in Int
             /\ U # {} => Pick(U) \in U /\ Sum_(U) = e[Pick(U)] + Sum_(U \ {Pick(U)})
  <2>1. U \in SUBSET S
    OBVIOUS
  <2>2. IsFiniteSet(U)
    BY <2>1, FS_Subset
  <2>3. QED
    BY <2>1, <2>2, SumIs, SumType, PickIs
<1> DEFINE p == Pick(T)
<1>5. p \in T /\ Sum_(T) = e[p] + Sum_(T \ {p})
  BY <1>4
<1>6. \A U \in SUBSET T : U # T => \A y \in U : Sum_(U) = e[y] + Sum_(U \ {y})
  BY <1>2
<1> HIDE DEF Sum_, p, K
<1>7. p # x
  BY <1>3, <1>5
<1>8. Sum_(T \ {p}) = e[x] + Sum_((T \ {p}) \ {x})
  BY <1>5, <1>6, <1>7
<1>9. Sum_(T \ {x}) = e[p] + Sum_((T \ {x}) \ {p})
  BY <1>5, <1>6, <1>7
<1>10. (T \ {p}) \ {x} = (T \ {x}) \ {p}
  OBVIOUS
<1>11. e[p] \in Int /\ e[x] \in Int /\ Sum_((T \ {x}) \ {p}) \in Int
  <2>1. p \in S /\ x \in S /\ (T \ {x}) \ {p} \in SUBSET T
    BY <1>5 DEF K
  <2>2. QED
    BY <1>4, <2>1
<1>12. QED
  <2> DEFINE rest == Sum_((T \ {x}) \ {p})
  <2>1. Sum_(T) = e[p] + (e[x] + rest) /\ e[x] + Sum_(T \ {x}) = e[x] + (e[p] + rest)
    BY <1>5, <1>8, <1>9, <1>10
  <2>2. e[p] + (e[x] + rest) = e[x] + (e[p] + rest)
    BY <1>11
  <2>3. QED
    BY <1>3, <2>1, <2>2

\* A sum does not change when its summands are moved along a bijection.
LEMMA SumMoved ==
    ASSUME NEW S, IsFiniteSet(S), NEW R, NEW b, \A x \in S : b[x] \in R,
           \A x, y \in S : b[x] = b[y] => x = y, \A z \in R : \E x \in S : b[x] = z,
           NEW e, NEW f, \A x \in S : e[x] \in Int /\ f[b[x]] = e[x]
    PROVE  SumFunctionOnSet(f, R) = SumFunctionOnSet(e, S)
<1> DEFINE Moved(T) == {b[x] : x \in T}
           K == {T \in SUBSET S : SumFunctionOnSet(f, Moved(T)) # SumFunctionOnSet(e, T)}
<1>1. Moved(S) = R
  OBVIOUS
<1>2. SUFFICES ASSUME K # {} PROVE FALSE
  BY <1>1
<1>3. PICK T \in K : \A U \in SUBSET T : U # T => U \notin K
  <2>1. K \subseteq SUBSET S
    OBVIOUS
  <2> HIDE DEF K
  <2>2. QED
    BY <1>2, <2>1, SmallestSet
<1>4. IsFiniteSet(T) /\ T \subseteq S
  BY FS_Subset
<1>5. SumFunctionOnSet(e, T) =
          IF T = {} THEN 0 ELSE e[Pick(T)] + SumFunctionOnSet(e, T \ {Pick(T)})
  BY <1>4, SumIs
<1>6. CASE T = {}
  <2>1. Moved(T) = {}
    BY <1>6
  <2>2. SumFunctionOnSet(f, {}) = 0
    BY FS_EmptySet, SumIs
  <2>3. QED
    BY <1>5, <1>6, <2>1, <2>2
<1>7. CASE T # {}
  <2> DEFINE x == Pick(T)
             U == T \ {x}
  <2>1. x \in T /\ x \in S /\ U \in SUBSET T /\ U # T
    BY <1>4, <1>7, PickIs
  <2>2. SumFunctionOnSet(f, Moved(U)) = SumFunctionOnSet(e, U)
    <3>1. U \notin K /\ U \in SUBSET S
      BY <1>3, <1>4, <2>1
    <3>2. QED
      BY <3>1
  <2>3. Moved(T) \ {b[x]} = Moved(U) /\ b[x] \in Moved(T)
    BY <1>4, <2>1
  <2>4. IsFiniteSet(Moved(T))
    <3>1. \A y \in T : b[y] \in Moved(T)
      OBVIOUS
    <3>2. \A y, z \in T : b[y] = b[z] => y = z
      BY <1>4
    <3>3. \A z \in Moved(T) : \E y \in T : b[y] = z
      OBVIOUS
    <3> HIDE DEF Moved
    <3>4. QED
      BY <1>4, <3>1, <3>2, <3>3, SameSize
  <2>5. \A z \in Moved(T) : f[z] \in Int
    BY <1>4
  <2>6. SumFunctionOnSet(f, Moved(T)) = f[b[x]] + SumFunctionOnSet(f, Moved(U))
    <3> HIDE DEF Moved, U, x
    <3>1. QED
      BY <2>3, <2>4, <2>5, SumWithout
  <2>7. f[b[x]] = e[x]
    BY <2>1
  <2>8. SumFunctionOnSet(f, Moved(T)) = SumFunctionOnSet(e, T)
    BY <1>5, <1>7, <2>2, <2>6, <2>7
  <2>9. QED
    BY <2>8
<1>8. QED
  BY <1>6, <1>7

\* More summands, and larger ones, have a larger sum.
LEMMA SumGrows ==
    ASSUME NEW R, IsFiniteSet(R), NEW S \in SUBSET R, NEW e, NEW f,
           \A x \in R : f[x] \in Int /\ f[x] > 0,
           \A x \in S : e[x] \in Int /\ f[x] >= e[x]
    PROVE  /\ SumFunctionOnSet(f, R) >= SumFunctionOnSet(e, S)
           /\ R # S \/ (\E x \in S : f[x] > e[x])
                  => SumFunctionOnSet(f, R) > SumFunctionOnSet(e, S)
<1> DEFINE A(T) == SumFunctionOnSet(f, T)
           B(T) == SumFunctionOnSet(e, T \cap S)
           More(T) == \E x \in T : x \notin S \/ f[x] > e[x]
           K == {T \in SUBSET R : ~(A(T) >= B(T) /\ (More(T) => A(T) > B(T)))}
<1>1. SUFFICES K = {}
  <2>1. S = R \cap S /\ R \notin K
    BY <1>1
  <2>2. A(R) >= B(R) /\ (More(R) => A(R) > B(R))
    BY <2>1
  <2>3. B(R) = SumFunctionOnSet(e, S)
    BY <2>1
  <2>4. R # S \/ (\E x \in S : f[x] > e[x]) => More(R)
    OBVIOUS
  <2> HIDE DEF B, More, K
  <2>5. QED
    BY <2>2, <2>3, <2>4
<1>2. SUFFICES ASSUME K # {} PROVE FALSE
  OBVIOUS
<1>3. PICK T \in K : \A U \in SUBSET T : U # T => U \notin K
  <2>1. K \subseteq SUBSET R
    OBVIOUS
  <2> HIDE DEF K
  <2>2. QED
    BY <1>2, <2>1, SmallestSet
<1>4. IsFiniteSet(T) /\ T \subseteq R /\ IsFiniteSet(T \cap S) /\ T \cap S \subseteq S
  <2>1. IsFiniteSet(T) /\ T \subseteq R
    BY FS_Subset
  <2>2. T \cap S \in SUBSET T
    OBVIOUS
  <2>3. QED
    BY <2>1, <2>2, FS_Subset
<1>5. /\ A(T) = IF T = {} THEN 0 ELSE f[Pick(T)] + A(T \ {Pick(T)})
      /\ A(T) \in Int
  BY <1>4, SumIs, SumType
<1>6. \A x \in T \cap S : B(T) = e[x] + B(T \ {x})
  <2> SUFFICES ASSUME NEW x \in T \cap S PROVE B(T) = e[x] + B(T \ {x})
    OBVIOUS
  <2>1. \A y \in T \cap S : e[y] \in Int
    OBVIOUS
  <2>2. SumFunctionOnSet(e, T \cap S) = e[x] + SumFunctionOnSet(e, (T \cap S) \ {x})
    BY <1>4, <2>1, SumWithout
  <2>3. (T \cap S) \ {x} = (T \ {x}) \cap S
    OBVIOUS
  <2>4. QED
    BY <2>2, <2>3
<1>7. CASE T = {}
  <2>1. T \cap S = {}
    BY <1>7
  <2>2. SumFunctionOnSet(e, {}) = 0
    BY FS_EmptySet, SumIs
  <2>3. A(T) = 0 /\ B(T) = 0 /\ ~More(T)
    BY <1>5, <1>7, <2>1, <2>2
  <2>4. A(T) >= B(T)
    BY <2>3
  <2>5. QED
    BY <2>3, <2>4
<1>8. CASE T # {}
  <2> DEFINE x == Pick(T)
             U == T \ {x}
  <2>1. x \in T /\ x \in R /\ U \in SUBSET T /\ U # T /\ U \in SUBSET R
    BY <1>4, <1>8, PickIs
  <2>2. A(U) >= B(U) /\ (More(U) => A(U) > B(U))
    <3>1. U \notin K
      BY <1>3, <2>1
    <3>2. QED
      BY <2>1, <3>1
  <2>3. IsFiniteSet(U) /\ U \subseteq R /\ IsFiniteSet(U \cap S)
    <3>1. U \cap S \in SUBSET T
      OBVIOUS
    <3>2. QED
      BY <1>4, <2>1, <3>1, FS_Subset
  <2>4. A(U) \in Int /\ B(U) \in Int
    <3>1. \A y \in U \cap S : e[y] \in Int
      OBVIOUS
    <3>2. \A y \in U : f[y] \in Int
      BY <2>1
    <3>3. QED
      BY <2>3, <3>1, <3>2, SumType
  <2>5. A(T) = f[x] + A(U) /\ f[x] \in Int /\ f[x] > 0
    BY <1>5, <1>8, <2>1
  <2>6. CASE x \in S
    <3>1. B(T) = e[x] + B(U) /\ e[x] \in Int /\ f[x] >= e[x]
      BY <1>6, <2>1, <2>6
    <3>2. More(T) <=> More(U) \/ f[x] > e[x]
      BY <2>1, <2>6
    <3> HIDE DEF A, B, More, U, x
    <3>3. A(T) >= B(T)
      BY <2>2, <2>4, <2>5, <3>1
    <3>4. More(T) => A(T) > B(T)
      BY <2>2, <2>4, <2>5, <3>1, <3>2
    <3>5. QED
      BY <3>3, <3>4 DEF K
  <2>7. CASE x \notin S
    <3>1. T \cap S = U \cap S
      BY <2>7
    <3>2. B(T) = B(U)
      BY <3>1
    <3> HIDE DEF A, B, More, U, x
    <3>3. A(T) > B(T) /\ A(T) >= B(T)
      BY <2>2, <2>4, <2>5, <3>2
    <3>4. QED
      BY <3>3 DEF K
  <2>8. QED
    BY <2>6, <2>7
<1>9. QED
  BY <1>7, <1>8

--------------------------------------------------------------------------------
(* The characters of the chunks.                                             *)

\* A chunk's characters are typed because they are text, which TextInv says.
CharInv ==
    /\ \A p \in DOMAIN content : content[p].character \in Char
    /\ \A i \in DOMAIN chunks_ : chunks_[i].raw_text \in Seq(Char)
    /\ stage = "serving" => indexed = Len(chunks_)

LEMMA CharInit == Init => CharInv
BY EmptyIsSequence DEF Init, ChunkerInit, CharInv

LEMMA CharRead == ASSUME TextInv, CharInv, ReadLine PROVE CharInv'
<1>1. UNCHANGED <<stage, chunks_, indexed>>
  BY DEF ReadLine
<1>2. ASSUME NEW text \in Text, ReadText(text)
      PROVE  \A p \in DOMAIN content' : content'[p].character \in Char
  <2> DEFINE n == Len(content)
             m == Len(text) + 1
  <2>1. /\ m \in Nat /\ n \in Nat /\ DOMAIN content = 1..n /\ DOMAIN content' = 1..n + m
        /\ \A p \in 1..n : content'[p] = content[p]
        /\ \A p \in n + 1..n + m : content'[p].character \in Char
    BY <1>2, ReadIs
  <2> HIDE DEF n, m
  <2>2. \A p \in 1..n + m : p \in 1..n \/ p \in n + 1..n + m
    BY <2>1
  <2>3. QED
    BY <2>1, <2>2 DEF CharInv
<1>3. CASE UNCHANGED content
  BY <1>1, <1>3 DEF CharInv
<1>4. (\E text \in Text : ReadText(text)) \/ UNCHANGED content
  BY DEF ReadLine, ReadHeading, EndDocument
<1>5. QED
  BY <1>1, <1>2, <1>3, <1>4 DEF CharInv

\* The characters of a chunk are text.
LEMMA RawTextType ==
    ASSUME TextInv, CharInv, NEW i \in DOMAIN chunks
    PROVE  RawText(chunks[i]) \in Seq(Char)
<1> DEFINE raw == chunks[i].raw_text
           s == [k \in DOMAIN raw |-> content[raw[k]].character]
<1>1. IsSequence(raw)
  BY DEF TextInv
<1>2. DOMAIN raw = 1..Len(raw) /\ Len(raw) \in Nat
  BY <1>1 DEF IsSequence
<1>3. \A k \in DOMAIN raw : raw[k] \in DOMAIN content
  <2>1. PICK body : Told(PiecesOf(chunks, body), Len(content), Written(content),
                         Parted(lines, content))
    BY DEF TextInv, TextTold
  <2>2. /\ DOMAIN PiecesOf(chunks, body) = 1..Len(chunks) + 1 /\ Len(chunks) \in Nat
        /\ DOMAIN chunks = 1..Len(chunks)
        /\ PiecesOf(chunks, body)[i] = raw
    BY PiecesIs DEF TextInv
  <2>3. i \in DOMAIN PiecesOf(chunks, body)
    BY <2>2
  <2>4. ToSet(PiecesOf(chunks, body)[i]) \subseteq 1..Len(content)
    BY <2>1, <2>3 DEF Told
  <2>5. ToSet(raw) \subseteq DOMAIN content
    BY <2>2, <2>4 DEF TextInv, IsSequence
  <2>6. QED
    BY <2>5 DEF ToSet
<1>4. \A k \in DOMAIN raw : content[raw[k]].character \in Char
  BY <1>3 DEF CharInv
<1> HIDE DEF raw
<1>5. s \in [1..Len(raw) -> Char]
  BY <1>2, <1>4
<1> HIDE DEF s
<1>6. s \in Seq(Char)
  BY <1>2, <1>5
<1>7. QED
  BY <1>6 DEF RawText, raw, s

LEMMA CharKeep == ASSUME IInv, TextInv, CharInv, KeepChunks PROVE CharInv'
<1> DEFINE added == [i \in DOMAIN chunks |-> [id |-> chunks[i].id, document |-> documents,
                                              raw_text |-> RawText(chunks[i])]]
           n == Len(chunks)
           c == Len(chunks_)
<1>1. /\ chunks_' = chunks_ \o added /\ content' = <<>> /\ stage' = "loading"
  BY DEF KeepChunks
<1>2. IsSequence(chunks) /\ IsSequence(chunks_)
  BY DEF IInv
<1>3. DOMAIN chunks = 1..n /\ n \in Nat
  BY <1>2 DEF IsSequence
<1>4. \A i \in 1..n : added[i].raw_text = RawText(chunks[i])
  BY <1>3
<1>5. added = [i \in 1..n |-> added[i]]
  BY <1>3
<1> HIDE DEF added
<1>6. /\ DOMAIN chunks_ = 1..c /\ DOMAIN (chunks_ \o added) = 1..c + n
      /\ \A i \in 1..c : (chunks_ \o added)[i] = chunks_[i]
      /\ \A i \in c + 1..c + n : i - c \in 1..n /\ (chunks_ \o added)[i] = added[i - c]
      /\ c \in Nat
  BY <1>2, <1>3, <1>5, ConcatIs
<1> HIDE DEF n, c
<1>7. ASSUME NEW i \in 1..c + n PROVE (chunks_ \o added)[i].raw_text \in Seq(Char)
  <2>1. CASE i \in 1..c
    BY <1>6, <2>1 DEF CharInv
  <2>2. CASE i \in c + 1..c + n
    <3>1. PICK k \in 1..n : (chunks_ \o added)[i] = added[k]
      BY <1>6, <2>2
    <3>2. RawText(chunks[k]) \in Seq(Char)
      BY <1>3, RawTextType
    <3>3. QED
      BY <1>4, <3>1, <3>2
  <2>3. QED
    BY <1>3, <1>6, <2>1, <2>2
<1>8. DOMAIN content' = {}
  BY <1>1, EmptyIsSequence
<1>9. \A i \in DOMAIN chunks_' : chunks_'[i].raw_text \in Seq(Char)
  BY <1>1, <1>6, <1>7
<1>10. QED
  BY <1>1, <1>8, <1>9 DEF CharInv

LEMMA CharStep == ASSUME IInv, TextInv, CharInv, [Next]_vars PROVE CharInv'
<1>1. CASE ReadLine
  BY <1>1, CharRead
<1>2. CASE KeepChunks
  BY <1>2, CharKeep
<1>3. CASE LoadFails \/ OpenDocument \/ EndLoading \/ IndexChunk \/ Serve \/ UNCHANGED vars
  <2>1. UNCHANGED <<content, chunks_>> /\ (stage' = "serving" => indexed' = Len(chunks_'))
    BY <1>3 DEF LoadFails, OpenDocument, EndLoading, IndexChunk, Serve, vars, chunkerVars,
                documentVars, indexVars, CharInv
  <2>2. QED
    BY <2>1 DEF CharInv
<1>4. QED
  BY <1>1, <1>2, <1>3 DEF Next

LEMMA CharInvariance == Spec => [](IInv /\ CharInv)
<1>1. Init => CharInv
  BY CharInit
<1>2. IInv /\ TextInv /\ CharInv /\ [Next]_vars => CharInv'
  BY CharStep
<1>3. QED
  BY <1>1, <1>2, Invariance, TextInvariance, PTL DEF Spec

--------------------------------------------------------------------------------
(* Scores.                                                                   *)

LEMMA LnIs ==
    /\ \A n \in Nat \ {0} : Ln(n) \in Nat
    /\ \A m, n \in Nat \ {0} : m < n => Ln(m) < Ln(n)
<1> DEFINE l == Len(LnTable)
<1>1. /\ l \in Nat \ {0} /\ DOMAIN LnTable = 1..l /\ Last(LnTable) = LnTable[l]
      /\ \A n \in 1..l : LnTable[n] \in Nat
      /\ \A m, n \in 1..l : m < n => LnTable[m] < LnTable[n]
  <2>1. LnTable \in Seq(Nat) /\ LnTable # <<>>
    BY IndexAssumption
  <2>2. l \in Nat /\ DOMAIN LnTable = 1..l /\ \A n \in 1..l : LnTable[n] \in Nat
    BY <2>1
  <2>3. l # 0
    BY <2>1, EmptySeq
  <2>4. Last(LnTable) = LnTable[l]
    BY DEF Last
  <2>5. QED
    BY <2>2, <2>3, <2>4, IndexAssumption
<1>2. \A n : Ln(n) = IF n <= l THEN LnTable[n] ELSE LnTable[l] + n - l
  BY <1>1 DEF Ln
<1> HIDE DEF l
<1>3. \A n \in Nat \ {0} : n <= l <=> n \in 1..l
  BY <1>1
<1>4. ASSUME NEW n \in Nat \ {0} PROVE Ln(n) \in Nat
  <2>1. LnTable[l] \in Nat /\ (n <= l => LnTable[n] \in Nat)
    BY <1>1, <1>3
  <2>2. n > l => LnTable[l] + n - l \in Nat
    BY <1>1, <2>1
  <2>3. QED
    BY <1>1, <1>2, <2>1, <2>2
<1>5. ASSUME NEW m \in Nat \ {0}, NEW n \in Nat \ {0}, m < n PROVE Ln(m) < Ln(n)
  <2>1. /\ LnTable[l] \in Nat /\ (n <= l => LnTable[n] \in Nat)
        /\ m <= l => LnTable[m] \in Nat
    BY <1>1, <1>3
  <2>2. CASE n <= l
    BY <1>1, <1>2, <1>3, <1>5, <2>2
  <2>3. CASE n > l
    <3>1. Ln(n) = LnTable[l] + n - l
      BY <1>1, <1>2, <2>3
    <3>2. m <= l => LnTable[m] <= LnTable[l]
      <4>1. l \in 1..l /\ (m < l => LnTable[m] < LnTable[l])
        BY <1>1, <1>3
      <4>2. QED
        BY <1>1, <2>1, <4>1
    <3>3. Ln(m) = IF m <= l THEN LnTable[m] ELSE LnTable[l] + m - l
      BY <1>2
    <3>4. QED
      BY <1>1, <1>5, <2>1, <2>3, <3>1, <3>2, <3>3
  <2>4. QED
    BY <1>1, <2>2, <2>3
<1>6. QED
  BY <1>4, <1>5

LEMMA ProductGrows ==
    ASSUME NEW a \in Nat, NEW b \in Nat, NEW c \in Nat, a > 0, c > 0
    PROVE  a * c \in Int /\ a * c > 0 /\ (b > a => b * c > a * c)
OBVIOUS

\* A term that is not in more chunks than there are has a positive weight, which
\* grows with the number of its occurrences.
LEMMA WeightIs ==
    ASSUME Len(chunks_) \in Nat, NEW f \in Nat, f > 0, NEW g \in Nat,
           NEW df \in 0..Len(chunks_)
    PROVE  /\ Weight(f, df) \in Int /\ Weight(f, df) > 0
           /\ g > f => Weight(g, df) > Weight(f, df)
<1> DEFINE a == Ln(f + 1)
           b == Ln(g + 1)
           c == Ln(Len(chunks_) + 1) - Ln(df + 1) + Unit
<1>1. a \in Nat /\ a > 0 /\ b \in Nat /\ (g > f => b > a)
  <2>1. /\ 1 \in Nat \ {0} /\ f + 1 \in Nat \ {0} /\ g + 1 \in Nat \ {0}
        /\ 1 < f + 1 /\ (g > f => f + 1 < g + 1)
    OBVIOUS
  <2>2. Ln(1) \in Nat /\ a \in Nat /\ b \in Nat /\ Ln(1) < a /\ (g > f => a < b)
    BY <2>1, LnIs
  <2> HIDE DEF a, b
  <2>3. QED
    BY <2>2
<1>2. c \in Nat /\ c > 0
  <2>1. /\ df + 1 \in Nat \ {0} /\ Len(chunks_) + 1 \in Nat \ {0}
        /\ df + 1 < Len(chunks_) + 1 \/ df + 1 = Len(chunks_) + 1
    OBVIOUS
  <2> DEFINE x == Ln(Len(chunks_) + 1)
             y == Ln(df + 1)
  <2>2. x \in Nat /\ y \in Nat /\ y <= x
    <3>1. x \in Nat /\ y \in Nat /\ (y < x \/ y = x)
      BY <2>1, LnIs
    <3> HIDE DEF x, y
    <3>2. QED
      BY <3>1
  <2>3. Unit \in Nat /\ Unit > 0
    BY IndexAssumption
  <2> HIDE DEF x, y
  <2>4. x - y + Unit \in Nat /\ x - y + Unit > 0
    BY <2>2, <2>3
  <2>5. QED
    BY <2>4 DEF x, y
<1>3. Weight(f, df) = a * c /\ Weight(g, df) = b * c
  BY DEF Weight
<1> HIDE DEF a, b, c
<1>4. QED
  BY <1>1, <1>2, <1>3, ProductGrows

--------------------------------------------------------------------------------
(* Sorting.                                                                  *)

\* Results that ranksHigher orders: their scores are numbers, their ids differ.
Rankable(R) ==
    /\ \A r \in R : r.matched_terms \in Int /\ r.score \in Int /\ r.chunk.id \in Int
    /\ \A q, r \in R : q.chunk.id = r.chunk.id => q = r

LEMMA RanksOrder ==
    ASSUME NEW R, Rankable(R)
    PROVE  /\ \A r \in R : ~RanksHigher(r, r)
           /\ \A p, q, r \in R : RanksHigher(p, q) /\ RanksHigher(q, r) => RanksHigher(p, r)
           /\ \A q, r \in R : q # r => RanksHigher(q, r) \/ RanksHigher(r, q)
<1>1. \A r \in R : ~RanksHigher(r, r)
  BY DEF Rankable, RanksHigher
<1>2. \A p, q, r \in R : RanksHigher(p, q) /\ RanksHigher(q, r) => RanksHigher(p, r)
  BY DEF Rankable, RanksHigher
<1>3. \A q, r \in R : q # r => RanksHigher(q, r) \/ RanksHigher(r, q)
  BY DEF Rankable, RanksHigher
<1>4. QED
  BY <1>1, <1>2, <1>3

Above(R, r) == {q \in R : RanksHigher(q, r)}

InOrder(s, R) ==
    /\ s \in [1..Cardinality(R) -> R]
    /\ \A i, j \in 1..Cardinality(R) : i < j => RanksHigher(s[i], s[j])

\* The place of an element is one more than the number of those above it.
LEMMA SortedExists ==
    ASSUME NEW R, IsFiniteSet(R), Rankable(R)
    PROVE  \E s : InOrder(s, R)
<1> DEFINE n == Cardinality(R)
           p == [r \in R |-> Cardinality(Above(R, r)) + 1]
<1>1. n \in Nat
  BY FS_CardinalityType
<1>2. ASSUME NEW r \in R
      PROVE  IsFiniteSet(Above(R, r)) /\ p[r] \in 1..n
  <2>1. Above(R, r) \in SUBSET R /\ Above(R, r) # R
    BY RanksOrder DEF Above
  <2>2. IsFiniteSet(Above(R, r))
    BY <2>1, FS_Subset
  <2>3. /\ Cardinality(Above(R, r)) \in Nat /\ Cardinality(Above(R, r)) <= n
        /\ Cardinality(Above(R, r)) # n
    BY <2>1, <2>2, FS_Subset, FS_CardinalityType
  <2>4. QED
    BY <1>1, <2>2, <2>3
<1>3. ASSUME NEW q \in R, NEW r \in R, RanksHigher(q, r) PROVE p[q] < p[r]
  <2>1. Above(R, q) \in SUBSET Above(R, r) /\ Above(R, q) # Above(R, r)
    BY <1>3, RanksOrder DEF Above
  <2>2. IsFiniteSet(Above(R, r)) /\ IsFiniteSet(Above(R, q))
    BY <1>2
  <2>3. /\ Cardinality(Above(R, q)) <= Cardinality(Above(R, r))
        /\ Cardinality(Above(R, q)) # Cardinality(Above(R, r))
        /\ Cardinality(Above(R, q)) \in Nat /\ Cardinality(Above(R, r)) \in Nat
    BY <2>1, <2>2, FS_Subset, FS_CardinalityType
  <2>4. QED
    BY <2>3
<1>4. p \in [R -> 1..n]
  BY <1>2
<1> HIDE DEF p
<1>5. \A q, r \in R : p[q] = p[r] => q = r
  <2> SUFFICES ASSUME NEW q \in R, NEW r \in R, p[q] = p[r], q # r PROVE FALSE
    OBVIOUS
  <2>1. p[q] \in 1..n /\ p[r] \in 1..n
    BY <1>4
  <2>2. p[q] < p[r] \/ p[r] < p[q]
    BY <1>3, RanksOrder
  <2>3. QED
    BY <1>1, <2>1, <2>2
<1>6. p \in Surjection(R, 1..n)
  <2>1. p \in Injection(R, 1..n)
    BY <1>4, <1>5, Fun_IsInj
  <2>2. IsFiniteSet(1..n) /\ Cardinality(1..n) = n
    BY <1>1, FS_Interval
  <2>3. QED
    BY <2>1, <2>2, FS_Injection
<1>7. \A i \in 1..n : \E r \in R : p[r] = i
  BY <1>6, Fun_SurjectionProperties
<1> DEFINE s == [i \in 1..n |-> CHOOSE r \in R : p[r] = i]
<1>8. \A i \in 1..n : s[i] \in R /\ p[s[i]] = i
  BY <1>7
<1>9. s \in [1..n -> R]
  BY <1>8
<1> HIDE DEF s
<1>10. ASSUME NEW i \in 1..n, NEW j \in 1..n, i < j PROVE RanksHigher(s[i], s[j])
  <2>1. s[i] \in R /\ s[j] \in R /\ p[s[i]] = i /\ p[s[j]] = j
    BY <1>8
  <2>2. s[i] # s[j]
    BY <1>1, <1>10, <2>1
  <2>3. ~RanksHigher(s[j], s[i])
    <3>1. RanksHigher(s[j], s[i]) => j < i
      BY <1>3, <2>1
    <3>2. ~(j < i)
      BY <1>1, <1>10
    <3>3. QED
      BY <3>1, <3>2
  <2>4. QED
    BY <2>1, <2>2, <2>3, RanksOrder
<1>11. InOrder(s, R)
  BY <1>9, <1>10 DEF InOrder
<1>12. QED
  BY <1>11

LEMMA SortedIs ==
    ASSUME NEW R, IsFiniteSet(R), Rankable(R)
    PROVE  InOrder(Sorted(R), R)
<1> DEFINE Fits(s) == /\ s \in [1..Cardinality(R) -> R]
                      /\ \A i, j \in DOMAIN s : i < j => RanksHigher(s[i], s[j])
<1>1. PICK s : InOrder(s, R)
  BY SortedExists
<1>2. s \in [1..Cardinality(R) -> R] /\ Fits(s)
  BY <1>1 DEF InOrder
<1>3. Sorted(R) = CHOOSE t \in [1..Cardinality(R) -> R] :
                      \A i, j \in DOMAIN t : i < j => RanksHigher(t[i], t[j])
  BY DEF Sorted
<1>4. Fits(Sorted(R))
  BY <1>2, <1>3
<1>5. QED
  BY <1>4 DEF InOrder

\* What is at place i has i - 1 elements above it.
LEMMA SortedPlace ==
    ASSUME NEW R, IsFiniteSet(R), Rankable(R), NEW s, InOrder(s, R),
           NEW i \in 1..Cardinality(R)
    PROVE  /\ s[i] \in R
           /\ IsFiniteSet(Above(R, s[i])) /\ Cardinality(Above(R, s[i])) = i - 1
<1> DEFINE n == Cardinality(R)
           B == 1..i - 1
<1>1. n \in Nat /\ s \in [1..n -> R] /\ i \in 1..n
  BY FS_CardinalityType DEF InOrder
<1>2. \A j, k \in 1..n : j < k => RanksHigher(s[j], s[k])
  BY DEF InOrder
<1> HIDE DEF n
<1>3. \A j \in 1..n : s[j] \in R
  BY <1>1
<1>4. \A j, k \in 1..n : s[j] = s[k] => j = k
  <2> SUFFICES ASSUME NEW j \in 1..n, NEW k \in 1..n, s[j] = s[k], j # k PROVE FALSE
    OBVIOUS
  <2>1. j < k \/ k < j
    BY <1>1
  <2>2. RanksHigher(s[j], s[k]) \/ RanksHigher(s[k], s[j])
    BY <1>2, <2>1
  <2>3. ~RanksHigher(s[j], s[j])
    BY <1>3, RanksOrder
  <2>4. QED
    BY <2>2, <2>3
<1>5. \A r \in R : \E j \in 1..n : s[j] = r
  <2>1. s \in Injection(1..n, R)
    BY <1>1, <1>4, Fun_IsInj
  <2>2. Cardinality(1..n) = n /\ IsFiniteSet(1..n)
    BY <1>1, FS_Interval
  <2>3. Cardinality(1..n) = Cardinality(R)
    BY <2>2 DEF n
  <2>4. s \in Surjection(1..n, R)
    BY <2>1, <2>3, FS_Injection
  <2>5. QED
    BY <2>4 DEF Surjection
<1>6. B \subseteq 1..n /\ IsFiniteSet(B) /\ Cardinality(B) = i - 1
  <2>1. B \subseteq 1..n /\ i - 1 \in Int /\ 1 \in Int
    BY <1>1
  <2>2. IsFiniteSet(B) /\ Cardinality(B) = IF 1 > i - 1 THEN 0 ELSE i - 1 - 1 + 1
    BY <2>1, FS_Interval
  <2>3. QED
    BY <1>1, <2>1, <2>2
<1>7. \A j \in 1..n : j \in B <=> j < i
  BY <1>1
<1>8. \A j \in B : s[j] \in Above(R, s[i])
  BY <1>1, <1>2, <1>3, <1>6, <1>7 DEF Above
<1>9. \A j, k \in B : s[j] = s[k] => j = k
  BY <1>4, <1>6
<1>10. \A r \in Above(R, s[i]) : \E j \in B : s[j] = r
  <2> SUFFICES ASSUME NEW r \in Above(R, s[i]) PROVE \E j \in B : s[j] = r
    OBVIOUS
  <2>1. r \in R /\ RanksHigher(r, s[i])
    BY DEF Above
  <2>2. PICK j \in 1..n : s[j] = r
    BY <1>5, <2>1
  <2>3. ~(i < j) /\ i # j
    <3>1. RanksHigher(s[i], s[j]) => RanksHigher(s[i], s[i])
      BY <1>1, <1>3, <2>1, <2>2, RanksOrder
    <3>2. ~RanksHigher(s[i], s[i])
      BY <1>1, <1>3, RanksOrder
    <3>3. QED
      BY <1>1, <1>2, <2>1, <2>2, <3>1, <3>2
  <2>4. j < i
    BY <1>1, <2>3
  <2>5. QED
    BY <1>7, <2>2, <2>4
<1> HIDE DEF B
<1>11. IsFiniteSet(Above(R, s[i])) /\ Cardinality(Above(R, s[i])) = Cardinality(B)
  BY <1>6, <1>8, <1>9, <1>10, SameSize
<1>12. QED
  BY <1>1, <1>3, <1>6, <1>11

--------------------------------------------------------------------------------
(* What the index gives for a term, and what a scan of the chunks does.      *)

Count(n, term) == Cardinality(WordsAt(chunks_[n].raw_text, term))

\* Everything is in the index.
Serving == IInv /\ CharInv /\ indexed = Len(chunks_)

LEMMA UpToFinite ==
    ASSUME NEW n \in Nat
    PROVE  IsFiniteSet(1..n) /\ Cardinality(1..n) = n
<1>1. 1 \in Int /\ n \in Int
  OBVIOUS
<1>2. IsFiniteSet(1..n) /\ Cardinality(1..n) = IF 1 > n THEN 0 ELSE n - 1 + 1
  BY <1>1, FS_Interval
<1>3. QED
  BY <1>2

LEMMA ChunksAre ==
    ASSUME Serving
    PROVE  /\ Len(chunks_) \in Nat /\ DOMAIN chunks_ = 1..Len(chunks_)
           /\ IsFiniteSet(DOMAIN chunks_) /\ Cardinality(DOMAIN chunks_) = Len(chunks_)
           /\ \A n \in DOMAIN chunks_ : /\ chunks_[n].raw_text \in Seq(Char)
                                        /\ chunks_[n].id = n - 1
<1>1. IsSequence(chunks_)
  BY DEF Serving, IInv
<1>2. Len(chunks_) \in Nat /\ DOMAIN chunks_ = 1..Len(chunks_)
  BY <1>1 DEF IsSequence
<1>3. IsFiniteSet(1..Len(chunks_)) /\ Cardinality(1..Len(chunks_)) = Len(chunks_)
  BY <1>2, UpToFinite
<1>4. QED
  BY <1>2, <1>3 DEF Serving, IInv, IdsArePlaces, CharInv

\* The emplaced chunk is the one with the posting's id.
LEMMA ChunkByIdIs ==
    ASSUME Serving, NEW n \in DOMAIN chunks_
    PROVE  ChunkById(n - 1) = chunks_[n]
<1> DEFINE I == {i \in 1..Len(chunks_) : chunks_[i].id = n - 1}
<1>1. I = {n}
  BY ChunksAre
<1>2. SelectInSeq(chunks_, LAMBDA chunk : chunk.id = n - 1) = IF I # {} THEN Min(I) ELSE 0
  BY DEF SelectInSeq
<1>3. n \in Nat
  BY ChunksAre
<1>4. Min({n}) = n
  BY <1>3, MinIs
<1>5. QED
  BY <1>1, <1>2, <1>4 DEF ChunkById

LEMMA CountsAre ==
    ASSUME Serving, NEW term, IsWord(term), term \notin StopWords
    PROVE  /\ \A n \in DOMAIN chunks_ : Count(n, term) \in Nat
           /\ With(term) = {n \in DOMAIN chunks_ : Count(n, term) > 0}
           /\ \A n \in DOMAIN chunks_ :
                 Posting(term, chunks_[n]) = [chunk_id |-> n - 1, term_frequency |-> Count(n, term)]
<1>1. ASSUME NEW n \in DOMAIN chunks_
      PROVE  /\ Count(n, term) \in Nat
             /\ term \in TermsOf(chunks_[n]) <=> Count(n, term) > 0
             /\ Posting(term, chunks_[n]) = [chunk_id |-> n - 1, term_frequency |-> Count(n, term)]
  <2>1. chunks_[n].raw_text \in Seq(Char) /\ chunks_[n].id = n - 1
    BY ChunksAre
  <2>2. /\ Cardinality(WordsAt(chunks_[n].raw_text, term)) \in Nat
        /\ LET terms == AnalyzeTerms(chunks_[n].raw_text)
           IN  Cardinality({i \in DOMAIN terms : terms[i] = term})
                   = Cardinality(WordsAt(chunks_[n].raw_text, term))
        /\ term \in ToSet(AnalyzeTerms(chunks_[n].raw_text))
                <=> Cardinality(WordsAt(chunks_[n].raw_text, term)) > 0
    BY <2>1, CountIs
  <2>3. Posting(term, chunks_[n]) = [chunk_id |-> n - 1, term_frequency |-> Count(n, term)]
    BY <2>1, <2>2 DEF Posting, Count
  <2>4. QED
    BY <2>2, <2>3 DEF Count, TermsOf
<1>2. With(term) = {n \in DOMAIN chunks_ : Count(n, term) > 0}
  <2>1. DOMAIN chunks_ = 1..indexed
    BY ChunksAre DEF Serving
  <2>2. QED
    BY <1>1, <2>1 DEF With
<1>3. QED
  BY <1>1, <1>2

\* A term has one posting for each chunk it is in: the length of its list is the
\* document frequency.
LEMMA PostingsAre ==
    ASSUME Serving, NEW term, IsWord(term), term \notin StopWords
    PROVE  /\ ToSet(FindTerm(term)) = {[chunk_id |-> n - 1, term_frequency |-> Count(n, term)] :
                                         n \in With(term)}
           /\ Len(FindTerm(term)) = Cardinality(With(term))
           /\ Len(FindTerm(term)) \in 0..Len(chunks_)
<1> DEFINE postings == FindTerm(term)
<1>1. /\ IsSequence(postings)
      /\ \A i, j \in DOMAIN postings : i < j => postings[i].chunk_id < postings[j].chunk_id
      /\ ToSet(postings) = {Posting(term, chunks_[n]) : n \in With(term)}
      /\ \A i \in DOMAIN postings : postings[i].chunk_id \in 0..indexed - 1
  BY FindTermIs DEF Serving
<1>2. DOMAIN postings = 1..Len(postings) /\ Len(postings) \in Nat
  BY <1>1 DEF IsSequence
<1>3. With(term) \subseteq DOMAIN chunks_
  BY CountsAre
<1>4. \A n \in With(term) :
         Posting(term, chunks_[n]) = [chunk_id |-> n - 1, term_frequency |-> Count(n, term)]
  BY <1>3, CountsAre
<1>5. \A n \in With(term) : Posting(term, chunks_[n]).chunk_id = n - 1 /\ n \in Nat
  <2> SUFFICES ASSUME NEW n \in With(term)
               PROVE  Posting(term, chunks_[n]).chunk_id = n - 1 /\ n \in Nat
    OBVIOUS
  <2>1. n \in DOMAIN chunks_
    BY <1>3
  <2>2. chunks_[n].id = n - 1 /\ n \in Nat
    BY <2>1, ChunksAre
  <2>3. QED
    BY <2>2, PostingId
<1>6. IsFiniteSet(With(term)) /\ Cardinality(With(term)) \in 0..Len(chunks_)
  <2>1. IsFiniteSet(With(term)) /\ Cardinality(With(term)) <= Len(chunks_)
    BY <1>3, ChunksAre, FS_Subset
  <2>2. Cardinality(With(term)) \in Nat /\ Len(chunks_) \in Nat
    BY <2>1, ChunksAre, FS_CardinalityType
  <2>3. QED
    BY <2>1, <2>2
<1> HIDE DEF postings
<1> DEFINE place == [i \in 1..Len(postings) |-> postings[i].chunk_id + 1]
<1>7. ASSUME NEW i \in 1..Len(postings)
      PROVE  place[i] \in With(term) /\ postings[i].chunk_id = place[i] - 1
  <2>1. PICK n \in With(term) : postings[i] = Posting(term, chunks_[n])
    BY <1>1, <1>2 DEF ToSet
  <2>2. postings[i].chunk_id = n - 1 /\ n \in Nat
    BY <1>5, <2>1
  <2>3. place[i] = postings[i].chunk_id + 1
    OBVIOUS
  <2> HIDE DEF place
  <2>4. place[i] = n
    BY <2>2, <2>3
  <2>5. QED
    BY <2>2, <2>4
<1>8. \A i, j \in 1..Len(postings) : place[i] = place[j] => i = j
  <2> SUFFICES ASSUME NEW i \in 1..Len(postings), NEW j \in 1..Len(postings),
                      place[i] = place[j], i # j
               PROVE  FALSE
    OBVIOUS
  <2>1. postings[i].chunk_id = postings[j].chunk_id
    BY <1>7
  <2>2. postings[i].chunk_id \in Int
    BY <1>1, <1>2
  <2>3. i < j \/ j < i
    BY <1>2
  <2>4. QED
    BY <1>1, <1>2, <2>1, <2>2, <2>3
<1>9. \A n \in With(term) : \E i \in 1..Len(postings) : place[i] = n
  <2> SUFFICES ASSUME NEW n \in With(term) PROVE \E i \in 1..Len(postings) : place[i] = n
    OBVIOUS
  <2>1. PICK i \in 1..Len(postings) : postings[i] = Posting(term, chunks_[n])
    BY <1>1, <1>2 DEF ToSet
  <2>2. postings[i].chunk_id = n - 1 /\ n \in Nat
    BY <1>5, <2>1
  <2>3. place[i] = n
    BY <2>2
  <2>4. QED
    BY <2>3
<1>10. IsFiniteSet(1..Len(postings)) /\ Cardinality(1..Len(postings)) = Len(postings)
  BY <1>2, UpToFinite
<1> HIDE DEF place
<1>11. Cardinality(With(term)) = Len(postings)
  <2>1. \A i \in 1..Len(postings) : place[i] \in With(term)
    BY <1>7
  <2>2. QED
    BY <1>8, <1>9, <1>10, <2>1, SameSize
<1>12. ToSet(postings) = {[chunk_id |-> n - 1, term_frequency |-> Count(n, term)] : n \in With(term)}
  BY <1>1, <1>4
<1>13. QED
  BY <1>6, <1>11, <1>12 DEF postings

--------------------------------------------------------------------------------
(* The candidates of a search are those of a scan.                           *)

Matches(query) ==
    UNION {{[term |-> term, posting |-> p] : p \in ToSet(FindTerm(term))} :
             term \in ToSet(AnalyzeTerms(query))}

MatchesOf(query, id) == {m \in Matches(query) : m.posting.chunk_id = id}

Points(query) ==
    [m \in Matches(query) |-> Weight(m.posting.term_frequency, Len(FindTerm(m.term)))]

Result(query, id) ==
    [chunk |-> ChunkById(id), matched_terms |-> Cardinality(MatchesOf(query, id)),
     score |-> SumFunctionOnSet(Points(query), MatchesOf(query, id))]

Results(query) ==
    {Result(query, id) : id \in {m.posting.chunk_id : m \in Matches(query)}}

LEMMA SearchIs ==
    \A query, top_k : Search(query, top_k) =
        SubSeq(Sorted(Results(query)), 1, Min({top_k, Cardinality(Results(query))}))
BY DEF Search, Matches, MatchesOf, Points, Result, Results

Match(n, term) ==
    [term |-> term, posting |-> [chunk_id |-> n - 1, term_frequency |-> Count(n, term)]]

\* The terms of the query that a chunk has.
Has(query, n) == {term \in QueryTerms(query) : Count(n, term) > 0}

Found(query) == {n \in DOMAIN chunks_ : Has(query, n) # {}}

Shares(query, n) ==
    [term \in QueryTerms(query) |-> Weight(Count(n, term), Cardinality(With(term)))]

Entry(query, n) ==
    [chunk |-> chunks_[n], matched_terms |-> Cardinality(Has(query, n)),
     score |-> SumFunctionOnSet(Shares(query, n), Has(query, n))]

LEMMA MatchesAre ==
    ASSUME Serving, NEW query \in Seq(Char)
    PROVE  Matches(query) = UNION {{Match(n, term) : term \in Has(query, n)} : n \in DOMAIN chunks_}
<1>1. ASSUME NEW m \in Matches(query)
      PROVE  \E n \in DOMAIN chunks_ : \E term \in Has(query, n) : m = Match(n, term)
  <2>1. PICK term \in ToSet(AnalyzeTerms(query)) : \E p \in ToSet(FindTerm(term)) :
            m = [term |-> term, posting |-> p]
    BY DEF Matches
  <2>2. PICK p \in ToSet(FindTerm(term)) : m = [term |-> term, posting |-> p]
    BY <2>1
  <2>9. term \in QueryTerms(query) /\ IsWord(term) /\ term \notin StopWords
    BY <2>1, QueryTermsAre
  <2>3. PICK n \in With(term) : p = [chunk_id |-> n - 1, term_frequency |-> Count(n, term)]
    BY <2>2, <2>9, PostingsAre
  <2>4. n \in DOMAIN chunks_ /\ Count(n, term) > 0
    BY <2>9, <2>3, CountsAre
  <2>5. m = Match(n, term)
    BY <2>2, <2>3 DEF Match
  <2>6. term \in Has(query, n)
    BY <2>9, <2>4 DEF Has
  <2>7. QED
    BY <2>4, <2>5, <2>6
<1>2. ASSUME NEW n \in DOMAIN chunks_, NEW term \in Has(query, n)
      PROVE  Match(n, term) \in Matches(query)
  <2>1. term \in QueryTerms(query) /\ Count(n, term) > 0
    BY DEF Has
  <2>2. IsWord(term) /\ term \notin StopWords /\ term \in ToSet(AnalyzeTerms(query))
    BY <2>1, QueryTermsAre
  <2>3. n \in With(term)
    BY <2>1, <2>2, CountsAre
  <2>4. [chunk_id |-> n - 1, term_frequency |-> Count(n, term)] \in ToSet(FindTerm(term))
    BY <2>2, <2>3, PostingsAre
  <2>5. QED
    BY <2>2, <2>4 DEF Matches, Match
<1> DEFINE R == UNION {{Match(n, term) : term \in Has(query, n)} : n \in DOMAIN chunks_}
<1>3. \A m : m \in R <=> \E n \in DOMAIN chunks_ : \E term \in Has(query, n) : m = Match(n, term)
  OBVIOUS
<1> HIDE DEF R
<1>4. \A m : m \in Matches(query) <=> m \in R
  BY <1>1, <1>2, <1>3
<1>5. Matches(query) = R
  BY <1>4
<1>6. QED
  BY <1>5 DEF R

\* What is said of the chunks that have a term of the query.
LEMMA HasIs ==
    ASSUME Serving, NEW query \in Seq(Char), NEW n \in DOMAIN chunks_
    PROVE  /\ IsFiniteSet(Has(query, n)) /\ Cardinality(Has(query, n)) \in Nat
           /\ \A term \in Has(query, n) :
                 /\ term \in QueryTerms(query) /\ IsWord(term) /\ term \notin StopWords
                 /\ Count(n, term) \in Nat /\ Count(n, term) > 0
                 /\ Cardinality(With(term)) \in 0..Len(chunks_)
                 /\ Len(FindTerm(term)) = Cardinality(With(term))
                 /\ Shares(query, n)[term] = Weight(Count(n, term), Cardinality(With(term)))
                 /\ Shares(query, n)[term] \in Int /\ Shares(query, n)[term] > 0
           /\ SumFunctionOnSet(Shares(query, n), Has(query, n)) \in Int
<1>1. IsFiniteSet(QueryTerms(query)) /\ Has(query, n) \in SUBSET QueryTerms(query)
  BY QueryTermsAre DEF Has
<1>2. IsFiniteSet(Has(query, n)) /\ Cardinality(Has(query, n)) \in Nat
  BY <1>1, FS_Subset, FS_CardinalityType
<1>3. ASSUME NEW term \in Has(query, n)
      PROVE  /\ term \in QueryTerms(query) /\ IsWord(term) /\ term \notin StopWords
             /\ Count(n, term) \in Nat /\ Count(n, term) > 0
             /\ Cardinality(With(term)) \in 0..Len(chunks_)
             /\ Len(FindTerm(term)) = Cardinality(With(term))
             /\ Shares(query, n)[term] = Weight(Count(n, term), Cardinality(With(term)))
             /\ Shares(query, n)[term] \in Int /\ Shares(query, n)[term] > 0
  <2>1. term \in QueryTerms(query) /\ Count(n, term) > 0
    BY DEF Has
  <2>2. IsWord(term) /\ term \notin StopWords
    BY <2>1, QueryTermsAre
  <2>3. Count(n, term) \in Nat
    BY <2>2, CountsAre
  <2>4. /\ Cardinality(With(term)) \in 0..Len(chunks_)
        /\ Len(FindTerm(term)) = Cardinality(With(term))
    BY <2>2, PostingsAre
  <2>5. Shares(query, n)[term] = Weight(Count(n, term), Cardinality(With(term)))
    BY <2>1 DEF Shares
  <2>6. Len(chunks_) \in Nat
    BY ChunksAre
  <2>7. /\ Weight(Count(n, term), Cardinality(With(term))) \in Int
        /\ Weight(Count(n, term), Cardinality(With(term))) > 0
    BY <2>1, <2>3, <2>4, <2>6, WeightIs
  <2>8. QED
    BY <2>1, <2>2, <2>3, <2>4, <2>5, <2>7
<1>4. SumFunctionOnSet(Shares(query, n), Has(query, n)) \in Int
  BY <1>2, <1>3, SumType
<1>5. QED
  BY <1>2, <1>3, <1>4

LEMMA ResultIs ==
    ASSUME Serving, NEW query \in Seq(Char), NEW n \in DOMAIN chunks_
    PROVE  Result(query, n - 1) = Entry(query, n)
<1> DEFINE S == Has(query, n)
           R == MatchesOf(query, n - 1)
           b == [term \in S |-> Match(n, term)]
           e == Shares(query, n)
           f == Points(query)
<1>1. n \in Nat
  BY ChunksAre
<1>2. IsFiniteSet(S)
  BY HasIs
<1>3. ASSUME NEW term \in S
      PROVE  b[term] \in R /\ b[term] \in Matches(query) /\ b[term] = Match(n, term)
  <2>1. b[term] = Match(n, term) /\ Match(n, term).posting.chunk_id = n - 1
    BY DEF Match
  <2>2. Match(n, term) \in Matches(query)
    BY MatchesAre
  <2>3. QED
    BY <2>1, <2>2 DEF MatchesOf
<1>4. \A x, y \in S : b[x] = b[y] => x = y
  BY DEF Match
<1>5. ASSUME NEW z \in R PROVE \E x \in S : b[x] = z
  <2>1. z \in Matches(query) /\ z.posting.chunk_id = n - 1
    BY DEF MatchesOf
  <2>2. PICK k \in DOMAIN chunks_ : \E term \in Has(query, k) : z = Match(k, term)
    BY <2>1, MatchesAre
  <2>3. k \in Nat /\ k - 1 = n - 1
    BY <2>1, <2>2, ChunksAre DEF Match
  <2>4. k = n
    BY <1>1, <2>3
  <2>5. QED
    BY <2>2, <2>4
<1>6. ASSUME NEW x \in S PROVE e[x] \in Int /\ f[b[x]] = e[x]
  <2>1. /\ Len(FindTerm(x)) = Cardinality(With(x)) /\ e[x] \in Int
        /\ e[x] = Weight(Count(n, x), Cardinality(With(x)))
    BY HasIs
  <2>2. b[x] \in Matches(query) /\ b[x] = Match(n, x)
    BY <1>3
  <2>3. Match(n, x).posting.term_frequency = Count(n, x) /\ Match(n, x).term = x
    BY DEF Match
  <2>4. f[b[x]] = Weight(Match(n, x).posting.term_frequency, Len(FindTerm(Match(n, x).term)))
    BY <2>2 DEF Points
  <2>5. QED
    BY <2>1, <2>3, <2>4
<1> HIDE DEF S, R, b, e, f
<1>7. \A x \in S : b[x] \in R
  BY <1>3
<1>8. Cardinality(R) = Cardinality(S)
  BY <1>2, <1>4, <1>5, <1>7, SameSize
<1>9. SumFunctionOnSet(f, R) = SumFunctionOnSet(e, S)
  BY <1>2, <1>4, <1>5, <1>6, <1>7, SumMoved
<1>10. ChunkById(n - 1) = chunks_[n]
  BY ChunkByIdIs
<1>11. QED
  BY <1>8, <1>9, <1>10 DEF Result, Entry, S, R, e, f

LEMMA ResultsAre ==
    ASSUME Serving, NEW query \in Seq(Char)
    PROVE  /\ Results(query) = {Entry(query, n) : n \in Found(query)}
           /\ \A m, n \in Found(query) : Entry(query, m) = Entry(query, n) => m = n
           /\ IsFiniteSet(Found(query)) /\ IsFiniteSet(Results(query)) /\ Rankable(Results(query))
           /\ Cardinality(Results(query)) = Cardinality(Found(query))
           /\ Cardinality(Found(query)) \in 0..Len(chunks_)
<1> DEFINE ids == {m.posting.chunk_id : m \in Matches(query)}
<1>1. ids = {n - 1 : n \in Found(query)}
  <2>1. ASSUME NEW m \in Matches(query) PROVE \E n \in Found(query) : m.posting.chunk_id = n - 1
    <3>1. PICK n \in DOMAIN chunks_ : \E term \in Has(query, n) : m = Match(n, term)
      BY MatchesAre
    <3>2. n \in Found(query)
      BY <3>1 DEF Found
    <3>3. QED
      BY <3>1, <3>2 DEF Match
  <2>2. ASSUME NEW n \in Found(query) PROVE \E m \in Matches(query) : m.posting.chunk_id = n - 1
    <3>1. n \in DOMAIN chunks_ /\ Has(query, n) # {}
      BY DEF Found
    <3>2. PICK term \in Has(query, n) : TRUE
      BY <3>1
    <3>3. Match(n, term) \in Matches(query)
      BY <3>1, MatchesAre
    <3>4. Match(n, term).posting.chunk_id = n - 1
      BY DEF Match
    <3>5. QED
      BY <3>3, <3>4
  <2>3. QED
    BY <2>1, <2>2
<1>2. \A n \in Found(query) : n \in DOMAIN chunks_ /\ Result(query, n - 1) = Entry(query, n)
  BY ResultIs DEF Found
<1>3. Results(query) = {Entry(query, n) : n \in Found(query)}
  <2>1. Results(query) = {Result(query, id) : id \in ids}
    BY DEF Results
  <2> HIDE DEF ids
  <2>2. Results(query) = {Result(query, n - 1) : n \in Found(query)}
    BY <1>1, <2>1
  <2>3. QED
    BY <1>2, <2>2
<1>4. \A n \in Found(query) :
         /\ Entry(query, n).chunk.id = n - 1 /\ n \in Nat
         /\ Entry(query, n).matched_terms \in Int /\ Entry(query, n).score \in Int
  <2> SUFFICES ASSUME NEW n \in Found(query)
               PROVE  /\ Entry(query, n).chunk.id = n - 1 /\ n \in Nat
                      /\ Entry(query, n).matched_terms \in Int /\ Entry(query, n).score \in Int
    OBVIOUS
  <2>1. n \in DOMAIN chunks_
    BY <1>2
  <2>2. chunks_[n].id = n - 1 /\ n \in Nat
    BY <2>1, ChunksAre
  <2>3. /\ Cardinality(Has(query, n)) \in Nat
        /\ SumFunctionOnSet(Shares(query, n), Has(query, n)) \in Int
    BY <2>1, HasIs
  <2>4. QED
    BY <2>2, <2>3 DEF Entry
<1>5. \A m, n \in Found(query) : Entry(query, m).chunk.id = Entry(query, n).chunk.id => m = n
  <2> SUFFICES ASSUME NEW m \in Found(query), NEW n \in Found(query),
                      Entry(query, m).chunk.id = Entry(query, n).chunk.id
               PROVE  m = n
    OBVIOUS
  <2>1. m \in Nat /\ n \in Nat /\ m - 1 = n - 1
    BY <1>4
  <2>2. QED
    BY <2>1
<1>6. \A m, n \in Found(query) : Entry(query, m) = Entry(query, n) => m = n
  BY <1>5
<1>7. /\ IsFiniteSet(Found(query)) /\ Cardinality(Found(query)) \in Nat
      /\ Cardinality(Found(query)) <= Len(chunks_) /\ Len(chunks_) \in Nat
  <2>1. Found(query) \in SUBSET DOMAIN chunks_
    BY <1>2
  <2>2. IsFiniteSet(Found(query)) /\ Cardinality(Found(query)) <= Len(chunks_)
    BY <2>1, ChunksAre, FS_Subset
  <2>3. QED
    BY <2>2, ChunksAre, FS_CardinalityType
<1>8. IsFiniteSet(Results(query)) /\ Cardinality(Results(query)) = Cardinality(Found(query))
  <2> DEFINE b == [n \in Found(query) |-> Entry(query, n)]
  <2>1. \A n \in Found(query) : b[n] \in Results(query)
    BY <1>3
  <2>2. \A m, n \in Found(query) : b[m] = b[n] => m = n
    BY <1>6
  <2>3. \A r \in Results(query) : \E n \in Found(query) : b[n] = r
    BY <1>3
  <2> HIDE DEF b
  <2>4. QED
    BY <1>7, <2>1, <2>2, <2>3, SameSize
<1>9. Rankable(Results(query))
  <2>1. \A r \in Results(query) : r.matched_terms \in Int /\ r.score \in Int /\ r.chunk.id \in Int
    <3> SUFFICES ASSUME NEW n \in Found(query)
                 PROVE  /\ Entry(query, n).matched_terms \in Int /\ Entry(query, n).score \in Int
                        /\ Entry(query, n).chunk.id \in Int
      BY <1>3
    <3>1. QED
      BY <1>4
  <2>2. \A q, r \in Results(query) : q.chunk.id = r.chunk.id => q = r
    BY <1>3, <1>5
  <2>3. QED
    BY <2>1, <2>2 DEF Rankable
<1>10. QED
  BY <1>3, <1>6, <1>7, <1>8, <1>9

--------------------------------------------------------------------------------
(* The answer to a search.                                                   *)

LEMMA MinOfTwo ==
    ASSUME NEW a \in Nat, NEW b \in Nat
    PROVE  Min({a, b}) \in Nat /\ Min({a, b}) <= a /\ Min({a, b}) <= b
           /\ (b <= a => Min({a, b}) = b)
<1>1. {a, b} \subseteq Nat /\ {a, b} # {}
  OBVIOUS
<1>2. Min({a, b}) \in {a, b} /\ \A y \in {a, b} : Min({a, b}) <= y
  BY <1>1, MinIs
<1>3. QED
  BY <1>2

LEMMA SearchGives ==
    ASSUME Serving, NEW query \in Seq(Char), NEW top_k \in Nat
    PROVE  /\ Len(Search(query, top_k)) = Min({top_k, Cardinality(Found(query))})
           /\ DOMAIN Search(query, top_k) = 1..Len(Search(query, top_k))
           /\ Len(Search(query, top_k)) \in Nat
           /\ \A n \in DOMAIN Search(query, top_k) :
                 /\ Search(query, top_k)[n] \in Results(query)
                 /\ Cardinality(Above(Results(query), Search(query, top_k)[n])) = n - 1
           /\ \A m, n \in DOMAIN Search(query, top_k) :
                 m < n => RanksHigher(Search(query, top_k)[m], Search(query, top_k)[n])
<1> DEFINE R == Results(query)
           c == Cardinality(R)
           k == Min({top_k, c})
           s == Sorted(R)
           results == SubSeq(s, 1, k)
<1>1. Search(query, top_k) = results
  BY SearchIs
<1>2. IsFiniteSet(R) /\ Rankable(R) /\ c = Cardinality(Found(query))
  BY ResultsAre
<1>3. InOrder(s, R)
  BY <1>2, SortedIs
<1>4. c \in Nat
  BY <1>2, FS_CardinalityType
<1>5. k \in Nat /\ k <= c
  BY <1>4, MinOfTwo
<1>6. s \in [1..c -> R] /\ \A i, j \in 1..c : i < j => RanksHigher(s[i], s[j])
  BY <1>3 DEF InOrder
<1>7. \A i \in 1..c : s[i] \in R /\ Cardinality(Above(R, s[i])) = i - 1
  BY <1>2, <1>3, SortedPlace
<1> HIDE DEF R, c, k, s
<1>8. s \in Seq(R) /\ Len(s) = c
  BY <1>4, <1>6
<1>9. Len(results) = k /\ DOMAIN results = 1..k /\ \A n \in 1..k : results[n] = s[n]
  BY <1>5, <1>8
<1> HIDE DEF results
<1>10. 1..k \subseteq 1..c
  BY <1>4, <1>5
<1>11. \A n \in 1..k : results[n] \in R /\ Cardinality(Above(R, results[n])) = n - 1
  BY <1>7, <1>9, <1>10
<1>12. \A m, n \in 1..k : m < n => RanksHigher(results[m], results[n])
  BY <1>6, <1>9, <1>10
<1>13. k = Min({top_k, Cardinality(Found(query))})
  BY <1>2 DEF k
<1>14. QED
  BY <1>1, <1>5, <1>9, <1>11, <1>12, <1>13 DEF R

\* The entries above one of them correspond to the results above it.
LEMMA AboveIs ==
    ASSUME Serving, NEW query \in Seq(Char), NEW i \in Found(query)
    PROVE  Cardinality({j \in Found(query) : RanksHigher(Entry(query, j), Entry(query, i))})
               = Cardinality(Above(Results(query), Entry(query, i)))
<1> DEFINE S == {j \in Found(query) : RanksHigher(Entry(query, j), Entry(query, i))}
           T == Above(Results(query), Entry(query, i))
           b == [j \in S |-> Entry(query, j)]
<1>1. /\ Results(query) = {Entry(query, n) : n \in Found(query)}
      /\ \A m, n \in Found(query) : Entry(query, m) = Entry(query, n) => m = n
      /\ IsFiniteSet(Found(query))
  BY ResultsAre
<1>2. IsFiniteSet(S)
  <2>1. S \in SUBSET Found(query)
    OBVIOUS
  <2> HIDE DEF S
  <2>2. QED
    BY <1>1, <2>1, FS_Subset
<1>3. \A j \in S : b[j] \in T
  BY <1>1 DEF Above
<1>4. \A m, n \in S : b[m] = b[n] => m = n
  BY <1>1
<1>5. \A r \in T : \E j \in S : b[j] = r
  BY <1>1 DEF Above
<1> HIDE DEF S, T, b
<1>6. Cardinality(T) = Cardinality(S)
  BY <1>2, <1>3, <1>4, <1>5, SameSize
<1>7. QED
  BY <1>6 DEF S, T

\* The scan as the property writes it.
LEMMA ScanIs ==
    ASSUME Serving, NEW query \in Seq(Char)
    PROVE  LET terms == QueryTerms(query)
               count == [i \in DOMAIN chunks_ |->
                           [term \in terms |-> Cardinality(WordsAt(chunks_[i].raw_text, term))]]
               has(i) == {term \in terms : count[i][term] > 0}
               found == {i \in DOMAIN chunks_ : has(i) # {}}
               df == [term \in terms |-> Cardinality({i \in found : count[i][term] > 0})]
               score(i) == SumFunctionOnSet([term \in terms |-> Weight(count[i][term], df[term])],
                                            has(i))
               entry == [i \in found |-> [chunk |-> chunks_[i],
                                          matched_terms |-> Cardinality(has(i)), score |-> score(i)]]
           IN  found = Found(query) /\ \A i \in found : entry[i] = Entry(query, i)
<1> DEFINE terms == QueryTerms(query)
           count == [i \in DOMAIN chunks_ |->
                       [term \in terms |-> Cardinality(WordsAt(chunks_[i].raw_text, term))]]
           has(i) == {term \in terms : count[i][term] > 0}
           found == {i \in DOMAIN chunks_ : has(i) # {}}
           df == [term \in terms |-> Cardinality({i \in found : count[i][term] > 0})]
           points(i) == [term \in terms |-> Weight(count[i][term], df[term])]
           score(i) == SumFunctionOnSet(points(i), has(i))
           entry == [i \in found |-> [chunk |-> chunks_[i], matched_terms |-> Cardinality(has(i)),
                                      score |-> score(i)]]
<1>1. \A i \in DOMAIN chunks_ : \A term \in terms : count[i][term] = Count(i, term)
  BY DEF Count
<1> HIDE DEF count
<1>2. \A i \in DOMAIN chunks_ : has(i) = Has(query, i)
  BY <1>1 DEF Has
<1>3. found = Found(query)
  BY <1>2 DEF Found
<1>4. ASSUME NEW term \in terms PROVE df[term] = Cardinality(With(term))
  <2>1. With(term) = {n \in DOMAIN chunks_ : Count(n, term) > 0}
    BY QueryTermsAre, CountsAre
  <2>2. \A i \in DOMAIN chunks_ : Count(i, term) > 0 => i \in found
    BY <1>3 DEF Found, Has
  <2>3. found \subseteq DOMAIN chunks_
    OBVIOUS
  <2>4. df[term] = Cardinality({i \in found : count[i][term] > 0})
    OBVIOUS
  <2> HIDE DEF found, df
  <2>5. {i \in found : count[i][term] > 0} = With(term)
    BY <1>1, <2>1, <2>2, <2>3
  <2>6. QED
    BY <2>4, <2>5
<1>5. ASSUME NEW i \in found PROVE entry[i] = Entry(query, i)
  <2>1. i \in DOMAIN chunks_
    OBVIOUS
  <2>2. has(i) = Has(query, i)
    BY <1>2, <2>1
  <2>3. \A term \in terms : points(i)[term] = Shares(query, i)[term]
    <3> SUFFICES ASSUME NEW term \in terms PROVE points(i)[term] = Shares(query, i)[term]
      OBVIOUS
    <3>1. points(i)[term] = Weight(count[i][term], df[term])
      OBVIOUS
    <3>2. Shares(query, i)[term] = Weight(Count(i, term), Cardinality(With(term)))
      BY DEF Shares
    <3> HIDE DEF points, df
    <3>3. QED
      BY <1>1, <1>4, <2>1, <3>1, <3>2
  <2>4. IsFiniteSet(Has(query, i)) /\ Has(query, i) \subseteq terms
    BY <2>1, HasIs DEF Has
  <2>5. score(i) = SumFunctionOnSet(Shares(query, i), Has(query, i))
    <3>1. score(i) = SumFunctionOnSet(points(i), Has(query, i))
      BY <2>2
    <3> HIDE DEF points, score
    <3>2. QED
      BY <2>3, <2>4, <3>1, SumSame
  <2>6. entry[i] = [chunk |-> chunks_[i], matched_terms |-> Cardinality(has(i)), score |-> score(i)]
    OBVIOUS
  <2> HIDE DEF entry, has, score
  <2>7. QED
    BY <2>2, <2>5, <2>6 DEF Entry
<1>6. QED
  BY <1>3, <1>5 DEF count

LEMMA ServingMatches == ASSUME Serving PROVE SearchMatchesScan
<1> SUFFICES ASSUME NEW query \in Query PROVE
        LET terms == QueryTerms(query)
            count == [i \in DOMAIN chunks_ |->
                        [term \in terms |-> Cardinality(WordsAt(chunks_[i].raw_text, term))]]
            has(i) == {term \in terms : count[i][term] > 0}
            found == {i \in DOMAIN chunks_ : has(i) # {}}
            df == [term \in terms |-> Cardinality({i \in found : count[i][term] > 0})]
            score(i) == SumFunctionOnSet([term \in terms |-> Weight(count[i][term], df[term])],
                                         has(i))
            entry == [i \in found |-> [chunk |-> chunks_[i],
                                       matched_terms |-> Cardinality(has(i)), score |-> score(i)]]
            above(i) == {j \in found : RanksHigher(entry[j], entry[i])}
        IN  \A top_k \in 0..MaxTopK :
              LET results == Search(query, top_k)
              IN  /\ Len(results) = Min({top_k, Cardinality(found)})
                  /\ \A n \in DOMAIN results :
                        \E i \in found : results[n] = entry[i] /\ Cardinality(above(i)) = n - 1
  BY DEF SearchMatchesScan
<1> DEFINE terms == QueryTerms(query)
           count == [i \in DOMAIN chunks_ |->
                       [term \in terms |-> Cardinality(WordsAt(chunks_[i].raw_text, term))]]
           has(i) == {term \in terms : count[i][term] > 0}
           found == {i \in DOMAIN chunks_ : has(i) # {}}
           df == [term \in terms |-> Cardinality({i \in found : count[i][term] > 0})]
           score(i) == SumFunctionOnSet([term \in terms |-> Weight(count[i][term], df[term])], has(i))
           entry == [i \in found |-> [chunk |-> chunks_[i], matched_terms |-> Cardinality(has(i)),
                                      score |-> score(i)]]
           above(i) == {j \in found : RanksHigher(entry[j], entry[i])}
<1>1. query \in Seq(Char)
  BY IndexAssumption
<1>2. found = Found(query) /\ \A i \in found : entry[i] = Entry(query, i)
  BY <1>1, ScanIs
<1> HIDE DEF found, entry
<1>3. ASSUME NEW top_k \in 0..MaxTopK, NEW results, results = Search(query, top_k)
      PROVE  /\ Len(results) = Min({top_k, Cardinality(found)})
             /\ \A n \in DOMAIN results :
                   \E i \in found : results[n] = entry[i] /\ Cardinality(above(i)) = n - 1
  <2>1. top_k \in Nat
    BY IndexAssumption
  <2>2. /\ Len(results) = Min({top_k, Cardinality(Found(query))})
        /\ \A n \in DOMAIN results :
              /\ results[n] \in Results(query)
              /\ Cardinality(Above(Results(query), results[n])) = n - 1
    BY <1>1, <1>3, <2>1, SearchGives
  <2>3. ASSUME NEW n \in DOMAIN results
        PROVE  \E i \in found : results[n] = entry[i] /\ Cardinality(above(i)) = n - 1
    <3>1. PICK i \in Found(query) : results[n] = Entry(query, i)
      BY <1>1, <2>2, ResultsAre
    <3>2. above(i) = {j \in Found(query) : RanksHigher(Entry(query, j), Entry(query, i))}
      BY <1>2
    <3>3. Cardinality(above(i)) = Cardinality(Above(Results(query), Entry(query, i)))
      BY <1>1, <3>2, AboveIs
    <3> HIDE DEF above
    <3>4. QED
      BY <1>2, <2>2, <3>1, <3>3
  <2>4. QED
    BY <1>2, <2>2, <2>3
<1>4. QED
  BY <1>3 DEF found, entry

\* A search gives the top_k chunks of a full scan of the chunks' text, each counted
\* and scored as if there were no index, in the order of ranksHigher, for any
\* documents, queries and top_k and any logarithm that increases
\* (Tokenizer.cpp, InvertedIndex.cpp, SearchService.cpp, search).
THEOREM SearchIsAFullScan == Spec => []SearchMatchesScan
<1>1. IInv /\ CharInv => SearchMatchesScan
  <2>1. stage = "serving" /\ IInv /\ CharInv => Serving
    BY DEF Serving, CharInv
  <2>2. stage # "serving" => SearchMatchesScan
    BY DEF SearchMatchesScan
  <2>3. QED
    BY <2>1, <2>2, ServingMatches
<1>2. QED
  BY <1>1, CharInvariance, PTL

\* More of the query's words, none of them less often.
LEMMA MoreRanksHigher ==
    ASSUME Serving, NEW query \in Seq(Char), NEW m \in DOMAIN chunks_, NEW n \in DOMAIN chunks_,
           \A term \in QueryTerms(query) : Count(m, term) >= Count(n, term),
           \E term \in QueryTerms(query) : Count(m, term) > Count(n, term)
    PROVE  RanksHigher(Entry(query, m), Entry(query, n))
<1> DEFINE R == Has(query, m)
           S == Has(query, n)
           f == Shares(query, m)
           e == Shares(query, n)
<1>1. \A term \in QueryTerms(query) : Count(m, term) \in Nat /\ Count(n, term) \in Nat
  BY QueryTermsAre, CountsAre
<1>2. S \in SUBSET R
  BY <1>1 DEF Has
<1>3. /\ IsFiniteSet(R) /\ Cardinality(R) \in Nat /\ Cardinality(S) \in Nat
      /\ \A x \in R : f[x] \in Int /\ f[x] > 0
  BY HasIs
<1>4. ASSUME NEW x \in S
      PROVE  /\ e[x] \in Int /\ f[x] >= e[x]
             /\ Count(m, x) > Count(n, x) => f[x] > e[x]
  <2>1. /\ x \in QueryTerms(query) /\ Count(n, x) \in Nat /\ Count(n, x) > 0
        /\ Cardinality(With(x)) \in 0..Len(chunks_)
        /\ e[x] = Weight(Count(n, x), Cardinality(With(x))) /\ e[x] \in Int
    BY HasIs
  <2>2. /\ f[x] = Weight(Count(m, x), Cardinality(With(x))) /\ f[x] \in Int
        /\ Count(m, x) \in Nat
    BY <1>2, HasIs
  <2>3. Count(m, x) > Count(n, x) =>
            Weight(Count(m, x), Cardinality(With(x))) > Weight(Count(n, x), Cardinality(With(x)))
    BY <2>1, <2>2, ChunksAre, WeightIs
  <2>4. Count(m, x) > Count(n, x) \/ Count(m, x) = Count(n, x)
    BY <2>1, <2>2
  <2>5. QED
    BY <2>1, <2>2, <2>3, <2>4
<1> HIDE DEF R, S, f, e
<1>5. CASE R # S
  <2>1. Cardinality(S) <= Cardinality(R) /\ Cardinality(S) # Cardinality(R)
    BY <1>2, <1>3, <1>5, FS_Subset
  <2>2. Cardinality(R) > Cardinality(S)
    BY <1>3, <2>1
  <2>3. QED
    BY <2>2 DEF RanksHigher, Entry, R, S
<1>6. CASE R = S
  <2>1. PICK term \in QueryTerms(query) : Count(m, term) > Count(n, term)
    OBVIOUS
  <2>2. term \in R
    BY <1>1, <2>1 DEF R, Has
  <2>3. \E x \in S : f[x] > e[x]
    BY <1>4, <1>6, <2>1, <2>2
  <2>4. SumFunctionOnSet(f, R) > SumFunctionOnSet(e, S)
    BY <1>2, <1>3, <1>4, <2>3, SumGrows
  <2>5. Cardinality(R) = Cardinality(S)
    BY <1>6
  <2>6. QED
    BY <2>4, <2>5 DEF RanksHigher, Entry, R, S, f, e
<1>7. QED
  BY <1>5, <1>6

LEMMA ServingIsMonotone == ASSUME Serving PROVE RankIsMonotone
<1> SUFFICES ASSUME NEW query \in Query, NEW results, results = Search(query, Len(chunks_)),
                    NEW i \in DOMAIN results, NEW j \in DOMAIN results,
                    \A term \in QueryTerms(query) :
                        Cardinality(WordsAt(results[i].chunk.raw_text, term))
                            >= Cardinality(WordsAt(results[j].chunk.raw_text, term)),
                    \E term \in QueryTerms(query) :
                        Cardinality(WordsAt(results[i].chunk.raw_text, term))
                            > Cardinality(WordsAt(results[j].chunk.raw_text, term))
             PROVE  i < j
  BY DEF RankIsMonotone
<1>1. query \in Seq(Char) /\ Len(chunks_) \in Nat
  BY IndexAssumption, ChunksAre
<1>2. /\ DOMAIN results = 1..Len(results) /\ Len(results) \in Nat
      /\ \A n \in DOMAIN results : results[n] \in Results(query)
      /\ \A m, n \in DOMAIN results : m < n => RanksHigher(results[m], results[n])
  BY <1>1, SearchGives
<1>3. /\ Results(query) = {Entry(query, n) : n \in Found(query)}
      /\ Found(query) \subseteq DOMAIN chunks_ /\ Rankable(Results(query))
  BY <1>1, ResultsAre DEF Found
<1>4. PICK m \in DOMAIN chunks_ : results[i] = Entry(query, m)
  BY <1>2, <1>3
<1>5. PICK n \in DOMAIN chunks_ : results[j] = Entry(query, n)
  BY <1>2, <1>3
<1>6. results[i].chunk = chunks_[m] /\ results[j].chunk = chunks_[n]
  BY <1>4, <1>5 DEF Entry
<1>7. RanksHigher(results[i], results[j])
  <2>1. /\ \A term \in QueryTerms(query) : Count(m, term) >= Count(n, term)
        /\ \E term \in QueryTerms(query) : Count(m, term) > Count(n, term)
    BY <1>6 DEF Count
  <2>2. QED
    BY <1>1, <1>4, <1>5, <2>1, MoreRanksHigher
<1>8. i # j /\ ~RanksHigher(results[j], results[i])
  BY <1>2, <1>3, <1>7, RanksOrder
<1>9. i \in Nat /\ j \in Nat /\ ~(j < i)
  BY <1>2, <1>8
<1>10. QED
  BY <1>8, <1>9

\* A chunk that has every term of the query at least as often as another, and one of
\* them more often, is above it, for any documents and queries and any logarithm
\* that increases (SearchService.cpp, the two logarithms and ranksHigher).
THEOREM MoreMatchesRankHigher == Spec => []RankIsMonotone
<1>1. IInv /\ CharInv => RankIsMonotone
  <2>1. stage = "serving" /\ IInv /\ CharInv => Serving
    BY DEF Serving, CharInv
  <2>2. stage # "serving" => RankIsMonotone
    BY DEF RankIsMonotone
  <2>3. QED
    BY <2>1, <2>2, ServingIsMonotone
<1>2. QED
  BY <1>1, CharInvariance, PTL
================================================================================
