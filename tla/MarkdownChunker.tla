---------------------------- MODULE MarkdownChunker ----------------------------
(* chunkMarkdown: one document is read line by line and cut into chunks, one *)
(* for each heading that has text of its own.  A line is a heading of some   *)
(* level, with or without a name, or text, perhaps blank.  The name of a     *)
(* heading is represented by the number of its line, and a character of the  *)
(* text by its place in content; " " stands for all white space, so that the *)
(* one after a line is its newline.                                          *)
EXTENDS Naturals, Sequences, SequencesExt

CONSTANTS
    MaxLevel,       \* levels of heading (the code knows 1..6)
    MaxLines,       \* bound of the document's length
    Text            \* what a line of text may say

ASSUME ChunkerAssumption ==
    /\ MaxLevel \in 1..6 /\ MaxLines \in Nat
    /\ Text \subseteq Seq(STRING)

VARIABLES
    first_chunk_id, \* the id of the first chunk
    lines,          \* the lines read so far
    content,        \* the characters of those that are text, and their lines
    document_title, \* line of the last level 1 heading, 0 if there was none
    headings,       \* stack of headings
    current_body,   \* characters not yet in a chunk
    chunks,
    ended           \* the document has been read

documentVars == <<lines, content, document_title, headings, current_body, chunks, ended>>
chunkerVars == <<first_chunk_id, documentVars>>

\* headingLevel: 0 for text.
Line == [level : {0}] \cup [level : 1..MaxLevel, named : BOOLEAN]

ChunkerInit ==
    /\ first_chunk_id = 0
    /\ lines = <<>>
    /\ content = <<>>
    /\ document_title = 0
    /\ headings = <<>>
    /\ current_body = <<>>
    /\ chunks = <<>>
    /\ ended = FALSE

\* Headings without a name are passed over.
JoinHeadings ==
    FoldLeft(LAMBDA path, heading : IF lines[heading].named THEN Append(path, heading) ELSE path,
             <<>>, headings)

IsBlank(place) == content[place].character = " "

\* trim: from the first character that is not blank to the last.
Trim(body) ==
    LET written == {i \in DOMAIN body : ~IsBlank(body[i])}
    IN  IF written = {} THEN <<>> ELSE SubSeq(body, Min(written), Max(written))

\* flushCurrent: text before the first heading stays where it is, but trimmed,
\* its last newline included.
FlushCurrent ==
    LET body == Trim(current_body)
    IN  IF body = <<>> \/ headings = <<>>
        THEN current_body' = body /\ UNCHANGED chunks
        ELSE /\ chunks' = Append(chunks,
                    [id |-> first_chunk_id + Len(chunks), title |-> document_title,
                     heading_path |-> JoinHeadings, raw_text |-> body])
             /\ current_body' = <<>>

\* The characters of a line of text, with its newline.
Characters(text, line) ==
    [i \in 1..Len(text) + 1 |->
        [line |-> line, character |-> IF i <= Len(text) THEN text[i] ELSE " "]]

ReadText(text) ==
    /\ ~ended /\ Len(lines) < MaxLines
    /\ lines' = Append(lines, [level |-> 0])
    /\ content' = content \o Characters(text, Len(lines'))
    /\ current_body' = current_body \o [i \in 1..Len(text) + 1 |-> Len(content) + i]
    /\ UNCHANGED <<first_chunk_id, document_title, headings, chunks, ended>>

\* Fault: the old heading of the new one's level stays.
Faulty_Cut(level) == IF Len(headings) > level THEN SubSeq(headings, 1, level - 1) ELSE headings

\* What is left of the stack above a heading of this level.
Cut(level) == IF Len(headings) >= level THEN SubSeq(headings, 1, level - 1) ELSE headings

ReadHeading(level, named) ==
    /\ ~ended /\ Len(lines) < MaxLines
    /\ lines' = Append(lines, [level |-> level, named |-> named])
    /\ FlushCurrent
    /\ headings' = Append(Cut(level), Len(lines'))
    /\ document_title' = IF level = 1 THEN Len(lines') ELSE document_title
    /\ UNCHANGED <<first_chunk_id, content, ended>>

\* Fault: what follows the last heading is not flushed.
Faulty_EndDocument ==
    /\ ~ended
    /\ ended' = TRUE
    /\ IF headings = <<>> /\ Trim(current_body) # <<>>
       THEN chunks' = <<[id |-> first_chunk_id, title |-> 0, heading_path |-> <<0>>,
                         raw_text |-> Trim(current_body)]>>
       ELSE UNCHANGED chunks
    /\ UNCHANGED <<first_chunk_id, lines, content, document_title, headings, current_body>>

\* The last flush; a document without headings is one chunk that has the name of
\* its file (0 here) as title and path.
EndDocument ==
    /\ ~ended
    /\ ended' = TRUE
    /\ LET body == Trim(current_body)
       IN  IF headings = <<>> /\ body # <<>>
           THEN /\ chunks' = <<[id |-> first_chunk_id, title |-> 0, heading_path |-> <<0>>,
                                raw_text |-> body]>>
                /\ current_body' = body
           ELSE FlushCurrent
    /\ UNCHANGED <<first_chunk_id, lines, content, document_title, headings>>

--------------------------------------------------------------------------------
(* Properties.                                                               *)

IsHeading(n) == lines[n].level > 0

\* The text of the chunks, and what is still to be flushed.
Pieces == Append([i \in DOMAIN chunks |-> chunks[i].raw_text], IF ended THEN <<>> ELSE current_body)

FirstHeading(h) == IsHeading(h) /\ \A g \in 1..h - 1 : ~IsHeading(g)

\* Every character of the text that is not blank is in exactly one chunk, in the
\* order of the document, or still to be flushed.  What lies between two characters
\* of a chunk stays between them, newlines too, but for one place: the blanks
\* between the text before the first heading and the text after it are lost, and
\* the two are joined (chunkMarkdown; flushCurrent, which trims before it returns;
\* the end of the loop).
NothingLost ==
    LET pieces == Pieces
        kept == UNION {ToSet(pieces[i]) : i \in DOMAIN pieces}
    IN  /\ kept \subseteq DOMAIN content
        /\ \A p \in DOMAIN content : IsBlank(p) \/ p \in kept
        /\ \A i, j \in DOMAIN pieces : \A k \in DOMAIN pieces[i], l \in DOMAIN pieces[j] :
              i < j \/ (i = j /\ k < l) => pieces[i][k] < pieces[j][l]
        /\ \A i \in DOMAIN pieces : \A k \in 1..Len(pieces[i]) - 1 :
              \/ pieces[i][k + 1] = pieces[i][k] + 1
              \/ \E h \in DOMAIN lines :
                    /\ FirstHeading(h)
                    /\ content[pieces[i][k]].line < h /\ h < content[pieces[i][k + 1]].line

\* The document starts with its title, no level is skipped and every heading has
\* a name.
WellNested ==
    /\ \A n \in DOMAIN lines : IsHeading(n) => lines[n].named
    /\ \A n \in DOMAIN lines : IsHeading(n) =>
          \/ lines[n].level = 1
          \/ \E m \in 1..n - 1 : /\ lines[m].level \in lines[n].level - 1..MaxLevel
                                 /\ \A k \in m + 1..n - 1 : ~IsHeading(k)
    /\ lines # <<>> => lines[1].level = 1

\* Headings that line n is under: no later one of their level or above.
Ancestors(n) ==
    {h \in 1..n - 1 : /\ IsHeading(h)
                      /\ \A g \in h + 1..n - 1 : ~IsHeading(g) \/ lines[g].level > lines[h].level}

\* In a well nested document every line of text is cited under exactly the
\* headings it stands under, in their order, and its document's title
\* (chunkMarkdown, the stack of headings; joinHeadings).
PathsAreAncestors ==
    WellNested => \A i \in DOMAIN chunks :
      \A n \in {content[p].line : p \in ToSet(chunks[i].raw_text)} :
        LET path == chunks[i].heading_path
        IN  /\ ToSet(path) = Ancestors(n)
            /\ \A j, k \in DOMAIN path : j < k => path[j] < path[k]
            /\ chunks[i].title = path[1]

\* A new heading discards the old headings of its own level and below: no chunk is
\* cited under two headings of the same level (MarkdownChunkerTest.cpp: "a new H2
\* should discard the old H2 and H3").
NewHeadingDiscardsOld ==
    \A c \in DOMAIN chunks : LET path == chunks[c].heading_path
        IN  \A i, j \in DOMAIN path : i < j => lines[path[i]].level < lines[path[j]].level
================================================================================
