---------------------------- MODULE MethodText ----------------------------
(***************************************************************************)
(* The parser of the methods note, Method.tsx (the two web clients keep    *)
(* the same file).  It reads the one document the repository ships, line   *)
(* by line, into blocks, and its header promises that a construct it does  *)
(* not know is shown as plain text "rather than silently swallowed".       *)
(*                                                                         *)
(* A document is a sequence of lines, each known by its kind, which is all *)
(* the parser looks at; a block keeps the numbers of the lines it shows.   *)
(* A text is a sequence of marks and words; a part of it is known by the   *)
(* places where it starts and stops.  Both are read by a loop, and `turn`  *)
(* is what the loop's variables hold after so many turns.                  *)
(* `FaultyPastRows` is a mistake the property catches.                     *)
(***************************************************************************)
EXTENDS Naturals, Sequences, SequencesExt

\* "bar" is a line that starts with "|" and is not a divider of dashes;
\* "wrapped" is text, and "inset" a rule, indented by two blanks or more.
LineKinds == {"blank", "heading", "rule", "bullet", "bar", "divider",
              "text", "wrapped", "inset"}

StartsWithBar == {"bar", "divider"}
IsRule == {"rule", "inset"}
Continues == {"wrapped", "inset"}

Block(kind, lines) == [kind |-> kind, lines |-> lines]

\* `flush`: the paragraph collected so far becomes a block.
Flush(paragraph, blocks) ==
    IF paragraph = <<>> THEN blocks ELSE Append(blocks, Block("paragraph", paragraph))

\* The end of the longest run from line i of lines of these kinds.
RunEnd(doc, i, kinds) ==
    Max({j \in (i - 1)..Len(doc) : \A k \in i..j : doc[k] \in kinds})

Upto(i, j) == [k \in 1..(j - i + 1) |-> i + k - 1]

\* A bar is a table only when a divider follows it.
OpensTable(doc, i) ==
    doc[i] \in StartsWithBar /\ i < Len(doc) /\ doc[i + 1] = "divider"

\* The header, and every bar below the divider.
Table(doc, i) ==
    Block("table", <<i>> \o Upto(i + 2, RunEnd(doc, i + 2, StartsWithBar)))

\* The loop's step is not taken back.
FaultyPastRows(doc, i) == RunEnd(doc, i + 2, StartsWithBar) + 2

\* The line after the table; the loop's own step is taken back first.
PastRows(doc, i) == RunEnd(doc, i + 2, StartsWithBar) + 1

\* The last line of the list that starts at line i.
ListEnd(doc, i) == RunEnd(doc, i, {"bullet"} \cup Continues)

Blocks == [kind : {"heading", "rule", "table", "list", "paragraph"}, lines : Seq(Nat)]

\* One turn of the loop of `parse`, at line s.at, with a paragraph under way
\* after the blocks made so far; past the last line the loop is over.
ParseLine(doc, s) ==
    LET i == s.at
        flushed == Flush(s.paragraph, s.blocks)
        shown(block, next) ==
            [at |-> next, paragraph |-> <<>>, blocks |-> Append(flushed, block)]
    IN  IF i > Len(doc) THEN s
        ELSE CASE doc[i] = "blank" -> [at |-> i + 1, paragraph |-> <<>>, blocks |-> flushed]
               [] doc[i] = "heading" -> shown(Block("heading", <<i>>), i + 1)
               [] doc[i] \in IsRule -> shown(Block("rule", <<i>>), i + 1)
               [] OpensTable(doc, i) -> shown(Table(doc, i), PastRows(doc, i))
               [] doc[i] = "bullet" ->
                    shown(Block("list", Upto(i, ListEnd(doc, i))), ListEnd(doc, i) + 1)
               [] OTHER ->
                    [at |-> i + 1, paragraph |-> Append(s.paragraph, i), blocks |-> s.blocks]

\* `parse`: every turn passes a line at least, so there are no more than lines.
Parse(doc) ==
    LET turn[n \in 0..Len(doc)] == IF n = 0 THEN [at |-> 1, paragraph |-> <<>>, blocks |-> <<>>]
                           ELSE ParseLine(doc, turn[n - 1])
        end == turn[Len(doc)]
    IN  Flush(end.paragraph, end.blocks)

\* The page: every block in its place, under the tag of its kind.
Tag == [heading |-> "h", rule |-> "hr", list |-> "ul", table |-> "table", paragraph |-> "p"]
Rendered(doc) ==
    [n \in DOMAIN Parse(doc) |-> [tag |-> Tag[Parse(doc)[n].kind],
                                  lines |-> Parse(doc)[n].lines]]

----------------------------------------------------------------------------
Bold == "bold"
Tick == "tick"
Marks == {Bold, Tick}

\* The regular expression of `inline`: a mark, at least one character that
\* is not that mark, and the mark again.
Matches(text, i, j) ==
    /\ text[i] \in Marks
    /\ j > i + 1
    /\ text[j] = text[i]
    /\ \A k \in (i + 1)..(j - 1) : text[k] # text[i]

\* One turn of `split`, at place s.at: what matches there becomes a part, and so
\* does what lies between it and the part before, from s.since on.
SplitAt(text, s) ==
    LET i == s.at
        ends == {j \in i..Len(text) : Matches(text, i, j)}
        between == IF s.since < i THEN <<[from |-> s.since, to |-> i - 1]>> ELSE <<>>
    IN  IF i > Len(text) THEN s
        ELSE IF ends = {} THEN [s EXCEPT !.at = i + 1]
        ELSE [at |-> Min(ends) + 1, since |-> Min(ends) + 1,
              parts |-> s.parts \o between \o <<[from |-> i, to |-> Min(ends)]>>]

\* `split`, with what lies behind the last match.
Parts(text) ==
    LET turn[n \in 0..Len(text)] == IF n = 0 THEN [at |-> 1, since |-> 1, parts |-> <<>>]
                           ELSE SplitAt(text, turn[n - 1])
        end == turn[Len(text)]
    IN  IF end.since < end.at
        THEN Append(end.parts, [from |-> end.since, to |-> end.at - 1])
        ELSE end.parts

\* What a part shows: a part between two equal marks shows its inside, and
\* any other shows itself.  A part that is one lone mark counts as both its
\* ends and shows nothing.
Shown(text, part) ==
    IF text[part.from] \in Marks /\ text[part.to] = text[part.from]
    THEN (part.from + 1)..(part.to - 1)
    ELSE part.from..part.to

\* The places of the text that each node of the page shows.
Inline(text) == [n \in DOMAIN Parts(text) |-> Shown(text, Parts(text)[n])]

----------------------------------------------------------------------------
\* Every line of the document is on the page exactly once and in its order:
\* no line is lost between two blocks or shown twice, except blanks and the
\* divider under a table's header (Method.tsx, header comment and the index
\* arithmetic of parse).
LinesAreKept(doc) ==
    LET page == Rendered(doc)
        headers == {page[n].lines[1] : n \in {m \in DOMAIN page : page[m].tag = "table"}}
        kept == {i \in DOMAIN doc : doc[i] # "blank" /\ i - 1 \notin headers}
    IN  /\ UNION {Range(page[n].lines) : n \in DOMAIN page} = kept
        /\ \A n \in DOMAIN page : \A j, k \in DOMAIN page[n].lines :
               j < k => page[n].lines[j] < page[n].lines[k]
        /\ \A m, n \in DOMAIN page : m < n =>
               \A i \in Range(page[m].lines), j \in Range(page[n].lines) : i < j
        /\ \A i \in headers : doc[i + 1] = "divider"

\* Whatever the marks, every word of a text is shown, once and in its order,
\* and nothing that is not in the text.
WordsAreKept(text) ==
    LET page == Inline(text)
        words == {i \in DOMAIN text : text[i] \notin Marks}
    IN  /\ words \subseteq UNION {page[n] : n \in DOMAIN page}
        /\ UNION {page[n] : n \in DOMAIN page} \subseteq DOMAIN text
        /\ \A m, n \in DOMAIN page : m < n => \A i \in page[m], j \in page[n] : i < j
============================================================================
