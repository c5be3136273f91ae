-------------------------------- MODULE Render --------------------------------
(***************************************************************************)
(* How the manifest fixer writes the stream it has edited: render of       *)
(* internal/fixer/fixer.go encodes the documents that changed and copies   *)
(* the lines of the others.  It cuts the bytes into lines at line feeds;   *)
(* the YAML decoder, which tells it the line of each document, also ends   *)
(* lines elsewhere: at a carriage return and at some Unicode characters.   *)
(*                                                                         *)
(* A stream is a sequence of rows, lines as the decoder counts them.       *)
(*   text: "---" a bare marker, "--- x" one with more behind it, "..." the *)
(*         end of a document, "%" a directive, "" a blank, "#" a comment,  *)
(*         "a" a part of a document                                        *)
(*   lf:   it ends with a line feed                                        *)
(*   of:   what it is a part of: tells rows apart                          *)
(***************************************************************************)
EXTENDS Integers, Sequences, FiniteSets, SequencesExt

-----------------------------------------------------------------------------
\* The k-th of a set of numbers.
Nth(S, k) == CHOOSE p \in S : Cardinality({q \in S : q <= p}) = k

\* The text of the last row before p that is neither blank nor a comment.
Before(s, p) ==
  LET rows == {q \in 1..p - 1 : s[q].text \notin {"", "#"}}
  IN  IF rows = {} THEN "" ELSE s[Max(rows)].text

\* The decoder starts a document at row p.
Begins(s, p) ==
  CASE s[p].text \in {"---", "--- x"} -> Before(s, p) # "%"
    [] s[p].text = "%" -> Before(s, p) \in {"", "..."}
    [] s[p].text = "a" -> Before(s, p) \in {"", "..."}
    [] OTHER -> FALSE

\* The decoder takes s for a stream.
IsStream(s) ==
  /\ \A p \in DOMAIN s :
       /\ s[p].text = "a" => Before(s, p) # "%"
       /\ s[p].text = "%" => Before(s, p) \in {"", "...", "%"}
       /\ s[p].text = "..." => Before(s, p) \notin {"", "...", "%"}
  /\ Before(s, Len(s) + 1) \notin {"", "%"}

\* Where the documents of s begin, and how many there are.
Beginnings(s) == {p \in DOMAIN s : Begins(s, p)}
Count(s) == Cardinality(Beginnings(s))

\* The first row of the i-th document; the rows before the first document are its own.
From(s, i) ==
  CASE i = 1 -> 1
    [] i \in 2..Count(s) -> Nth(Beginnings(s), i)
    [] OTHER -> Len(s) + 1

\* The rows of the i-th document, and those of them that the decoder reads.
Rows(s, i) == SubSeq(s, From(s, i), From(s, i + 1) - 1)
Parts(s, i) == {p \in From(s, i)..From(s, i + 1) - 1 : s[p].text \in {"a", "--- x"}}

-----------------------------------------------------------------------------
\* lines: bytes.SplitAfter cuts behind each line feed, also behind the last.
LineStarts(s) == {1} \cup {p + 1 : p \in {q \in DOMAIN s : s[q].lf}}
LineCount(s) == Cardinality(LineStarts(s))

\* The first row of line n, counted from 1, and its rows.
LineStart(s, n) == IF n \in 1..LineCount(s) THEN Nth(LineStarts(s), n) ELSE Len(s) + 1
Line(s, n) == SubSeq(s, LineStart(s, n), LineStart(s, n + 1) - 1)

\* A line that is three dashes, once blanks and line ends are trimmed from its end.
IsMarker(line) ==
  /\ line # << >>
  /\ line[1].text = "---"
  /\ \A k \in 2..Len(line) : line[k].text = ""

\* start: the documents' first lines, as the rows that the decoder gives as the lines
\* of the documents say; and behind the last line.
Starts(s) ==
  [i \in 1..Count(s) + 1 |-> IF i > Count(s) THEN LineCount(s) + 1 ELSE From(s, i)]

\* Mutation: the lines are not looked at.
InOrder(s, start) ==
  \A i \in 2..Count(s) : start[i] > start[i - 1] /\ start[i] <= LineCount(s)

\* verbatim: each document after the first starts where a marker is.
Verbatim(s, start) ==
  \A i \in 2..Count(s) :
    start[i] > start[i - 1] /\ start[i] <= LineCount(s) /\ IsMarker(Line(s, start[i]))

Marker == [text |-> "---", lf |-> TRUE, of |-> 0]

\* encode: one row stands for the text of the edited document.
Encoded(i) == [text |-> "a", lf |-> TRUE, of |-> -i]

\* What is written of the i-th document.
Written(s, changed, i) ==
  LET start == Starts(s)
      marker == Line(s, start[i])
  IN  CASE ~Verbatim(s, start) -> (IF i > 1 THEN <<Marker>> ELSE << >>) \o <<Encoded(i)>>
        [] Verbatim(s, start) /\ i \notin changed ->
             SubSeq(s, LineStart(s, start[i]), LineStart(s, start[i + 1]) - 1)
        [] OTHER -> (IF IsMarker(marker) THEN marker ELSE << >>) \o <<Encoded(i)>>

\* render, where changed is the set of the documents that changed: all are encoded
\* unless their lines are known.
Rendered(s, changed) ==
  LET out[i \in 0..Count(s)] ==
        IF i = 0 THEN << >> ELSE out[i - 1] \o Written(s, changed, i)
  IN  out[Count(s)]

-----------------------------------------------------------------------------
\* The documents begin with bare markers, and lines end with line feeds.
IsPlain(s) ==
  /\ \A p \in DOMAIN s : s[p].lf
  /\ \A i \in 2..Count(s) : s[From(s, i)].text = "---"

\* The i-th document of out is its text as edited, or that of s row by row.
IsEncoded(out, i) == \E p \in Parts(out, i) : Parts(out, i) = {p} /\ out[p] = Encoded(i)
IsCopied(out, s, i) ==
  \E k \in -Len(s)..Len(out) :
    /\ Parts(out, i) = {p + k : p \in Parts(s, i)}
    /\ \A p \in Parts(s, i) : out[p + k] = s[p]

\* What is written is a stream of the edited documents, each once and in order;
\* and of a plain stream the documents that did not change are copied, every row.
IsTheEdited(out, s, changed) ==
  LET plain == IsPlain(s)
  IN  /\ IsStream(out)
      /\ Count(out) = Count(s)
      /\ \A i \in 1..Count(s) :
           \/ IsEncoded(out, i) /\ (plain => i \in changed)
           \/ /\ i \notin changed
              /\ IsCopied(out, s, i)
              /\ plain => Rows(out, i) = Rows(s, i)
=============================================================================
