----------------------------- MODULE Description -----------------------------
(* The description of a task as a row shows it (internal/view): a text with *)
(* a little Markdown is cut into segments.  A text is a sequence of         *)
(* characters and strings; Url stands for a whole safe address, a protocol  *)
(* with a host and a slash, "](" for the middle of a link and "tick" for the*)
(* mark of code.                                                            *)
EXTENDS Integers, Sequences, SequencesExt

Url == "http://host/"
Blank == {" ", "\n"}
Closing == {".", ")"}

Segment(kind, text, url) == [kind |-> kind, text |-> text, url |-> url]

\* The places of a string in a text, from a place on; the first of them, or 0.
Places(text, x, from) == {i \in from .. Len(text) : text[i] = x}
Index(text, x, from) ==
  IF Places(text, x, from) = {} THEN 0
  ELSE CHOOSE i \in Places(text, x, from) : \A j \in Places(text, x, from) : i <= j

\* The first of two stars in a row.
StrongEnd(text, from) ==
  LET ends == {i \in Places(text, "*", from) : i < Len(text) /\ text[i + 1] = "*"}
  IN  IF ends = {} THEN 0 ELSE CHOOSE i \in ends : \A j \in ends : i <= j

AllBlank(text) == \A i \in DOMAIN text : text[i] \in Blank

RECURSIVE TrimLeft(_)
TrimLeft(text) ==
  IF text # <<>> /\ text[1] \in Blank THEN TrimLeft(Tail(text)) ELSE text
TrimSpace(text) == Reverse(TrimLeft(Reverse(TrimLeft(text))))

\* A safe address starts with protocol and host and stays on its line.
URLIsSafe(address) ==
  address # <<>> /\ address[1] = Url /\ \A i \in DOMAIN address : address[i] # "\n"

From(text, i) == SubSeq(text, i, Len(text))

\* What a reader takes from a text: a segment and the rest of the text.
Cut(segment, text, i) == [segment |-> segment, rest |-> From(text, i)]
Nothing == [segment |-> Segment("none", <<>>, <<>>), rest |-> <<>>]

-----------------------------------------------------------------------------
(* Readers, each tried where the one before finds nothing. *)

Break(text) ==
  IF text[1] = "\n" THEN Cut(Segment("break", <<>>, <<>>), text, 2) ELSE Nothing

Strong(text) ==
  LET end == StrongEnd(text, 3)
      inner == SubSeq(text, 3, end - 1)
  IN  IF Len(text) > 1 /\ text[1] = "*" /\ text[2] = "*" /\ end > 0 /\ ~AllBlank(inner)
      THEN Cut(Segment("strong", inner, <<>>), text, end + 2) ELSE Nothing

Marked(text, mark, kind) ==
  LET end == Index(text, mark, 2)
      inner == SubSeq(text, 2, end - 1)
  IN  IF text[1] = mark /\ end > 0 /\ inner # <<>> /\ (kind = "em" => ~AllBlank(inner))
      THEN Cut(Segment(kind, inner, <<>>), text, end + 1) ELSE Nothing

\* The label ends at the first "](" and may hold brackets and lines.
MarkdownLink(text) ==
  LET middle == Index(text, "](", 1)
      end == Index(text, ")", middle + 1)
      link == TrimSpace(SubSeq(text, middle + 1, end - 1))
  IN  IF text[1] = "[" /\ middle > 2 /\ end > 0 /\ URLIsSafe(link)
      THEN Cut(Segment("link", SubSeq(text, 2, middle - 1), link), text, end + 1)
      ELSE Nothing

RECURSIVE TrimURL(_)
TrimURL(candidate) ==
  IF candidate # <<>> /\ candidate[Len(candidate)] \in Closing
  THEN TrimURL(SubSeq(candidate, 1, Len(candidate) - 1)) ELSE candidate

\* An address goes to the next blank but for the punctuation at its end.
BareURL(text) ==
  LET blanks == {i \in DOMAIN text : text[i] \in Blank}
      end == IF blanks = {} THEN Len(text) + 1
             ELSE CHOOSE i \in blanks : \A j \in blanks : i <= j
      url == TrimURL(SubSeq(text, 1, end - 1))
  IN  IF text[1] = Url /\ URLIsSafe(url)
      THEN Cut(Segment("link", url, url), text, Len(url) + 1) ELSE Nothing

\* Plain text goes to the next place where one of the readers might begin.
Markup == {"\n", "*", "tick", "[", Url}
Plain(text) ==
  LET marks == {i \in 2 .. Len(text) : text[i] \in Markup}
      next == IF marks = {} THEN Len(text) + 1
              ELSE CHOOSE i \in marks : \A j \in marks : i <= j
  IN  Cut(Segment("", SubSeq(text, 1, next - 1), <<>>), text, next)

RECURSIVE ParseInline(_)
ParseInline(text) ==
  LET readers == <<Break(text), Strong(text), Marked(text, "*", "em"),
                   Marked(text, "tick", "code"), MarkdownLink(text), BareURL(text),
                   Plain(text)>>
      found == SelectSeq(readers, LAMBDA c : c # Nothing)
  IN  IF text = <<>> THEN <<>>
      ELSE <<found[1].segment>> \o ParseInline(found[1].rest)

\* Plain segments that follow each other become one.
RECURSIVE Merge(_)
Merge(segments) ==
  IF Len(segments) < 2 THEN segments
  ELSE LET a == segments[1]
           b == segments[2]
           rest == SubSeq(segments, 3, Len(segments))
       IN  IF a.kind = "" /\ b.kind = ""
           THEN Merge(<<Segment("", a.text \o b.text, <<>>)>> \o rest)
           ELSE <<a>> \o Merge(Tail(segments))

MarkdownSegments(description) == Merge(ParseInline(TrimSpace(description)))

-----------------------------------------------------------------------------
(* What the display promises. *)

\* The ways to write a segment.
Written(s) ==
  CASE s.kind = "break" -> {<<"\n">>}
    [] s.kind = "strong" -> {<<"*", "*">> \o s.text \o <<"*", "*">>}
    [] s.kind = "em" -> {<<"*">> \o s.text \o <<"*">>}
    [] s.kind = "code" -> {<<"tick">> \o s.text \o <<"tick">>}
    [] s.kind = "link" ->
         {<<"[">> \o s.text \o <<"](">> \o before \o s.url \o after \o <<")">> :
            before, after \in {<<>>, <<" ">>, <<"\n">>, <<" ", " ">>}}
         \cup (IF s.text = s.url THEN {s.text} ELSE {})
    [] OTHER -> {s.text}

RECURSIVE CanBe(_, _)
CanBe(segments, text) ==
  IF segments = <<>> THEN text = <<>>
  ELSE \E w \in Written(segments[1]) :
         /\ IsPrefix(w, text)
         /\ CanBe(Tail(segments), From(text, Len(w) + 1))

\* The segments are the description: written out again they give the text,
\* so nothing of it is lost, doubled or moved; links are safe; and no two
\* segments that are plain text stand side by side.
SegmentsAreText(description) ==
  LET segments == MarkdownSegments(description)
  IN  /\ CanBe(segments, TrimSpace(description))
      /\ \A i \in DOMAIN segments :
           /\ segments[i].kind = "link" => URLIsSafe(segments[i].url)
           /\ segments[i].kind # "break" => segments[i].text # <<>>
           /\ i > 1 => ~(segments[i].kind = "" /\ segments[i - 1].kind = "")
=============================================================================
