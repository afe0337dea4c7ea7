--------------------------- MODULE FilterLanguage ---------------------------
(* The language of saved filters: internal/query turns the text of a filter *)
(* into tokens, a tree and an SQL condition, and internal/db lists the      *)
(* tasks the condition selects.  A text is a sequence of words, blanks and  *)
(* delimiters; the case of a word's letters is left out.  The SQL condition *)
(* is modelled by its value on a row, in SQLite's three-valued logic.       *)
EXTENDS Integers, Sequences, TLC

CONSTANTS Null,             \* SQL's NULL
          NameContains,     \* pairs of names, the first containing the second
          Day,              \* the day an ISO date literal stands for
          Today, UpcomingDays

-----------------------------------------------------------------------------
(* Lexer. *)

\* The words classifyWord knows; every other word is a STRING.
Keyword == [today |-> "TODAY", overdue |-> "OVERDUE", upcoming |-> "UPCOMING",
            no_date |-> "NO_DATE", completed |-> "COMPLETED",
            priority |-> "PRIORITY", text |-> "TEXT", before |-> "BEFORE",
            after |-> "AFTER", and |-> "AND", or |-> "OR", not |-> "NOT"]

WordType(x) == IF x \in DOMAIN Keyword THEN Keyword[x] ELSE "STRING"

Sign == "(" :> "LPAREN" @@ ")" :> "RPAREN" @@ ":" :> "COLON"
Delimiter == DOMAIN Sign \cup {"#", "@", " "}

Token(type, literal) == [type |-> type, literal |-> literal]

RECURSIVE SkipBlanks(_, _)
SkipBlanks(text, i) ==
  IF i <= Len(text) /\ text[i] = " " THEN SkipBlanks(text, i + 1) ELSE i

\* "#" and "@" take the word behind them as their name; "no", blanks, "date"
\* is one token.
RECURSIVE LexFrom(_, _)
LexFrom(text, start) ==
  LET i == SkipBlanks(text, start)
      x == text[i]
      name == IF i < Len(text) /\ text[i + 1] \notin Delimiter
              THEN text[i + 1] ELSE ""
      d == SkipBlanks(text, i + 1)
      phrase == x = "no" /\ d > i + 1 /\ d <= Len(text) /\ text[d] = "date"
      Go(token, next) == <<token>> \o LexFrom(text, next)
  IN  IF i > Len(text) THEN <<Token("EOF", "")>>
      ELSE CASE x \in DOMAIN Sign -> Go(Token(Sign[x], x), i + 1)
             [] x \in {"#", "@"} ->
                  Go(Token(IF x = "#" THEN "PROJECT" ELSE "LABEL", name),
                     IF name = "" THEN i + 1 ELSE i + 2)
             [] phrase -> Go(Token("NO_DATE", "no date"), d + 1)
             [] OTHER -> Go(Token(WordType(x), x), i + 1)

LexFilter(text) == LexFrom(text, 1)

-----------------------------------------------------------------------------
(* Parser: a recursive descent over the tokens t from position p.  A parse  *)
(* gives the node and the position behind it, or Failed.                    *)

Leaf(op, value) == [op |-> op, value |-> value]
NotNode(e) == [op |-> "NOT", expr |-> e]
BinNode(op, l, r) == [op |-> op, left |-> l, right |-> r]

Failed == [ok |-> FALSE]
Parsed(node, p) == [ok |-> TRUE, node |-> node, pos |-> p]

At(t, p) == IF p > Len(t) THEN "EOF" ELSE t[p].type

\* The value of a leaf stands at p, or the parse fails.
Value(op, t, p) ==
  IF At(t, p) = "STRING" THEN Parsed(Leaf(op, t[p].literal), p + 1) ELSE Failed

RECURSIVE ParseChain(_, _, _), ParseRest(_, _, _), ParseNot(_, _),
          ParsePrimary(_, _)

\* The operator parseOr, parseAnd hand their operands to.
ParseOperand(op, t, p) ==
  IF op = "OR" THEN ParseChain("AND", t, p) ELSE ParseNot(t, p)

\* parseOr and parseAnd: operands with the operator between them, the tree
\* leaning to the left.
ParseChain(op, t, p) == ParseRest(op, t, ParseOperand(op, t, p))

ParseRest(op, t, left) ==
  IF ~left.ok \/ At(t, left.pos) # op THEN left
  ELSE LET right == ParseOperand(op, t, left.pos + 1)
       IN  IF ~right.ok THEN Failed
           ELSE ParseRest(op, t, Parsed(BinNode(op, left.node, right.node), right.pos))

\* Mutant of ParseNot: NOT takes everything up to the next OR.
ParseNotLoose(t, p) ==
  IF At(t, p) # "NOT" THEN ParsePrimary(t, p)
  ELSE LET e == ParseChain("AND", t, p + 1)
       IN  IF e.ok THEN Parsed(NotNode(e.node), e.pos) ELSE Failed

ParseNot(t, p) ==
  IF At(t, p) # "NOT" THEN ParsePrimary(t, p)
  ELSE LET e == ParseNot(t, p + 1)
       IN  IF e.ok THEN Parsed(NotNode(e.node), e.pos) ELSE Failed

ParsePrimary(t, p) ==
  CASE At(t, p) = "LPAREN" ->
         LET e == ParseChain("OR", t, p + 1)
         IN  IF e.ok /\ At(t, e.pos) = "RPAREN" THEN Parsed(e.node, e.pos + 1)
             ELSE Failed
    [] At(t, p) \in {"TODAY", "OVERDUE", "UPCOMING", "NO_DATE"} ->
         Parsed(Leaf(At(t, p), ""), p + 1)
    [] At(t, p) \in {"PROJECT", "LABEL", "STRING"} ->
         Parsed(Leaf(At(t, p), t[p].literal), p + 1)
    [] At(t, p) = "COMPLETED" ->
         IF At(t, p + 1) = "COLON" THEN Value("COMPLETED", t, p + 2)
         ELSE Parsed(Leaf("COMPLETED", ""), p + 1)
    [] At(t, p) \in {"PRIORITY", "TEXT", "BEFORE", "AFTER"} ->
         Value(At(t, p), t, IF At(t, p + 1) = "COLON" THEN p + 2 ELSE p + 1)
    [] OTHER -> Failed

ParseFilter(t) ==
  LET e == ParseChain("OR", t, 1)
  IN  IF e.ok /\ At(t, e.pos) = "EOF" THEN e ELSE Failed

-----------------------------------------------------------------------------
(* The compiled condition: its value on one row of tasks. *)

True == 2
Unknown == 1
False == 0
Truth(b) == IF b THEN True ELSE False

\* A comparison with a column is unknown when the column is NULL.
Compared(column, holds) == IF column = Null THEN Unknown ELSE Truth(holds)

LeafValue(n, row) ==
  CASE n.op = "TODAY" -> Compared(row.dueDate, row.dueDate = Today)
    [] n.op = "OVERDUE" -> Compared(row.dueDate, row.dueDate < Today)
    [] n.op = "UPCOMING" ->
         Compared(row.dueDate, row.dueDate \in Today .. Today + UpcomingDays)
    [] n.op = "NO_DATE" -> Truth(row.dueDate = Null)
    [] n.op = "BEFORE" -> Compared(row.dueDate, row.dueDate < Day[n.value])
    [] n.op = "AFTER" -> Compared(row.dueDate, row.dueDate > Day[n.value])
    [] n.op = "PROJECT" -> Compared(row.projectName, row.projectName = n.value)
    [] n.op = "LABEL" ->
         Compared(row.labelNames,
                  \E x \in row.labelNames : <<x, n.value>> \in NameContains)
    [] n.op = "PRIORITY" -> Compared(row.priority, row.priority = n.value)
    [] n.op = "COMPLETED" ->
         LET done == row.status = "completed" \/ row.completedAt
         IN  Truth(IF n.value = "true" THEN done ELSE ~done)
    [] n.op = "TEXT" -> Truth(n.value \in row.words)

\* The value of the condition: AND is the minimum and OR the maximum of the
\* three truth values, NOT turns them round.
RECURSIVE ConditionValue(_, _)
ConditionValue(n, row) ==
  CASE n.op = "NOT" -> 2 - ConditionValue(n.expr, row)
    [] n.op \in {"AND", "OR"} ->
         LET l == ConditionValue(n.left, row)
             r == ConditionValue(n.right, row)
         IN  IF (n.op = "AND") = (l <= r) THEN l ELSE r
    [] OTHER -> LeafValue(n, row)

\* A bare word has no condition, and a filter that holds one has none either.
RECURSIVE Compiles(_)
Compiles(n) ==
  CASE n.op = "NOT" -> Compiles(n.expr)
    [] n.op \in {"AND", "OR"} -> Compiles(n.left) /\ Compiles(n.right)
    [] OTHER -> n.op # "STRING"

EvaluateSavedFilter(text) ==
  LET e == ParseFilter(LexFilter(text)) IN e.ok /\ Compiles(e.node)

\* ListSavedFilterTasks: a filter that does not parse or compile lists nothing.
ListSavedFilterTasks(text, rows) ==
  {row \in rows : /\ EvaluateSavedFilter(text)
                  /\ ConditionValue(ParseFilter(LexFilter(text)).node, row) = True}
=============================================================================
