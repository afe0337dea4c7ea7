---------------------------- MODULE MCAlgorithms ----------------------------
(* The pure parts of Caldo over bounded inputs: filters, quick add lines,   *)
(* recurrence rules, label edits, conflict forms and task lists.  A state   *)
(* is one input.                                                            *)
EXTENDS Integers, Sequences, FiniteSets, TLC

CONSTANT Null

VARIABLE input

-----------------------------------------------------------------------------
(* Filters: trees over the leaves, written out as text. *)

F == INSTANCE FilterLanguage WITH
       Null <- Null,
       NameContains <- {<<"home", "home">>, <<"homework", "homework">>,
                        <<"homework", "home">>},
       Day <- [d1 |-> 1, d2 |-> 2], Today <- 1, UpcomingDays <- 2

Leaves == {F!Leaf("TODAY", ""), F!Leaf("UPCOMING", ""), F!Leaf("NO_DATE", ""),
           F!Leaf("PROJECT", "home"), F!Leaf("LABEL", "home"),
           F!Leaf("COMPLETED", "true"), F!Leaf("COMPLETED", ""),
           F!Leaf("PRIORITY", "5"), F!Leaf("TEXT", "milk"),
           F!Leaf("BEFORE", "d2"), F!Leaf("STRING", "milk")}
FewLeaves == {F!Leaf("OVERDUE", ""), F!Leaf("LABEL", "home"),
              F!Leaf("COMPLETED", "false"), F!Leaf("AFTER", "d1")}

Grown(nodes, leaves) ==
  {F!NotNode(n) : n \in nodes}
  \cup {F!BinNode(op, l, r) : op \in {"AND", "OR"}, l \in nodes, r \in leaves}
  \cup {F!BinNode(op, l, r) : op \in {"AND", "OR"}, l \in leaves, r \in nodes}

Filters == Leaves \cup Grown(Leaves, Leaves)
           \cup Grown(Grown(FewLeaves, FewLeaves), FewLeaves)

Words == [TODAY |-> <<"today">>, OVERDUE |-> <<"overdue">>,
          UPCOMING |-> <<"upcoming">>, NO_DATE |-> <<"no", " ", "date">>,
          PROJECT |-> <<"#">>, LABEL |-> <<"@">>, STRING |-> <<>>,
          COMPLETED |-> <<"completed", ":">>, PRIORITY |-> <<"priority", ":">>,
          TEXT |-> <<"text", " ">>, BEFORE |-> <<"before", ":">>,
          AFTER |-> <<"after", ":", " ">>]

Binding(n) == CASE n.op = "OR" -> 1 [] n.op = "AND" -> 2 [] n.op = "NOT" -> 3
                [] OTHER -> 4

\* A filter as a user writes it, with no parentheses but the needed ones: NOT
\* binds closer than AND, AND closer than OR, and equals read from the left.
RECURSIVE Written(_)
Written(n) ==
  LET Operand(e, least) == IF Binding(e) < least
                           THEN <<"(">> \o Written(e) \o <<")">> ELSE Written(e)
  IN  CASE n.op = "OR" -> Operand(n.left, 1) \o <<" ", "or", " ">>
                          \o Operand(n.right, 2)
        [] n.op = "AND" -> Operand(n.left, 2) \o <<" ", "and", " ">>
                           \o Operand(n.right, 3)
        [] n.op = "NOT" -> <<"not", " ">> \o Operand(n.expr, 3)
        [] n.op = "COMPLETED" /\ n.value = "" -> <<"completed">>
        [] OTHER -> Words[n.op] \o IF n.value = "" THEN <<>> ELSE <<n.value>>

Done(row) == row.status = "completed" \/ row.completedAt

\* What "overdue" and a label mean: docs/arch.md has a task overdue that is not
\* completed (line 1942), and labels found by their names (line 1958).
Documented(row) == [overdue |-> row.dueDate = 0 /\ ~Done(row),
                    labels |-> IF row.labelNames = Null THEN {} ELSE row.labelNames]

\* The two divergences of filter_compiler.go: a completed task is overdue too
\* (line 90), and a label has every name that is part of its own (line 108).
Taken(row) == [overdue |-> row.dueDate = 0,
               labels |-> Documented(row).labels
                          \cup IF "homework" \in Documented(row).labels THEN {"home"} ELSE {}]

\* The reading of a filter, given what those two mean for the row: two-valued,
\* a missing value fails its leaf.
RECURSIVE Reads(_, _, _)
Reads(n, row, meaning) ==
  CASE n.op = "NOT" -> ~Reads(n.expr, row, meaning)
    [] n.op = "AND" -> Reads(n.left, row, meaning) /\ Reads(n.right, row, meaning)
    [] n.op = "OR" -> Reads(n.left, row, meaning) \/ Reads(n.right, row, meaning)
    [] n.op = "TODAY" -> row.dueDate = 1
    [] n.op = "OVERDUE" -> meaning.overdue
    [] n.op = "UPCOMING" -> row.dueDate \in {1, 2, 3}
    [] n.op = "NO_DATE" -> row.dueDate = Null
    [] n.op = "BEFORE" -> row.dueDate \in {0, 1}
    [] n.op = "AFTER" -> row.dueDate \in {2, 4}
    [] n.op = "PROJECT" -> row.projectName = n.value
    [] n.op = "LABEL" -> n.value \in meaning.labels
    [] n.op = "PRIORITY" -> row.priority = n.value
    [] n.op = "COMPLETED" ->
         (n.value = "true") <=> Done(row)
    [] n.op = "TEXT" -> n.value \in row.words
    [] n.op = "STRING" -> FALSE

RECURSIVE LeavesOf(_)
LeavesOf(n) == CASE n.op = "NOT" -> LeavesOf(n.expr)
                 [] n.op \in {"AND", "OR"} -> LeavesOf(n.left) \cup LeavesOf(n.right)
                 [] OTHER -> {n}
BareWord(n) == \E leaf \in LeavesOf(n) : leaf.op = "STRING"

\* The filter has a leaf that the code takes in another way than documented.
Diverges(n, row) ==
  \E leaf \in LeavesOf(n) :
    Reads(leaf, row, Documented(row)) # Reads(leaf, row, Taken(row))

Task(due, project, labels, done, stamp, priority) ==
  [dueDate |-> due, projectName |-> project, labelNames |-> labels,
   status |-> IF done THEN "completed" ELSE "needs-action",
   completedAt |-> stamp, priority |-> priority,
   words |-> IF priority = "5" THEN {"milk"} ELSE {}]

\* Rows with every column, and rows that miss some.
Rows == {Task(due, "home", labels, due = 2, FALSE, "5") :
           due \in {0, 1, 2, 4}, labels \in {{"homework"}, {"garden"}}}
        \cup {Task(1, "work", {"garden", "home"}, FALSE, TRUE, "1"),
              Task(4, "work", {"garden"}, TRUE, TRUE, "1"),
              Task(0, "work", {"home"}, TRUE, FALSE, "1"),
              Task(Null, "home", {"home"}, FALSE, FALSE, "5"),
              Task(Null, Null, Null, TRUE, FALSE, Null),
              Task(2, "home", Null, FALSE, FALSE, Null)}
Complete(row) == Null \notin {row.dueDate, row.projectName, row.labelNames,
                              row.priority}

\* A filter selects what its text says: through lexer, parser and compiled
\* condition, a task is listed only if the filter reads as true of it, and
\* every such task with no column missing is listed; NOT never finds a task
\* that misses the column it asks about.  It reads as docs/arch.md has it, but
\* for a completed task under "overdue" and a part of a label's name: there the
\* code diverges, and the task is listed by what it takes them for.  (Words for
\* priorities and tasks with a due time are not among the inputs.)  A filter
\* with a bare word lists none.
FilterSelectsAsRead ==
  input.of = "filter" =>
    LET n == input.filter
        listed == F!ListSavedFilterTasks(Written(n), Rows)
        says(row) ==
          Reads(n, row, IF Diverges(n, row) THEN Taken(row) ELSE Documented(row))
    IN  IF BareWord(n) THEN listed = {}
        ELSE /\ \A row \in listed : says(row)
             /\ \A row \in Rows \ listed : Complete(row) => ~says(row)

-----------------------------------------------------------------------------
(* Quick add lines. *)

Q(weekday) == INSTANCE QuickAdd WITH
       Null <- Null,
       ProjectName <- [x \in {"#home"} |-> "home"],
       LabelName <- [x \in {"@shop"} |-> "shop"],
       Number <- [x \in {"2", "0"} |-> IF x = "2" THEN 2 ELSE 0],
       TodayWeekday <- weekday

LineWords == [de |-> {"milk", "#", "#home", "p1", "heute", "montag", "alle",
                      "2", "tagen", "jeden", "in", "monday", "taeglich"},
              en |-> {"milk", "#home", "@shop", "!2", "tomorrow", "monday",
                      "next", "in", "0", "days", "every", "montag", "weekdays"}]

Lines(lang) == UNION {[1 .. n -> LineWords[lang]] : n \in 1 .. 4}

(* Descriptions. *)

D == INSTANCE Description

Chars == {"a", " ", "\n", "*", "tick", "[", "](", ")", ".", D!Url}
Descriptions == UNION {[1 .. n -> Chars] : n \in 1 .. 4}
                \cup [1 .. 5 -> Chars \ {"\n", "tick", "."}]
                \cup UNION {[1 .. n -> {"a", " ", "*"}] : n \in 6 .. 7}

\* No text that the user has written is lost on its way: the draft of a quick
\* add line accounts for every word of it (see QuickAdd), the segments of a
\* description for every character (see Description).
TextIsKept ==
  /\ input.of = "line" =>
       \A weekday \in {1, 3} :
         Q(weekday)!DraftKeepsLine(input.words, input.lang)
  /\ input.of = "description" => D!SegmentsAreText(input.text)

-----------------------------------------------------------------------------
(* Recurrence rules: up to one part of each key, FREQ perhaps repeated. *)

R == INSTANCE Recurrence

Parts(key, values) == {<<>>} \cup {<<R!Part(key, v)>> : v \in values}

\* Editing one side of a rule keeps the others, and the words for a rule say
\* all of it (see Recurrence).
RuleEditKeepsRest ==
  input.of = "rule" => R!EditKeepsRest(input.rule, 1 .. 3) /\ R!WordsTell(input.rule)

-----------------------------------------------------------------------------
(* Label edits. *)

Spellings == <<"Garden", "HOME", "Home", "STARRED", "Starred">>
Spelling == {Spellings[i] : i \in DOMAIN Spellings}
\* Labels with commas in them, and their pieces.
Cut == "Garden,HOME" :> <<"Garden", "HOME">> @@ "Home,Starred" :> <<"Home", "Starred">>
       @@ "Home," :> <<"Home">> @@ "," :> <<>>
KeyOf == [c \in Spelling |->
            CASE c = "Garden" -> "garden" [] c \in {"HOME", "Home"} -> "home"
              [] OTHER -> "starred"]
         @@ [c \in DOMAIN Cut |-> IF c = "Garden,HOME" THEN "garden,home" ELSE c]
RankOf == [c \in Spelling |-> CHOOSE i \in 1 .. 5 : Spellings[i] = c]
L == INSTANCE LabelFields WITH Null <- Null, Key <- KeyOf, Rank <- RankOf

CategoryLists == UNION {[1 .. n -> Spelling] : n \in 0 .. 3}
FormLabels == {Null, <<>>, <<"Home">>, <<"HOME", "Garden", "Home">>, <<"Starred">>}

FavoriteFollowsPriority ==
  input.of = "labels" =>
    L!FavoriteFollowsPriority([categories |-> input.categories,
                               priority |-> input.priority], input.form)

-----------------------------------------------------------------------------
(* Quick add drafts, with the projects before and after the preview.        *)

ProjectFold == [n \in {"Work", "Home", "home", "homework"} |->
                  IF n = "Home" THEN "home" ELSE IF n = "Work" THEN "work" ELSE n]
PiecesOf == [c \in Spelling |-> <<c>>] @@ Cut
K == INSTANCE QuickAddCreate WITH
       Pieces <- PiecesOf,
       Null <- Null, Key <- KeyOf, Rank <- RankOf, ProjectKey <- ProjectFold, Limit <- 2,
       LabelLimit <- 1,
       Within <- {<<k, k>> : k \in {"home", "work", "homework"}}
                 \cup {<<"home", "homework">>, <<"work", "homework">>}

Project(id, name) == [id |-> id, name |-> name]
ProjectLists == {<<>>, <<Project("p1", "Work")>>, <<Project("p1", "Work"), Project("p2", "Home")>>,
                 <<Project("p3", "homework"), Project("p1", "Work"), Project("p2", "Work"),
                   Project("p4", "homework"), Project("p5", "homework")>>,
                 <<Project("p1", "home"), Project("p3", "homework"), Project("p4", "Home")>>}
Stores == [projects : ProjectLists, default : {Null, "p1", "p2"}]
Drafts == [title : {<<>>, <<"milk">>}, project : {Null, "home", "Work"},
           labels : {<<>>, <<"Garden", "HOME">>, <<"Home", "Starred">>,
                     <<"Garden,HOME", "Home">>, <<",", "Home,Starred", "Home,">>},
           priority : {Null, "high", "medium", "low"}, due : {Null, 1},
           recurrence : {Null, <<R!Part("FREQ", "DAILY")>>, <<R!Part("FREQ", "DAILY"), R!Part("FREQ", "WEEKLY")>>}]
PlainDraft == [title |-> <<"milk">>, project |-> Null, labels |-> <<"Home">>, priority |-> "low",
               due |-> 1, recurrence |-> Null]
KnownLabels == <<"Garden", "Home">>

\* The task is the one that the preview showed (see QuickAddCreate).
QuickAddAsShown ==
  input.of = "draft" =>
    /\ \A choice \in K!ProjectChoices(K!Preview(input.draft, input.before)) :
         K!CreatedAsShown(input.draft, input.before, input.after, choice)
    /\ K!SuggestionsFit(input.draft, input.before, KnownLabels)

-----------------------------------------------------------------------------
(* Conflicts: three versions, and a form with one source for every field    *)
(* but one.                                                                 *)

C == INSTANCE ConflictForm WITH Null <- Null, Key <- KeyOf, Rank <- RankOf

Fields(n, priority, status, completed, categories) ==
  [title |-> n, description |-> n % 2, due |-> IF n = 1 THEN Null ELSE n,
   parent |-> IF n = 2 THEN 1 ELSE Null, priority |-> priority, status |-> status,
   completed |-> completed, categories |-> categories, rest |-> n]
Versions == {Null, Fields(1, Null, "", Null, <<>>),
             Fields(2, 1, "completed", 7, <<"Home", "STARRED">>),
             Fields(3, 0, "completed", Null, <<"HOME", "Garden", "Home">>),
             Fields(4, 9, "in-process", 8, <<"Starred">>)}
Conflicts == {c \in [base : Versions, local : Versions, remote : Versions,
                     task : {TRUE}] :
                \E v \in C!Version : C!Has(c, v)}

Typed == [title |-> {9}, description |-> {9}, due |-> {Null, 9}, parent |-> {Null, 9},
          priority |-> {Null, 2, 5}, status |-> C!ManualStatus,
          labels |-> {<<>>, <<"Home">>, <<"HOME", "Garden", "Home">>}]

\* The user gets what the page shows (see ConflictForm).
ConflictAsShown ==
  input.of = "conflict" =>
    LET c == input.versions
        form(field, choice) ==
          [f \in C!ManualField |->
             IF f = field THEN choice
             ELSE [source |-> input.source, manual |-> C!ManualInput(c, f)]]
    IN  \A field \in C!ManualField, source \in C!Options(c) :
          \A text \in Typed[field] :
            LET filled == form(field, [source |-> source, manual |-> text])
            IN  C!ManualIsPreviewed(c, filled) /\ C!PageIsTrue(c, filled)

-----------------------------------------------------------------------------
(* Pages: three tasks, the second and third perhaps subtasks, two projects, *)
(* labels and filters.                                                      *)

Everything == <<"no", " ", "date", " ", "or", " ", "not", " ", "no", " ", "date">>
FilterRow(t) == Task(t.due, "home", {"home"}, t.done, FALSE, "5")
Selected(query, tasks) ==
  LET found == F!ListSavedFilterTasks(query, {FilterRow(t) : t \in tasks})
  IN  {t \in tasks : FilterRow(t) \in found}

P == INSTANCE Pages WITH
       Null <- Null, Today <- 1,
       Supported <- F!EvaluateSavedFilter, Selects <- Selected,
       SystemTitle <- [today |-> 2, upcoming |-> 11, favorites |-> 12, overdue |-> 13,
                       no_date |-> 14, completed |-> 15, conflicts |-> 16]

V == INSTANCE TaskViews WITH Null <- Null, Today <- 1

Look(due, priority, project, title, added) ==
  [due |-> due, priority |-> priority, project |-> project, title |-> title,
   added |-> added]
Looks == {Look(Null, Null, 1, 1, 2), Look(0, 1, 2, 2, 1), Look(1, 5, 1, 2, Null),
          Look(2, 3, 1, 1, 1), Look(3, 9, 2, 3, 2)}

TaskOf(id, parent, look) ==
  look @@ [id |-> id, parent |-> parent, updated |-> 4 - id,
           done |-> look.title = 3, starred |-> look.priority = 1,
           labels |-> {1} \cup (IF look.title = 2 THEN {2} ELSE {})
                      \cup (IF look.priority = 1 THEN {3} ELSE {}),
           sync |-> CASE look.due = 1 -> "conflict" [] look.due = 2 -> "pending"
                      [] OTHER -> "synced"]
Families == {f \in [1 .. 3 -> {Null, 1, 2}] : /\ f[1] = Null
                                               /\ f[2] \in {Null, 1}}
Lists == {<<TaskOf(1, f[1], a), TaskOf(2, f[2], b), TaskOf(3, f[3], c)>> :
            f \in Families, a \in Looks, b \in Looks, c \in Looks}

Settings == [showCompleted : BOOLEAN, upcomingDays : {1, 2}]

SavedFilter(id, query) ==
  [id |-> id, name |-> 4 - id, query |-> query, favorite |-> TRUE, version |-> 1]
SavedFilters == {SavedFilter(1, Everything), SavedFilter(2, <<"today">>),
                 SavedFilter(3, <<"milk">>)}

Conflict(id, task, created, resolved, type) ==
  [id |-> id, task |-> task, created |-> created, resolved |-> resolved, type |-> type]

Favourites == [id |-> 3, name |-> P!Starred]

\* A task in conflict has had several entries, and one entry lost its task.
StoreOf(tasks, settings, display) ==
  LET all == {tasks[i] : i \in DOMAIN tasks}
  IN  [tasks |-> all, settings |-> settings, display |-> display,
       projects |-> {[id |-> 1, name |-> 2, default |-> FALSE],
                     [id |-> 2, name |-> 3, default |-> TRUE]},
       labels |-> {[id |-> 1, name |-> 2], [id |-> 2, name |-> 1], Favourites},
       filters |-> SavedFilters,
       conflicts |->
         {Conflict(30, Null, 1, FALSE, "edit_delete")} \cup
         UNION {{Conflict(10 + t.id, t.id, t.id, FALSE, "field_conflict"),
                 Conflict(20 + t.id, t.id, 5, TRUE, "delete_edit"),
                 Conflict(40 + t.id, t.id, 2, FALSE, "delete_edit")} :
                  t \in {u \in all : u.sync = "conflict"}}]

Scope(kind, id) == [kind |-> kind, id |-> id]
Scopes == {Scope("label", 1), Scope("project", 1), Scope("filter", 1),
           Scope("no_date", Null)}
Forms == [page : Scopes,
          sortBy : {"default", "due", "priority", "name", "added"},
          descending : BOOLEAN,
          groupBy : {"none", "project", "due", "added", "priority"}]

Edits == [id : {1, 2}, name : {Null, 5}, query : {<<"overdue">>, <<"milk">>},
          favorite : BOOLEAN, delete : BOOLEAN, version : {1}]

\* The pages agree with each other: the system views, the numbers and entries
\* of the navigation, the rows and the fragments (see Pages and TaskViews);
\* what one form of two decides is not undone by the other.
PagesAgree ==
  /\ input.of = "store" =>
       \A store \in {StoreOf(input.tasks, input.settings, {})} :
           /\ \A t \in store.tasks : V!InOneView(t, input.settings)
           /\ \A limit \in {2, 3} : P!NavigationIsTrue(store, limit)
           /\ P!RowsAreTrue(store)
  /\ input.of = "form" =>
       \A display \in {P!PreferenceUpdated({}, input.first, FALSE)} :
         P!FormDecides(display, Scopes, input.second)
  /\ input.of = "tabs" =>
       \A filters \in {P!SavedFilterCreate(SavedFilters, SavedFilter(4, <<"today">>))} :
         P!NothingOverwritten(filters, input.first, input.second)

\* The display keeps families together and in order, as the form of the page
\* asks (see TaskViews).
FamiliesStayTogether ==
  input.of = "list" =>
    \A store \in {StoreOf(input.tasks, [showCompleted |-> TRUE, upcomingDays |-> 2],
                          P!PreferenceUpdated({}, input.form, FALSE))} :
    \A list \in {P!TaskList(store, input.form.page, 3)},
       preference \in {P!Preference(store.display, input.form.page)} :
      V!FamiliesStayTogether(list, preference)

-----------------------------------------------------------------------------
Init ==
  \/ \E f \in Filters : input = [of |-> "filter", filter |-> f]
  \/ \E lang \in {"de", "en"} : \E words \in Lines(lang) :
       input = [of |-> "line", lang |-> lang, words |-> words]
  \/ \E text \in Descriptions : input = [of |-> "description", text |-> text]
  \/ \E freq \in Parts("FREQ", {"DAILY", "WEEKLY", "YEARLY", "HOURLY"}),
        interval \in Parts("INTERVAL", {0, 1, 2}),
        days \in Parts("BYDAY", {<<"TU">>, R!Weekdays, <<"MO", "WE">>, <<"1MO">>}),
        until \in Parts("UNTIL", {R!Until(5, "date"), R!Until(6, "utc"),
                                  R!Until(6, "local")}),
        count \in Parts("COUNT", {0, 3}),
        more \in Parts("FREQ", {"WEEKLY"}) \cup Parts("BYMONTH", {"1"}) :
       input = [of |-> "rule",
                rule |-> freq \o interval \o days \o until \o count \o more]
  \/ \E categories \in CategoryLists, priority \in {Null, 0, 3, 5},
        labels \in FormLabels, chosen \in {Null, 0, 2, 9} :
       input = [of |-> "labels", categories |-> categories, priority |-> priority,
                form |-> [labels |-> labels, priority |-> chosen]]
  \/ \E draft \in Drafts, store \in Stores :
       input = [of |-> "draft", draft |-> draft, before |-> store, after |-> store]
  \/ \E project \in {Null, "home", "Work"}, before \in Stores, after \in Stores :
       input = [of |-> "draft", draft |-> [PlainDraft EXCEPT !.project = project],
                before |-> before, after |-> after]
  \/ \E c \in Conflicts : \E source \in C!Options(c) :
       input = [of |-> "conflict", versions |-> c, source |-> source]
  \/ \E tasks \in Lists, settings \in Settings :
       input = [of |-> "store", tasks |-> tasks, settings |-> settings]
  \/ \E tasks \in Lists, form \in {f \in Forms : f.page.kind \in {"label", "filter"}} :
       input = [of |-> "list", tasks |-> tasks, form |-> form]
  \/ \E first, second \in Forms :
       input = [of |-> "form", first |-> first, second |-> second]
  \/ \E first, second \in Edits :
       input = [of |-> "tabs", first |-> first, second |-> second]

Next == UNCHANGED input
Spec == Init /\ [][Next]_input
=============================================================================
