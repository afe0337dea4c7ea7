------------------------------ MODULE TaskViews -----------------------------
(* The task lists: which tasks a system view shows and in which order       *)
(* (internal/db), and how a list is bundled into families, sorted and       *)
(* grouped for display (internal/view).  Days are numbers, names and        *)
(* project names too; the labels of groups are left out.                    *)
EXTENDS Integers, Sequences, SequencesExt

CONSTANTS Today, Null

\* A task of a list: parent is its parent's id or Null, due the day of DUE
\* with or without a time.
\* [id, parent, due, done, starred, priority, project, title, added, updated]

IsSubtask(t) == t.parent # Null

-----------------------------------------------------------------------------
(* The system views.  settings holds show_completed and upcoming_days. *)

Shown(t, settings) == settings.showCompleted \/ ~t.done
Dated(t) == t.due # Null

InToday(t, settings) == Dated(t) /\ Shown(t, settings) /\ t.due <= Today
InOverdue(t, settings) == Dated(t) /\ Shown(t, settings) /\ t.due < Today

InUpcoming(t, settings) ==
  /\ Dated(t) /\ Shown(t, settings)
  /\ t.due > Today /\ t.due <= Today + settings.upcomingDays
InNoDate(t, settings) == ~Dated(t) /\ Shown(t, settings)
InFavorites(t, settings) == t.starred /\ Shown(t, settings)
InCompleted(t, settings) == settings.showCompleted /\ t.done
InProject(t, project, settings) == t.project = project /\ Shown(t, settings)

\* Lexicographic order of two sequences of numbers.
Before(a, b) ==
  \E i \in DOMAIN a : a[i] < b[i] /\ \A j \in 1 .. i - 1 : a[j] = b[j]

\* Families stand together, the parent first, then the one changed last.
FamilyKey(t) == <<IF IsSubtask(t) THEN t.parent ELSE t.id,
                  IF IsSubtask(t) THEN 1 ELSE 0, -t.updated, t.id>>

\* At most limit rows, in the order of their keys.
Listed(key, limit) ==
  LET sorted == SetToSortSeq(DOMAIN key, LAMBDA a, b : Before(key[a], key[b]))
  IN  SubSeq(sorted, 1, IF limit < Len(sorted) THEN limit ELSE Len(sorted))

DueKey(t) == <<IF Dated(t) THEN 0 ELSE 1, IF Dated(t) THEN t.due ELSE 0>>
               \o FamilyKey(t)

\* ListTodayTasks, ListUpcomingTasks, ListOverdueTasks and ListProjectTasks
\* sort by day; the others by family.
ListDated(rows, limit) == Listed([t \in rows |-> DueKey(t)], limit)
ListSimple(rows, limit) == Listed([t \in rows |-> FamilyKey(t)], limit)

-----------------------------------------------------------------------------
(* Bundles: a parent with its children, in the order of the list. *)

TopLevel(list) == {list[i].id : i \in {j \in DOMAIN list : ~IsSubtask(list[j])}}

\* Mutant of BundleKey: every row is a bundle of its own.
BundleKeyOwn(list, t) == t.id

BundleKey(list, t) ==
  IF IsSubtask(t) /\ t.parent \in TopLevel(list) THEN t.parent ELSE t.id

\* The bundle a task opens or joins; the parent represents it once it is seen.
Bundles(list) ==
  LET Of(key) == SelectSeq(list, LAMBDA t : BundleKey(list, t) = key)
      firsts == SelectSeq([i \in DOMAIN list |-> i],
                  LAMBDA i : \A j \in 1 .. i - 1 :
                    BundleKey(list, list[j]) # BundleKey(list, list[i]))
      Bundle(i) ==
        LET members == Of(BundleKey(list, list[i]))
            parents == SelectSeq(members, LAMBDA t : ~IsSubtask(t))
        IN  [representative |-> IF parents = <<>> THEN members[1] ELSE parents[1],
             rows |-> parents \o SelectSeq(members, IsSubtask),
             firstIndex |-> i]
  IN  [k \in DOMAIN firsts |-> Bundle(firsts[k])]

Flattened(bundles) == FlattenSeq([i \in DOMAIN bundles |-> bundles[i].rows])

\* Sorting: a missing value comes last, and first when the order is turned.
Optional(v) == IF v = Null THEN <<1, 0>> ELSE <<0, v>>

SortValue(t, sortBy) ==
  CASE sortBy = "due" -> Optional(t.due)
    [] sortBy = "priority" -> Optional(t.priority)
    [] sortBy = "name" -> <<0, t.title>>
    [] sortBy = "added" -> Optional(t.added)
    [] OTHER -> <<0, 0>>

Precedes(a, b, preference) ==
  LET x == SortValue(a.representative, preference.sortBy)
      y == SortValue(b.representative, preference.sortBy)
  IN  \/ IF preference.descending THEN Before(y, x) ELSE Before(x, y)
      \/ x = y /\ a.firstIndex < b.firstIndex

SortedBundles(list, preference) ==
  IF preference.sortBy = "default" THEN Bundles(list)
  ELSE SortSeq(Bundles(list), LAMBDA a, b : Precedes(a, b, preference))

\* Groups: the key of a bundle's group, and its place among the groups.
GroupOf(t, groupBy) ==
  CASE groupBy = "project" -> <<0, t.project>>
    [] groupBy = "due" ->
         CASE t.due = Null -> <<4, 0>>
           [] t.due # Null /\ t.due < Today -> <<0, 0>>
           [] t.due # Null /\ t.due = Today -> <<1, t.due>>
           [] t.due # Null /\ t.due = Today + 1 -> <<2, t.due>>
           [] OTHER -> <<3, t.due>>
    [] groupBy = "added" -> IF t.added = Null THEN <<1, 0>> ELSE <<0, -t.added>>
    [] groupBy = "priority" ->
         CASE t.priority = Null -> <<3, 0>>
           [] t.priority # Null /\ t.priority <= 4 -> <<0, 0>>
           [] t.priority # Null /\ t.priority \in {5, 6} -> <<1, 0>>
           [] OTHER -> <<2, 0>>
    [] OTHER -> <<0, 0>>

\* The groups of a list, each with the rows of its bundles.
BuildTaskListGroups(list, preference) ==
  LET bundles == SortedBundles(list, preference)
      Group(i) == GroupOf(bundles[i].representative, preference.groupBy)
      groups == SetToSortSeq({Group(i) : i \in DOMAIN bundles}, Before)
  IN  [g \in DOMAIN groups |->
         [group |-> groups[g],
          rows |-> Flattened(SelectSeq(bundles, LAMBDA b :
                     GroupOf(b.representative, preference.groupBy) = groups[g]))]]

-----------------------------------------------------------------------------
(* What the lists promise. *)

\* No task is lost between the views: an open task is in exactly one of
\* Today, Upcoming and No date unless it is due beyond the window, an overdue
\* one is in Today as well, and a completed one is shown by these views
\* exactly when Completed shows it.
InOneView(t, settings) ==
  LET views == {v \in 1 .. 3 : \/ v = 1 /\ InToday(t, settings)
                               \/ v = 2 /\ InUpcoming(t, settings)
                               \/ v = 3 /\ InNoDate(t, settings)}
      later == Dated(t) /\ t.due > Today + settings.upcomingDays
      visible == ~t.done \/ InCompleted(t, settings)
  IN  /\ \A v, w \in views : v = w
      /\ (views # {}) <=> (visible /\ ~later)
      /\ InOverdue(t, settings) => InToday(t, settings)
      /\ InProject(t, t.project, settings) <=> visible

\* The display loses, invents and separates nothing: the groups hold every
\* listed row once; the children of a listed parent stand behind it, in one
\* group and in the order of the list; and within a group a representative
\* never stands before one the preference puts first.
FamiliesStayTogether(list, preference) ==
  LET top == TopLevel(list)
      Index(s, t) == CHOOSE i \in DOMAIN s : s[i] = t
      Child(t, p) == t.parent = p.id /\ ~IsSubtask(p)
      Heads(t) == ~IsSubtask(t) \/ t.parent \notin top
  IN  \A groups \in {BuildTaskListGroups(list, preference)} :
      \A all \in {FlattenSeq([g \in DOMAIN groups |-> groups[g].rows])} :
        /\ Len(all) = Len(list)
        /\ {all[i] : i \in DOMAIN all} = {list[i] : i \in DOMAIN list}
        /\ \A i \in DOMAIN all :
             ~Heads(all[i]) =>
               /\ i > 1
               /\ Child(all[i], all[i - 1]) \/ all[i - 1].parent = all[i].parent
        /\ \A g \in DOMAIN groups : \A i, j \in DOMAIN groups[g].rows :
             LET a == groups[g].rows[i]
                 b == groups[g].rows[j]
                 x == SortValue(a, preference.sortBy)
                 y == SortValue(b, preference.sortBy)
             IN  /\ i < j /\ Heads(a) /\ Heads(b) =>
                      ~IF preference.descending THEN Before(x, y) ELSE Before(y, x)
                 /\ i < j /\ ~Heads(a) /\ ~Heads(b) /\ a.parent = b.parent =>
                      Index(list, a) < Index(list, b)
        /\ \A g \in 1 .. Len(groups) - 1 :
             Before(groups[g].group, groups[g + 1].group)
=============================================================================
