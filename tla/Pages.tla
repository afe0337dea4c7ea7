-------------------------------- MODULE Pages --------------------------------
(* The pages around the task lists: which tasks a page lists, what the      *)
(* navigation and the rows say about other pages, how a page is to be       *)
(* sorted and grouped, and the saved filters.  Each of them asks the        *)
(* database with a query of its own.  The words of a page are left out; a   *)
(* name is a number, in the order of names.                                 *)
EXTENDS TaskViews, FiniteSets

CONSTANTS Supported(_),   \* a query that parses and compiles
          Selects(_, _),  \* those of the tasks that a query selects
          SystemTitle     \* the title of a system page

\* A page is [kind, id], id Null but for a project, label or filter.  A task
\* has two more fields, labels (its rows in task_labels) and sync, its sync
\* status.  The store:
\* [tasks, settings, projects : [id, name, default], labels : [id, name],
\*  filters : [id, name, query, favorite, version],
\*  conflicts : [id, task, type, created, resolved],
\*  display : [page, sortBy, descending, groupBy], at most one for a page]
SystemKind == <<"today", "upcoming", "favorites", "overdue", "no_date", "completed">>
IdKind == {"project", "label", "filter"}
Starred == 0

Page(kind, id) == [kind |-> kind, id |-> id]
Ids(items) == {x.id : x \in items}
WithId(items, id) == CHOOSE x \in items : x.id = id

-----------------------------------------------------------------------------
(* Lists. *)

\* The reserved label of favourites has no page and no entry.
UserLabels(store) == {l \in store.labels : l.name # Starred}

Opens(store, page) ==
  CASE page.kind = "project" -> page.id \in Ids(store.projects)
    [] page.kind = "label" -> page.id \in Ids(UserLabels(store))
    [] page.kind = "filter" -> page.id \in Ids(store.filters)
    [] OTHER -> TRUE

InLabel(t, label, settings) == label \in t.labels /\ Shown(t, settings)

\* A filter that cannot be read lists nothing; it hides no completed task.
InFilter(t, filter, tasks) ==
  Supported(filter.query) /\ t \in Selects(filter.query, tasks)

OnPage(store, page, t) ==
  CASE page.kind = "today" -> InToday(t, store.settings)
    [] page.kind = "upcoming" -> InUpcoming(t, store.settings)
    [] page.kind = "overdue" -> InOverdue(t, store.settings)
    [] page.kind = "favorites" -> InFavorites(t, store.settings)
    [] page.kind = "no_date" -> InNoDate(t, store.settings)
    [] page.kind = "completed" -> InCompleted(t, store.settings)
    [] page.kind = "project" -> InProject(t, page.id, store.settings)
    [] page.kind = "label" -> InLabel(t, page.id, store.settings)
    [] page.kind = "filter" ->
         InFilter(t, WithId(store.filters, page.id), store.tasks)

TaskList(store, page, limit) ==
  LET rows == {t \in store.tasks : OnPage(store, page, t)}
  IN  IF page.kind \in {"today", "upcoming", "overdue", "project", "label"}
      THEN ListDated(rows, limit) ELSE ListSimple(rows, limit)

\* ListUnresolvedConflicts: the deletions first, then the newest.
ConflictRank(type) ==
  CASE type = "edit_delete" -> 0 [] type = "delete_edit" -> 1
    [] type = "field_conflict" -> 2 [] OTHER -> 3

Unresolved(store) == {c \in store.conflicts : ~c.resolved}
ListUnresolvedConflicts(store) ==
  SetToSortSeq(Unresolved(store),
    LAMBDA a, b : Before(<<ConflictRank(a.type), -a.created, a.id>>,
                         <<ConflictRank(b.type), -b.created, b.id>>))

-----------------------------------------------------------------------------
(* The navigation: an entry for each page, with a number but for filters.   *)

Number(tasks, Holds(_)) == Cardinality({t \in tasks : Holds(t)})

\* Mutant of SystemCount: a task without a date counts as due.
SystemCountUndated(store, kind) ==
  LET s == store.settings
      Open(t) == s.showCompleted \/ ~t.done
  IN  Number(store.tasks, LAMBDA t : Open(t) /\ (kind = "no_date" => ~Dated(t)))

\* LoadNavigationSnapshot counts in one pass over all tasks.
SystemCount(store, kind) ==
  LET s == store.settings
      Open(t) == s.showCompleted \/ ~t.done
      Counted(t) ==
        CASE kind = "today" -> Dated(t) /\ t.due <= Today /\ Open(t)
          [] kind = "upcoming" -> /\ Dated(t) /\ t.due > Today /\ Open(t)
                                  /\ t.due <= Today + s.upcomingDays
          [] kind = "favorites" -> t.starred /\ Open(t)
          [] kind = "overdue" -> Dated(t) /\ t.due < Today /\ Open(t)
          [] kind = "no_date" -> ~Dated(t) /\ Open(t)
          [] kind = "completed" -> s.showCompleted /\ t.done
  IN  Number(store.tasks, Counted)

\* An entry: count is shown, all is named when the item is to be deleted.
Entry(page, count, all) == [page |-> page, count |-> count, all |-> all]

SystemEntries(store) ==
  [i \in DOMAIN SystemKind |->
     LET n == SystemCount(store, SystemKind[i])
     IN  Entry(Page(SystemKind[i], Null), n, n)]
  \o LET n == Cardinality(Unresolved(store))
     IN  <<Entry(Page("conflicts", Null), n, n)>>

\* The items of a table in the order of their keys, each with its tasks.
EntriesOf(kind, key, tasksOf) ==
  LET sorted == SetToSortSeq(DOMAIN key, LAMBDA a, b : Before(key[a], key[b]))
      EntryOf(id) == Entry(Page(kind, id), Number(tasksOf[id], LAMBDA t : ~t.done),
                           Cardinality(tasksOf[id]))
  IN  [i \in DOMAIN sorted |-> EntryOf(sorted[i])]

ProjectEntries(store) ==
  LET Key(p) == <<IF p.default THEN 0 ELSE 1, p.name, p.id>>
      ids == Ids(store.projects)
  IN  EntriesOf("project", [id \in ids |-> Key(WithId(store.projects, id))],
                [id \in ids |-> {t \in store.tasks : t.project = id}])

LabelEntries(store) ==
  LET ids == Ids(UserLabels(store))
  IN  EntriesOf("label", [id \in ids |-> <<WithId(store.labels, id).name, id>>],
                [id \in ids |-> {t \in store.tasks : id \in t.labels}])

\* Favourite filters that can be read; their entries bear no number.
FilterEntries(store) ==
  LET favorites == {f \in store.filters : f.favorite /\ Supported(f.query)}
      sorted == SetToSortSeq(favorites, LAMBDA a, b : Before(<<a.name, a.id>>, <<b.name, b.id>>))
  IN  [i \in DOMAIN sorted |-> Entry(Page("filter", sorted[i].id), Null, Null)]

Navigation(store) ==
  SystemEntries(store) \o FilterEntries(store) \o LabelEntries(store)
    \o ProjectEntries(store)

\* A system entry is marked by the title of the open page, that of a project
\* or label by its page.
TitleOf(store, page) ==
  CASE page.kind = "project" -> WithId(store.projects, page.id).name
    [] page.kind = "label" -> WithId(store.labels, page.id).name
    [] page.kind = "filter" -> WithId(store.filters, page.id).name
    [] OTHER -> SystemTitle[page.kind]

Marked(store, open, entry) ==
  \/ entry.page.kind \in {"project", "label"} /\ entry.page = open
  \/ /\ entry.page.kind \notin IdKind
     /\ SystemTitle[entry.page.kind] = TitleOf(store, open)

-----------------------------------------------------------------------------
(* What the row of a task says, and the fragments it opens. *)

Children(store, t) == {c \in store.tasks : c.parent = t.id}
SubtaskCount(store, t) == Cardinality(Children(store, t))
OpenSubtaskCount(store, t) == Number(Children(store, t), LAMBDA c : ~c.done)

CanToggleCompletion(t) == t.sync = "synced"
CanCreateSubtask(t) == ~IsSubtask(t) /\ CanToggleCompletion(t)
NeedsCompletionDecision(store, t) ==
  /\ ~t.done /\ ~IsSubtask(t) /\ CanToggleCompletion(t)
  /\ OpenSubtaskCount(store, t) > 0
HasDirectSubtasks(store, t) == ~IsSubtask(t) /\ SubtaskCount(store, t) > 0

\* The newest unresolved conflict of a task in conflict, or Null.
ConflictLink(store, t) ==
  LET mine == {c \in Unresolved(store) : c.task = t.id}
  IN  IF t.sync # "conflict" \/ mine = {} THEN Null
      ELSE (CHOOSE c \in mine : \A d \in mine : d.created <= c.created).id

\* TaskSubtasksFragment: the children, the open ones first, or a refusal.
SubtasksFragment(store, t) ==
  LET Key(c) == <<IF c.done THEN 1 ELSE 0, IF c.added = Null THEN 0 ELSE c.added, c.id>>
  IN  IF IsSubtask(t) THEN [status |-> 409, rows |-> <<>>]
      ELSE [status |-> 200,
            rows |-> SetToSortSeq(Children(store, t), LAMBDA a, b : Before(Key(a), Key(b)))]

\* The priorities the form of a task offers: its own instead of the one that
\* stands for its level.
CanonicalPriority(p) == IF p <= 4 THEN 1 ELSE IF p <= 6 THEN 5 ELSE 9

PriorityOptions(t) ==
  LET own == t.priority # Null /\ t.priority > 0
      odd == own /\ t.priority # CanonicalPriority(t.priority)
  IN  <<Null>> \o (IF odd THEN <<t.priority>> ELSE <<>>)
      \o SelectSeq(<<1, 5, 9>>, LAMBDA p : ~(odd /\ p = CanonicalPriority(t.priority)))

-----------------------------------------------------------------------------
(* How a page is sorted and grouped. *)

GroupAvailable(kind, groupBy) ==
  /\ ~(groupBy = "project" /\ kind = "project")
  /\ ~(groupBy = "due" /\ kind \in {"no_date", "overdue"})

ValidScope(page) == (page.kind \in IdKind) <=> (page.id # Null)

\* What the controls of a page offer.
GroupValues(page) ==
  {g \in {"none", "project", "due", "added", "priority"} : GroupAvailable(page.kind, g)}

DefaultPreference(page) ==
  [page |-> page, sortBy |-> "default", descending |-> FALSE, groupBy |-> "none"]

LoadPreference(display, page) ==
  IF \E d \in display : d.page = page
  THEN CHOOSE d \in display : d.page = page ELSE DefaultPreference(page)

\* loadTaskListPresentation
Preference(display, page) ==
  LET loaded == LoadPreference(display, page)
  IN  IF GroupAvailable(page.kind, loaded.groupBy) THEN loaded
      ELSE [loaded EXCEPT !.groupBy = "none"]

\* TaskViewPreferenceUpdate; a form that is not valid changes nothing.
PreferenceUpdated(display, form, reset) ==
  LET rest == {d \in display : d.page # form.page}
      saved == [form EXCEPT !.descending = @ /\ form.sortBy # "default"]
  IN  IF ~ValidScope(form.page) \/ ~GroupAvailable(form.page.kind, form.groupBy)
      THEN display
      ELSE IF reset THEN rest ELSE rest \cup {saved}

-----------------------------------------------------------------------------
(* Saved filters.  A form names its filter and the version it was made of.  *)

ValidFilter(form) == form.name # Null /\ form.query # Null /\ Supported(form.query)

SavedFilterCreate(filters, form) ==
  IF ~ValidFilter(form) THEN filters
  ELSE filters \cup {[id |-> form.id, name |-> form.name, query |-> form.query,
                      favorite |-> form.favorite, version |-> 1]}

Current(filters, form) == {f \in filters : f.id = form.id /\ f.version = form.version}

SavedFilterUpdate(filters, form) ==
  IF ~ValidFilter(form) THEN filters
  ELSE {IF f \in Current(filters, form)
        THEN [f EXCEPT !.name = form.name, !.query = form.query,
                       !.favorite = form.favorite, !.version = @ + 1]
        ELSE f : f \in filters}

SavedFilterDelete(filters, form) == filters \ Current(filters, form)

-----------------------------------------------------------------------------
(* What the pages promise. *)

\* The navigation tells the truth about the pages it leads to: each opens; the
\* number next to a list is the length of the list up to its limit, that next
\* to a project or label the number of its open tasks; a warning names every
\* task that goes; and the entry of the open page is marked, with none of
\* another project or label.
NavigationIsTrue(store, limit) ==
  LET Upto(n) == IF n < limit THEN n ELSE limit
      List(page) == IF page.kind = "conflicts" THEN ListUnresolvedConflicts(store)
                    ELSE TaskList(store, page, limit)
  IN  \A entries \in {Navigation(store)} : \A i \in DOMAIN entries :
      \A e \in {entries[i]}, length \in {Len(List(entries[i].page))} :
        /\ Opens(store, e.page)
        /\ e.page.kind \notin IdKind /\ e.page.kind # "conflicts" =>
             length = Upto(e.count)
        /\ e.page.kind = "conflicts" => length = e.count
        /\ e.page.kind \in {"project", "label"} =>
             /\ length = Upto(IF store.settings.showCompleted THEN e.all ELSE e.count)
             /\ e.count <= e.all
        /\ e.page.kind # "filter" => Marked(store, e.page, e)
        /\ \A j \in DOMAIN entries \ {i} :
             Marked(store, entries[j].page, e) =>
               e.page.kind \notin {"project", "label"}

\* A row tells the truth about its task: the counts are those of the pane that
\* lists its subtasks, the open ones first; it offers a subtask and asks about
\* subtasks only where the pane opens and has them; a link to a conflict leads
\* to one of this task that is still listed; and the form of a task offers its
\* own priority, and no level twice.
RowsAreTrue(store) ==
  \A t \in store.tasks :
    LET pane == SubtasksFragment(store, t)
        open == {i \in DOMAIN pane.rows : ~pane.rows[i].done}
        listed == ListUnresolvedConflicts(store)
        options == PriorityOptions(t)
    IN  /\ pane.status = 200 =>
             /\ Len(pane.rows) = SubtaskCount(store, t)
             /\ open = 1 .. OpenSubtaskCount(store, t)
        /\ CanCreateSubtask(t) => pane.status = 200
        /\ NeedsCompletionDecision(store, t) => open # {}
        /\ HasDirectSubtasks(store, t) <=> pane.rows # <<>>
        /\ ConflictLink(store, t) # Null =>
             \E i \in DOMAIN listed : /\ listed[i].id = ConflictLink(store, t)
                                      /\ listed[i].task = t.id
        /\ t.priority # 0 => \E i \in DOMAIN options : options[i] = t.priority
        /\ \A i, j \in DOMAIN options \ {1} :
             CanonicalPriority(options[i]) = CanonicalPriority(options[j]) => i = j

\* A form that a page offers decides how that page, and no other, is shown.
FormDecides(display, pages, form) ==
  LET saved == PreferenceUpdated(display, form, FALSE)
      shown == Preference(saved, form.page)
  IN  /\ form.groupBy \in GroupValues(form.page) =>
           /\ shown.sortBy = form.sortBy /\ shown.groupBy = form.groupBy
           /\ form.sortBy # "default" => shown.descending = form.descending
      /\ \A page \in pages \ {form.page} :
           Preference(saved, page) = Preference(display, page)
      /\ form.groupBy \in GroupValues(form.page) =>
           Preference(PreferenceUpdated(saved, form, TRUE), form.page)
             = DefaultPreference(form.page)

\* Of two forms made of the same filters, on the same filter, the second
\* changes nothing that the first has changed: no edit is overwritten unread.
NothingOverwritten(filters, first, second) ==
  LET Do(f, form) == IF form.delete THEN SavedFilterDelete(f, form)
                     ELSE SavedFilterUpdate(f, form)
  IN  first.id = second.id =>
        \A one \in {Do(filters, first)} \ {filters} : Do(one, second) = one
=============================================================================
