--------------------------- MODULE QuickAddCreate ---------------------------
(* From the draft of a quick-add line to the task: the preview with its     *)
(* form (internal/handler/quick_add.go, internal/view/quick_add.go), and    *)
(* the creation that the form asks for (internal/handler/tasks_create.go).  *)
(* Between the two, other tabs may create, rename and delete projects and   *)
(* choose another default.  A store holds projects in the order in which    *)
(* they are listed, each with an id and a name.                             *)
EXTENDS LabelFields

CONSTANTS ProjectKey,  \* name of a project -> its folded name
          Within,      \* pairs of folded names, the first within the second
          Pieces,      \* label -> what is between its commas, blanks left out
          Limit,       \* quickAddProjectSuggestionLimit
          LabelLimit   \* quickAddLabelSuggestionLimit

R == INSTANCE Recurrence

Ids(store) == {store.projects[i].id : i \in DOMAIN store.projects}
NameOf(store, id) ==
  store.projects[CHOOSE i \in DOMAIN store.projects : store.projects[i].id = id].name
Named(store, name) == {id \in Ids(store) : ProjectKey[NameOf(store, id)] = ProjectKey[name]}

\* LoadProjectByName takes any one of them.
ByName(store, name) == CHOOSE id \in Named(store, name) : TRUE

-----------------------------------------------------------------------------
(* The preview. *)

AtMost(n, list) == SubSeq(list, 1, IF Len(list) < n THEN Len(list) ELSE n)

\* The places of the projects whose name contains the wanted one or lies in it.
Near(store, name) ==
  {i \in DOMAIN store.projects :
     LET key == ProjectKey[store.projects[i].name]
     IN  <<key, ProjectKey[name]>> \in Within \/ <<ProjectKey[name], key>> \in Within}

\* They come first; the others fill the list up.
Suggestions(store, name) ==
  LET near == Near(store, name)
  IN  AtMost(Limit, At(store.projects, near)
                    \o At(store.projects, DOMAIN store.projects \ near))

Preview(draft, store) ==
  LET default == IF store.default \in Ids(store) THEN store.default ELSE Null
      wanted == draft.project
      found == wanted # Null /\ Named(store, wanted) # {}
      isNew == wanted # Null /\ ~found
      id == IF found THEN ByName(store, wanted) ELSE default
  IN  [title |-> draft.title, labels |-> draft.labels, priority |-> draft.priority,
       due |-> draft.due, recurrence |-> draft.recurrence,
       project |-> IF isNew THEN wanted ELSE IF id = Null THEN Null ELSE NameOf(store, id),
       id |-> id, isNew |-> isNew, options |-> store.projects,
       suggestions |-> IF isNew THEN Suggestions(store, wanted) ELSE <<>>]

\* quickAddLabelSuggestions: known labels that the draft does not have yet.
LabelSuggestions(draft, known) ==
  LET new == {i \in DOMAIN known :
                /\ \A j \in DOMAIN draft.labels : Key[draft.labels[j]] # Key[known[i]]
                /\ \A j \in 1 .. i - 1 : Key[known[j]] # Key[known[i]]}
  IN  AtMost(LabelLimit, At(known, new))

\* What the user may choose for the project: of a new one he must choose.
ProjectChoices(p) == IF p.isNew
              THEN {"create"} \cup {p.suggestions[i].id : i \in DOMAIN p.suggestions}
              ELSE {"as shown", "cleared"}

\* project_selection, project_new_name and project_id as the browser sends them;
\* the labels are one text, joined by commas (quickAddLabelsValue).
Submitted(p, choice) ==
  [title |-> p.title, labels |-> p.labels, priority |-> p.priority, due |-> p.due,
   recurrence |-> p.recurrence,
   selection |-> CASE choice = "create" -> "create"
                   [] choice = "as shown" -> IF p.options = <<>> THEN Null ELSE p.id
                   [] choice = "cleared" -> Null
                   [] OTHER -> choice,
   newName |-> IF p.isNew THEN p.project ELSE Null,
   projectID |-> IF ~p.isNew /\ p.options = <<>> THEN p.id ELSE Null]

-----------------------------------------------------------------------------
(* The creation. *)

PriorityNumber(word) ==
  CASE word = "high" -> 1 [] word = "medium" -> 5 [] word = "low" -> 9 [] OTHER -> Null

\* parseQuickAddLabels: the text is split at every comma, those within a label too.
ParseQuickAddLabels(labels) == FlattenSeq([i \in DOMAIN labels |-> Pieces[labels[i]]])

ValidRecurrence(rule) ==
  /\ R!Has(rule, "FREQ")
  /\ \A i, j \in DOMAIN rule : i # j => rule[i].key # rule[j].key

Failed(why) == [failed |-> why]
Into(id) == [failed |-> Null, id |-> id, created |-> FALSE]

\* Mutant of ResolveTaskProject: a project that is gone falls back to the default.
ResolveTaskProjectOrDefault(store, id) ==
  IF id # Null /\ id \in Ids(store) THEN Into(id)
  ELSE IF store.default \in Ids(store) THEN Into(store.default) ELSE Failed("unavailable")

\* A given project, or else the default.
ResolveTaskProject(store, id) ==
  IF id # Null THEN IF id \in Ids(store) THEN Into(id) ELSE Failed("not found")
  ELSE IF store.default \in Ids(store) THEN Into(store.default) ELSE Failed("unavailable")

\* A project of that name that has come up meanwhile is taken; the CalDAV
\* request for a new one may fail, which ends the creation.
CreateQuickAddProject(store, name) ==
  IF name = Null THEN Failed("name required")
  ELSE IF Named(store, name) # {} THEN Into(ByName(store, name))
  ELSE [failed |-> Null, id |-> "new", created |-> TRUE]

ResolveCreateTaskProject(store, form) ==
  CASE form.selection = "create" -> CreateQuickAddProject(store, form.newName)
    [] form.selection \notin {"create", Null} -> ResolveTaskProject(store, form.selection)
    [] form.selection = Null /\ form.newName # Null -> Failed("selection required")
    [] OTHER -> ResolveTaskProject(store, form.projectID)

\* createTask, up to the row that is inserted.
CreateTask(store, form) ==
  LET project == ResolveCreateTaskProject(store, form)
      fields == Normalized([categories |-> ParseQuickAddLabels(form.labels),
                            priority |-> PriorityNumber(form.priority)])
  IN  CASE form.title = <<>> -> Failed("title required")
        [] form.title # <<>> /\ form.recurrence # Null /\ ~ValidRecurrence(form.recurrence) ->
             Failed("recurrence invalid")
        [] OTHER ->
             IF project.failed # Null THEN project
             ELSE [failed |-> Null, id |-> project.id, created |-> project.created,
                   title |-> form.title, due |-> form.due, recurrence |-> form.recurrence,
                   categories |-> fields.categories, priority |-> fields.priority]

-----------------------------------------------------------------------------
(* What the preview promises. *)

\* In the project shown or chosen, or in one of the name shown.
GoesWhereShown(after, p, choice, task) ==
  /\ choice = "create" =>
       IF task.created THEN Named(after, p.project) = {}
       ELSE ProjectKey[NameOf(after, task.id)] = ProjectKey[p.project]
  /\ choice = "as shown" => task.id = IF p.id = Null THEN after.default ELSE p.id
  /\ choice = "cleared" => task.id = after.default
  /\ choice \notin {"create", "as shown", "cleared"} => task.id = choice

\* No label has a comma in it.
Uncut(labels) == \A i \in DOMAIN labels : Pieces[labels[i]] = <<labels[i]>>

\* What a list of labels says, read at the commas, but for the reserved name.
Said(labels) == UNION {ToSet(Pieces[labels[i]]) : i \in DOMAIN labels}
LabelsSaid(labels) == {Key[c] : c \in {c \in Said(labels) : ~Reserved(c)}}

\* The task that a confirmed preview creates is the one it showed, whatever
\* happened to the projects since: it goes to the project shown or chosen, or
\* to one of the name shown when a new one was asked for, or nowhere; a
\* project is created only under a name that none has.  Due day, recurrence
\* and priority are those shown, and the labels too if none has a comma in it:
\* one that has, shown as one label, becomes a label of each of its pieces.
\* Only a label or piece of the reserved name adds to them: it makes the task a
\* favourite of high priority.
CreatedAsShown(draft, before, after, choice) ==
  LET p == Preview(draft, before)
      task == CreateTask(after, Submitted(p, choice))
      starred == \E c \in Said(p.labels) : Reserved(c)
  IN  IF task.failed # Null
      THEN \/ p.title = <<>>
           \/ p.recurrence # Null /\ ~ValidRecurrence(p.recurrence)
           \/ task.failed = "not found" /\ (p.id \notin Ids(after) \/ choice \notin Ids(after))
           \/ task.failed = "unavailable" /\ after.default \notin Ids(after)
      ELSE /\ GoesWhereShown(after, p, choice, task)
           /\ task.title = p.title /\ task.due = p.due /\ task.recurrence = p.recurrence
           /\ Names(task.categories) = LabelsSaid(p.labels)
           /\ Uncut(p.labels) => Names(task.categories) = Names(p.labels)
           /\ \/ task.priority = PriorityNumber(p.priority)
              \/ starred /\ task.priority = FavoritePriority
           /\ FavoriteIsHigh(task)

\* A suggestion is a project that there is, named once, and no more than fit;
\* one with a name near the wanted one is there unless others like it fill the
\* list.  Of the known labels those are suggested that the draft does not have,
\* each name once, and all of them unless others fill the list.
SuggestionsFit(draft, store, known) ==
  LET p == Preview(draft, store)
      ids == {p.suggestions[i].id : i \in DOMAIN p.suggestions}
      near == {store.projects[i].id : i \in Near(store, draft.project)}
      labels == LabelSuggestions(draft, known)
      names == {Key[labels[i]] : i \in DOMAIN labels}
      had == {Key[draft.labels[i]] : i \in DOMAIN draft.labels}
  IN  /\ p.isNew =>
           /\ ids \subseteq Ids(store) /\ Cardinality(ids) = Len(p.suggestions)
           /\ Len(p.suggestions) <= Limit
           /\ \/ near \subseteq ids
              \/ ids \subseteq near /\ Len(p.suggestions) = Limit
      /\ names \cap had = {} /\ Cardinality(names) = Len(labels) /\ Len(labels) <= LabelLimit
      /\ \/ {Key[known[i]] : i \in DOMAIN known} \subseteq names \cup had
         \/ Len(labels) = LabelLimit
=============================================================================
