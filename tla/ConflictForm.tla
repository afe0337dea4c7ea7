---------------------------- MODULE ConflictForm ----------------------------
(* The page of one conflict and the resolution it sends: the comparison of  *)
(* the three versions, the field-wise form with its preview                 *)
(* (internal/view/conflicts.go), and the VTODO that the handler builds from *)
(* the form (internal/handler/conflicts_resolve.go).  What a field shows is *)
(* told apart up to wording.  A version is a record of what Caldo parses;   *)
(* rest stands for recurrence, attachments and the lines that it does not.  *)
EXTENDS LabelFields

Version == {"base", "local", "remote"}
Has(c, version) == c[version] # Null

ManualField == {"title", "description", "due", "priority", "labels", "status", "parent"}

-----------------------------------------------------------------------------
(* The page. *)

StatusShown(f) == IF f.status = "" THEN "needs-action" ELSE f.status
PriorityShown(f) == IF f.priority = Null \/ f.priority = 0 THEN Null ELSE f.priority

\* conflictUserLabels: the first spelling of every name, in the text's order.
LabelsShown(f) ==
  LET c == f.categories
      shown == {i \in DOMAIN c : /\ ~Reserved(c[i])
                                 /\ \A j \in 1 .. i - 1 : Key[c[j]] # Key[c[i]]}
  IN  At(c, shown)

Shown(field, f) ==
  CASE field = "status" -> StatusShown(f)
    [] field = "priority" -> PriorityShown(f)
    [] field = "labels" -> LabelsShown(f)
    [] field = "favorite" -> IsFavorite(f.categories)
    [] OTHER -> f[field]

\* conflictComparisonChanged: against the base, or local against remote when
\* there is none.
ChangedIn(c, version, field) ==
  IF Has(c, "base")
  THEN Has(c, version) /\ Shown(field, c[version]) # Shown(field, c["base"])
  ELSE version # "base" /\ Has(c, "local") /\ Has(c, "remote")
         /\ Shown(field, c["local"]) # Shown(field, c["remote"])

\* The version that the form starts from, and that the result is built on.
First(c) == CASE Has(c, "remote") -> "remote" [] Has(c, "local") -> "local"
              [] OTHER -> "base"
Target(c) == c[First(c)]

\* The choices of a field.
Options(c) == {v \in Version : Has(c, v)} \cup {"manual"}

ManualStatus == {"needs-action", "in-process", "completed", "cancelled"}

\* What the manual input holds when the page comes.  A selection list shows
\* its first entry when it has none for the value.
ManualInput(c, field) ==
  LET f == Target(c)
  IN  CASE field = "status" -> IF StatusShown(f) \in ManualStatus THEN StatusShown(f)
                               ELSE "needs-action"
        [] field = "priority" -> IF PriorityShown(f) \in 1 .. 9 THEN f.priority ELSE Null
        [] OTHER -> Shown(field, f)

\* conflictManualPreviewRows, as the script keeps them up to date.
Previewed(c, field, choice) ==
  IF choice.source = "manual" THEN choice.manual ELSE Shown(field, c[choice.source])

\* The buttons of the page.
Offered(c) ==
  IF ~c.task THEN {}
  ELSE {"manual"} \cup {v \in {"local", "remote"} : Has(c, v)}
       \cup (IF Has(c, "local") /\ Has(c, "remote") THEN {"split"} ELSE {})

-----------------------------------------------------------------------------
(* The handler. *)

\* selectedConflictVersion: a missing version selects nothing.
Selects(c, choice) == choice.source # "manual" /\ Has(c, choice.source)
Touches(c, choice) == choice.source = "manual" \/ Has(c, choice.source)

\* The value that a choice writes, the target's where it writes none.
Taken(c, field, choice) ==
  CASE choice.source = "manual" -> choice.manual
    [] Selects(c, choice) -> c[choice.source][field]
    [] OTHER -> Target(c)[field]

Valid(form) == /\ form["status"].source = "manual" => form["status"].manual \in ManualStatus
               /\ form["priority"].source = "manual"
                    => form["priority"].manual \in (1 .. 9) \cup {Null}
               /\ form["labels"].source = "manual" => Acceptable(form["labels"].manual)

\* A new list of categories, or none: nothing is written for a version
\* without categories, whose list is nil.
NewCategories(c, choice) ==
  IF choice.source = "manual"
  THEN [set |-> TRUE, list |-> Categories(choice.manual, IsFavorite(Target(c).categories))]
  ELSE IF Selects(c, choice) /\ c[choice.source].categories # <<>>
  THEN [set |-> TRUE, list |-> c[choice.source].categories]
  ELSE [set |-> FALSE, list |-> Target(c).categories]

\* Mutant of CompletedAfter: a task that is open again keeps COMPLETED.
CompletedAfterKept(c, choice, status) ==
  LET from == IF choice.source = "manual" THEN Target(c) ELSE c[choice.source]
  IN  IF Touches(c, choice) /\ status = "completed" /\ from.completed # Null
      THEN from.completed ELSE Target(c).completed

\* COMPLETED goes with a status that is not completed; a completed status
\* takes the stamp of its version, and the target's where that has none.
CompletedAfter(c, choice, status) ==
  LET from == IF choice.source = "manual" THEN Target(c) ELSE c[choice.source]
  IN  IF ~Touches(c, choice) THEN Target(c).completed
      ELSE IF status # "completed" THEN Null
      ELSE IF from.completed # Null THEN from.completed ELSE Target(c).completed

\* buildManualConflictVTODO
BuildManual(c, form) ==
  LET status == IF Touches(c, form["status"]) /\ Taken(c, "status", form["status"]) = ""
                THEN "needs-action" ELSE Taken(c, "status", form["status"])
      new == NewCategories(c, form["labels"])
      edited == [categories |-> new.list,
                 priority |-> Taken(c, "priority", form["priority"])]
      ruled == RuleApplied(edited, Touches(c, form["priority"]))
  IN  [title |-> Taken(c, "title", form["title"]),
       description |-> Taken(c, "description", form["description"]),
       due |-> Taken(c, "due", form["due"]),
       parent |-> Taken(c, "parent", form["parent"]),
       status |-> status,
       completed |-> CompletedAfter(c, form["status"], status),
       priority |-> ruled.priority,
       categories |-> IF ~new.set /\ Same(new.list, ruled.categories)
                      THEN new.list ELSE ruled.categories,
       rest |-> Target(c).rest]

\* What ResolveConflict accepts, as far as the versions go.
Accepts(c, resolution) ==
  CASE resolution = "local" -> Has(c, "local")
    [] resolution \in {"remote", "split"} -> Has(c, "remote")
    [] resolution = "manual" -> TRUE

-----------------------------------------------------------------------------
(* What the page promises. *)

\* The user gets what the preview shows: whichever version or input is chosen
\* for each field, the resolved task shows exactly that, is a favourite only
\* when its priority is high, carries a completion time only when completed,
\* and otherwise is the version it was built on.  The labels come in another
\* order, and choosing a version without any changes nothing: the list of that
\* version is nil, and PatchVTODO leaves the target's labels alone.
ManualIsPreviewed(c, form) ==
  Valid(form) =>
    LET result == BuildManual(c, form)
        chosen == form["labels"]
    IN  /\ \A field \in ManualField \ {"labels"} :
             Shown(field, result) = Previewed(c, field, form[field])
        /\ \/ Names(result.categories) = {Key[n] : n \in ToSet(Previewed(c, "labels", chosen))}
           \/ Selects(c, chosen) /\ c[chosen.source].categories = <<>>
        /\ FavoriteIsHigh(result)
        /\ result.completed # Null => result.status = "completed"
        /\ result.rest = Target(c).rest

\* Every button of the page is one that the handler accepts, and the marks in
\* the comparison are true: a field without one comes out the same whichever
\* version is chosen for it.
PageIsTrue(c, form) ==
  /\ \A resolution \in Offered(c) : Accepts(c, resolution)
  /\ \A field \in ManualField \ {"labels"} :
       (\A v \in Version : ~ChangedIn(c, v, field)) =>
         \A v, w \in Options(c) \ {"manual"} :
           LET with(source) == BuildManual(c, [form EXCEPT ![field].source = source])
           IN  Shown(field, with(v)) = Shown(field, with(w))
=============================================================================
