---------------------------- MODULE LabelFields -----------------------------
(* Labels, favourites and priority: CATEGORIES of a VTODO holds the labels  *)
(* and, as the reserved category, the favourite; a favourite is a task of   *)
(* high priority.  internal/model converts, internal/handler applies the    *)
(* rule to every edit.  A category is a name whose spelling matters only up *)
(* to case: Key gives its folded form and Rank its place in the order.      *)
EXTENDS Naturals, Sequences, SequencesExt, FiniteSets

CONSTANTS Key,      \* spelling -> name in lower case
          Rank,     \* spelling -> place in the order of keys, then spellings
          Null      \* no priority, no field in the form, nothing to patch

Starred == "STARRED"
Reserved(category) == Key[category] = Key[Starred]

\* The spelling that comes first of every name.
FirstSpellings(names) ==
  {names[i] : i \in {i \in DOMAIN names :
                       \A j \in 1 .. i - 1 : Key[names[j]] # Key[names[i]]}}

\* Spellings as a list, by rank.
InOrder(spellings) ==
  [n \in 1 .. Cardinality(spellings) |->
     CHOOSE c \in spellings : Cardinality({d \in spellings : Rank[d] <= Rank[c]}) = n]

\* The part of a list at some of its places.
At(list, places) ==
  [n \in 1 .. Cardinality(places) |->
     list[CHOOSE i \in places : Cardinality({j \in places : j <= i}) = n]]

Deduplicated(names) == InOrder(FirstSpellings(names))

IsFavorite(categories) == \E i \in DOMAIN categories : Reserved(categories[i])

Labels(categories) == InOrder({c \in FirstSpellings(categories) : ~Reserved(c)})

\* NormalizeLabelName refuses the reserved name.
Acceptable(labels) == ~IsFavorite(labels)

Categories(labels, favorite) ==
  Deduplicated(labels) \o IF favorite THEN <<Starred>> ELSE <<>>

PriorityIsHigh(priority) == priority # Null /\ priority \in 1 .. 4
FavoritePriority == 1

\* STARRED follows the priority.
FromPriority(f) ==
  [f EXCEPT !.categories = Categories(Labels(f.categories),
                                      PriorityIsHigh(f.priority))]

\* Either side makes the task a favourite of high priority.
Normalized(f) ==
  LET favorite == IsFavorite(f.categories) \/ PriorityIsHigh(f.priority)
  IN  [categories |-> Categories(Labels(f.categories), favorite),
       priority |-> IF favorite /\ ~PriorityIsHigh(f.priority)
                    THEN FavoritePriority ELSE f.priority]

-----------------------------------------------------------------------------
(* What an operation writes to the VTODO.  base holds the categories and    *)
(* priority of the task; a form field that was not sent is Null, and the    *)
(* priority field may be sent empty.                                        *)

Cleared == 0

\* applyLabelPatch: labels that name the reserved category change nothing.
SetsLabels(form) == form.labels # Null /\ Acceptable(form.labels)

WithLabels(base, form) ==
  IF ~SetsLabels(form) THEN base
  ELSE [base EXCEPT !.categories =
          Categories(form.labels, IsFavorite(base.categories))]

\* applyPriorityPatch.
WithPriority(base, form) ==
  CASE form.priority = Null -> base
    [] form.priority = Cleared -> [base EXCEPT !.priority = Null]
    [] OTHER -> [base EXCEPT !.priority = form.priority]

\* sameCategories: the same names as often, in any order.
Same(a, b) ==
  /\ Len(a) = Len(b)
  /\ \A i \in DOMAIN a : Cardinality({j \in DOMAIN a : a[j] = a[i]})
                        = Cardinality({j \in DOMAIN b : b[j] = a[i]})

\* Mutant of RuleApplied: a priority the user touched leaves the favourite alone.
RuleAppliedOnce(fields, touched) == IF touched THEN fields ELSE Normalized(fields)

\* applyFavoritePriorityRule: a priority the user touched decides.
RuleApplied(fields, touched) ==
  IF touched THEN FromPriority(fields) ELSE Normalized(fields)

\* Categories the form left alone keep their order when nothing else changes.
TaskUpdate(base, form) ==
  LET fields == WithPriority(WithLabels(base, form), form)
      result == RuleApplied(fields, form.priority # Null)
  IN  IF Same(fields.categories, result.categories) /\ ~SetsLabels(form)
      THEN [result EXCEPT !.categories = base.categories] ELSE result

TaskFavorite(base, favorite) ==
  [categories |-> Categories(Labels(base.categories), favorite),
   priority |-> IF favorite THEN FavoritePriority ELSE Null]

\* A new task, nothing when its labels are refused.  NormalizeFavoritePriority
\* runs over the labels themselves, so the reserved name marks a favourite.
TaskCreate(form) ==
  Normalized([categories |-> IF form.labels = Null THEN <<>> ELSE form.labels,
              priority |-> IF form.priority = Cleared THEN Null
                           ELSE form.priority])

\* MapCalendarObject: the columns of an imported task.
Imported(object) == Normalized(object)

-----------------------------------------------------------------------------
(* What the operations promise. *)

Names(categories) == {Key[Labels(categories)[i]] : i \in DOMAIN Labels(categories)}

FavoriteIsHigh(f) == IsFavorite(f.categories) <=> PriorityIsHigh(f.priority)

\* Whatever the object held when it came from the server, and whichever
\* fields of the form were sent: what Caldo writes is a favourite exactly when
\* its priority is high, the labels are the ones the form or the object had,
\* no name twice, and reading it back changes nothing.  A priority the user
\* chose is the one written.
FavoriteFollowsPriority(base, form) ==
  LET results == {TaskUpdate(base, form), Imported(base), TaskCreate(form)}
                   \cup {TaskFavorite(base, b) : b \in BOOLEAN}
      updated == TaskUpdate(base, form)
  IN  /\ \A f \in results :
           /\ FavoriteIsHigh(f)
           /\ Same(Imported(f).categories, f.categories)
           /\ Imported(f).priority = f.priority
           /\ \A i, j \in DOMAIN f.categories :
                i # j => Key[f.categories[i]] # Key[f.categories[j]]
      /\ Names(updated.categories)
           = Names(IF SetsLabels(form) THEN form.labels ELSE base.categories)
      /\ \A f \in results \ {updated, TaskCreate(form)} :
           Names(f.categories) = Names(base.categories)
      /\ form.priority \in 1 .. 9 => updated.priority = form.priority
      /\ form.priority = Cleared => ~IsFavorite(updated.categories)
      /\ \A b \in BOOLEAN :
           IsFavorite(TaskFavorite(base, b).categories) <=> b
=============================================================================
