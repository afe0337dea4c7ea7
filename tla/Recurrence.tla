----------------------------- MODULE Recurrence -----------------------------
(* Recurrence rules as Caldo reads and writes them: the test for rules      *)
(* beyond its editor (internal/model), the editor's fields for a rule       *)
(* (internal/view), and the rule a submitted form asks for                  *)
(* (internal/handler).  A rule is the sequence of its parts; a value is a   *)
(* number, a sequence of weekdays, a frequency or a date, already split.    *)
EXTENDS Naturals, Sequences

CONSTANT Null       \* no value

Part(key, value) == [key |-> key, value |-> value]

\* A date as UNTIL writes it: "date" for 20060102, "utc" for
\* 20060102T150405Z, "local" for a form Caldo does not read.
Until(day, form) == [day |-> day, form |-> form]

Frequencies == {"DAILY", "WEEKLY", "MONTHLY", "YEARLY"}
Weekdays == <<"MO", "TU", "WE", "TH", "FR">>
Days == {"MO", "TU", "WE", "TH", "FR", "SA", "SU"}

Has(rule, key) == \E i \in DOMAIN rule : rule[i].key = key

\* The value of a key, the last one when it is repeated.
Get(rule, key) ==
  IF ~Has(rule, key) THEN Null
  ELSE rule[CHOOSE i \in DOMAIN rule :
              /\ rule[i].key = key
              /\ \A j \in DOMAIN rule : rule[j].key = key => j <= i].value

SupportedPart(p) ==
  CASE p.key = "FREQ" -> p.value \in Frequencies
    [] p.key \in {"INTERVAL", "COUNT"} -> p.value > 0
    [] p.key = "BYDAY" -> \A i \in DOMAIN p.value : p.value[i] \in Days
    [] p.key = "UNTIL" -> TRUE
    [] OTHER -> FALSE

IsComplexRRule(rule) ==
  \/ \E i \in DOMAIN rule : ~SupportedPart(rule[i])
  \/ Has(rule, "UNTIL") /\ Has(rule, "COUNT")
  \/ Has(rule, "BYDAY") /\ Get(rule, "FREQ") # "WEEKLY"

-----------------------------------------------------------------------------
(* The editor's fields, the same fields the form submits. *)

NoRule == [frequency |-> "NONE", interval |-> 1, byDay |-> "MO",
           end |-> "never", until |-> Null, count |-> Null]

\* taskRRuleUntilDate: the day of a date it can read.
UntilDay(value) ==
  IF value # Null /\ value.form \in {"date", "utc"} THEN value.day ELSE Null

EditableByDay(rule) ==
  LET byDay == Get(rule, "BYDAY")
  IN  byDay = Null \/ byDay = Weekdays \/ Len(byDay) = 1

Editable(rule) ==
  \/ rule = <<>>
  \/ /\ ~IsComplexRRule(rule)
     /\ Has(rule, "FREQ")
     /\ EditableByDay(rule)
     /\ Has(rule, "UNTIL") => UntilDay(Get(rule, "UNTIL")) # Null

Editor(rule) ==
  LET byDay == Get(rule, "BYDAY")
      interval == Get(rule, "INTERVAL")
  IN  IF rule = <<>> THEN NoRule
      ELSE [frequency |-> CASE byDay = Null -> Get(rule, "FREQ")
                            [] byDay = Weekdays -> "WEEKDAYS"
                            [] OTHER -> "BYDAY",
            interval |-> IF interval = Null THEN 1 ELSE interval,
            byDay |-> IF byDay # Null /\ Len(byDay) = 1 THEN byDay[1] ELSE "MO",
            end |-> CASE Has(rule, "UNTIL") -> "until"
                      [] Has(rule, "COUNT") -> "count"
                      [] OTHER -> "never",
            until |-> UntilDay(Get(rule, "UNTIL")),
            count |-> Get(rule, "COUNT")]

-----------------------------------------------------------------------------
(* The rule a form asks for. *)

FrequencyParts(form) ==
  CASE form.frequency = "WEEKDAYS" ->
         <<Part("FREQ", "WEEKLY"), Part("BYDAY", Weekdays)>>
    [] form.frequency = "BYDAY" ->
         <<Part("FREQ", "WEEKLY"), Part("BYDAY", <<form.byDay>>)>>
    [] OTHER -> <<Part("FREQ", form.frequency)>>

IntervalParts(form) ==
  IF form.interval > 1 THEN <<Part("INTERVAL", form.interval)>> ELSE <<>>

\* Mutant of EndParts: the date of the end is not read.
EndPartsCount(form) ==
  IF form.end = "count" /\ form.count # Null
  THEN <<Part("COUNT", form.count)>> ELSE <<>>

\* The last second of the day the user chose.
EndParts(form) ==
  CASE form.end = "until" /\ form.until # Null ->
         <<Part("UNTIL", Until(form.until, "utc"))>>
    [] form.end = "count" /\ form.count # Null ->
         <<Part("COUNT", form.count)>>
    [] OTHER -> <<>>

BuildExplicitRRule(form) ==
  IF form.frequency = "NONE" THEN <<>>
  ELSE FrequencyParts(form) \o IntervalParts(form) \o EndParts(form)

\* TaskUpdate: the rule of a task after its form came in.  The browser sends
\* the repeat fields when the user has touched one of them.
Saved(rule, form, touched) ==
  IF touched /\ ~IsComplexRRule(rule) THEN BuildExplicitRRule(form) ELSE rule

-----------------------------------------------------------------------------
(* What a rule means, part by part. *)

DaysOf(rule) == IF Has(rule, "BYDAY")
                THEN {Get(rule, "BYDAY")[i] : i \in DOMAIN Get(rule, "BYDAY")} ELSE {}

Meaning(rule) ==
  [frequency |-> Get(rule, "FREQ"),
   interval |-> IF Has(rule, "INTERVAL") THEN Get(rule, "INTERVAL") ELSE 1,
   days |-> DaysOf(rule),
   until |-> UntilDay(Get(rule, "UNTIL")),
   count |-> Get(rule, "COUNT")]

\* Turning one control of a rule's editor changes that side of the rule's
\* meaning and no other: the form is rebuilt from all its fields (frequency,
\* weekdays, interval, end), and each must come back as the rule had it.  A
\* rule beyond the editor is kept part by part whatever is submitted.
EditKeepsRest(rule, Number) ==
  LET form == Editor(rule)
      Means(f) == Meaning(Saved(rule, f, TRUE))
      was == Meaning(rule)
  IN  /\ IsComplexRRule(rule) =>
           \A touched \in BOOLEAN : Saved(rule, NoRule, touched) = rule
      /\ Editable(rule) /\ rule # <<>> =>
           /\ Means(form) = was
           /\ \A n \in Number :
                /\ Means([form EXCEPT !.interval = n])
                     = [was EXCEPT !.interval = n]
                /\ Means([form EXCEPT !.end = "count", !.count = n])
                     = [was EXCEPT !.count = n, !.until = Null]
                /\ Means([form EXCEPT !.end = "until", !.until = n])
                     = [was EXCEPT !.until = n, !.count = Null]
           /\ Means([form EXCEPT !.end = "never"])
                = [was EXCEPT !.until = Null, !.count = Null]
           /\ \A f \in Frequencies :
                Means([form EXCEPT !.frequency = f])
                  = [was EXCEPT !.frequency = f, !.days = {}]
           /\ \A d \in Days :
                Means([form EXCEPT !.frequency = "BYDAY", !.byDay = d])
                  = [was EXCEPT !.frequency = "WEEKLY", !.days = {d}]

-----------------------------------------------------------------------------
(* The words that stand for a rule. *)

Keys(rule) == {rule[i].key : i \in DOMAIN rule}

\* quickAddSimpleRecurrenceLabel: rules that quick add puts into words, the
\* others it shows as they are.
QuickAddSimple(rule) ==
  LET interval == Get(rule, "INTERVAL")
      byDay == Get(rule, "BYDAY")
  IN  /\ \A i, j \in DOMAIN rule : i # j => rule[i].key # rule[j].key
      /\ Has(rule, "FREQ") /\ Keys(rule) \subseteq {"FREQ", "INTERVAL", "BYDAY"}
      /\ interval # Null => interval > 0
      /\ IF byDay = Null THEN Get(rule, "FREQ") \in Frequencies
         ELSE /\ Get(rule, "FREQ") = "WEEKLY" /\ interval \in {Null, 1}
              /\ \/ byDay = Weekdays
                 \/ Len(byDay) = 1 /\ byDay[1] \in Days

QuickAddWords(rule) ==
  [frequency |-> Get(rule, "FREQ"), days |-> DaysOf(rule),
   interval |-> IF Has(rule, "INTERVAL") THEN Get(rule, "INTERVAL") ELSE 1,
   until |-> Null, count |-> Null]

\* taskRRuleLabel: a weekly rule on other days is just weekly here.
TaskWords(rule) ==
  [frequency |-> Get(rule, "FREQ"),
   days |-> IF Get(rule, "FREQ") = "WEEKLY" /\ Has(rule, "BYDAY") /\ EditableByDay(rule)
            THEN DaysOf(rule) ELSE {},
   interval |-> IF Has(rule, "INTERVAL") THEN Get(rule, "INTERVAL") ELSE 1,
   until |-> UntilDay(Get(rule, "UNTIL")), count |-> Get(rule, "COUNT")]

\* Words stand for a rule only where they say all that it means: in the quick
\* add preview, and in a task's details, which use them for editable rules.
\* (The conflict page uses them for every rule that is not complex, and shows
\* two weekly rules on different pairs of days as equal.)
WordsTell(rule) ==
  /\ QuickAddSimple(rule) => QuickAddWords(rule) = Meaning(rule)
  /\ Editable(rule) /\ rule # <<>> => TaskWords(rule) = Meaning(rule)
=============================================================================
