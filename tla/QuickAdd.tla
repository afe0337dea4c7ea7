------------------------------ MODULE QuickAdd ------------------------------
(* The parser of quick add: the words of one line become a title, a         *)
(* project, labels, a priority, a due day and a recurrence.  Words are      *)
(* given in lower case, with umlauts written out; a date is the number of   *)
(* its day, and day 0 is today.                                             *)
EXTENDS Integers, Sequences, SequencesExt

CONSTANTS ProjectName, LabelName,   \* well-formed "#" and "@" words: their names
          Number,                   \* words that are numbers: their values
          TodayWeekday,             \* 0 (Sunday) .. 6
          Null

R == INSTANCE Recurrence

Languages == {"de", "en"}

FrequencyWord ==
  [de |-> [taeglich |-> "DAILY", woechentlich |-> "WEEKLY",
           monatlich |-> "MONTHLY", jaehrlich |-> "YEARLY"],
   en |-> [daily |-> "DAILY", weekly |-> "WEEKLY",
           monthly |-> "MONTHLY", yearly |-> "YEARLY"]]
WeekdaysWord == [de |-> "werktags", en |-> "weekdays"]
EveryWord == [de |-> "jeden", en |-> "every"]
NextWord == [de |-> "naechsten", en |-> "next"]
DayUnits == [de |-> {"tagen", "tage"}, en |-> {"days", "day"}]
DayWord == [de |-> [heute |-> 0, morgen |-> 1, uebermorgen |-> 2],
            en |-> [today |-> 0, tomorrow |-> 1]]
IntervalUnit ==       \* German only
  [tag |-> "DAILY", tage |-> "DAILY", tagen |-> "DAILY",
   woche |-> "WEEKLY", wochen |-> "WEEKLY",
   monat |-> "MONTHLY", monate |-> "MONTHLY", monaten |-> "MONTHLY"]
WeekdayWord ==
  [de |-> [sonntag |-> 0, montag |-> 1, dienstag |-> 2, mittwoch |-> 3,
           donnerstag |-> 4, freitag |-> 5, samstag |-> 6],
   en |-> [sunday |-> 0, monday |-> 1, tuesday |-> 2, wednesday |-> 3,
           thursday |-> 4, friday |-> 5, saturday |-> 6]]
ICalDay == <<"SU", "MO", "TU", "WE", "TH", "FR", "SA">>

PriorityShortcut == [p1 |-> "high", p2 |-> "medium", p3 |-> "low"]
PriorityWord == "!high" :> "high" @@ "!1" :> "high" @@ "!medium" :> "medium"
             @@ "!2" :> "medium" @@ "!low" :> "low" @@ "!3" :> "low"
             @@ PriorityShortcut

\* Words that set a field wherever they stand.
Marker(w) == \/ w \in DOMAIN ProjectName
             \/ w \in DOMAIN LabelName
             \/ w \in DOMAIN PriorityWord

-----------------------------------------------------------------------------
(* A match at one place of the words: how many it takes, and its value. *)

NoMatch == [taken |-> 0, value |-> Null]
Match(n, v) == [taken |-> n, value |-> v]

Lower(words, i) == IF i <= Len(words) THEN words[i] ELSE ""

Weekly(days) == <<R!Part("FREQ", "WEEKLY"), R!Part("BYDAY", days)>>

MatchRecurrence(words, i, lang) ==
  LET w == words[i]
      second == Lower(words, i + 1)
      third == Lower(words, i + 2)
  IN  CASE w \in DOMAIN FrequencyWord[lang] ->
             Match(1, <<R!Part("FREQ", FrequencyWord[lang][w])>>)
        [] w = WeekdaysWord[lang] -> Match(1, Weekly(R!Weekdays))
        [] w = EveryWord[lang] /\ second \in DOMAIN WeekdayWord[lang] ->
             Match(2, Weekly(<<ICalDay[WeekdayWord[lang][second] + 1]>>))
        [] /\ w = "alle" /\ lang = "de"
           /\ second \in DOMAIN Number /\ third \in DOMAIN IntervalUnit ->
             IF Number[second] > 0
             THEN Match(3, <<R!Part("FREQ", IntervalUnit[third]),
                             R!Part("INTERVAL", Number[second])>>)
             ELSE NoMatch
        [] OTHER -> NoMatch

\* Mutant of NextWeekday: the weekday of today is today.
NextWeekdayToday(target) == (target - TodayWeekday + 7) % 7

\* nextWeekday: one to seven days ahead.
NextWeekday(target) ==
  LET days == (target - TodayWeekday + 7) % 7
  IN  IF days = 0 THEN 7 ELSE days

MatchDue(words, i, lang) ==
  LET w == words[i]
      second == Lower(words, i + 1)
      third == Lower(words, i + 2)
      Due(day, ambiguous) == [day |-> day, ambiguous |-> ambiguous]
  IN  CASE w \in DOMAIN DayWord[lang] -> Match(1, Due(DayWord[lang][w], FALSE))
        [] /\ w = "in" /\ second \in DOMAIN Number
           /\ third \in DayUnits[lang] ->
             IF Number[second] >= 0 THEN Match(3, Due(Number[second], FALSE))
             ELSE NoMatch
        [] w = NextWord[lang] /\ second \in DOMAIN WeekdayWord[lang] ->
             Match(2, Due(NextWeekday(WeekdayWord[lang][second]), FALSE))
        [] w \in DOMAIN WeekdayWord[lang] ->
             Match(1, Due(NextWeekday(WeekdayWord[lang][w]), TRUE))
        [] OTHER -> NoMatch

\* The first match (matches has one entry per word), with the words around it.
FirstMatch(words, matches) ==
  LET hits == {i \in DOMAIN words : matches[i].taken > 0}
      i == CHOOSE i \in hits : \A j \in hits : i <= j
  IN  IF hits = {} THEN [match |-> NoMatch, rest |-> words]
      ELSE [match |-> matches[i],
            rest |-> SubSeq(words, 1, i - 1)
                     \o SubSeq(words, i + matches[i].taken, Len(words))]

\* The last word of a kind decides; every label counts.
LastOf(words, names) ==
  LET named == SelectSeq(words, LAMBDA w : w \in DOMAIN names)
  IN  IF named = <<>> THEN Null ELSE names[named[Len(named)]]

ParseQuickAdd(words, lang) ==
  LET plain == SelectSeq(words, LAMBDA w : ~Marker(w))
      recurrence == FirstMatch(plain, [i \in DOMAIN plain |-> MatchRecurrence(plain, i, lang)])
      left == recurrence.rest
      due == FirstMatch(left, [i \in DOMAIN left |-> MatchDue(left, i, lang)])
  IN  [title |-> due.rest,
       project |-> LastOf(words, ProjectName),
       labels |-> {LabelName[w] : w \in {words[i] : i \in DOMAIN words}
                                        \cap DOMAIN LabelName},
       priority |-> LastOf(words, PriorityWord),
       due |-> due.match.value,
       recurrence |-> recurrence.match.value,
       taken |-> recurrence.match.taken + due.match.taken]

-----------------------------------------------------------------------------
(* What the parser promises. *)

\* Words the language gives a meaning to.
Vocabulary(lang) ==
  DOMAIN FrequencyWord[lang] \cup DOMAIN DayWord[lang]
  \cup DOMAIN WeekdayWord[lang] \cup DayUnits[lang] \cup DOMAIN IntervalUnit
  \cup DOMAIN Number \cup {WeekdaysWord[lang], EveryWord[lang], NextWord[lang],
                           "alle", "in"}

\* The draft shown in the preview loses nothing the user typed: the title is
\* what is left of the line, in its order; every word outside the vocabulary
\* of the language stays in it; the words missing are the markers and the two
\* phrases recognised.  A due day is never past and lies on the weekday that
\* was named, and a recurrence can be saved and later edited as it is.
DraftKeepsLine(words, lang) ==
  LET draft == ParseQuickAdd(words, lang)
      markers == SelectSeq(words, Marker)
      Foreign(w) == w \notin Vocabulary(lang) /\ ~Marker(w)
  IN  /\ Len(words) = Len(draft.title) + Len(markers) + draft.taken
      /\ SelectSeq(draft.title, Foreign) = SelectSeq(words, Foreign)
      /\ IsInjective([i \in DOMAIN words |-> words[i]]) =>
           \A i, j \in DOMAIN draft.title : i < j =>
             \E k, l \in DOMAIN words :
               k < l /\ words[k] = draft.title[i] /\ words[l] = draft.title[j]
      /\ draft.due # Null =>
           /\ draft.due.day >= 0
           /\ draft.due.ambiguous =>
                /\ draft.due.day \in 1 .. 7
                /\ \E i \in DOMAIN words :
                     /\ words[i] \in DOMAIN WeekdayWord[lang]
                     /\ WeekdayWord[lang][words[i]]
                          = (TodayWeekday + draft.due.day) % 7
      /\ draft.recurrence # Null =>
           /\ ~R!IsComplexRRule(draft.recurrence)
           /\ R!Editable(draft.recurrence)
           /\ R!EditKeepsRest(draft.recurrence, 1 .. 3)
=============================================================================
