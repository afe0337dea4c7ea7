-------------------------- MODULE Operators_proofs --------------------------
(***************************************************************************)
(* Lemmas about the operators that the modules are built from: numbers,    *)
(* texts and rows, which the proofs about TaskSync, TaskMove, Families and *)
(* Labels share; what the editor of recurrence rules and the words for     *)
(* them promise, for any rule; of the pages, that the system views divide  *)
(* the tasks, that the controls of a list decide how it is shown, and that *)
(* a form does not overwrite a filter it has not read; that the star of a  *)
(* task goes with its priority; and that conflicts and quick add do what   *)
(* their previews show, and suggest what fits.                             *)
(***************************************************************************)
EXTENDS TaskRows, SequenceTheorems, FiniteSetTheorems, WellFoundedInduction, TLAPS

CONSTANTS Today, Supported(_), Selects(_, _), SystemTitle \* those of Pages

\* NoText is no value of theirs either.
R == INSTANCE Recurrence WITH Null <- NoText
P == INSTANCE Pages WITH Null <- NoText

CONSTANTS Key, Spot,                 \* those of LabelFields, where Spot is Rank
          ProjectKey, Close, Pieces, Limit, LabelLimit \* those of QuickAddCreate

L == INSTANCE LabelFields WITH Null <- NoText, Rank <- Spot
C == INSTANCE ConflictForm WITH Null <- NoText, Rank <- Spot
Q == INSTANCE QuickAddCreate WITH Null <- NoText, Rank <- Spot, Within <- Close

-----------------------------------------------------------------------------
(* Numbers.                                                                *)

\* Of finitely many numbers one is the highest: a smallest set of them that
\* has none would have none without one of its members either.
LEMMA HighestExists ==
    ASSUME NEW S, IsFiniteSet(S), S # {}, NEW f \in [S -> Nat]
    PROVE  \E c \in S : \A d \in S : f[d] <= f[c]
<1> DEFINE bad == {T \in SUBSET S : T # {} /\ ~ \E c \in T : \A d \in T : f[d] <= f[c]}
<1> SUFFICES ASSUME bad # {} PROVE FALSE
  OBVIOUS
<1>1. FiniteSubsetsOf(S) = SUBSET S
  BY FS_FiniteSubsetsOfFinite
<1>2. IsWellFoundedOn(StrictSubsetOrdering(S), SUBSET S)
  BY <1>1, FS_StrictSubsetOrderingWellFounded
<1>3. PICK T \in bad : \A U \in bad : <<U, T>> \notin StrictSubsetOrdering(S)
  <2>1. bad \subseteq SUBSET S
    OBVIOUS
  <2> HIDE DEF bad
  <2> QED
    BY <1>2, <2>1, WFMin
<1>4. PICK x \in T : TRUE
  OBVIOUS
<1> DEFINE U == T \ {x}
<1>5. U \notin bad /\ U \in SUBSET S
  BY <1>3, <1>4 DEF StrictSubsetOrdering
<1>6. U # {}
  OBVIOUS
<1>7. PICK c \in U : \A d \in U : f[d] <= f[c]
  BY <1>5, <1>6
<1>8. c \in T /\ c \in S /\ x \in S /\ \A d \in T : d = x \/ f[d] <= f[c]
  BY <1>3, <1>4, <1>7
<1>9. \A d \in T : f[d] \in Nat
  BY <1>3
<1>10. CASE f[x] <= f[c]
  <2>1. \A d \in T : f[d] <= f[c]
    BY <1>8, <1>10
  <2> QED
    BY <1>3, <1>8, <2>1
<1>11. CASE f[c] < f[x]
  <2>1. \A d \in T : f[d] <= f[x]
    BY <1>4, <1>8, <1>9, <1>11
  <2> QED
    BY <1>3, <1>4, <2>1
<1> QED
  BY <1>4, <1>8, <1>9, <1>10, <1>11

\* A set of numbers up to n has a least one: how a loop is reasoned about.
LEMMA LeastExists ==
    ASSUME NEW n \in Nat, NEW S \in SUBSET (0 .. n), S # {}
    PROVE  \E k \in S : \A j \in S : k <= j
<1> DEFINE f == [i \in S |-> n - i]
<1>1. IsFiniteSet(S)
  <2>1. IsFiniteSet(0 .. n)
    BY FS_Interval
  <2> QED
    BY <2>1, FS_Subset
<1>2. f \in [S -> Nat]
  OBVIOUS
<1>3. PICK k \in S : \A j \in S : f[j] <= f[k]
  <2> HIDE DEF f
  <2> QED
    BY <1>1, <1>2, HighestExists
<1> QED
  BY <1>3

-----------------------------------------------------------------------------
(* Texts and rows.                                                          *)

\* What a patch makes of a text is a text.
LEMMA PatchedType ==
    ASSUME NEW content \in Content, NEW patch \in Patch
    PROVE  Patched(content, patch) \in Content
BY DEF Patched, Patch, Content

\* What the merge makes of three texts is a text.
LEMMA MergedType ==
    ASSUME NEW base \in Content, NEW local \in Content, NEW remote \in Content
    PROVE  MergedVTODO(base, local, remote) \in Content
<1> DEFINE merged == [f \in KnownField |-> IF Changed(base, local, f)
                                          THEN local[f] ELSE remote[f]]
<1>1. \A f \in KnownField : merged[f] \in Value
  BY VtodoAssumption DEF Content
<1>2. \A f \in Field : Patched(base, merged)[f] \in Value
  BY <1>1 DEF Patched, Content
<1> QED
  BY <1>2 DEF MergedVTODO, Patched, Content

\* The texts that are not the empty one.
LEMMA ContentText == Content \subseteq Text /\ \A t \in Text : t # NoText => t \in Content
BY DEF Text

\* What the operations make of a row.
LEMMA PendingRowOK ==
    ASSUME NEW row \in Row, NEW content \in Content
    PROVE  /\ Pending(row, content) \in Row
           /\ Pending(row, content).ver = row.ver + 1
           /\ Pending(row, content).raw = content
           /\ Pending(row, content).etag = row.etag
           /\ Pending(row, content).status = "pending"
<1>1. row.ver + 1 \in Nat /\ "pending" \in SyncStatus
  BY DEF Row, SyncStatus
<1> QED
  BY <1>1 DEF Pending, Row

LEMMA SyncedRowOK ==
    ASSUME NEW row \in Row, NEW etag \in Nat
    PROVE  /\ Synced(row, etag) \in Row
           /\ Synced(row, etag).ver = row.ver + 1
           /\ Synced(row, etag).raw = row.raw
           /\ Synced(row, etag).etag = etag
           /\ Synced(row, etag).status = "synced"
<1>1. row.ver + 1 \in Nat /\ "synced" \in SyncStatus
  BY DEF Row, SyncStatus
<1> QED
  BY <1>1 DEF Synced, Row

LEMMA ImportedAgainOK ==
    ASSUME NEW row \in Row, NEW content \in Content, NEW etag \in Nat
    PROVE  /\ Imported(row, content, etag) \in Row
           /\ Imported(row, content, etag).ver = row.ver + 1
           /\ Imported(row, content, etag).raw = content
           /\ Imported(row, content, etag).etag = etag
           /\ Imported(row, content, etag).status = "synced"
<1>1. row.ver + 1 \in Nat /\ "synced" \in SyncStatus
  BY DEF Row, SyncStatus
<1> QED
  BY <1>1 DEF Imported, Row

LEMMA ConflictedRowOK ==
    ASSUME NEW row \in Row, NEW etag \in Nat
    PROVE  /\ Conflicted(row, etag) \in Row
           /\ Conflicted(row, etag).ver = row.ver
           /\ Conflicted(row, etag).raw = row.raw
           /\ Conflicted(row, etag).etag = IF etag = 0 THEN row.etag ELSE etag
           /\ Conflicted(row, etag).status = "conflict"
BY DEF Conflicted, Row, SyncStatus

LEMMA StatusRowOK ==
    ASSUME NEW row \in Row, NEW status \in SyncStatus
    PROVE  /\ [row EXCEPT !.status = status] \in Row
           /\ [row EXCEPT !.status = status].ver = row.ver
           /\ [row EXCEPT !.status = status].raw = row.raw
           /\ [row EXCEPT !.status = status].etag = row.etag
           /\ [row EXCEPT !.status = status].status = status
BY DEF Row

LEMMA NewRowOK ==
    ASSUME NEW content \in Content, NEW etag \in Nat
    PROVE  /\ ImportedRow(content, etag) \in Row
           /\ ImportedRow(content, etag).ver = 1
           /\ ImportedRow(content, etag).raw = content
           /\ ImportedRow(content, etag).etag = etag
           /\ ImportedRow(content, etag).status = "synced"
           /\ PendingRow(content) \in Row
           /\ PendingRow(content).ver = 1
           /\ PendingRow(content).raw = content
           /\ PendingRow(content).status = "pending"
BY DEF ImportedRow, PendingRow, Row, SyncStatus

\* All of them yield rows.
LEMMA RowTypes ==
    ASSUME NEW row \in Row, NEW content \in Content, NEW etag \in Nat,
           NEW status \in SyncStatus
    PROVE  /\ Pending(row, content) \in Row
           /\ [Pending(row, content) EXCEPT !.base = content] \in Row
           /\ Synced(row, etag) \in Row
           /\ [Synced(row, etag) EXCEPT !.raw = content] \in Row
           /\ Imported(row, content, etag) \in Row
           /\ Conflicted(row, etag) \in Row
           /\ [row EXCEPT !.status = status] \in Row
           /\ PendingRow(content) \in Row
           /\ ImportedRow(content, etag) \in Row
<1>1. /\ [Pending(row, content) EXCEPT !.base = content] \in Row
      /\ [Synced(row, etag) EXCEPT !.raw = content] \in Row
  BY PendingRowOK, SyncedRowOK DEF Row
<1> QED
  BY <1>1, PendingRowOK, SyncedRowOK, ImportedAgainOK, ConflictedRowOK, StatusRowOK,
     NewRowOK

\* What a scan decides about a row with and without an object.
LEMMA VerdictTypes ==
    ASSUME NEW row, NEW remote, NEW etag
    PROVE  /\ Verdict(row, remote, etag) \in {"keep", "import", "merge", "field_conflict"}
           /\ MissingVerdict(row) \in {"keep", "delete", "edit_delete"}
           /\ row.status = "conflict" => /\ Verdict(row, remote, etag) = "keep"
                                         /\ MissingVerdict(row) = "keep"
<1>1. MissingVerdict(row) \in {"keep", "delete", "edit_delete"}
  BY DEF MissingVerdict
<1>2. Verdict(row, remote, etag) \in {"keep", "import", "merge", "field_conflict"}
  <2> DEFINE v == Verdict(row, remote, etag)
  <2>1. v = "keep" \/ v = "import" \/ v = "merge" \/ v = "field_conflict"
    BY Zenon DEF Verdict, VerdictIf
  <2> QED
    BY <2>1
<1>3. row.status = "conflict" => /\ Verdict(row, remote, etag) = "keep"
                                 /\ MissingVerdict(row) = "keep"
  <2>1. row.status = "conflict" => Verdict(row, remote, etag) = "keep"
    BY Zenon DEF Verdict, VerdictIf
  <2>2. row.status = "conflict" => MissingVerdict(row) = "keep"
    BY DEF MissingVerdict, Clean
  <2> QED
    BY <2>1, <2>2
<1> QED
  BY <1>1, <1>2, <1>3

\* What a scan makes of a row is a row.
LEMMA AfterVerdictType ==
    ASSUME NEW row \in Row, NEW etag \in Nat, NEW remote \in Text,
           NEW verdict \in {"keep", "import", "merge", "field_conflict",
                            "edit_delete", "delete"},
           verdict \in {"import", "merge"} => remote # NoText
    PROVE  AfterVerdict(row, verdict, remote, etag) \in Row
<1>1. row.base \in Content /\ row.raw \in Content
  BY DEF Row
<1>2. CASE verdict \in {"keep", "import"}
  BY <1>2, ImportedAgainOK, ContentText DEF AfterVerdict
<1>3. CASE verdict = "merge"
  <2>1. MergedVTODO(row.base, row.raw, remote) \in Content
    BY <1>1, <1>3, MergedType, ContentText
  <2> QED
    BY <2>1, <1>3, ImportedAgainOK DEF AfterVerdict
<1>4. CASE verdict \in {"field_conflict", "edit_delete"}
  BY <1>4, ConflictedRowOK DEF AfterVerdict
<1>5. CASE verdict = "delete"
  BY <1>5, StatusRowOK DEF AfterVerdict, SyncStatus
<1> QED
  BY <1>2, <1>3, <1>4, <1>5

\* A row that knows an etag knows one after a scan.
LEMMA AfterVerdictETag ==
    ASSUME NEW row \in Row, NEW etag \in Nat, NEW remote \in Text,
           NEW verdict \in {"keep", "import", "merge", "field_conflict",
                            "edit_delete", "delete"},
           verdict \in {"import", "merge"} => remote # NoText /\ etag # 0,
           row.etag # 0
    PROVE  AfterVerdict(row, verdict, remote, etag).etag # 0
<1>1. row.base \in Content /\ row.raw \in Content
  BY DEF Row
<1>2. CASE verdict \in {"keep", "import"}
  BY <1>2, ImportedAgainOK, ContentText DEF AfterVerdict
<1>3. CASE verdict = "merge"
  <2>1. MergedVTODO(row.base, row.raw, remote) \in Content
    BY <1>1, <1>3, MergedType, ContentText
  <2> QED
    BY <2>1, <1>3, ImportedAgainOK DEF AfterVerdict
<1>4. CASE verdict \in {"field_conflict", "edit_delete"}
  BY <1>4, ConflictedRowOK DEF AfterVerdict
<1>5. CASE verdict = "delete"
  BY <1>5, StatusRowOK DEF AfterVerdict, SyncStatus
<1> QED
  BY <1>2, <1>3, <1>4, <1>5

-----------------------------------------------------------------------------
(* Recurrence rules.                                                        *)

\* Rules as they are parsed, any parts in any order: the value of a part is
\* what its key asks for, and Word are the words there are.
UntilDate == [day : Nat, form : {"date", "utc", "local"}]

KnownKey == {"FREQ", "INTERVAL", "COUNT", "BYDAY", "UNTIL"}

RulePart(Word) == [key : {"FREQ"}, value : Word]
                  \cup [key : {"INTERVAL", "COUNT"}, value : Nat]
                  \cup [key : {"BYDAY"}, value : Seq(Word)]
                  \cup [key : {"UNTIL"}, value : UntilDate]
                  \cup [key : Word \ KnownKey, value : Word]

Values(Word) == Word \cup Nat \cup Seq(Word) \cup UntilDate

\* Get, by the last part with the key.
LEMMA GetLast ==
    ASSUME NEW rule, NEW key, DOMAIN rule \subseteq Nat, NEW i \in DOMAIN rule,
           rule[i].key = key, \A j \in DOMAIN rule : rule[j].key = key => j <= i
    PROVE  R!Has(rule, key) /\ R!Get(rule, key) = rule[i].value
<1> DEFINE Last(k) == /\ rule[k].key = key
                      /\ \A j \in DOMAIN rule : rule[j].key = key => j <= k
<1>1. \A k \in DOMAIN rule : Last(k) => k = i
  OBVIOUS
<1>2. Last(i)
  OBVIOUS
<1>3. (CHOOSE k \in DOMAIN rule : Last(k)) = i
  <2> HIDE DEF Last
  <2> QED
    BY <1>1, <1>2
<1>4. R!Has(rule, key)
  BY DEF R!Has
<1> QED
  BY <1>3, <1>4 DEF R!Get

LEMMA LastExists ==
    ASSUME NEW S, NEW rule \in Seq(S), NEW key, R!Has(rule, key)
    PROVE  \E i \in DOMAIN rule :
              /\ rule[i].key = key
              /\ \A j \in DOMAIN rule : rule[j].key = key => j <= i
<1> DEFINE found == {i \in DOMAIN rule : rule[i].key = key}
<1>1. DOMAIN rule = 1 .. Len(rule) /\ Len(rule) \in Nat
  BY LenProperties
<1>2. IsFiniteSet(1 .. Len(rule))
  BY <1>1, FS_Interval
<1> DEFINE self == [i \in found |-> i]
<1>3. IsFiniteSet(found) /\ found # {} /\ self \in [found -> Nat]
  <2>1. found \subseteq 1 .. Len(rule)
    BY <1>1
  <2> QED
    BY <1>1, <1>2, <2>1, FS_Subset DEF R!Has
<1>4. PICK i \in found : \A j \in found : self[j] <= self[i]
  <2> HIDE DEF found, self
  <2> QED
    BY <1>3, HighestExists
<1> QED
  BY <1>4

\* The value of a key is that of a part with the key.
LEMMA GetHas ==
    ASSUME NEW S, NEW rule \in Seq(S), NEW key, R!Has(rule, key)
    PROVE  \E i \in DOMAIN rule : rule[i].key = key /\ R!Get(rule, key) = rule[i].value
<1>1. PICK i \in DOMAIN rule :
              /\ rule[i].key = key
              /\ \A j \in DOMAIN rule : rule[j].key = key => j <= i
  BY LastExists
<1>2. DOMAIN rule \subseteq Nat
  BY LenProperties
<1> QED
  BY <1>1, <1>2, GetLast

\* In two lists the later part counts.
LEMMA GetConcat ==
    ASSUME NEW S, NEW a \in Seq(S), NEW b \in Seq(S), NEW key
    PROVE  /\ R!Has(a \o b, key) <=> R!Has(a, key) \/ R!Has(b, key)
           /\ R!Get(a \o b, key) = IF R!Has(b, key) THEN R!Get(b, key) ELSE R!Get(a, key)
<1> DEFINE all == a \o b
<1>1. /\ all \in Seq(S) /\ Len(all) = Len(a) + Len(b)
      /\ \A i \in 1 .. Len(all) : all[i] = IF i <= Len(a) THEN a[i] ELSE b[i - Len(a)]
  BY ConcatProperties
<1>2. /\ DOMAIN a = 1 .. Len(a) /\ Len(a) \in Nat
      /\ DOMAIN b = 1 .. Len(b) /\ Len(b) \in Nat
      /\ DOMAIN all = 1 .. Len(all)
  BY <1>1, LenProperties
<1> HIDE DEF all
<1>3. \A i \in DOMAIN a : i \in DOMAIN all /\ all[i] = a[i]
  BY <1>1, <1>2
<1>4. \A i \in DOMAIN b : Len(a) + i \in DOMAIN all /\ all[Len(a) + i] = b[i]
  BY <1>1, <1>2
<1>5. \A i \in DOMAIN all : \/ i \in DOMAIN a
                            \/ i - Len(a) \in DOMAIN b /\ all[i] = b[i - Len(a)]
  BY <1>1, <1>2
<1>6. R!Has(all, key) <=> R!Has(a, key) \/ R!Has(b, key)
  BY <1>3, <1>4, <1>5 DEF R!Has
<1>7. CASE R!Has(b, key)
  <2>1. PICK i \in DOMAIN b :
                 /\ b[i].key = key
                 /\ \A j \in DOMAIN b : b[j].key = key => j <= i
    BY <1>7, LastExists
  <2>2. R!Get(b, key) = b[i].value
    BY <1>2, <2>1, GetLast
  <2>3. Len(a) + i \in DOMAIN all /\ all[Len(a) + i] = b[i]
    BY <1>4, <2>1
  <2>4. \A j \in DOMAIN all : all[j].key = key => j <= Len(a) + i
    BY <1>1, <1>2, <1>5, <2>1
  <2>5. R!Get(all, key) = all[Len(a) + i].value
    BY <1>2, <2>1, <2>3, <2>4, GetLast
  <2> QED
    BY <1>6, <1>7, <2>2, <2>3, <2>5 DEF all
<1>8. CASE ~R!Has(b, key) /\ R!Has(a, key)
  <2>1. PICK i \in DOMAIN a :
                 /\ a[i].key = key
                 /\ \A j \in DOMAIN a : a[j].key = key => j <= i
    BY <1>8, LastExists
  <2>2. R!Get(a, key) = a[i].value
    BY <1>2, <2>1, GetLast
  <2>3. \A j \in DOMAIN all : all[j].key = key => j \in DOMAIN a
    BY <1>5, <1>8 DEF R!Has
  <2>4. R!Get(all, key) = all[i].value
    BY <1>2, <1>3, <2>1, <2>3, GetLast
  <2> QED
    BY <1>3, <1>6, <1>8, <2>1, <2>2, <2>4 DEF all
<1>9. CASE ~R!Has(b, key) /\ ~R!Has(a, key)
  BY <1>6, <1>9 DEF R!Get, all
<1> QED
  BY <1>7, <1>8, <1>9

LEMMA GetNothing ==
    ASSUME NEW key
    PROVE  ~R!Has(<<>>, key) /\ R!Get(<<>>, key) = NoText
BY DEF R!Has, R!Get

LEMMA GetOne ==
    ASSUME NEW k, NEW v, NEW key
    PROVE  /\ R!Has(<<R!Part(k, v)>>, key) <=> k = key
           /\ R!Get(<<R!Part(k, v)>>, key) = IF k = key THEN v ELSE NoText
<1> DEFINE rule == <<R!Part(k, v)>>
<1>1. DOMAIN rule = {1} /\ rule[1].key = k /\ rule[1].value = v
  BY DEF R!Part
<1> HIDE DEF rule
<1>2. R!Has(rule, key) <=> k = key
  BY <1>1 DEF R!Has
<1>3. CASE k = key
  BY <1>1, <1>2, <1>3, GetLast DEF rule
<1>4. CASE k # key
  BY <1>2, <1>4 DEF R!Get, rule
<1> QED
  BY <1>2, <1>3, <1>4 DEF rule

-----------------------------------------------------------------------------
\* The parts a form can ask for.
PartsOf(form) == {R!Part("FREQ", "WEEKLY"), R!Part("FREQ", form.frequency),
                  R!Part("BYDAY", R!Weekdays), R!Part("BYDAY", <<form.byDay>>),
                  R!Part("INTERVAL", form.interval), R!Part("COUNT", form.count),
                  R!Part("UNTIL", R!Until(form.until, "utc"))}

FormDays(form) == CASE form.frequency = "WEEKDAYS" -> {"MO", "TU", "WE", "TH", "FR"}
                    [] form.frequency = "BYDAY" -> {form.byDay}
                    [] OTHER -> {}

FormMeaning(form) ==
    [frequency |-> IF form.frequency \in {"WEEKDAYS", "BYDAY"} THEN "WEEKLY"
                   ELSE form.frequency,
     interval |-> IF form.interval > 1 THEN form.interval ELSE 1,
     days |-> FormDays(form),
     until |-> IF form.end = "until" THEN form.until ELSE NoText,
     count |-> IF form.end = "count" THEN form.count ELSE NoText]

LEMMA GetTwo ==
    ASSUME NEW k, NEW v, NEW l, NEW w, k # l, NEW key
    PROVE  LET rule == <<R!Part(k, v), R!Part(l, w)>>
           IN  /\ R!Has(rule, key) <=> key \in {k, l}
               /\ R!Get(rule, key) = IF key = l THEN w ELSE IF key = k THEN v ELSE NoText
<1> DEFINE rule == <<R!Part(k, v), R!Part(l, w)>>
<1>1. /\ DOMAIN rule = {1, 2} /\ rule[1].key = k /\ rule[1].value = v
      /\ rule[2].key = l /\ rule[2].value = w
  BY DEF R!Part
<1> HIDE DEF rule
<1>2. R!Has(rule, key) <=> key \in {k, l}
  BY <1>1 DEF R!Has
<1>3. R!Get(rule, key) = IF key = l THEN w ELSE IF key = k THEN v ELSE NoText
  <2>1. CASE key = k
    <3>1. \A j \in DOMAIN rule : rule[j].key = key => j <= 1
      BY <1>1, <2>1
    <3> QED
      BY <1>1, <2>1, <3>1, GetLast
  <2>2. CASE key = l
    <3>1. \A j \in DOMAIN rule : rule[j].key = key => j <= 2
      BY <1>1
    <3> QED
      BY <1>1, <2>2, <3>1, GetLast
  <2>3. CASE key \notin {k, l}
    BY <1>2, <2>3 DEF R!Get
  <2> QED
    BY <2>1, <2>2, <2>3
<1> QED
  BY <1>2, <1>3 DEF rule

LEMMA FrequencyPartsMean ==
    ASSUME NEW form
    PROVE  LET parts == R!FrequencyParts(form)
           IN  /\ parts \in Seq(PartsOf(form))
               /\ R!Get(parts, "FREQ") = FormMeaning(form).frequency
               /\ R!Has(parts, "BYDAY") <=> form.frequency \in {"WEEKDAYS", "BYDAY"}
               /\ R!Get(parts, "BYDAY") = CASE form.frequency = "WEEKDAYS" -> R!Weekdays
                                          [] form.frequency = "BYDAY" -> <<form.byDay>>
                                          [] OTHER -> NoText
               /\ \A key \in {"INTERVAL", "UNTIL", "COUNT"} : ~R!Has(parts, key)
<1> DEFINE Any == PartsOf(form)
           first == R!Part("FREQ", "WEEKLY")
           plain == R!Part("FREQ", form.frequency)
           days == R!Part("BYDAY", R!Weekdays)
           day == R!Part("BYDAY", <<form.byDay>>)
<1>1. first \in Any /\ plain \in Any /\ days \in Any /\ day \in Any
  BY DEF PartsOf
<1>2. FormMeaning(form).frequency = IF form.frequency \in {"WEEKDAYS", "BYDAY"}
                                    THEN "WEEKLY" ELSE form.frequency
  BY DEF FormMeaning
<1>3. CASE form.frequency \notin {"WEEKDAYS", "BYDAY"}
  <2>1. R!FrequencyParts(form) = <<plain>>
    BY <1>3 DEF R!FrequencyParts
  <2>2. <<plain>> \in Seq(Any)
    BY <1>1
  <2> QED
    BY <1>2, <1>3, <2>1, <2>2, GetOne
<1>4. CASE form.frequency = "WEEKDAYS"
  <2> DEFINE parts == <<first, days>>
  <2>1. R!FrequencyParts(form) = parts
    BY <1>4 DEF R!FrequencyParts
  <2>2. parts \in Seq(Any)
    BY <1>1
  <2>3. \A key : /\ R!Has(parts, key) <=> key \in {"FREQ", "BYDAY"}
                 /\ R!Get(parts, key) = IF key = "BYDAY" THEN R!Weekdays
                                      ELSE IF key = "FREQ" THEN "WEEKLY" ELSE NoText
    BY GetTwo
  <2> HIDE DEF parts, Any
  <2> QED
    BY <1>2, <1>4, <2>1, <2>2, <2>3 DEF Any
<1>5. CASE form.frequency = "BYDAY"
  <2> DEFINE parts == <<first, day>>
  <2>1. R!FrequencyParts(form) = parts
    BY <1>5 DEF R!FrequencyParts
  <2>2. parts \in Seq(Any)
    BY <1>1
  <2>3. \A key : /\ R!Has(parts, key) <=> key \in {"FREQ", "BYDAY"}
                 /\ R!Get(parts, key) = IF key = "BYDAY" THEN <<form.byDay>>
                                      ELSE IF key = "FREQ" THEN "WEEKLY" ELSE NoText
    BY GetTwo
  <2> HIDE DEF parts, Any
  <2> QED
    BY <1>2, <1>5, <2>1, <2>2, <2>3 DEF Any
<1> QED
  BY <1>3, <1>4, <1>5

LEMMA IntervalPartsMean ==
    ASSUME NEW form, NEW key
    PROVE  /\ R!IntervalParts(form) \in Seq(PartsOf(form))
           /\ R!Has(R!IntervalParts(form), key) <=> key = "INTERVAL" /\ form.interval > 1
           /\ key # "INTERVAL" => R!Get(R!IntervalParts(form), key) = NoText
           /\ form.interval > 1 => R!Get(R!IntervalParts(form), "INTERVAL") = form.interval
<1> DEFINE part == R!Part("INTERVAL", form.interval)
<1>1. <<part>> \in Seq(PartsOf(form)) /\ <<>> \in Seq(PartsOf(form))
  <2>1. part \in PartsOf(form)
    BY DEF PartsOf
  <2> HIDE DEF part
  <2> QED
    BY <2>1
<1>2. CASE form.interval > 1
  BY <1>1, <1>2, GetOne DEF R!IntervalParts
<1>3. CASE ~(form.interval > 1)
  BY <1>1, <1>3, GetNothing DEF R!IntervalParts
<1> QED
  BY <1>2, <1>3

HasEnd(form, key) == \/ key = "UNTIL" /\ form.end = "until" /\ form.until # NoText
                     \/ key = "COUNT" /\ form.end = "count" /\ form.count # NoText

LEMMA EndPartsMean ==
    ASSUME NEW form, NEW key
    PROVE  /\ R!EndParts(form) \in Seq(PartsOf(form))
           /\ R!Has(R!EndParts(form), key) <=> HasEnd(form, key)
           /\ HasEnd(form, key) => R!Get(R!EndParts(form), key)
                 = IF key = "UNTIL" THEN R!Until(form.until, "utc") ELSE form.count
           /\ ~HasEnd(form, key) => R!Get(R!EndParts(form), key) = NoText
<1> DEFINE until == R!Part("UNTIL", R!Until(form.until, "utc"))
           count == R!Part("COUNT", form.count)
<1>1. <<until>> \in Seq(PartsOf(form)) /\ <<count>> \in Seq(PartsOf(form))
      /\ <<>> \in Seq(PartsOf(form))
  <2>1. until \in PartsOf(form) /\ count \in PartsOf(form)
    BY DEF PartsOf
  <2> HIDE DEF until, count
  <2> QED
    BY <2>1
<1>2. CASE form.end = "until" /\ form.until # NoText
  <2>1. R!EndParts(form) = <<until>>
    BY <1>2 DEF R!EndParts
  <2> QED
    BY <1>1, <1>2, <2>1, GetOne DEF HasEnd
<1>3. CASE form.end = "count" /\ form.count # NoText
  <2>1. R!EndParts(form) = <<count>>
    BY <1>3 DEF R!EndParts
  <2> QED
    BY <1>1, <1>3, <2>1, GetOne DEF HasEnd
<1>4. CASE /\ ~(form.end = "until" /\ form.until # NoText)
           /\ ~(form.end = "count" /\ form.count # NoText)
  <2>1. R!EndParts(form) = <<>>
    BY <1>4 DEF R!EndParts
  <2> QED
    BY <1>1, <1>4, <2>1, GetNothing DEF HasEnd
<1> QED
  BY <1>2, <1>3, <1>4

LEMMA DaySets ==
    ASSUME NEW byDay
    PROVE  /\ byDay = R!Weekdays =>
                  {byDay[i] : i \in DOMAIN byDay} = {"MO", "TU", "WE", "TH", "FR"}
           /\ \A d : byDay = <<d>> => {byDay[i] : i \in DOMAIN byDay} = {d}
<1>1. ASSUME NEW d, byDay = <<d>> PROVE {byDay[i] : i \in DOMAIN byDay} = {d}
  <2>1. DOMAIN byDay = {1} /\ byDay[1] = d
    BY <1>1
  <2> QED
    BY <2>1
<1>2. ASSUME byDay = R!Weekdays
      PROVE {byDay[i] : i \in DOMAIN byDay} = {"MO", "TU", "WE", "TH", "FR"}
  <2>1. /\ DOMAIN byDay = {1, 2, 3, 4, 5}
        /\ byDay[1] = "MO" /\ byDay[2] = "TU" /\ byDay[3] = "WE"
        /\ byDay[4] = "TH" /\ byDay[5] = "FR"
    BY <1>2 DEF R!Weekdays
  <2> QED
    BY <2>1
<1> QED
  BY <1>1, <1>2

\* A rule built from a form means what the form shows.
LEMMA BuiltMeans ==
    ASSUME NEW form, form.frequency # "NONE", NoText \notin UntilDate,
           form.until \in Nat \cup {NoText}, form.count \in Nat \cup {NoText}
    PROVE  R!Meaning(R!BuildExplicitRRule(form)) = FormMeaning(form)
<1> DEFINE a == R!FrequencyParts(form)
           b == R!IntervalParts(form)
           c == R!EndParts(form)
           all == a \o b \o c
<1>1. /\ a \in Seq(PartsOf(form)) /\ b \in Seq(PartsOf(form)) /\ c \in Seq(PartsOf(form))
      /\ a \o b \in Seq(PartsOf(form))
  BY FrequencyPartsMean, IntervalPartsMean, EndPartsMean, ConcatProperties
<1>2. \A key : /\ R!Has(all, key) <=> R!Has(a, key) \/ R!Has(b, key) \/ R!Has(c, key)
               /\ R!Get(all, key) = IF R!Has(c, key) THEN R!Get(c, key)
                                  ELSE IF R!Has(b, key) THEN R!Get(b, key)
                                       ELSE R!Get(a, key)
  <2> SUFFICES ASSUME NEW key
               PROVE  /\ R!Has(all, key) <=> R!Has(a, key) \/ R!Has(b, key) \/ R!Has(c, key)
                      /\ R!Get(all, key) = IF R!Has(c, key) THEN R!Get(c, key)
                                         ELSE IF R!Has(b, key) THEN R!Get(b, key)
                                       ELSE R!Get(a, key)
    OBVIOUS
  <2> HIDE DEF a, b, c
  <2>1. /\ R!Has(a \o b, key) <=> R!Has(a, key) \/ R!Has(b, key)
        /\ R!Get(a \o b, key) = IF R!Has(b, key) THEN R!Get(b, key) ELSE R!Get(a, key)
    BY <1>1, GetConcat
  <2>2. /\ R!Has(all, key) <=> R!Has(a \o b, key) \/ R!Has(c, key)
        /\ R!Get(all, key) = IF R!Has(c, key) THEN R!Get(c, key) ELSE R!Get(a \o b, key)
    BY <1>1, GetConcat
  <2> HIDE DEF all
  <2> QED
    BY <2>1, <2>2
<1>3. R!BuildExplicitRRule(form) = all
  BY DEF R!BuildExplicitRRule
<1>4. /\ R!Get(a, "FREQ") = FormMeaning(form).frequency
      /\ R!Has(a, "BYDAY") <=> form.frequency \in {"WEEKDAYS", "BYDAY"}
      /\ form.frequency = "WEEKDAYS" => R!Get(a, "BYDAY") = R!Weekdays
      /\ form.frequency = "BYDAY" => R!Get(a, "BYDAY") = <<form.byDay>>
      /\ ~R!Has(a, "INTERVAL") /\ ~R!Has(a, "UNTIL") /\ ~R!Has(a, "COUNT")
  BY FrequencyPartsMean
<1>5. /\ \A key : R!Has(b, key) <=> key = "INTERVAL" /\ form.interval > 1
      /\ form.interval > 1 => R!Get(b, "INTERVAL") = form.interval
  BY IntervalPartsMean
<1>6. \A key : /\ R!Has(c, key) <=> HasEnd(form, key)
               /\ HasEnd(form, key) => R!Get(c, key)
                    = IF key = "UNTIL" THEN R!Until(form.until, "utc") ELSE form.count
  BY EndPartsMean
<1> HIDE DEF a, b, c, all
<1>7. R!Get(all, "FREQ") = FormMeaning(form).frequency
  BY <1>2, <1>4, <1>5, <1>6 DEF HasEnd
<1>8. (IF R!Has(all, "INTERVAL") THEN R!Get(all, "INTERVAL") ELSE 1)
         = IF form.interval > 1 THEN form.interval ELSE 1
  BY <1>2, <1>4, <1>5, <1>6 DEF HasEnd
<1>9. R!DaysOf(all) = FormDays(form)
  <2>1. R!Has(all, "BYDAY") <=> form.frequency \in {"WEEKDAYS", "BYDAY"}
    BY <1>2, <1>4, <1>5, <1>6 DEF HasEnd
  <2>2. R!Get(all, "BYDAY") = R!Get(a, "BYDAY")
    BY <1>2, <1>5, <1>6 DEF HasEnd
  <2>3. CASE form.frequency = "WEEKDAYS"
    BY <1>4, <2>1, <2>2, <2>3, DaySets DEF R!DaysOf, FormDays
  <2>4. CASE form.frequency = "BYDAY"
    BY <1>4, <2>1, <2>2, <2>4, DaySets DEF R!DaysOf, FormDays
  <2>5. CASE form.frequency \notin {"WEEKDAYS", "BYDAY"}
    BY <2>1, <2>5 DEF R!DaysOf, FormDays
  <2> QED
    BY <2>3, <2>4, <2>5
<1>10. R!UntilDay(R!Get(all, "UNTIL")) = IF form.end = "until" THEN form.until ELSE NoText
  <2>1. CASE HasEnd(form, "UNTIL")
    <3>1. /\ R!Get(all, "UNTIL") = R!Until(form.until, "utc")
          /\ form.until \in Nat /\ form.end = "until"
      BY <1>2, <1>6, <2>1 DEF HasEnd
    <3>2. R!Until(form.until, "utc") \in UntilDate
      BY <3>1 DEF R!Until, UntilDate
    <3> QED
      BY <3>1, <3>2 DEF R!UntilDay, R!Until
  <2>2. CASE ~HasEnd(form, "UNTIL")
    <3>1. ~R!Has(all, "UNTIL")
      BY <1>2, <1>4, <1>5, <1>6, <2>2
    <3>2. R!Get(all, "UNTIL") = NoText
      BY <3>1 DEF R!Get
    <3> QED
      BY <2>2, <3>2 DEF R!UntilDay, HasEnd
  <2> QED
    BY <2>1, <2>2
<1>11. R!Get(all, "COUNT") = IF form.end = "count" THEN form.count ELSE NoText
  <2>1. CASE HasEnd(form, "COUNT")
    BY <1>2, <1>6, <2>1 DEF HasEnd
  <2>2. CASE ~HasEnd(form, "COUNT")
    <3>1. ~R!Has(all, "COUNT")
      BY <1>2, <1>4, <1>5, <1>6, <2>2
    <3> QED
      BY <2>2, <3>1 DEF R!Get, HasEnd
  <2> QED
    BY <2>1, <2>2
<1> QED
  BY <1>3, <1>7, <1>8, <1>9, <1>10, <1>11 DEF R!Meaning, FormMeaning

-----------------------------------------------------------------------------
\* The value of a key has the type its key asks for.
LEMMA RuleValues ==
    ASSUME NEW Word, R!Days \subseteq Word, NEW rule \in Seq(RulePart(Word)),
           NoText \notin Values(Word)
    PROVE  /\ \A key : ~R!Has(rule, key) => R!Get(rule, key) = NoText
           /\ \A key : R!Has(rule, key) => R!Get(rule, key) # NoText
           /\ R!Has(rule, "FREQ") => R!Get(rule, "FREQ") \in Word
           /\ \A key \in {"INTERVAL", "COUNT"} : R!Has(rule, key) => R!Get(rule, key) \in Nat
           /\ R!Has(rule, "BYDAY") => R!Get(rule, "BYDAY") \in Seq(Word)
           /\ R!Has(rule, "UNTIL") => R!Get(rule, "UNTIL") \in UntilDate
<1>1. \A key : ~R!Has(rule, key) => R!Get(rule, key) = NoText
  BY DEF R!Get
<1>2. \A i \in DOMAIN rule : rule[i] \in RulePart(Word)
  BY ElementOfSeq, LenProperties
<1>3. \A key : R!Has(rule, key) =>
          \E i \in DOMAIN rule : rule[i].key = key /\ R!Get(rule, key) = rule[i].value
  BY GetHas
<1>4. \A key : R!Has(rule, key) => R!Get(rule, key) \in Values(Word)
  BY <1>2, <1>3 DEF RulePart, KnownKey, Values
<1>5. \A key : R!Has(rule, key) =>
          /\ key = "FREQ" => R!Get(rule, key) \in Word
          /\ key \in {"INTERVAL", "COUNT"} => R!Get(rule, key) \in Nat
          /\ key = "BYDAY" => R!Get(rule, key) \in Seq(Word)
          /\ key = "UNTIL" => R!Get(rule, key) \in UntilDate
  BY <1>2, <1>3 DEF RulePart, KnownKey
<1> QED
  BY <1>1, <1>4, <1>5

\* What a rule that is not complex supports.
LEMMA SimpleValues ==
    ASSUME NEW Word, R!Days \subseteq Word, NEW rule \in Seq(RulePart(Word)),
           NoText \notin Values(Word), ~R!IsComplexRRule(rule)
    PROVE  /\ R!Has(rule, "FREQ") => R!Get(rule, "FREQ") \in R!Frequencies
           /\ \A key \in {"INTERVAL", "COUNT"} : R!Has(rule, key) => R!Get(rule, key) \in Nat \ {0}
           /\ ~(R!Has(rule, "UNTIL") /\ R!Has(rule, "COUNT"))
           /\ R!Has(rule, "BYDAY") => R!Get(rule, "FREQ") = "WEEKLY"
<1>1. \A i \in DOMAIN rule : R!SupportedPart(rule[i])
  BY DEF R!IsComplexRRule
<1>2. \A key : R!Has(rule, key) =>
          \E i \in DOMAIN rule : rule[i].key = key /\ R!Get(rule, key) = rule[i].value
  BY GetHas
<1>3. R!Has(rule, "FREQ") => R!Get(rule, "FREQ") \in R!Frequencies
  BY <1>1, <1>2 DEF R!SupportedPart
<1>4. \A key \in {"INTERVAL", "COUNT"} : R!Has(rule, key) => R!Get(rule, key) > 0
  BY <1>1, <1>2 DEF R!SupportedPart
<1> QED
  BY <1>3, <1>4, RuleValues DEF R!IsComplexRRule

\* Sides of a meaning changed at once.
LEMMA EndChanged ==
    ASSUME NEW m, m = [frequency |-> m.frequency, interval |-> m.interval,
                       days |-> m.days, until |-> m.until, count |-> m.count]
    PROVE  \A x, y : /\ [m EXCEPT !.until = x, !.count = y]
                          = [frequency |-> m.frequency, interval |-> m.interval,
                             days |-> m.days, until |-> x, count |-> y]
                     /\ [m EXCEPT !.count = y, !.until = x]
                          = [frequency |-> m.frequency, interval |-> m.interval,
                             days |-> m.days, until |-> x, count |-> y]
<1> TAKE x, y
<1> DEFINE Side == {"frequency", "interval", "days", "until", "count"}
           ends == [m EXCEPT !.until = x, !.count = y]
           other == [m EXCEPT !.count = y, !.until = x]
<1>1. /\ ends.frequency = m.frequency /\ ends.interval = m.interval
      /\ ends.days = m.days /\ ends.until = x /\ ends.count = y
      /\ ends = [side \in Side |-> ends[side]]
  OBVIOUS
<1>2. /\ other.frequency = m.frequency /\ other.interval = m.interval
      /\ other.days = m.days /\ other.until = x /\ other.count = y
      /\ other = [side \in Side |-> other[side]]
  OBVIOUS
<1> HIDE DEF ends, other
<1>3. ends = [frequency |-> m.frequency, interval |-> m.interval,
              days |-> m.days, until |-> x, count |-> y]
  BY <1>1
<1>4. other = [frequency |-> m.frequency, interval |-> m.interval,
               days |-> m.days, until |-> x, count |-> y]
  BY <1>2
<1> QED
  BY <1>3, <1>4 DEF ends, other

LEMMA FrequencyChanged ==
    ASSUME NEW m, m = [frequency |-> m.frequency, interval |-> m.interval,
                       days |-> m.days, until |-> m.until, count |-> m.count]
    PROVE  \A x, y : [m EXCEPT !.frequency = x, !.days = y]
                       = [frequency |-> x, interval |-> m.interval,
                          days |-> y, until |-> m.until, count |-> m.count]
<1> TAKE x, y
<1> DEFINE Side == {"frequency", "interval", "days", "until", "count"}
           now == [m EXCEPT !.frequency = x, !.days = y]
<1>1. /\ now.frequency = x /\ now.interval = m.interval
      /\ now.days = y /\ now.until = m.until /\ now.count = m.count
      /\ now = [side \in Side |-> now[side]]
  OBVIOUS
<1> HIDE DEF now
<1>2. now = [frequency |-> x, interval |-> m.interval,
             days |-> y, until |-> m.until, count |-> m.count]
  BY <1>1
<1> QED
  BY <1>2 DEF now

\* The editor shows what an editable rule means.
LEMMA EditorMeans ==
    ASSUME NEW Word, R!Days \subseteq Word, NEW rule \in Seq(RulePart(Word)),
           NoText \notin Values(Word), R!Editable(rule), rule # <<>>
    PROVE  LET form == R!Editor(rule)
           IN  /\ form \in [frequency : R!Frequencies \cup {"WEEKDAYS", "BYDAY"},
                            interval : Nat \ {0}, byDay : {form.byDay},
                            end : {"never", "until", "count"},
                            until : Nat \cup {NoText}, count : Nat \cup {NoText}]
               /\ FormMeaning(form) = R!Meaning(rule)
<1> DEFINE form == R!Editor(rule)
           byDay == R!Get(rule, "BYDAY")
           interval == R!Get(rule, "INTERVAL")
           until == R!Get(rule, "UNTIL")
           count == R!Get(rule, "COUNT")
<1>1. /\ ~R!IsComplexRRule(rule) /\ R!Has(rule, "FREQ") /\ R!EditableByDay(rule)
      /\ R!Has(rule, "UNTIL") => R!UntilDay(until) # NoText
  BY DEF R!Editable
<1>2. /\ \A key : ~R!Has(rule, key) <=> R!Get(rule, key) = NoText
      /\ R!Has(rule, "BYDAY") => byDay \in Seq(Word)
      /\ R!Has(rule, "UNTIL") => until \in UntilDate
  BY RuleValues
<1>3. /\ R!Get(rule, "FREQ") \in R!Frequencies
      /\ R!Has(rule, "INTERVAL") => interval \in Nat \ {0}
      /\ R!Has(rule, "COUNT") => count \in Nat \ {0}
      /\ ~(R!Has(rule, "UNTIL") /\ R!Has(rule, "COUNT"))
      /\ R!Has(rule, "BYDAY") => R!Get(rule, "FREQ") = "WEEKLY"
  BY <1>1, SimpleValues
<1>4. form = [frequency |-> CASE byDay = NoText -> R!Get(rule, "FREQ")
                              [] byDay = R!Weekdays -> "WEEKDAYS"
                              [] OTHER -> "BYDAY",
              interval |-> IF interval = NoText THEN 1 ELSE interval,
              byDay |-> IF byDay # NoText /\ Len(byDay) = 1 THEN byDay[1] ELSE "MO",
              end |-> CASE R!Has(rule, "UNTIL") -> "until"
                        [] R!Has(rule, "COUNT") -> "count"
                        [] OTHER -> "never",
              until |-> R!UntilDay(until),
              count |-> count]
  BY DEF R!Editor
<1>5. R!UntilDay(until) \in Nat \cup {NoText}
  BY <1>2 DEF R!UntilDay, UntilDate
<1> HIDE DEF form, byDay, interval, until, count
<1>6. /\ form.interval = (IF interval = NoText THEN 1 ELSE interval)
      /\ form.until = R!UntilDay(until) /\ form.count = count
      /\ form.byDay = (IF byDay # NoText /\ Len(byDay) = 1 THEN byDay[1] ELSE "MO")
  BY <1>4
<1>17. /\ form.frequency = CASE byDay = NoText -> R!Get(rule, "FREQ")
                             [] byDay = R!Weekdays -> "WEEKDAYS"
                             [] OTHER -> "BYDAY"
       /\ form.end = CASE R!Has(rule, "UNTIL") -> "until"
                       [] R!Has(rule, "COUNT") -> "count"
                       [] OTHER -> "never"
  BY <1>4
<1>7. /\ byDay = NoText => form.frequency = R!Get(rule, "FREQ")
      /\ byDay # NoText /\ byDay = R!Weekdays => form.frequency = "WEEKDAYS"
      /\ byDay # NoText /\ byDay # R!Weekdays => form.frequency = "BYDAY"
  <2>1. R!Weekdays # NoText
    <3>1. R!Weekdays \in Seq({"MO", "TU", "WE", "TH", "FR"})
      BY DEF R!Weekdays
    <3>2. {"MO", "TU", "WE", "TH", "FR"} \subseteq Word
      BY DEF R!Days
    <3>3. R!Weekdays \in Seq(Word)
      BY <3>1, <3>2, SeqMonotonic, Zenon
    <3> QED
      BY <3>3 DEF Values
  <2> QED
    BY <1>17, <2>1
<1>8. /\ R!Has(rule, "UNTIL") => form.end = "until"
      /\ ~R!Has(rule, "UNTIL") /\ R!Has(rule, "COUNT") => form.end = "count"
      /\ ~R!Has(rule, "UNTIL") /\ ~R!Has(rule, "COUNT") => form.end = "never"
  BY <1>17, <1>3
<1>9. /\ R!Has(rule, "BYDAY") <=> byDay # NoText
      /\ R!Has(rule, "INTERVAL") <=> interval # NoText
      /\ R!Has(rule, "COUNT") <=> count # NoText
      /\ R!Has(rule, "UNTIL") <=> until # NoText
  BY <1>2 DEF byDay, interval, count, until
<1>10. form \in [frequency : R!Frequencies \cup {"WEEKDAYS", "BYDAY"},
                 interval : Nat \ {0}, byDay : {form.byDay},
                 end : {"never", "until", "count"},
                 until : Nat \cup {NoText}, count : Nat \cup {NoText}]
  <2>1. form.frequency \in R!Frequencies \cup {"WEEKDAYS", "BYDAY"}
    BY <1>3, <1>7
  <2>2. form.interval \in Nat \ {0}
    BY <1>3, <1>6, <1>9
  <2>3. form.end \in {"never", "until", "count"}
    BY <1>8
  <2>4. form.until \in Nat \cup {NoText} /\ form.count \in Nat \cup {NoText}
    BY <1>3, <1>5, <1>6, <1>9
  <2>5. form = [frequency |-> form.frequency, interval |-> form.interval,
                byDay |-> form.byDay, end |-> form.end, until |-> form.until, count |-> form.count]
    BY <1>4
  <2> QED
    BY <2>1, <2>2, <2>3, <2>4, <2>5
<1>11. FormMeaning(form).frequency = R!Get(rule, "FREQ")
  BY <1>3, <1>7, <1>9 DEF FormMeaning, R!Frequencies
<1>12. (IF form.interval > 1 THEN form.interval ELSE 1)
          = IF R!Has(rule, "INTERVAL") THEN interval ELSE 1
  BY <1>3, <1>6, <1>9
<1>13. FormDays(form) = R!DaysOf(rule)
  <2>1. CASE byDay = NoText
    <3>1. form.frequency \in R!Frequencies
      BY <1>3, <1>7, <2>1
    <3> QED
      BY <3>1, <1>9, <2>1 DEF FormDays, R!DaysOf, R!Frequencies
  <2>2. CASE byDay # NoText /\ byDay = R!Weekdays
    <3>1. {byDay[i] : i \in DOMAIN byDay} = {"MO", "TU", "WE", "TH", "FR"}
      <4>1. /\ DOMAIN byDay = {1, 2, 3, 4, 5}
            /\ byDay[1] = "MO" /\ byDay[2] = "TU" /\ byDay[3] = "WE"
            /\ byDay[4] = "TH" /\ byDay[5] = "FR"
        BY <2>2 DEF R!Weekdays
      <4> QED
        BY <4>1
    <3>2. R!DaysOf(rule) = {byDay[i] : i \in DOMAIN byDay}
      BY <1>9, <2>2 DEF R!DaysOf, byDay
    <3>3. FormDays(form) = {"MO", "TU", "WE", "TH", "FR"}
      BY <1>7, <2>2 DEF FormDays
    <3> QED
      BY <3>1, <3>2, <3>3
  <2>3. CASE byDay # NoText /\ byDay # R!Weekdays
    <3>1. Len(byDay) = 1 /\ byDay \in Seq(Word)
      BY <1>1, <1>2, <1>9, <2>3 DEF R!EditableByDay, byDay
    <3>2. DOMAIN byDay = {1}
      BY <3>1, LenProperties
    <3>3. {byDay[i] : i \in DOMAIN byDay} = {byDay[1]}
      BY <3>2
    <3> QED
      BY <1>6, <1>7, <1>9, <2>3, <3>1, <3>3 DEF FormDays, R!DaysOf, byDay
  <2> QED
    BY <2>1, <2>2, <2>3
<1>14. (IF form.end = "until" THEN form.until ELSE NoText) = R!UntilDay(until)
  BY <1>6, <1>8, <1>9 DEF R!UntilDay
<1>15. (IF form.end = "count" THEN form.count ELSE NoText) = count
  BY <1>3, <1>6, <1>8, <1>9
<1>16. FormMeaning(form) = R!Meaning(rule)
  <2>1. FormMeaning(form) = [frequency |-> FormMeaning(form).frequency,
             interval |-> IF form.interval > 1 THEN form.interval ELSE 1,
             days |-> FormDays(form),
             until |-> IF form.end = "until" THEN form.until ELSE NoText,
             count |-> IF form.end = "count" THEN form.count ELSE NoText]
    BY DEF FormMeaning
  <2>2. R!Meaning(rule) = [frequency |-> R!Get(rule, "FREQ"),
             interval |-> IF R!Has(rule, "INTERVAL") THEN interval ELSE 1,
             days |-> R!DaysOf(rule), until |-> R!UntilDay(until), count |-> count]
    BY DEF R!Meaning, interval, until, count
  <2> QED
    BY <1>11, <1>12, <1>13, <1>14, <1>15, <2>1, <2>2
<1> QED
  BY <1>10, <1>16 DEF form

\* Turning one control of the editor of a rule changes that side of its meaning
\* and no other, and a rule beyond the editor is kept: of any rule that was
\* parsed, with repeated and unknown parts, and for any number in the form
\* (isComplexRRule, buildExplicitRRule and the fields of the task's form).
THEOREM RuleEditsKeepRest ==
    ASSUME NEW Word, R!Days \subseteq Word, NEW rule \in Seq(RulePart(Word)),
           NoText \notin Values(Word), NEW Number, Number \subseteq Nat \ {0}
    PROVE  R!EditKeepsRest(rule, Number)
<1> DEFINE form == R!Editor(rule)
           Means(f) == R!Meaning(R!Saved(rule, f, TRUE))
           was == R!Meaning(rule)
<1>1. R!IsComplexRRule(rule) =>
          \A touched \in BOOLEAN : R!Saved(rule, R!NoRule, touched) = rule
  BY DEF R!Saved
<1>2. ASSUME R!Editable(rule), rule # <<>>
      PROVE  /\ Means(form) = was
             /\ \A n \in Number :
                  /\ Means([form EXCEPT !.interval = n]) = [was EXCEPT !.interval = n]
                  /\ Means([form EXCEPT !.end = "count", !.count = n])
                       = [was EXCEPT !.count = n, !.until = NoText]
                  /\ Means([form EXCEPT !.end = "until", !.until = n])
                       = [was EXCEPT !.until = n, !.count = NoText]
             /\ Means([form EXCEPT !.end = "never"])
                  = [was EXCEPT !.until = NoText, !.count = NoText]
             /\ \A f \in R!Frequencies :
                  Means([form EXCEPT !.frequency = f])
                    = [was EXCEPT !.frequency = f, !.days = {}]
             /\ \A d \in R!Days :
                  Means([form EXCEPT !.frequency = "BYDAY", !.byDay = d])
                    = [was EXCEPT !.frequency = "WEEKLY", !.days = {d}]
  <2>1. /\ form \in [frequency : R!Frequencies \cup {"WEEKDAYS", "BYDAY"},
                     interval : Nat \ {0}, byDay : {form.byDay},
                     end : {"never", "until", "count"},
                     until : Nat \cup {NoText}, count : Nat \cup {NoText}]
        /\ was = FormMeaning(form)
    BY <1>2, EditorMeans
  <2>2. ~R!IsComplexRRule(rule)
    BY <1>2 DEF R!Editable
  <2>3. \A f : /\ f.frequency # "NONE"
               /\ f.until \in Nat \cup {NoText} /\ f.count \in Nat \cup {NoText}
               => Means(f) = FormMeaning(f)
    BY <2>2, BuiltMeans DEF R!Saved, Values
  <2>4. "NONE" \notin R!Frequencies \cup {"WEEKDAYS", "BYDAY"}
    BY DEF R!Frequencies
  <2> HIDE DEF form, was, Means
  <2>5. /\ was = [frequency |-> was.frequency, interval |-> was.interval,
                  days |-> was.days, until |-> was.until, count |-> was.count]
        /\ was.frequency = IF form.frequency \in {"WEEKDAYS", "BYDAY"} THEN "WEEKLY"
                           ELSE form.frequency
        /\ was.interval = (IF form.interval > 1 THEN form.interval ELSE 1)
        /\ was.days = FormDays(form)
        /\ was.until = (IF form.end = "until" THEN form.until ELSE NoText)
        /\ was.count = (IF form.end = "count" THEN form.count ELSE NoText)
    BY <2>1 DEF FormMeaning
  <2>13. \A x, y : [was EXCEPT !.frequency = x, !.days = y]
                      = [frequency |-> x, interval |-> was.interval,
                         days |-> y, until |-> was.until, count |-> was.count]
    BY <2>5, FrequencyChanged
  <2>6. Means(form) = was
    BY <2>1, <2>3, <2>4
  <2>7. ASSUME NEW n \in Number
        PROVE  Means([form EXCEPT !.interval = n]) = [was EXCEPT !.interval = n]
    <3> DEFINE f == [form EXCEPT !.interval = n]
    <3>1. /\ f.frequency = form.frequency /\ f.interval = n /\ f.byDay = form.byDay
          /\ f.end = form.end /\ f.until = form.until /\ f.count = form.count
      BY <2>1
    <3>2. [was EXCEPT !.interval = n]
            = [frequency |-> was.frequency, interval |-> n,
               days |-> was.days, until |-> was.until, count |-> was.count]
      BY <2>5
    <3> HIDE DEF f
    <3>3. Means(f) = FormMeaning(f)
      BY <2>1, <2>3, <2>4, <3>1
    <3>4. n \in Nat /\ (IF n > 1 THEN n ELSE 1) = n
      OBVIOUS
    <3>5. FormDays(f) = FormDays(form)
      BY <3>1 DEF FormDays
    <3>6. FormMeaning(f) = [frequency |-> was.frequency, interval |-> n,
                            days |-> was.days, until |-> was.until, count |-> was.count]
      BY <2>5, <3>1, <3>4, <3>5 DEF FormMeaning
    <3> QED
      BY <3>2, <3>3, <3>6 DEF f
  <2>8. ASSUME NEW n \in Number
        PROVE  Means([form EXCEPT !.end = "count", !.count = n])
                 = [was EXCEPT !.count = n, !.until = NoText]
    <3> DEFINE f == [form EXCEPT !.end = "count", !.count = n]
    <3>1. /\ f.frequency = form.frequency /\ f.interval = form.interval
          /\ f.byDay = form.byDay /\ f.end = "count" /\ f.until = form.until /\ f.count = n
      BY <2>1
    <3>2. [was EXCEPT !.count = n, !.until = NoText]
            = [frequency |-> was.frequency, interval |-> was.interval,
               days |-> was.days, until |-> NoText, count |-> n]
      BY <2>5, EndChanged
    <3> HIDE DEF f
    <3>3. Means(f) = FormMeaning(f)
      BY <2>1, <2>3, <2>4, <3>1
    <3>4. FormDays(f) = FormDays(form)
      BY <3>1 DEF FormDays
    <3>5. FormMeaning(f) = [frequency |-> was.frequency, interval |-> was.interval,
                            days |-> was.days, until |-> NoText, count |-> n]
      BY <2>5, <3>1, <3>4 DEF FormMeaning
    <3> QED
      BY <3>2, <3>3, <3>5 DEF f
  <2>9. ASSUME NEW n \in Number
        PROVE  Means([form EXCEPT !.end = "until", !.until = n])
                 = [was EXCEPT !.until = n, !.count = NoText]
    <3> DEFINE f == [form EXCEPT !.end = "until", !.until = n]
    <3>1. /\ f.frequency = form.frequency /\ f.interval = form.interval
          /\ f.byDay = form.byDay /\ f.end = "until" /\ f.until = n /\ f.count = form.count
      BY <2>1
    <3>2. [was EXCEPT !.until = n, !.count = NoText]
            = [frequency |-> was.frequency, interval |-> was.interval,
               days |-> was.days, until |-> n, count |-> NoText]
      BY <2>5, EndChanged
    <3> HIDE DEF f
    <3>3. Means(f) = FormMeaning(f)
      BY <2>1, <2>3, <2>4, <3>1
    <3>4. FormDays(f) = FormDays(form)
      BY <3>1 DEF FormDays
    <3>5. FormMeaning(f) = [frequency |-> was.frequency, interval |-> was.interval,
                            days |-> was.days, until |-> n, count |-> NoText]
      BY <2>5, <3>1, <3>4 DEF FormMeaning
    <3> QED
      BY <3>2, <3>3, <3>5 DEF f
  <2>10. Means([form EXCEPT !.end = "never"])
           = [was EXCEPT !.until = NoText, !.count = NoText]
    <3> DEFINE f == [form EXCEPT !.end = "never"]
    <3>1. /\ f.frequency = form.frequency /\ f.interval = form.interval
          /\ f.byDay = form.byDay /\ f.end = "never" /\ f.until = form.until /\ f.count = form.count
      BY <2>1
    <3>2. [was EXCEPT !.until = NoText, !.count = NoText]
            = [frequency |-> was.frequency, interval |-> was.interval,
               days |-> was.days, until |-> NoText, count |-> NoText]
      BY <2>5, EndChanged
    <3> HIDE DEF f
    <3>3. Means(f) = FormMeaning(f)
      BY <2>1, <2>3, <2>4, <3>1
    <3>4. FormDays(f) = FormDays(form)
      BY <3>1 DEF FormDays
    <3>5. FormMeaning(f) = [frequency |-> was.frequency, interval |-> was.interval,
                            days |-> was.days, until |-> NoText, count |-> NoText]
      BY <2>5, <3>1, <3>4 DEF FormMeaning
    <3> QED
      BY <3>2, <3>3, <3>5 DEF f
  <2>11. ASSUME NEW freq \in R!Frequencies
         PROVE  Means([form EXCEPT !.frequency = freq])
                  = [was EXCEPT !.frequency = freq, !.days = {}]
    <3> DEFINE f == [form EXCEPT !.frequency = freq]
    <3>1. /\ f.frequency = freq /\ f.interval = form.interval /\ f.byDay = form.byDay
          /\ f.end = form.end /\ f.until = form.until /\ f.count = form.count
      BY <2>1
    <3>2. [was EXCEPT !.frequency = freq, !.days = {}]
            = [frequency |-> freq, interval |-> was.interval,
               days |-> {}, until |-> was.until, count |-> was.count]
      BY <2>13
    <3>3. freq \notin {"NONE", "WEEKDAYS", "BYDAY"}
      BY DEF R!Frequencies
    <3> HIDE DEF f
    <3>4. Means(f) = FormMeaning(f)
      BY <2>1, <2>3, <3>1, <3>3
    <3>5. FormDays(f) = {}
      BY <3>1, <3>3 DEF FormDays
    <3>6. FormMeaning(f) = [frequency |-> freq, interval |-> was.interval,
                            days |-> {}, until |-> was.until, count |-> was.count]
      BY <2>5, <3>1, <3>3, <3>5 DEF FormMeaning
    <3> QED
      BY <3>2, <3>4, <3>6 DEF f
  <2>12. ASSUME NEW d \in R!Days
         PROVE  Means([form EXCEPT !.frequency = "BYDAY", !.byDay = d])
                  = [was EXCEPT !.frequency = "WEEKLY", !.days = {d}]
    <3> DEFINE f == [form EXCEPT !.frequency = "BYDAY", !.byDay = d]
    <3>1. /\ f.frequency = "BYDAY" /\ f.interval = form.interval /\ f.byDay = d
          /\ f.end = form.end /\ f.until = form.until /\ f.count = form.count
      BY <2>1
    <3>2. [was EXCEPT !.frequency = "WEEKLY", !.days = {d}]
            = [frequency |-> "WEEKLY", interval |-> was.interval,
               days |-> {d}, until |-> was.until, count |-> was.count]
      BY <2>13
    <3> HIDE DEF f
    <3>3. Means(f) = FormMeaning(f)
      BY <2>1, <2>3, <3>1
    <3>4. FormDays(f) = {d}
      BY <3>1 DEF FormDays
    <3>5. FormMeaning(f) = [frequency |-> "WEEKLY", interval |-> was.interval,
                            days |-> {d}, until |-> was.until, count |-> was.count]
      BY <2>5, <3>1, <3>4 DEF FormMeaning
    <3> QED
      BY <3>2, <3>3, <3>5 DEF f
  <2> QED
    BY <2>6, <2>7, <2>8, <2>9, <2>10, <2>11, <2>12
<1> QED
  BY <1>1, <1>2 DEF R!EditKeepsRest

\* Where a rule is put into words, in the preview of quick add
\* (quickAddSimpleRecurrenceLabel) and in a task's details (taskRRuleLabel),
\* the words say all that the rule means.
THEOREM WordsTellRules ==
    ASSUME NEW Word, R!Days \subseteq Word, NEW rule \in Seq(RulePart(Word)),
           NoText \notin Values(Word)
    PROVE  R!WordsTell(rule)
<1>1. ASSUME R!QuickAddSimple(rule)
      PROVE  R!QuickAddWords(rule) = R!Meaning(rule)
  <2>1. ~R!Has(rule, "UNTIL") /\ ~R!Has(rule, "COUNT")
    BY <1>1 DEF R!QuickAddSimple, R!Keys, R!Has
  <2>2. R!Get(rule, "UNTIL") = NoText /\ R!Get(rule, "COUNT") = NoText
    BY <2>1 DEF R!Get
  <2> QED
    BY <2>2 DEF R!QuickAddWords, R!Meaning, R!UntilDay
<1>2. ASSUME R!Editable(rule), rule # <<>>
      PROVE  R!TaskWords(rule) = R!Meaning(rule)
  <2>1. R!EditableByDay(rule) /\ R!Has(rule, "BYDAY") => R!Get(rule, "FREQ") = "WEEKLY"
    BY <1>2 DEF R!Editable, R!IsComplexRRule
  <2>2. R!EditableByDay(rule)
    BY <1>2 DEF R!Editable
  <2> QED
    BY <2>1, <2>2 DEF R!TaskWords, R!Meaning, R!DaysOf
<1> QED
  BY <1>1, <1>2 DEF R!WordsTell

-----------------------------------------------------------------------------
(* Views, lists and saved filters.                                         *)

\* An open task is in exactly one of Today, Upcoming and No date unless it is
\* due beyond the window, an overdue one in Today as well, and a completed one
\* where Completed shows it (the conditions of ListTodayTasks and the other
\* system views), whatever the day, the window and the date.
THEOREM ViewsSplit ==
    ASSUME NEW task, NEW settings, NoText \notin Int, Today \in Int,
           task.due \in Int \cup {NoText}, task.done \in BOOLEAN,
           settings.upcomingDays \in Nat, settings.showCompleted \in BOOLEAN
    PROVE  P!InOneView(task, settings)
BY DEF P!InOneView, P!InToday, P!InUpcoming, P!InNoDate, P!InOverdue, P!InProject,
       P!InCompleted, P!Dated, P!Shown

\* Preferences: at most one for a page.
Display(Scope, Word) ==
    {display \in SUBSET [page : Scope, sortBy : Word, descending : BOOLEAN, groupBy : Word] :
        \A d, e \in display : d.page = e.page => d = e}

\* The preference of a page that has one.
LEMMA LoadedOne ==
    ASSUME NEW display, NEW d \in display, \A e \in display : e.page = d.page => e = d
    PROVE  P!LoadPreference(display, d.page) = d
<1>1. (CHOOSE e \in display : e.page = d.page) = d
  OBVIOUS
<1> QED
  BY <1>1 DEF P!LoadPreference

\* What a page offers and the user chooses decides how that page is shown, and
\* nothing about another page (TaskViewPreferenceUpdate,
\* loadTaskListPresentation), for any pages and any preferences stored before.
THEOREM FormsDecide ==
    ASSUME NEW Scope, NEW Word, NEW display \in Display(Scope, Word),
           NEW form \in [page : Scope, sortBy : Word, descending : BOOLEAN, groupBy : Word],
           \A page \in Scope : P!ValidScope(page)
    PROVE  P!FormDecides(display, Scope, form)
<1> DEFINE saved == P!PreferenceUpdated(display, form, FALSE)
           chosen == [form EXCEPT !.descending = @ /\ form.sortBy # "default"]
           rest == {d \in display : d.page # form.page}
           fits == P!GroupAvailable(form.page.kind, form.groupBy)
<1>1. /\ chosen.page = form.page /\ chosen.sortBy = form.sortBy
      /\ chosen.groupBy = form.groupBy
      /\ form.sortBy # "default" => chosen.descending = form.descending
  OBVIOUS
<1>2. saved = IF fits THEN rest \cup {chosen} ELSE display
  BY DEF P!PreferenceUpdated
<1>3. form.groupBy \in P!GroupValues(form.page) => fits
  BY DEF P!GroupValues
<1>4. \A d, e \in saved : d.page = e.page => d = e
  <2> HIDE DEF saved, chosen, fits
  <2> QED
    BY <1>1, <1>2 DEF Display
<1>5. ASSUME fits
      PROVE  P!Preference(saved, form.page) = chosen
  <2> HIDE DEF saved, chosen
  <2>1. chosen \in saved
    BY <1>2, <1>5
  <2>2. P!LoadPreference(saved, form.page) = chosen
    BY <1>1, <1>4, <2>1, LoadedOne
  <2> QED
    BY <1>1, <1>5, <2>2 DEF P!Preference
<1>6. ASSUME NEW page \in Scope \ {form.page}
      PROVE  P!Preference(saved, page) = P!Preference(display, page)
  <2> HIDE DEF saved, chosen, fits
  <2>1. \A d : d \in saved /\ d.page = page <=> d \in display /\ d.page = page
    BY <1>1, <1>2
  <2>2. CASE \E d \in display : d.page = page
    <3>1. PICK d \in display : d.page = page
      BY <2>2
    <3>2. P!LoadPreference(display, page) = d
      BY <3>1, LoadedOne DEF Display
    <3>3. P!LoadPreference(saved, page) = d
      BY <1>4, <2>1, <3>1, LoadedOne
    <3> QED
      BY <3>2, <3>3 DEF P!Preference
  <2>3. CASE ~\E d \in display : d.page = page
    <3>1. P!LoadPreference(display, page) = P!LoadPreference(saved, page)
      BY <2>1, <2>3 DEF P!LoadPreference
    <3> QED
      BY <3>1 DEF P!Preference
  <2> QED
    BY <2>2, <2>3
<1>7. ASSUME fits
      PROVE  P!Preference(P!PreferenceUpdated(saved, form, TRUE), form.page)
               = P!DefaultPreference(form.page)
  <2> DEFINE cleared == P!PreferenceUpdated(saved, form, TRUE)
  <2>1. cleared = {d \in saved : d.page # form.page}
    BY <1>7 DEF P!PreferenceUpdated
  <2> HIDE DEF saved, cleared
  <2>2. P!LoadPreference(cleared, form.page) = P!DefaultPreference(form.page)
    BY <2>1 DEF P!LoadPreference
  <2>3. P!DefaultPreference(form.page).groupBy = "none"
    BY DEF P!DefaultPreference
  <2>4. P!GroupAvailable(form.page.kind, "none")
    BY DEF P!GroupAvailable
  <2> QED
    BY <2>2, <2>3, <2>4 DEF P!Preference, cleared
<1> HIDE DEF saved, chosen, fits
<1> QED
  BY <1>1, <1>3, <1>5, <1>6, <1>7 DEF P!FormDecides, saved

SavedFilter(Word) ==
    [id : Nat, name : Word, query : Word, favorite : BOOLEAN, version : Nat]

\* A change raises the version of the filter it is for, and touches no other.
LEMMA FilterUpdated ==
    ASSUME NEW Word, NEW filters \in SUBSET SavedFilter(Word), NEW form
    PROVE  /\ P!Current(filters, form) = {} => P!SavedFilterUpdate(filters, form) = filters
           /\ \/ P!SavedFilterUpdate(filters, form) = filters
              \/ \A g \in P!SavedFilterUpdate(filters, form) :
                    \E f \in filters :
                       IF f \in P!Current(filters, form)
                       THEN g.id = f.id /\ g.version = f.version + 1 ELSE g = f
<1> DEFINE now(f) == [f EXCEPT !.name = form.name, !.query = form.query,
                               !.favorite = form.favorite, !.version = @ + 1]
           current == P!Current(filters, form)
<1>1. ASSUME NEW f \in filters PROVE now(f).id = f.id /\ now(f).version = f.version + 1
  BY DEF SavedFilter
<1>2. P!SavedFilterUpdate(filters, form)
        = IF ~P!ValidFilter(form) THEN filters
          ELSE {IF f \in current THEN now(f) ELSE f : f \in filters}
  BY DEF P!SavedFilterUpdate
<1> HIDE DEF now, current
<1>3. current = {} => {IF f \in current THEN now(f) ELSE f : f \in filters} = filters
  OBVIOUS
<1>4. \A g \in {IF f \in current THEN now(f) ELSE f : f \in filters} :
         \E f \in filters : IF f \in current
                            THEN g.id = f.id /\ g.version = f.version + 1 ELSE g = f
  BY <1>1
<1> QED
  BY <1>2, <1>3, <1>4 DEF current

\* Of two forms that were made of the same version of a saved filter, the
\* second changes nothing once the first has changed or deleted it
\* (SavedFilterUpdate, SavedFilterDelete).
THEOREM FilterEditsLast ==
    ASSUME NEW Word, NEW filters \in SUBSET SavedFilter(Word),
           \A f, g \in filters : f.id = g.id => f = g,
           NEW first, NEW second, first.version = second.version
    PROVE  P!NothingOverwritten(filters, first, second)
<1> DEFINE Do(f, form) == IF form.delete THEN P!SavedFilterDelete(f, form)
                          ELSE P!SavedFilterUpdate(f, form)
           one == Do(filters, first)
<1> SUFFICES ASSUME first.id = second.id, one # filters
             PROVE  Do(one, second) = one
  BY DEF P!NothingOverwritten
<1>1. PICK old \in P!Current(filters, first) : TRUE
  BY FilterUpdated DEF P!SavedFilterDelete
<1>2. /\ old \in filters /\ old.id = first.id /\ old.version = first.version
      /\ \A f \in filters : f.id = first.id => f = old
  BY <1>1 DEF P!Current
<1>3. P!Current(one, second) = {}
  <2> SUFFICES ASSUME NEW g \in one, g.id = second.id, g.version = second.version
               PROVE  FALSE
    BY DEF P!Current
  <2>1. CASE first.delete
    <3>1. g \in filters /\ g \notin P!Current(filters, first)
      BY <2>1 DEF P!SavedFilterDelete
    <3> QED
      BY <1>1, <1>2, <3>1
  <2>2. CASE ~first.delete
    <3>1. PICK f \in filters : IF f \in P!Current(filters, first)
                               THEN g.id = f.id /\ g.version = f.version + 1 ELSE g = f
      BY <2>2, FilterUpdated
    <3>2. f = old
      BY <1>2, <3>1
    <3>3. old.version \in Nat
      BY <1>2 DEF SavedFilter
    <3> QED
      BY <1>1, <1>2, <3>1, <3>2, <3>3
  <2> QED
    BY <2>1, <2>2
<1>4. P!SavedFilterDelete(one, second) = one
  BY <1>3 DEF P!SavedFilterDelete
<1>5. P!SavedFilterUpdate(one, second) = one
  <2>1. {IF f \in {} THEN [f EXCEPT !.name = second.name, !.query = second.query,
                                    !.favorite = second.favorite, !.version = @ + 1]
         ELSE f : f \in one} = one
    OBVIOUS
  <2> QED
    BY <1>3, <2>1 DEF P!SavedFilterUpdate
<1> QED
  BY <1>4, <1>5

-----------------------------------------------------------------------------
(* Labels and favourites.                                                   *)

\* Numbering by rank gives every element of a finite set a number of its own.
LEMMA Numbering ==
    ASSUME NEW S, IsFiniteSet(S), NEW rank, \A c \in S : rank[c] \in Nat,
           \A c, d \in S : rank[c] = rank[d] => c = d, NEW list,
           list = [n \in 1 .. Cardinality(S) |-> list[n]],
           \A n \in 1 .. Cardinality(S) :
              (\E c \in S : Cardinality({d \in S : rank[d] <= rank[c]}) = n)
                => /\ list[n] \in S
                   /\ Cardinality({d \in S : rank[d] <= rank[list[n]]}) = n
    PROVE  Cardinality(S) \in Nat /\ list \in Bijection(1 .. Cardinality(S), S)
<1> DEFINE Up(c) == {d \in S : rank[d] <= rank[c]}
           N == Cardinality(S)
           pos == [c \in S |-> Cardinality(Up(c))]
<1>1. N \in Nat /\ IsFiniteSet(1 .. N) /\ Cardinality(1 .. N) = N
  <2>1. N \in Nat
    BY FS_CardinalityType
  <2>2. IsFiniteSet(1 .. N) /\ Cardinality(1 .. N) = IF 1 > N THEN 0 ELSE N - 1 + 1
    BY <2>1, FS_Interval
  <2> HIDE DEF N
  <2> QED
    BY <2>1, <2>2
<1>2. ASSUME NEW c \in S PROVE IsFiniteSet(Up(c)) /\ Cardinality(Up(c)) \in 1 .. N
  <2>1. Up(c) \in SUBSET S /\ c \in Up(c)
    OBVIOUS
  <2>2. IsFiniteSet(Up(c)) /\ Cardinality(Up(c)) <= N
    BY <2>1, FS_Subset
  <2>3. Cardinality(Up(c)) # 0 /\ Cardinality(Up(c)) \in Nat
    BY <2>1, <2>2, FS_EmptySet, FS_CardinalityType
  <2> HIDE DEF N, Up
  <2> QED
    BY <1>1, <2>2, <2>3
<1>3. ASSUME NEW c \in S, NEW d \in S, rank[c] < rank[d]
      PROVE  Cardinality(Up(c)) # Cardinality(Up(d))
  <2>1. \A e \in S : rank[e] <= rank[c] => rank[e] <= rank[d]
    BY <1>3
  <2>2. rank[d] <= rank[d] /\ ~(rank[d] <= rank[c])
    BY <1>3
  <2>3. Up(c) \in SUBSET Up(d) /\ d \in Up(d) /\ d \notin Up(c)
    BY <2>1, <2>2
  <2> HIDE DEF Up
  <2> QED
    BY <1>2, <2>3, FS_Subset
<1>4. \A c, d \in S : Cardinality(Up(c)) = Cardinality(Up(d)) => c = d
  <2> SUFFICES ASSUME NEW c \in S, NEW d \in S, Cardinality(Up(c)) = Cardinality(Up(d))
               PROVE  c = d
    OBVIOUS
  <2>1. ~(rank[c] < rank[d]) /\ ~(rank[d] < rank[c])
    BY <1>3
  <2> QED
    BY <2>1
<1>5. pos \in Injection(S, 1 .. N)
  <2> HIDE DEF Up, N
  <2> QED
    BY <1>2, <1>4 DEF Injection, IsInjective
<1>6. pos \in Surjection(S, 1 .. N)
  <2> HIDE DEF pos
  <2> QED
    BY <1>1, <1>5, FS_Injection
<1>7. \A n \in 1 .. N : \E c \in S : Cardinality(Up(c)) = n
  <2> HIDE DEF Up, N
  <2> QED
    BY <1>6 DEF Surjection
<1>8. \A n \in 1 .. N : list[n] \in S /\ Cardinality(Up(list[n])) = n
  <2>1. \A n \in 1 .. N : (\E c \in S : Cardinality(Up(c)) = n)
                            => list[n] \in S /\ Cardinality(Up(list[n])) = n
    OBVIOUS
  <2> HIDE DEF Up, N
  <2> QED
    BY <1>7, <2>1
<1>9. list \in Injection(1 .. N, S)
  <2>1. list = [n \in 1 .. N |-> list[n]]
    OBVIOUS
  <2> HIDE DEF Up, N
  <2>2. list \in [1 .. N -> S] /\ DOMAIN list = 1 .. N
    BY <1>8, <2>1
  <2>3. \A i, j \in 1 .. N : list[i] = list[j] => i = j
    BY <1>8
  <2> QED
    BY <2>2, <2>3 DEF Injection, IsInjective
<1>10. \A c \in S : \E n \in 1 .. N : list[n] = c
  <2> HIDE DEF Up, N
  <2> QED
    BY <1>2, <1>4, <1>8
<1>11. list \in Bijection(1 .. N, S)
  <2> HIDE DEF Up, N
  <2> QED
    BY <1>9, <1>10 DEF Injection, Surjection, Bijection
<1> QED
  BY <1>1, <1>11

\* What the proofs need of the spellings: they have the reserved name among
\* them, and no two are of one rank.
Spelled(Word) == /\ L!Starred \in Word
                 /\ \A c \in Word : Spot[c] \in Nat
                 /\ \A c, d \in Word : Spot[c] = Spot[d] => c = d

\* The spellings of a list, and their keys.
SpelledIn(list) == {list[i] : i \in DOMAIN list}
KeysIn(S) == {Key[c] : c \in S}
OneEach(list) == \A i, j \in DOMAIN list : i # j => Key[list[i]] # Key[list[j]]

\* A list of labels: in order, no name twice, none of them reserved.
Plain(list) == /\ OneEach(list)
               /\ ~L!IsFavorite(list)
               /\ L!InOrder(SpelledIn(list)) = list

\* The modules count as this one does.
LEMMA CardinalityL == ASSUME NEW S PROVE L!Cardinality(S) = Cardinality(S)
BY DEF L!Cardinality, Cardinality, L!IsFiniteSet, IsFiniteSet

\* A set of spellings in order is a list of them, each once.
LEMMA InOrderIsList ==
    ASSUME NEW Word, Spelled(Word), NEW S \in SUBSET Word, IsFiniteSet(S)
    PROVE  /\ L!InOrder(S) \in Seq(Word)
           /\ SpelledIn(L!InOrder(S)) = S
           /\ \A i, j \in DOMAIN L!InOrder(S) : i # j => L!InOrder(S)[i] # L!InOrder(S)[j]
<1>1. Cardinality(S) \in Nat /\ L!InOrder(S) \in Bijection(1 .. Cardinality(S), S)
  <2> DEFINE list == L!InOrder(S)
  <2>1. \A c \in S : Spot[c] \in Nat
    BY DEF Spelled
  <2>2. \A c, d \in S : Spot[c] = Spot[d] => c = d
    BY DEF Spelled
  <2>3. list = [n \in 1 .. Cardinality(S) |-> list[n]]
    <3> DEFINE Nth(n) == CHOOSE c \in S : L!Cardinality({d \in S : Spot[d] <= Spot[c]}) = n
    <3>1. list = [n \in 1 .. L!Cardinality(S) |-> Nth(n)] /\ L!Cardinality(S) = Cardinality(S)
      BY CardinalityL DEF L!InOrder
    <3> HIDE DEF list, Nth
    <3> QED
      BY <3>1
  <2>4. ASSUME NEW n \in 1 .. Cardinality(S),
               \E c \in S : Cardinality({d \in S : Spot[d] <= Spot[c]}) = n
        PROVE  /\ list[n] \in S
               /\ Cardinality({d \in S : Spot[d] <= Spot[list[n]]}) = n
    <3>1. \E c \in S : L!Cardinality({d \in S : Spot[d] <= Spot[c]}) = n
      BY <2>4, CardinalityL
    <3>2. list[n] = CHOOSE c \in S : L!Cardinality({d \in S : Spot[d] <= Spot[c]}) = n
      BY CardinalityL DEF L!InOrder
    <3>3. list[n] \in S /\ L!Cardinality({d \in S : Spot[d] <= Spot[list[n]]}) = n
      <4> HIDE DEF list
      <4> QED
        BY <3>1, <3>2
    <3> QED
      BY <3>3, CardinalityL
  <2> HIDE DEF list
  <2>5. Cardinality(S) \in Nat /\ list \in Bijection(1 .. Cardinality(S), S)
    BY <2>1, <2>2, <2>3, <2>4, Numbering
  <2> QED
    BY <2>5 DEF list
<1> DEFINE list == L!InOrder(S)
           n == Cardinality(S)
<1> HIDE DEF list, n
<1>2. /\ n \in Nat /\ list \in [1 .. n -> S] /\ DOMAIN list = 1 .. n
      /\ \A i, j \in 1 .. n : i # j => list[i] # list[j]
      /\ \A c \in S : \E i \in 1 .. n : list[i] = c
  BY <1>1 DEF Bijection, Injection, IsInjective, Surjection, list, n
<1>3. list \in Seq(Word)
  BY <1>2
<1>4. SpelledIn(list) = S
  BY <1>2 DEF SpelledIn
<1> QED
  BY <1>2, <1>3, <1>4 DEF list

\* Every name of a list has a first spelling, and one only.
LEMMA FirstOfEach ==
    ASSUME NEW Word, NEW names \in Seq(Word)
    PROVE  /\ L!FirstSpellings(names) \in SUBSET Word
           /\ IsFiniteSet(L!FirstSpellings(names))
           /\ \A c, d \in L!FirstSpellings(names) : Key[c] = Key[d] => c = d
           /\ KeysIn(L!FirstSpellings(names)) = KeysIn(SpelledIn(names))
           /\ L!FirstSpellings(names) \subseteq SpelledIn(names)
<1> DEFINE first == {i \in DOMAIN names :
                       \A j \in 1 .. i - 1 : Key[names[j]] # Key[names[i]]}
           F == L!FirstSpellings(names)
<1>1. F = {names[i] : i \in first} /\ first \subseteq 1 .. Len(names) /\ Len(names) \in Nat
  BY DEF L!FirstSpellings
<1>2. IsFiniteSet(first)
  BY <1>1, FS_Interval, FS_Subset
<1>3. IsFiniteSet(F)
  <2> DEFINE f == [i \in first |-> names[i]]
  <2>1. f \in Surjection(first, F)
    BY <1>1 DEF Surjection
  <2> HIDE DEF f, F
  <2> QED
    BY <1>2, <2>1, FS_Surjection
<1>4. F \in SUBSET Word /\ F \subseteq SpelledIn(names)
  BY <1>1 DEF SpelledIn
<1>5. ASSUME NEW i \in first, NEW j \in first, Key[names[i]] = Key[names[j]]
      PROVE  i = j
  BY <1>1, <1>5
<1>6. \A c, d \in F : Key[c] = Key[d] => c = d
  BY <1>1, <1>5
<1>7. ASSUME NEW i \in DOMAIN names
      PROVE  \E j \in first : Key[names[j]] = Key[names[i]]
  <2> DEFINE S == {j \in 1 .. i : Key[names[j]] = Key[names[i]]}
             far == [j \in S |-> i - j]
  <2>1. i \in Nat /\ i \in S
    BY <1>1
  <2>2. IsFiniteSet(S)
    <3>1. IsFiniteSet(1 .. i) /\ S \in SUBSET (1 .. i)
      BY <2>1, FS_Interval
    <3> QED
      BY <3>1, FS_Subset
  <2>3. far \in [S -> Nat]
    BY <2>1
  <2>4. PICK c \in S : \A d \in S : far[d] <= far[c]
    <3> HIDE DEF S, far
    <3> QED
      BY <2>1, <2>2, <2>3, HighestExists
  <2>5. \A d \in S : c <= d
    BY <2>1, <2>4
  <2>6. \A j \in 1 .. c - 1 : Key[names[j]] # Key[names[c]]
    <3> SUFFICES ASSUME NEW j \in 1 .. c - 1, Key[names[j]] = Key[names[c]]
                 PROVE  FALSE
      OBVIOUS
    <3>1. j \in 1 .. i
      BY <2>1
    <3>2. j \in S
      BY <3>1
    <3>3. c <= j
      BY <2>5, <3>2
    <3> QED
      BY <2>1, <3>3
  <2>7. c \in DOMAIN names
    BY <1>1, <2>1
  <2> QED
    BY <2>6, <2>7
<1>8. KeysIn(F) = KeysIn(SpelledIn(names))
  <2>1. ASSUME NEW i \in DOMAIN names PROVE Key[names[i]] \in KeysIn(F)
    BY <1>1, <1>7 DEF KeysIn
  <2>2. KeysIn(SpelledIn(names)) \subseteq KeysIn(F)
    BY <2>1 DEF KeysIn, SpelledIn
  <2>3. KeysIn(F) \subseteq KeysIn(SpelledIn(names))
    BY <1>4 DEF KeysIn
  <2> QED
    BY <2>2, <2>3
<1> QED
  BY <1>3, <1>4, <1>6, <1>8

\* In a list with each name once, every spelling is the first of its name.
LEMMA EachIsFirst ==
    ASSUME NEW Word, NEW names \in Seq(Word), OneEach(names)
    PROVE  L!FirstSpellings(names) = SpelledIn(names)
<1>1. \A i \in DOMAIN names : \A j \in 1 .. i - 1 : j \in DOMAIN names /\ j # i
  OBVIOUS
<1>2. {i \in DOMAIN names : \A j \in 1 .. i - 1 : Key[names[j]] # Key[names[i]]}
        = DOMAIN names
  BY <1>1 DEF OneEach
<1> QED
  BY <1>2 DEF L!FirstSpellings, SpelledIn

\* The labels in a list of categories, and the labels that a form gives.
LEMMA LabelsPlain ==
    ASSUME NEW Word, Spelled(Word), NEW names \in Seq(Word)
    PROVE  /\ L!Labels(names) \in Seq(Word) /\ Plain(L!Labels(names))
           /\ KeysIn(SpelledIn(L!Labels(names)))
                = {k \in KeysIn(SpelledIn(names)) : k # Key[L!Starred]}
<1> DEFINE F == L!FirstSpellings(names)
           S == {c \in F : ~L!Reserved(c)}
           list == L!InOrder(S)
<1>1. F \in SUBSET Word /\ IsFiniteSet(F) /\ S \in SUBSET F
  BY FirstOfEach
<1>2. S \in SUBSET Word /\ IsFiniteSet(S)
  BY <1>1, FS_Subset
<1>3. /\ list \in Seq(Word) /\ SpelledIn(list) = S
      /\ \A i, j \in DOMAIN list : i # j => list[i] # list[j]
  <2> HIDE DEF S
  <2> QED
    BY <1>2, InOrderIsList
<1>4. L!Labels(names) = list
  BY DEF L!Labels
<1>5. \A c, d \in F : Key[c] = Key[d] => c = d
  BY FirstOfEach
<1>6. \A i \in DOMAIN list : list[i] \in F /\ ~L!Reserved(list[i])
  <2>1. \A i \in DOMAIN list : list[i] \in S
    <3> HIDE DEF S, list
    <3> QED
      BY <1>3 DEF SpelledIn
  <2> QED
    BY <2>1
<1>7. OneEach(list) /\ ~L!IsFavorite(list)
  <2> HIDE DEF list, F
  <2> QED
    BY <1>3, <1>5, <1>6 DEF OneEach, L!IsFavorite
<1>8. L!InOrder(SpelledIn(list)) = list
  BY <1>3
<1>9. KeysIn(S) = {k \in KeysIn(F) : k # Key[L!Starred]}
  BY DEF KeysIn, L!Reserved
<1>10. KeysIn(F) = KeysIn(SpelledIn(names))
  BY FirstOfEach
<1> QED
  BY <1>3, <1>4, <1>7, <1>8, <1>9, <1>10 DEF Plain

\* The labels that a form gives: each name once.
LEMMA DeduplicatedPlain ==
    ASSUME NEW Word, Spelled(Word), NEW names \in Seq(Word), L!Acceptable(names)
    PROVE  /\ L!Deduplicated(names) \in Seq(Word) /\ Plain(L!Deduplicated(names))
           /\ L!Deduplicated(names) = L!Labels(names)
           /\ KeysIn(SpelledIn(L!Deduplicated(names))) = KeysIn(SpelledIn(names))
<1> DEFINE F == L!FirstSpellings(names)
<1>1. F \subseteq SpelledIn(names) /\ KeysIn(F) = KeysIn(SpelledIn(names))
  BY FirstOfEach
<1>2. \A c \in SpelledIn(names) : ~L!Reserved(c)
  BY DEF SpelledIn, L!Acceptable, L!IsFavorite
<1>3. {c \in F : ~L!Reserved(c)} = F
  BY <1>1, <1>2
<1>4. L!Deduplicated(names) = L!Labels(names)
  BY <1>3 DEF L!Deduplicated, L!Labels
<1>5. {k \in KeysIn(SpelledIn(names)) : k # Key[L!Starred]} = KeysIn(SpelledIn(names))
  BY <1>2 DEF KeysIn, L!Reserved
<1> QED
  BY <1>4, <1>5, LabelsPlain

\* Categories written for a list of labels are read back as these labels.
LEMMA WrittenAndRead ==
    ASSUME NEW Word, Spelled(Word), NEW list \in Seq(Word), Plain(list),
           NEW favorite \in BOOLEAN
    PROVE  LET c == L!Categories(list, favorite)
           IN  /\ c \in Seq(Word) /\ OneEach(c)
               /\ L!IsFavorite(c) <=> favorite
               /\ L!Labels(c) = list
<1> DEFINE star == IF favorite THEN <<L!Starred>> ELSE <<>>
           c == list \o star
<1>1. L!Categories(list, favorite) = c
  BY EachIsFirst DEF Plain, L!Categories, L!Deduplicated
<1>2. L!Starred \in Word
  BY DEF Spelled
<1>3. /\ c \in Seq(Word) /\ Len(list) \in Nat /\ DOMAIN list = 1 .. Len(list)
      /\ DOMAIN c = 1 .. Len(list) + (IF favorite THEN 1 ELSE 0)
      /\ \A i \in 1 .. Len(list) : c[i] = list[i]
      /\ favorite => c[Len(list) + 1] = L!Starred
  BY <1>2
<1>4. \A i \in 1 .. Len(list) : Key[list[i]] # Key[L!Starred]
  BY <1>3 DEF Plain, L!IsFavorite, L!Reserved
<1> HIDE DEF c
<1>5. \A i \in DOMAIN c : \/ i \in 1 .. Len(list)
                          \/ favorite /\ i = Len(list) + 1
  BY <1>3
<1>6. L!IsFavorite(c) <=> favorite
  <2>1. favorite => Len(list) + 1 \in DOMAIN c
    BY <1>3
  <2> QED
    BY <1>3, <1>4, <1>5, <2>1 DEF L!IsFavorite, L!Reserved
<1>7. OneEach(c)
  <2> SUFFICES ASSUME NEW i \in DOMAIN c, NEW j \in DOMAIN c, i # j
               PROVE  Key[c[i]] # Key[c[j]]
    BY DEF OneEach
  <2>1. CASE i \in 1 .. Len(list) /\ j \in 1 .. Len(list)
    BY <1>3, <2>1 DEF Plain, OneEach
  <2>2. CASE i \in 1 .. Len(list) /\ j = Len(list) + 1 /\ favorite
    BY <1>3, <1>4, <2>2
  <2>3. CASE j \in 1 .. Len(list) /\ i = Len(list) + 1 /\ favorite
    BY <1>3, <1>4, <2>3
  <2> QED
    BY <1>5, <2>1, <2>2, <2>3
<1>8. {x \in SpelledIn(c) : ~L!Reserved(x)} = SpelledIn(list)
  <2>1. ASSUME NEW x \in SpelledIn(list) PROVE x \in SpelledIn(c) /\ ~L!Reserved(x)
    <3>1. PICK i \in 1 .. Len(list) : x = list[i]
      BY <1>3 DEF SpelledIn
    <3>2. i \in DOMAIN c
      BY <1>3
    <3> QED
      BY <1>3, <1>4, <3>1, <3>2 DEF SpelledIn, L!Reserved
  <2>2. ASSUME NEW x \in SpelledIn(c), ~L!Reserved(x) PROVE x \in SpelledIn(list)
    <3>1. PICK i \in DOMAIN c : x = c[i]
      BY DEF SpelledIn
    <3>2. i \in 1 .. Len(list)
      BY <1>3, <1>5, <2>2, <3>1 DEF L!Reserved
    <3> QED
      BY <1>3, <3>1, <3>2 DEF SpelledIn
  <2> QED
    BY <2>1, <2>2
<1>9. L!FirstSpellings(c) = SpelledIn(c)
  BY <1>3, <1>7, EachIsFirst
<1>10. L!Labels(c) = list
  BY <1>8, <1>9 DEF L!Labels, Plain
<1> QED
  BY <1>1, <1>3, <1>6, <1>7, <1>10

\* The names in a list are the keys of its labels but the reserved one.
LEMMA NamesAre ==
    ASSUME NEW names
    PROVE  L!Names(names) = KeysIn(SpelledIn(L!Labels(names)))
BY DEF L!Names, KeysIn, SpelledIn

\* The same categories in another order.
LEMMA SameSymmetric ==
    ASSUME NEW Word, NEW a \in Seq(Word), NEW b \in Seq(Word), L!Same(a, b), OneEach(b)
    PROVE  OneEach(a) /\ SpelledIn(a) = SpelledIn(b) /\ L!Same(b, a)
<1> DEFINE At(s, x) == {j \in DOMAIN s : s[j] = x}
<1>1. /\ Len(a) = Len(b) /\ Len(a) \in Nat
      /\ DOMAIN a = 1 .. Len(a) /\ DOMAIN b = 1 .. Len(a)
  BY DEF L!Same
<1>2. \A i \in DOMAIN a : Cardinality(At(a, a[i])) = Cardinality(At(b, a[i]))
  BY CardinalityL DEF L!Same
<1>3. ASSUME NEW s \in Seq(Word), NEW x PROVE IsFiniteSet(At(s, x))
  <2>1. Len(s) \in Nat /\ At(s, x) \in SUBSET (1 .. Len(s))
    OBVIOUS
  <2>2. IsFiniteSet(1 .. Len(s))
    BY <2>1, FS_Interval
  <2> QED
    BY <2>1, <2>2, FS_Subset
<1>4. ASSUME NEW i \in DOMAIN b PROVE At(b, b[i]) = {i}
  BY DEF OneEach
<1>5. ASSUME NEW i \in DOMAIN a PROVE \E j \in DOMAIN b : b[j] = a[i]
  <2>1. i \in At(a, a[i])
    OBVIOUS
  <2>2. Cardinality(At(a, a[i])) # 0
    <3> HIDE DEF At
    <3> QED
      BY <1>3, <2>1, FS_EmptySet
  <2>3. Cardinality({}) = 0
    BY FS_EmptySet
  <2>4. At(b, a[i]) # {}
    <3>1. Cardinality(At(b, a[i])) # 0
      BY <1>2, <2>2
    <3> HIDE DEF At
    <3> QED
      BY <2>3, <3>1
  <2> QED
    BY <2>4
<1>6. ASSUME NEW i \in DOMAIN a PROVE Cardinality(At(a, a[i])) = 1
  <2>1. PICK j \in DOMAIN b : b[j] = a[i]
    BY <1>5
  <2>2. Cardinality(At(b, a[i])) = 1
    <3>1. At(b, a[i]) = {j} /\ Cardinality({j}) = 1
      BY <1>4, <2>1, FS_Singleton
    <3> QED
      BY <3>1
  <2> QED
    BY <1>2, <2>2
<1>7. ASSUME NEW i \in DOMAIN a, NEW j \in DOMAIN a, a[i] = a[j] PROVE i = j
  <2>1. i \in At(a, a[i]) /\ j \in At(a, a[i])
    BY <1>7
  <2>2. IsFiniteSet(At(a, a[i])) /\ Cardinality(At(a, a[i])) = 1
    BY <1>3, <1>6
  <2> HIDE DEF At
  <2> QED
    BY <2>1, <2>2, FS_Singleton
<1> DEFINE to == [i \in DOMAIN a |-> CHOOSE j \in DOMAIN b : b[j] = a[i]]
<1>8. \A i \in DOMAIN a : to[i] \in DOMAIN b /\ b[to[i]] = a[i]
  BY <1>5
<1>9. to \in Injection(DOMAIN a, DOMAIN b)
  <2>1. to \in [DOMAIN a -> DOMAIN b] /\ DOMAIN to = DOMAIN a
    BY <1>8
  <2>2. \A i, j \in DOMAIN a : to[i] = to[j] => i = j
    BY <1>7, <1>8
  <2> HIDE DEF to
  <2> QED
    BY <2>1, <2>2 DEF Injection, IsInjective
<1>10. to \in Surjection(DOMAIN a, DOMAIN b)
  <2>1. IsFiniteSet(DOMAIN b) /\ DOMAIN a = DOMAIN b
    BY <1>1, FS_Interval
  <2> HIDE DEF to
  <2> QED
    BY <1>9, <2>1, FS_Injection
<1>11. ASSUME NEW j \in DOMAIN b PROVE \E i \in DOMAIN a : a[i] = b[j]
  <2> HIDE DEF to
  <2> QED
    BY <1>8, <1>10 DEF Surjection
<1>12. OneEach(a)
  <2> SUFFICES ASSUME NEW i \in DOMAIN a, NEW j \in DOMAIN a, i # j
               PROVE  Key[a[i]] # Key[a[j]]
    BY DEF OneEach
  <2>1. to[i] # to[j]
    BY <1>7, <1>8
  <2> HIDE DEF to
  <2> QED
    BY <1>8, <2>1 DEF OneEach
<1>13. SpelledIn(a) = SpelledIn(b)
  BY <1>5, <1>11 DEF SpelledIn
<1>14. L!Same(b, a)
  <2>1. ASSUME NEW j \in DOMAIN b PROVE Cardinality(At(b, b[j])) = Cardinality(At(a, b[j]))
    BY <1>2, <1>11
  <2> QED
    BY <1>1, <2>1, CardinalityL DEF L!Same
<1> QED
  BY <1>12, <1>13, <1>14

\* A priority, perhaps none; what an operation knows of a task.
Priority == Int \cup {NoText}
Fields(Word) == [categories : Seq(Word), priority : Priority]

\* What is promised of every result.
AsPromised(f) == /\ L!FavoriteIsHigh(f)
              /\ L!Same(L!Imported(f).categories, f.categories)
              /\ L!Imported(f).priority = f.priority
              /\ OneEach(f.categories)

\* Every list of categories is the same as itself.
LEMMA SameItself == ASSUME NEW a PROVE L!Same(a, a)
BY DEF L!Same

\* Labels with the star that goes with the priority.
LEMMA StarredAsHigh ==
    ASSUME NEW Word, Spelled(Word), NEW list \in Seq(Word), Plain(list), NEW p \in Priority,
           NEW f, f.categories = L!Categories(list, L!PriorityIsHigh(p)), f.priority = p
    PROVE  /\ AsPromised(f)
           /\ L!Imported(f) = [categories |-> f.categories, priority |-> p]
           /\ L!Names(f.categories) = KeysIn(SpelledIn(list))
           /\ f.categories \in Seq(Word)
           /\ L!IsFavorite(f.categories) <=> L!PriorityIsHigh(p)
<1> DEFINE high == L!PriorityIsHigh(p)
<1>1. high \in BOOLEAN
  BY DEF L!PriorityIsHigh
<1>2. /\ f.categories \in Seq(Word) /\ OneEach(f.categories)
      /\ L!IsFavorite(f.categories) <=> high
      /\ L!Labels(f.categories) = list
  <2> HIDE DEF high
  <2> QED
    BY <1>1, WrittenAndRead DEF high
<1>3. (L!IsFavorite(f.categories) \/ L!PriorityIsHigh(f.priority)) = high
  <2>1. L!IsFavorite(f.categories) \in BOOLEAN
    BY DEF L!IsFavorite
  <2> QED
    BY <1>1, <1>2, <2>1
<1>4. L!Imported(f) = [categories |-> f.categories, priority |-> p]
  BY <1>2, <1>3 DEF L!Imported, L!Normalized
<1>5. L!Names(f.categories) = KeysIn(SpelledIn(list))
  BY <1>2, NamesAre
<1> QED
  BY <1>2, <1>4, <1>5, SameItself DEF AsPromised, L!FavoriteIsHigh

\* FromPriority and NormalizeFavoritePriority: the labels stay, and the star
\* goes with the priority.
LEMMA RuledSettled ==
    ASSUME NEW Word, Spelled(Word), NoText \notin Int, NEW f \in Fields(Word),
           NEW r \in {L!FromPriority(f), L!Normalized(f)}
    PROVE  /\ r \in Fields(Word) /\ AsPromised(r)
           /\ L!Imported(r) = r
           /\ r.categories = L!Categories(L!Labels(f.categories), L!PriorityIsHigh(r.priority))
           /\ L!IsFavorite(r.categories) <=> L!PriorityIsHigh(r.priority)
           /\ L!Names(r.categories) = L!Names(f.categories)
<1>1. f = [categories |-> f.categories, priority |-> f.priority]
      /\ f.categories \in Seq(Word) /\ f.priority \in Priority
  BY DEF Fields
<1> DEFINE list == L!Labels(f.categories)
<1>2. list \in Seq(Word) /\ Plain(list)
  BY <1>1, LabelsPlain
<1>3. /\ r = [categories |-> r.categories, priority |-> r.priority]
      /\ r.priority \in Priority
      /\ r.categories = L!Categories(list, L!PriorityIsHigh(r.priority))
  <2>1. CASE r = L!FromPriority(f)
    <3>1. r = [categories |-> L!Categories(list, L!PriorityIsHigh(f.priority)),
               priority |-> f.priority]
      BY <1>1, <2>1 DEF L!FromPriority
    <3> QED
      BY <1>1, <3>1
  <2>2. CASE r = L!Normalized(f)
    <3> DEFINE fav == L!IsFavorite(f.categories) \/ L!PriorityIsHigh(f.priority)
               p == IF fav /\ ~L!PriorityIsHigh(f.priority)
                    THEN L!FavoritePriority ELSE f.priority
    <3>1. r = [categories |-> L!Categories(list, fav), priority |-> p]
      BY <2>2 DEF L!Normalized
    <3>2. L!PriorityIsHigh(p) = fav /\ p \in Priority
      <4>1. fav \in BOOLEAN /\ L!PriorityIsHigh(f.priority) \in BOOLEAN
        BY DEF L!PriorityIsHigh, L!IsFavorite
      <4>2. CASE fav /\ ~L!PriorityIsHigh(f.priority)
        <5>1. p = 1
          BY <4>2 DEF L!FavoritePriority
        <5>2. fav = TRUE
          BY <4>1, <4>2
        <5>3. L!PriorityIsHigh(p) = TRUE /\ p \in Priority
          BY <5>1 DEF L!PriorityIsHigh, Priority
        <5> QED
          BY <5>2, <5>3
      <4>3. CASE ~(fav /\ ~L!PriorityIsHigh(f.priority))
        <5>1. p = f.priority
          BY <4>3
        <5>2. L!PriorityIsHigh(f.priority) = fav
          BY <4>1, <4>3
        <5> QED
          BY <1>1, <5>1, <5>2
      <4> QED
        BY <4>2, <4>3
    <3> HIDE DEF fav, p
    <3> QED
      BY <3>1, <3>2
  <2> QED
    BY <2>1, <2>2
<1> HIDE DEF list
<1>4. /\ AsPromised(r) /\ L!Imported(r) = [categories |-> r.categories, priority |-> r.priority]
      /\ L!Names(r.categories) = KeysIn(SpelledIn(list))
      /\ r.categories \in Seq(Word)
      /\ L!IsFavorite(r.categories) <=> L!PriorityIsHigh(r.priority)
  BY <1>2, <1>3, StarredAsHigh
<1>5. r \in Fields(Word)
  BY <1>3, <1>4 DEF Fields
<1> QED
  BY <1>3, <1>4, <1>5, NamesAre DEF list

\* A form: fields that are not sent are NoText.
Form(Word) == [labels : Seq(Word) \cup {NoText}, priority : Priority]

\* The form itself leaves the names of the labels as they are, or sets them.
LEMMA FormTaken ==
    ASSUME NEW Word, Spelled(Word), NoText \notin Int, NEW base \in Fields(Word), NEW form \in Form(Word)
    PROVE  LET fields == L!WithPriority(L!WithLabels(base, form), form)
           IN  /\ fields \in Fields(Word)
               /\ L!Names(fields.categories)
                    = L!Names(IF L!SetsLabels(form) THEN form.labels ELSE base.categories)
               /\ ~L!SetsLabels(form) => fields.categories = base.categories
               /\ fields.priority = IF form.priority = NoText THEN base.priority
                                    ELSE IF form.priority = 0 THEN NoText ELSE form.priority
<1> DEFINE w == L!WithLabels(base, form)
           fields == L!WithPriority(w, form)
<1>1. base = [categories |-> base.categories, priority |-> base.priority]
      /\ base.categories \in Seq(Word) /\ base.priority \in Priority
      /\ form.priority \in Priority /\ form.labels \in Seq(Word) \cup {NoText}
  BY DEF Fields, Form
<1>2. /\ w = [categories |-> w.categories, priority |-> base.priority]
      /\ w.categories \in Seq(Word)
      /\ L!Names(w.categories) = L!Names(IF L!SetsLabels(form) THEN form.labels ELSE base.categories)
      /\ ~L!SetsLabels(form) => w.categories = base.categories
  <2>1. CASE ~L!SetsLabels(form)
    BY <1>1, <2>1 DEF L!WithLabels
  <2>2. CASE L!SetsLabels(form)
    <3> DEFINE list == L!Deduplicated(form.labels)
               fav == L!IsFavorite(base.categories)
    <3>1. form.labels \in Seq(Word) /\ L!Acceptable(form.labels)
      BY <1>1, <2>2 DEF L!SetsLabels
    <3>2. list \in Seq(Word) /\ Plain(list) /\ list = L!Labels(form.labels)
      BY <3>1, DeduplicatedPlain
    <3>3. fav \in BOOLEAN
      BY DEF L!IsFavorite
    <3>4. L!Categories(form.labels, fav) = L!Categories(list, fav)
      BY <3>2, EachIsFirst DEF Plain, L!Categories, L!Deduplicated
    <3>5. /\ L!Categories(list, fav) \in Seq(Word)
          /\ L!Labels(L!Categories(list, fav)) = list
      <4> HIDE DEF list, fav
      <4> QED
        BY <3>2, <3>3, WrittenAndRead
    <3>6. w = [categories |-> L!Categories(form.labels, fav), priority |-> base.priority]
      BY <1>1, <2>2 DEF L!WithLabels
    <3>7. L!Names(w.categories) = L!Names(form.labels)
      BY <3>2, <3>4, <3>5, <3>6, NamesAre
    <3> QED
      BY <2>2, <3>4, <3>5, <3>6, <3>7
  <2> QED
    BY <2>1, <2>2
<1> HIDE DEF w
<1>3. fields = [categories |-> w.categories,
                priority |-> IF form.priority = NoText THEN base.priority
                             ELSE IF form.priority = 0 THEN NoText ELSE form.priority]
  BY <1>2 DEF L!WithPriority, L!Cleared
<1>4. fields.priority \in Priority
  BY <1>1, <1>3 DEF Priority
<1> HIDE DEF fields
<1>5. fields \in Fields(Word)
  BY <1>2, <1>3, <1>4 DEF Fields
<1> QED
  BY <1>2, <1>3, <1>5 DEF w, fields

\* An edit leaves fields as promised, and the names of the labels that the
\* form or the task had.
LEMMA UpdateSettled ==
    ASSUME NEW Word, Spelled(Word), NoText \notin Int, NEW base \in Fields(Word), NEW form \in Form(Word)
    PROVE  LET updated == L!TaskUpdate(base, form)
           IN  /\ AsPromised(updated)
               /\ L!Names(updated.categories)
                    = L!Names(IF L!SetsLabels(form) THEN form.labels ELSE base.categories)
               /\ form.priority \in 1 .. 9 => updated.priority = form.priority
               /\ form.priority = 0 => ~L!IsFavorite(updated.categories)
<1> DEFINE fields == L!WithPriority(L!WithLabels(base, form), form)
           result == L!RuleApplied(fields, form.priority # NoText)
           updated == L!TaskUpdate(base, form)
<1>1. /\ fields \in Fields(Word)
      /\ L!Names(fields.categories)
           = L!Names(IF L!SetsLabels(form) THEN form.labels ELSE base.categories)
      /\ ~L!SetsLabels(form) => fields.categories = base.categories
      /\ fields.priority = IF form.priority = NoText THEN base.priority
                           ELSE IF form.priority = 0 THEN NoText ELSE form.priority
  BY FormTaken
<1> HIDE DEF fields
<1>2. result \in {L!FromPriority(fields), L!Normalized(fields)}
  BY DEF L!RuleApplied
<1>3. /\ result \in Fields(Word) /\ AsPromised(result)
      /\ L!Imported(result) = result
      /\ result.categories = L!Categories(L!Labels(fields.categories), L!PriorityIsHigh(result.priority))
      /\ L!IsFavorite(result.categories) <=> L!PriorityIsHigh(result.priority)
      /\ L!Names(result.categories) = L!Names(fields.categories)
  <2> HIDE DEF result
  <2> QED
    BY <1>1, <1>2, RuledSettled
<1>4. form.priority # NoText => result.priority = fields.priority
  BY DEF L!RuleApplied, L!FromPriority
<1>5. form.priority \in 1 .. 9 => result.priority = form.priority
  BY <1>1, <1>4
<1>6. form.priority = 0 => ~L!IsFavorite(result.categories)
  BY <1>1, <1>3, <1>4 DEF L!PriorityIsHigh
<1>7. updated = IF L!Same(fields.categories, result.categories) /\ ~L!SetsLabels(form)
                THEN [result EXCEPT !.categories = base.categories] ELSE result
  BY DEF L!TaskUpdate, fields
<1> HIDE DEF result, updated
<1>8. CASE updated = result
  BY <1>1, <1>3, <1>5, <1>6, <1>8 DEF updated
<1>9. CASE /\ L!Same(fields.categories, result.categories) /\ ~L!SetsLabels(form)
           /\ updated = [result EXCEPT !.categories = base.categories]
  <2> DEFINE kept == base.categories
  <2>1. updated = [categories |-> kept, priority |-> result.priority]
    BY <1>3, <1>9 DEF Fields
  <2>2. kept \in Seq(Word) /\ result.categories \in Seq(Word) /\ fields.categories = kept
    BY <1>1, <1>3, <1>9 DEF Fields
  <2>3. /\ OneEach(kept) /\ SpelledIn(kept) = SpelledIn(result.categories)
        /\ L!Same(result.categories, kept)
    BY <1>3, <1>9, <2>2, SameSymmetric DEF AsPromised
  <2>4. L!IsFavorite(kept) <=> L!IsFavorite(result.categories)
    <3>1. \A s : L!IsFavorite(s) <=> \E x \in SpelledIn(s) : L!Reserved(x)
      BY DEF L!IsFavorite, SpelledIn
    <3> QED
      BY <2>3, <3>1
  <2>5. L!Imported(updated) = result
    <3>1. (L!IsFavorite(kept) \/ L!PriorityIsHigh(result.priority))
            = L!PriorityIsHigh(result.priority)
      <4>1. L!IsFavorite(kept) \in BOOLEAN /\ L!PriorityIsHigh(result.priority) \in BOOLEAN
        BY DEF L!IsFavorite, L!PriorityIsHigh
      <4> QED
        BY <1>3, <2>4, <4>1
    <3>2. L!Imported(updated)
            = [categories |-> L!Categories(L!Labels(kept), L!PriorityIsHigh(result.priority)),
               priority |-> result.priority]
      BY <2>1, <3>1 DEF L!Imported, L!Normalized
    <3>3. result = [categories |-> result.categories, priority |-> result.priority]
      BY <1>3 DEF Fields
    <3> QED
      BY <1>3, <2>2, <3>2, <3>3
  <2>6. AsPromised(updated)
    BY <1>3, <2>1, <2>3, <2>4, <2>5 DEF AsPromised, L!FavoriteIsHigh
  <2>7. L!Names(updated.categories)
          = L!Names(IF L!SetsLabels(form) THEN form.labels ELSE base.categories)
    BY <1>9, <2>1
  <2> QED
    BY <1>5, <1>6, <2>1, <2>4, <2>6, <2>7 DEF updated
<1> QED
  BY <1>7, <1>8, <1>9

\* Label and priority edits: whatever categories and priority a task had, and
\* whichever fields of the form were sent, what Caldo writes is a favourite
\* exactly when its priority is high, has the labels that the form or the task
\* had, each name once, and reads back as it was written.
THEOREM FavoritesFollowPriority ==
    ASSUME NEW Word, Spelled(Word), NoText \notin Int,
           NEW base \in Fields(Word), NEW form \in Form(Word)
    PROVE  L!FavoriteFollowsPriority(base, form)
<1> DEFINE updated == L!TaskUpdate(base, form)
           imported == L!Imported(base)
           created == L!TaskCreate(form)
           results == {updated, imported, created} \cup {L!TaskFavorite(base, b) : b \in BOOLEAN}
<1>1. base.categories \in Seq(Word) /\ base.priority \in Priority
  BY DEF Fields
<1>2. /\ AsPromised(updated)
      /\ L!Names(updated.categories)
           = L!Names(IF L!SetsLabels(form) THEN form.labels ELSE base.categories)
      /\ form.priority \in 1 .. 9 => updated.priority = form.priority
      /\ form.priority = 0 => ~L!IsFavorite(updated.categories)
  BY UpdateSettled
<1>3. AsPromised(imported) /\ L!Names(imported.categories) = L!Names(base.categories)
  BY RuledSettled DEF L!Imported
<1>4. AsPromised(created)
  <2> DEFINE draft == [categories |-> IF form.labels = NoText THEN <<>> ELSE form.labels,
                       priority |-> IF form.priority = L!Cleared THEN NoText ELSE form.priority]
  <2>1. draft \in Fields(Word)
    BY DEF Fields, Form, Priority
  <2>2. created = L!Normalized(draft)
    BY DEF L!TaskCreate
  <2> HIDE DEF draft, created
  <2> QED
    BY <2>1, <2>2, RuledSettled
<1>5. ASSUME NEW b \in BOOLEAN
      PROVE  /\ AsPromised(L!TaskFavorite(base, b))
             /\ L!Names(L!TaskFavorite(base, b).categories) = L!Names(base.categories)
             /\ L!IsFavorite(L!TaskFavorite(base, b).categories) <=> b
  <2> DEFINE list == L!Labels(base.categories)
             f == L!TaskFavorite(base, b)
  <2>1. list \in Seq(Word) /\ Plain(list)
    BY <1>1, LabelsPlain
  <2>2. f = [categories |-> L!Categories(list, b), priority |-> f.priority]
        /\ f.priority = IF b THEN 1 ELSE NoText
    BY DEF L!TaskFavorite, L!FavoritePriority
  <2>3. f.priority \in Priority /\ L!PriorityIsHigh(f.priority) = b
    BY <2>2 DEF Priority, L!PriorityIsHigh
  <2>4. f.categories = L!Categories(list, L!PriorityIsHigh(f.priority))
    BY <2>2, <2>3
  <2> HIDE DEF list, f
  <2>5. /\ AsPromised(f)
        /\ L!Names(f.categories) = KeysIn(SpelledIn(list))
        /\ L!IsFavorite(f.categories) <=> L!PriorityIsHigh(f.priority)
    BY <2>1, <2>3, <2>4, StarredAsHigh
  <2> QED
    BY <2>3, <2>5, NamesAre DEF list, f
<1> HIDE DEF updated, imported, created
<1>6. \A f \in results : AsPromised(f)
  BY <1>2, <1>3, <1>4, <1>5
<1>7. \A f \in results \ {updated, created} : L!Names(f.categories) = L!Names(base.categories)
  BY <1>3, <1>5
<1> HIDE DEF results
<1> QED
  BY <1>2, <1>5, <1>6, <1>7
     DEF L!FavoriteFollowsPriority, L!Cleared, AsPromised, OneEach, updated, imported, created, results

\* The part of a list at some of its places holds what stands there, each place
\* once.
LEMMA PartAt ==
    ASSUME NEW list, NEW length \in Nat, NEW places \in SUBSET (1 .. length)
    PROVE  /\ Cardinality(places) \in Nat
           /\ DOMAIN L!At(list, places) = 1 .. Cardinality(places)
           /\ L!At(list, places) = [n \in 1 .. Cardinality(places) |-> L!At(list, places)[n]]
           /\ \E place \in Bijection(1 .. Cardinality(places), places) :
                \A n \in 1 .. Cardinality(places) : L!At(list, places)[n] = list[place[n]]
<1> DEFINE Nth(n) == CHOOSE i \in places : L!Cardinality({j \in places : j <= i}) = n
           idx == [n \in 1 .. Cardinality(places) |-> Nth(n)]
           part == L!At(list, places)
<1>1. \A S : L!Cardinality(S) = Cardinality(S)
  BY CardinalityL
<1>2. IsFiniteSet(places) /\ places \in SUBSET Nat
  <2>1. IsFiniteSet(1 .. length)
    BY FS_Interval
  <2>2. IsFiniteSet(places)
    BY <2>1, FS_Subset
  <2>3. places \in SUBSET Nat
    OBVIOUS
  <2> QED
    BY <2>2, <2>3
<1>3. part = [n \in 1 .. L!Cardinality(places) |-> list[Nth(n)]]
  BY DEF L!At
<1>4. Cardinality(places) \in Nat /\ idx \in Bijection(1 .. Cardinality(places), places)
  <2> DEFINE rank == [i \in places |-> i]
  <2>1. \A i \in places : rank[i] \in Nat
    BY <1>2
  <2>2. \A i, j \in places : rank[i] = rank[j] => i = j
    OBVIOUS
  <2>3. idx = [n \in 1 .. Cardinality(places) |-> idx[n]]
    <3> HIDE DEF Nth
    <3> QED
      OBVIOUS
  <2>4. ASSUME NEW i \in places PROVE {j \in places : rank[j] <= rank[i]} = {j \in places : j <= i}
    OBVIOUS
  <2>5. ASSUME NEW n \in 1 .. Cardinality(places),
               \E i \in places : Cardinality({j \in places : rank[j] <= rank[i]}) = n
        PROVE  /\ idx[n] \in places
               /\ Cardinality({j \in places : rank[j] <= rank[idx[n]]}) = n
    <3>1. \E i \in places : L!Cardinality({j \in places : j <= i}) = n
      BY <1>1, <2>4, <2>5
    <3>2. idx[n] \in places /\ L!Cardinality({j \in places : j <= idx[n]}) = n
      <4>1. idx[n] = Nth(n)
        OBVIOUS
      <4>2. Nth(n) \in places /\ L!Cardinality({j \in places : j <= Nth(n)}) = n
        BY <3>1
      <4> HIDE DEF idx, Nth
      <4> QED
        BY <4>1, <4>2
    <3> HIDE DEF idx, rank
    <3> QED
      BY <1>1, <2>4, <3>2
  <2> HIDE DEF idx, rank
  <2> QED
    BY <1>2, <2>1, <2>2, <2>3, <2>5, Numbering
<1>5. \A n \in 1 .. Cardinality(places) : idx[n] = Nth(n)
  OBVIOUS
<1>6. /\ DOMAIN part = 1 .. Cardinality(places)
      /\ part = [n \in 1 .. Cardinality(places) |-> part[n]]
      /\ \A n \in 1 .. Cardinality(places) : part[n] = list[idx[n]]
  <2> HIDE DEF idx, Nth, part
  <2> QED
    BY <1>1, <1>3, <1>5
<1> HIDE DEF idx, part
<1> QED
  BY <1>4, <1>6 DEF part

-----------------------------------------------------------------------------
(* Conflicts: what the page shows, and what its form writes.               *)

\* ConflictForm has the operators of LabelFields.
LEMMA FieldsInConflict ==
    /\ \A c : C!Reserved(c) <=> L!Reserved(c)
    /\ \A s : C!IsFavorite(s) <=> L!IsFavorite(s)
    /\ \A s : C!Labels(s) = L!Labels(s)
    /\ \A s : C!Names(s) = L!Names(s)
    /\ \A s, b : C!Categories(s, b) = L!Categories(s, b)
    /\ \A a, b : C!Same(a, b) <=> L!Same(a, b)
    /\ \A f : C!FavoriteIsHigh(f) <=> L!FavoriteIsHigh(f)
    /\ \A f, b : C!RuleApplied(f, b) = L!RuleApplied(f, b)
    /\ \A s : C!Acceptable(s) <=> L!Acceptable(s)
<1>1. \A S : C!Cardinality(S) = L!Cardinality(S)
  BY DEF C!Cardinality, L!Cardinality, C!IsFiniteSet, L!IsFiniteSet
<1>2. \A c : C!Reserved(c) <=> L!Reserved(c)
  BY DEF C!Reserved, L!Reserved, C!Starred, L!Starred
<1>3. \A s : C!IsFavorite(s) <=> L!IsFavorite(s)
  BY DEF C!IsFavorite, L!IsFavorite, C!Reserved, L!Reserved, C!Starred, L!Starred
<1>4. \A s : C!InOrder(s) = L!InOrder(s)
  BY DEF C!InOrder, L!InOrder, C!Cardinality, L!Cardinality, C!IsFiniteSet, L!IsFiniteSet
<1>5. \A s : C!FirstSpellings(s) = L!FirstSpellings(s)
  BY DEF C!FirstSpellings, L!FirstSpellings
<1>6. \A s : C!Labels(s) = L!Labels(s) /\ C!Deduplicated(s) = L!Deduplicated(s)
  BY <1>2, <1>4, <1>5 DEF C!Labels, L!Labels, C!Deduplicated, L!Deduplicated
<1>7. \A s : C!Names(s) = L!Names(s)
  BY <1>6 DEF C!Names, L!Names
<1>8. \A s, b : C!Categories(s, b) = L!Categories(s, b)
  BY <1>6 DEF C!Categories, L!Categories, C!Starred, L!Starred
<1>9. \A a, b : C!Same(a, b) <=> L!Same(a, b)
  BY <1>1 DEF C!Same, L!Same
<1>10. \A p : C!PriorityIsHigh(p) = L!PriorityIsHigh(p)
  BY DEF C!PriorityIsHigh, L!PriorityIsHigh
<1>11. \A f : C!FavoriteIsHigh(f) <=> L!FavoriteIsHigh(f)
  BY <1>3, <1>10 DEF C!FavoriteIsHigh, L!FavoriteIsHigh
<1>12. \A f : C!FromPriority(f) = L!FromPriority(f)
  BY <1>6, <1>8, <1>10 DEF C!FromPriority, L!FromPriority
<1>13. \A f : C!Normalized(f) = L!Normalized(f)
  BY <1>3, <1>6, <1>8, <1>10
     DEF C!Normalized, L!Normalized, C!FavoritePriority, L!FavoritePriority
<1>14. \A f, b : C!RuleApplied(f, b) = L!RuleApplied(f, b)
  BY <1>12, <1>13 DEF C!RuleApplied, L!RuleApplied
<1>15. \A s : C!Acceptable(s) <=> L!Acceptable(s)
  BY <1>3 DEF C!Acceptable, L!Acceptable
<1> QED
  BY <1>2, <1>3, <1>6, <1>7, <1>8, <1>9, <1>11, <1>14, <1>15

\* A conflict with the versions it has, and a form of its page: a source that
\* the page offers for every field, and labels as a list.
ConflictOf(Word, c) ==
    /\ \E v \in C!Version : C!Has(c, v)
    /\ \A v \in C!Version : C!Has(c, v) => /\ c[v].categories \in Seq(Word)
                                            /\ c[v].priority \in Priority
FormOf(Word, Typed, c, form) ==
    /\ form \in [C!ManualField -> [source : C!Version \cup {"manual"}, manual : Typed]]
    /\ \A field \in C!ManualField : form[field].source \in C!Options(c)
    /\ form["labels"].source = "manual" => form["labels"].manual \in Seq(Word)

\* Every field but the labels comes out as its preview shows it.
LEMMA FieldAsPreviewed ==
    ASSUME NEW c, NEW form, NEW field \in C!ManualField \ {"labels"}, NoText \notin Int,
           form[field].source \in C!Options(c),
           field = "status" /\ form[field].source = "manual"
             => form[field].manual \in C!ManualStatus,
           field = "priority" /\ form[field].source = "manual"
             => form[field].manual \in (1 .. 9) \cup {NoText}
    PROVE  C!Shown(field, C!BuildManual(c, form)) = C!Previewed(c, field, form[field])
<1> DEFINE result == C!BuildManual(c, form)
           choice == form[field]
<1> SUFFICES C!Shown(field, result) = C!Previewed(c, field, choice)
  OBVIOUS
<1>1. C!Touches(c, choice) /\ (choice.source # "manual" => C!Selects(c, choice))
      /\ (choice.source = "manual" => ~C!Selects(c, choice))
  BY DEF C!Options, C!Touches, C!Selects
<1>2. C!Taken(c, field, choice) = IF choice.source = "manual" THEN choice.manual
                                  ELSE c[choice.source][field]
  BY <1>1 DEF C!Taken
<1>3. CASE field \in {"title", "description", "due", "parent"}
  <2>1. result[field] = C!Taken(c, field, choice)
    <3>1. /\ result.title = C!Taken(c, "title", form["title"])
          /\ result.description = C!Taken(c, "description", form["description"])
          /\ result.due = C!Taken(c, "due", form["due"])
          /\ result.parent = C!Taken(c, "parent", form["parent"])
      BY DEF C!BuildManual
    <3> HIDE DEF result
    <3> QED
      BY <1>3, <3>1
  <2> HIDE DEF result
  <2>2. C!Shown(field, result) = result[field]
    BY <1>3 DEF C!Shown
  <2>3. \A f : C!Shown(field, f) = f[field]
    BY <1>3 DEF C!Shown
  <2> QED
    BY <1>2, <2>1, <2>2, <2>3 DEF C!Previewed
<1>4. CASE field = "status"
  <2>1. result.status = IF C!Taken(c, "status", choice) = "" THEN "needs-action"
                        ELSE C!Taken(c, "status", choice)
    BY <1>1, <1>4 DEF C!BuildManual
  <2> HIDE DEF result
  <2>2. \A f : C!Shown("status", f) = C!StatusShown(f)
    BY DEF C!Shown
  <2>3. CASE choice.source = "manual"
    <3>1. choice.manual # "" /\ result.status = choice.manual
      BY <1>2, <1>4, <2>1, <2>3 DEF C!ManualStatus
    <3> QED
      BY <1>4, <2>2, <2>3, <3>1 DEF C!Previewed, C!StatusShown
  <2>4. CASE choice.source # "manual"
    <3>1. result.status = IF c[choice.source].status = "" THEN "needs-action"
                          ELSE c[choice.source].status
      BY <1>2, <1>4, <2>1, <2>4
    <3> QED
      BY <1>4, <2>2, <2>4, <3>1 DEF C!Previewed, C!StatusShown
  <2> QED
    BY <2>3, <2>4
<1>5. CASE field = "priority"
  <2>1. result.priority = C!Taken(c, "priority", choice)
    BY <1>1, <1>5 DEF C!BuildManual, C!RuleApplied, C!FromPriority
  <2> HIDE DEF result
  <2>2. \A f : C!Shown("priority", f) = C!PriorityShown(f)
    BY DEF C!Shown
  <2>3. CASE choice.source = "manual"
    <3>1. /\ choice.manual = NoText \/ choice.manual # 0
          /\ result.priority = choice.manual
      BY <1>2, <1>5, <2>1, <2>3
    <3> QED
      BY <1>5, <2>2, <2>3, <3>1 DEF C!Previewed, C!PriorityShown
  <2>4. CASE choice.source # "manual"
    <3>1. result.priority = c[choice.source].priority
      BY <1>2, <1>5, <2>1, <2>4
    <3> QED
      BY <1>5, <2>2, <2>4, <3>1 DEF C!Previewed, C!PriorityShown
  <2> QED
    BY <2>3, <2>4
<1> QED
  BY <1>3, <1>4, <1>5 DEF C!ManualField

\* The labels that a version shows are those it has.
LEMMA ShownAreLabels ==
    ASSUME NEW Word, NEW f, f.categories \in Seq(Word)
    PROVE  {Key[n] : n \in C!ToSet(C!LabelsShown(f))}
             = {k \in KeysIn(SpelledIn(f.categories)) : k # Key[L!Starred]}
<1> DEFINE names == f.categories
           shown == {i \in DOMAIN names : /\ ~C!Reserved(names[i])
                                          /\ \A j \in 1 .. i - 1 : Key[names[j]] # Key[names[i]]}
           list == C!LabelsShown(f)
<1>1. C!At(names, shown) = L!At(names, shown)
  BY DEF C!At, L!At, C!Cardinality, L!Cardinality, C!IsFiniteSet, L!IsFiniteSet
<1>2. shown \in SUBSET (1 .. Len(names)) /\ Len(names) \in Nat
  OBVIOUS
<1>3. list = L!At(names, shown)
  BY <1>1 DEF C!LabelsShown
<1> HIDE DEF shown, list
<1>4. PICK place \in Bijection(1 .. Cardinality(shown), shown) :
            \A n \in 1 .. Cardinality(shown) : list[n] = names[place[n]]
  BY <1>2, <1>3, PartAt
<1>5. DOMAIN list = 1 .. Cardinality(shown)
  BY <1>2, <1>3, PartAt
<1>6. /\ \A n \in 1 .. Cardinality(shown) : place[n] \in shown
      /\ \A i \in shown : \E n \in 1 .. Cardinality(shown) : place[n] = i
  BY DEF Bijection, Injection, Surjection
<1>7. C!ToSet(list) = {names[i] : i \in shown}
  BY <1>4, <1>5, <1>6 DEF C!ToSet
<1>8. {names[i] : i \in shown} = {x \in L!FirstSpellings(names) : ~L!Reserved(x)}
  BY FieldsInConflict DEF shown, L!FirstSpellings
<1>9. {Key[x] : x \in {y \in L!FirstSpellings(names) : ~L!Reserved(y)}}
         = {k \in KeysIn(L!FirstSpellings(names)) : k # Key[L!Starred]}
  BY DEF KeysIn, L!Reserved
<1>10. KeysIn(L!FirstSpellings(names)) = KeysIn(SpelledIn(names))
  BY FirstOfEach
<1> QED
  BY <1>7, <1>8, <1>9, <1>10 DEF list

\* What the form writes for the labels.
LEMMA LabelsAsPreviewed ==
    ASSUME NEW Word, Spelled(Word), NoText \notin Int, NEW Typed, NEW c, ConflictOf(Word, c),
           NEW form, FormOf(Word, Typed, c, form), C!Valid(form)
    PROVE  LET result == C!BuildManual(c, form)
               chosen == form["labels"]
           IN  /\ C!FavoriteIsHigh(result)
               /\ \/ C!Names(result.categories)
                       = {Key[n] : n \in C!ToSet(C!Previewed(c, "labels", chosen))}
                  \/ C!Selects(c, chosen) /\ c[chosen.source].categories = <<>>
<1> DEFINE result == C!BuildManual(c, form)
           chosen == form["labels"]
           new == C!NewCategories(c, chosen)
           edited == [categories |-> new.list,
                      priority |-> C!Taken(c, "priority", form["priority"])]
           ruled == C!RuleApplied(edited, C!Touches(c, form["priority"]))
           shown == C!Previewed(c, "labels", chosen)
<1>1. {"labels", "priority"} \subseteq C!ManualField
  BY DEF C!ManualField
<1>2. \A field \in C!ManualField :
        /\ C!Touches(c, form[field])
        /\ form[field].source # "manual" =>
             /\ C!Selects(c, form[field]) /\ form[field].source \in C!Version
             /\ C!Has(c, form[field].source)
        /\ form[field].source = "manual" => ~C!Selects(c, form[field])
  BY DEF FormOf, C!Options, C!Touches, C!Selects
<1>3. /\ C!Target(c).categories \in Seq(Word)
      /\ \A v \in C!Version : C!Has(c, v) => /\ c[v].categories \in Seq(Word)
                                              /\ c[v].priority \in Priority
  BY DEF ConflictOf, C!Target, C!First, C!Version
<1>4. edited.priority \in Priority
  BY <1>1, <1>2, <1>3 DEF C!Valid, C!Taken, Priority
<1>5. ASSUME chosen.source = "manual"
      PROVE  /\ new.list \in Seq(Word)
             /\ L!Names(new.list) = {Key[n] : n \in C!ToSet(shown)}
  <2> DEFINE list == L!Deduplicated(chosen.manual)
             fav == C!IsFavorite(C!Target(c).categories)
  <2>1. chosen.manual \in Seq(Word) /\ L!Acceptable(chosen.manual)
    BY <1>5, FieldsInConflict DEF FormOf, C!Valid
  <2>2. /\ list \in Seq(Word) /\ Plain(list)
        /\ KeysIn(SpelledIn(list)) = KeysIn(SpelledIn(chosen.manual))
    BY <2>1, DeduplicatedPlain
  <2>3. fav \in BOOLEAN
    BY DEF C!IsFavorite
  <2>4. new.set /\ new.list = L!Categories(chosen.manual, fav)
    BY <1>5, FieldsInConflict DEF C!NewCategories
  <2>5. L!Categories(chosen.manual, fav) = L!Categories(list, fav)
    BY <2>2, EachIsFirst DEF Plain, L!Categories, L!Deduplicated
  <2>6. new.list \in Seq(Word) /\ L!Labels(new.list) = list
    <3> HIDE DEF list, fav, new
    <3> QED
      BY <2>2, <2>3, <2>4, <2>5, WrittenAndRead
  <2>7. L!Names(new.list) = KeysIn(SpelledIn(chosen.manual))
    BY <2>2, <2>6, NamesAre
  <2>8. shown = chosen.manual
    BY <1>5 DEF C!Previewed
  <2>9. {Key[n] : n \in C!ToSet(shown)} = KeysIn(SpelledIn(chosen.manual))
    BY <2>8 DEF C!ToSet, KeysIn, SpelledIn
  <2> QED
    BY <2>6, <2>7, <2>9
<1>6. ASSUME chosen.source # "manual", c[chosen.source].categories # <<>>
      PROVE  /\ new.list \in Seq(Word)
             /\ L!Names(new.list) = {Key[n] : n \in C!ToSet(shown)}
  <2> DEFINE names == c[chosen.source].categories
  <2>1. names \in Seq(Word) /\ new.list = names
    BY <1>1, <1>2, <1>3, <1>6 DEF C!NewCategories
  <2>2. L!Names(names) = {k \in KeysIn(SpelledIn(names)) : k # Key[L!Starred]}
    BY <2>1, LabelsPlain, NamesAre
  <2>3. shown = C!LabelsShown(c[chosen.source])
    BY <1>6 DEF C!Previewed, C!Shown
  <2>4. {Key[n] : n \in C!ToSet(C!LabelsShown(c[chosen.source]))}
          = {k \in KeysIn(SpelledIn(names)) : k # Key[L!Starred]}
    BY <2>1, ShownAreLabels
  <2> HIDE DEF new, shown
  <2> QED
    BY <2>1, <2>2, <2>3, <2>4
<1>7. ASSUME chosen.source # "manual", c[chosen.source].categories = <<>>
      PROVE  new.list \in Seq(Word) /\ C!Selects(c, chosen)
  BY <1>1, <1>2, <1>3, <1>7 DEF C!NewCategories
<1> HIDE DEF new, shown, chosen
<1>8. new.list \in Seq(Word)
  BY <1>5, <1>6, <1>7
<1>9. edited \in Fields(Word) /\ edited.categories = new.list
  BY <1>4, <1>8 DEF Fields
<1>10. ruled \in {L!FromPriority(edited), L!Normalized(edited)}
  BY FieldsInConflict DEF L!RuleApplied
<1> HIDE DEF edited, ruled
<1>11. /\ ruled \in Fields(Word) /\ AsPromised(ruled)
       /\ L!IsFavorite(ruled.categories) <=> L!PriorityIsHigh(ruled.priority)
       /\ L!Names(ruled.categories) = L!Names(new.list)
  BY <1>9, <1>10, RuledSettled
<1>12. /\ result.priority = ruled.priority
       /\ result.categories = IF ~new.set /\ C!Same(new.list, ruled.categories)
                              THEN new.list ELSE ruled.categories
  BY DEF C!BuildManual, new, chosen, edited, ruled
<1> HIDE DEF result
<1>13. /\ L!IsFavorite(result.categories) <=> L!IsFavorite(ruled.categories)
       /\ L!Names(result.categories) = L!Names(new.list)
  <2>1. CASE result.categories = ruled.categories
    BY <1>11, <2>1
  <2>2. CASE result.categories = new.list /\ L!Same(new.list, ruled.categories)
    <3>1. ruled.categories \in Seq(Word)
      BY <1>11 DEF Fields
    <3>2. SpelledIn(new.list) = SpelledIn(ruled.categories)
      BY <1>8, <1>11, <2>2, <3>1, SameSymmetric DEF AsPromised
    <3>3. \A s : L!IsFavorite(s) <=> \E x \in SpelledIn(s) : L!Reserved(x)
      BY DEF L!IsFavorite, SpelledIn
    <3> QED
      BY <2>2, <3>2, <3>3
  <2> QED
    BY <1>12, <2>1, <2>2, FieldsInConflict
<1>14. C!FavoriteIsHigh(result)
  BY <1>11, <1>12, <1>13, FieldsInConflict DEF L!FavoriteIsHigh
<1>15. \/ C!Names(result.categories) = {Key[n] : n \in C!ToSet(shown)}
       \/ C!Selects(c, chosen) /\ c[chosen.source].categories = <<>>
  BY <1>5, <1>6, <1>7, <1>13, FieldsInConflict
<1> QED
  BY <1>14, <1>15 DEF result, chosen, shown

\* Conflicts: the manual resolution is what its preview shows, whichever
\* source is chosen for each field.
THEOREM ConflictsResolveAsShown ==
    ASSUME NEW Word, Spelled(Word), NoText \notin Int, NEW Typed, NEW c, ConflictOf(Word, c),
           NEW form, FormOf(Word, Typed, c, form)
    PROVE  C!ManualIsPreviewed(c, form)
<1> DEFINE result == C!BuildManual(c, form)
           chosen == form["labels"]
<1> SUFFICES ASSUME C!Valid(form)
             PROVE  /\ \A field \in C!ManualField \ {"labels"} :
                         C!Shown(field, result) = C!Previewed(c, field, form[field])
                    /\ \/ C!Names(result.categories)
                            = {Key[n] : n \in C!ToSet(C!Previewed(c, "labels", chosen))}
                       \/ C!Selects(c, chosen) /\ c[chosen.source].categories = <<>>
                    /\ C!FavoriteIsHigh(result)
                    /\ result.completed # NoText => result.status = "completed"
                    /\ result.rest = C!Target(c).rest
  BY DEF C!ManualIsPreviewed
<1>1. ASSUME NEW field \in C!ManualField \ {"labels"}
      PROVE  C!Shown(field, result) = C!Previewed(c, field, form[field])
  <2>1. form[field].source \in C!Options(c)
    BY DEF FormOf
  <2>2. field = "status" /\ form[field].source = "manual" => form[field].manual \in C!ManualStatus
    BY DEF C!Valid
  <2>3. field = "priority" /\ form[field].source = "manual"
          => form[field].manual \in (1 .. 9) \cup {NoText}
    BY DEF C!Valid
  <2> QED
    BY <2>1, <2>2, <2>3, FieldAsPreviewed
<1>2. /\ C!FavoriteIsHigh(result)
      /\ \/ C!Names(result.categories)
              = {Key[n] : n \in C!ToSet(C!Previewed(c, "labels", chosen))}
         \/ C!Selects(c, chosen) /\ c[chosen.source].categories = <<>>
  BY LabelsAsPreviewed
<1>3. result.completed # NoText => result.status = "completed"
  <2>1. C!Touches(c, form["status"])
    BY DEF FormOf, C!ManualField, C!Options, C!Touches
  <2>2. result.completed = C!CompletedAfter(c, form["status"], result.status)
    BY DEF C!BuildManual
  <2> HIDE DEF result
  <2> QED
    BY <2>1, <2>2 DEF C!CompletedAfter
<1>4. result.rest = C!Target(c).rest
  BY DEF C!BuildManual
<1> HIDE DEF result
<1> QED
  BY <1>1, <1>2, <1>3, <1>4

\* The page of a conflict: the handler accepts what a button asks for, and a
\* field without a mark comes out the same whichever version is chosen for it.
THEOREM ConflictPagesAreTrue ==
    ASSUME NEW Word, NoText \notin Int, NEW Typed, NEW c, ConflictOf(Word, c),
           NEW form, FormOf(Word, Typed, c, form)
    PROVE  C!PageIsTrue(c, form)
<1>1. \A resolution \in C!Offered(c) : C!Accepts(c, resolution)
  BY DEF C!Offered, C!Accepts
<1>2. ASSUME NEW field \in C!ManualField \ {"labels"},
             \A v \in C!Version : ~C!ChangedIn(c, v, field),
             NEW v \in C!Options(c) \ {"manual"}, NEW w \in C!Options(c) \ {"manual"}
      PROVE  C!Shown(field, C!BuildManual(c, [form EXCEPT ![field].source = v]))
               = C!Shown(field, C!BuildManual(c, [form EXCEPT ![field].source = w]))
  <2>1. ASSUME NEW u \in C!Options(c) \ {"manual"}
        PROVE  C!Shown(field, C!BuildManual(c, [form EXCEPT ![field].source = u]))
                 = C!Shown(field, c[u])
    <3> DEFINE with == [form EXCEPT ![field].source = u]
    <3>1. with[field].source = u
      BY DEF FormOf
    <3> HIDE DEF with
    <3>2. C!Shown(field, C!BuildManual(c, with)) = C!Previewed(c, field, with[field])
      BY <3>1, FieldAsPreviewed
    <3>3. C!Previewed(c, field, with[field]) = C!Shown(field, c[u])
      BY <3>1 DEF C!Previewed
    <3> QED
      BY <3>2, <3>3 DEF with
  <2>2. \A u \in C!Options(c) \ {"manual"} : u \in {"base", "local", "remote"} /\ C!Has(c, u)
    BY DEF C!Options, C!Version
  <2>3. C!Shown(field, c[v]) = C!Shown(field, c[w])
    <3>1. CASE C!Has(c, "base")
      <4>1. \A u \in C!Options(c) \ {"manual"} : C!Shown(field, c[u]) = C!Shown(field, c["base"])
        BY <1>2, <2>2, <3>1 DEF C!ChangedIn, C!Version
      <4> QED
        BY <4>1
    <3>2. CASE ~C!Has(c, "base")
      <4>1. v \in {"local", "remote"} /\ w \in {"local", "remote"}
            /\ C!Has(c, v) /\ C!Has(c, w)
        BY <2>2, <3>2
      <4>2. C!Has(c, "local") /\ C!Has(c, "remote")
              => C!Shown(field, c["local"]) = C!Shown(field, c["remote"])
        BY <1>2, <3>2 DEF C!ChangedIn, C!Version
      <4> QED
        BY <4>1, <4>2
    <3> QED
      BY <3>1, <3>2
  <2> QED
    BY <2>1, <2>3
<1> QED
  BY <1>1, <1>2 DEF C!PageIsTrue

-----------------------------------------------------------------------------
(* Quick add: from the preview to the task.                                *)

\* QuickAddCreate has them too.
LEMMA FieldsInQuickAdd ==
    /\ \A c : Q!Reserved(c) <=> L!Reserved(c)
    /\ \A s : Q!IsFavorite(s) <=> L!IsFavorite(s)
    /\ \A s : Q!Names(s) = L!Names(s)
    /\ \A f : Q!FavoriteIsHigh(f) <=> L!FavoriteIsHigh(f)
    /\ \A f : Q!Normalized(f) = L!Normalized(f)
<1>1. \A c : Q!Reserved(c) <=> L!Reserved(c)
  BY DEF Q!Reserved, L!Reserved, Q!Starred, L!Starred
<1>2. \A s : Q!IsFavorite(s) <=> L!IsFavorite(s)
  BY DEF Q!IsFavorite, L!IsFavorite, Q!Reserved, L!Reserved, Q!Starred, L!Starred
<1>3. \A s : Q!InOrder(s) = L!InOrder(s)
  BY DEF Q!InOrder, L!InOrder, Q!Cardinality, L!Cardinality, Q!IsFiniteSet, L!IsFiniteSet
<1>4. \A s : Q!FirstSpellings(s) = L!FirstSpellings(s)
  BY DEF Q!FirstSpellings, L!FirstSpellings
<1>5. \A s : Q!Labels(s) = L!Labels(s) /\ Q!Deduplicated(s) = L!Deduplicated(s)
  BY <1>1, <1>3, <1>4 DEF Q!Labels, L!Labels, Q!Deduplicated, L!Deduplicated
<1>6. \A s : Q!Names(s) = L!Names(s)
  BY <1>5 DEF Q!Names, L!Names
<1>7. \A s, b : Q!Categories(s, b) = L!Categories(s, b)
  BY <1>5 DEF Q!Categories, L!Categories, Q!Starred, L!Starred
<1>8. \A p : Q!PriorityIsHigh(p) = L!PriorityIsHigh(p)
  BY DEF Q!PriorityIsHigh, L!PriorityIsHigh
<1>9. \A f : Q!FavoriteIsHigh(f) <=> L!FavoriteIsHigh(f)
  BY <1>2, <1>8 DEF Q!FavoriteIsHigh, L!FavoriteIsHigh
<1>10. \A f : Q!Normalized(f) = L!Normalized(f)
  BY <1>2, <1>5, <1>7, <1>8
     DEF Q!Normalized, L!Normalized, Q!FavoritePriority, L!FavoritePriority
<1> QED
  BY <1>1, <1>2, <1>6, <1>9, <1>10

\* A store, its projects with ids and names; a draft with its labels.
ProjectList(Id, Name) == [projects : Seq([id : Id, name : Name]), default : Id \cup {NoText}]
Words == {"create", "as shown", "cleared", "new", "title required", "recurrence invalid",
          "name required", "selection required", "not found", "unavailable"}

\* The ids in a list of projects.
LEMMA IdsAreIds ==
    ASSUME NEW Id, NEW Name, NEW store \in ProjectList(Id, Name)
    PROVE  Q!Ids(store) \subseteq Id
<1>1. store.projects \in Seq([id : Id, name : Name])
  BY DEF ProjectList
<1>2. ASSUME NEW i \in DOMAIN store.projects PROVE store.projects[i] \in [id : Id, name : Name]
  <2> DEFINE s == store.projects
             P1 == [id : Id, name : Name]
  <2> HIDE DEF s, P1
  <2>1. s \in Seq(P1) /\ i \in DOMAIN s
    BY <1>1, <1>2 DEF s, P1
  <2>2. s[i] \in P1
    BY <2>1
  <2> QED
    BY <2>2 DEF s, P1
<1> QED
  BY <1>2 DEF Q!Ids

\* What the preview says of the project.
LEMMA PreviewedProject ==
    ASSUME NEW Id, NoText \notin Id, NEW Name, NEW draft, NEW before \in ProjectList(Id, Name)
    PROVE  LET p == Q!Preview(draft, before)
           IN  /\ p.id \in Id \cup {NoText}
               /\ p.isNew => p.project = draft.project /\ p.project # NoText
<1> DEFINE p == Q!Preview(draft, before)
           found == draft.project # NoText /\ Q!Named(before, draft.project) # {}
           default == IF before.default \in Q!Ids(before) THEN before.default ELSE NoText
<1>1. before.projects \in Seq([id : Id, name : Name])
  BY DEF ProjectList
<1>2. Q!Ids(before) \subseteq Id
  BY IdsAreIds
<1>3. Q!Named(before, draft.project) # {} => Q!ByName(before, draft.project) \in Q!Ids(before)
  BY DEF Q!ByName, Q!Named
<1>4. /\ p.isNew = (draft.project # NoText /\ ~found)
      /\ p.id = IF found THEN Q!ByName(before, draft.project) ELSE default
      /\ p.isNew => p.project = draft.project
  BY DEF Q!Preview
<1> HIDE DEF p
<1> QED
  BY <1>2, <1>3, <1>4 DEF p

\* Without projects the preview has none to show.
LEMMA NothingToPreview ==
    ASSUME NEW draft, NEW before, before.projects = <<>>
    PROVE  Q!Preview(draft, before).id = NoText
<1>1. DOMAIN before.projects = {}
  OBVIOUS
<1>2. Q!Ids(before) = {}
  BY <1>1 DEF Q!Ids
<1>3. Q!Named(before, draft.project) = {}
  BY <1>2 DEF Q!Named
<1> QED
  BY <1>2, <1>3 DEF Q!Preview

\* The four ways in which a form settles the project of the task.
LEMMA ProjectTaken ==
    ASSUME NEW store, NEW id, NoText \notin Words
    PROVE  /\ id # NoText /\ id \in Q!Ids(store) =>
                Q!ResolveTaskProject(store, id) = Q!Into(id)
           /\ id # NoText /\ id \notin Q!Ids(store) =>
                Q!ResolveTaskProject(store, id) = Q!Failed("not found")
           /\ id = NoText /\ store.default \in Q!Ids(store) =>
                Q!ResolveTaskProject(store, id) = Q!Into(store.default)
           /\ id = NoText /\ store.default \notin Q!Ids(store) =>
                Q!ResolveTaskProject(store, id) = Q!Failed("unavailable")
  BY DEF Q!ResolveTaskProject

\* Which of the ways a form takes.
LEMMA FormSettles ==
    ASSUME NEW store, NEW form, NoText \notin Words
    PROVE  /\ form.selection = "create" =>
                Q!ResolveCreateTaskProject(store, form)
                  = Q!CreateQuickAddProject(store, form.newName)
           /\ form.selection \notin {"create", NoText} =>
                Q!ResolveCreateTaskProject(store, form)
                  = Q!ResolveTaskProject(store, form.selection)
           /\ form.selection = NoText /\ form.newName = NoText =>
                Q!ResolveCreateTaskProject(store, form)
                  = Q!ResolveTaskProject(store, form.projectID)
<1>1. "create" # NoText
  BY DEF Words
<1> QED
  BY <1>1 DEF Q!ResolveCreateTaskProject

\* What is known of a result.
LEMMA Outcomes ==
    /\ \A id : Q!Into(id).failed = NoText /\ Q!Into(id).id = id
    /\ \A why : Q!Failed(why).failed = why
  BY DEF Q!Into, Q!Failed

\* What the choice of a project in the preview comes to.
LEMMA ChosenProject ==
    ASSUME NEW Id, NoText \notin Id, NoText \notin Words, Words \cap Id = {}, NEW Name,
           NEW after \in ProjectList(Id, Name), NEW p, p.id \in Id \cup {NoText},
           p.options = <<>> => p.id = NoText, p.isNew => p.project # NoText, NEW choice,
           p.isNew => choice \in {"create"} \cup Id,
           ~p.isNew => choice \in {"as shown", "cleared"}
    PROVE  LET project == Q!ResolveCreateTaskProject(after, Q!Submitted(p, choice))
           IN  /\ project.failed # NoText =>
                     \/ /\ project.failed = "not found"
                        /\ p.id \notin Q!Ids(after) \/ choice \notin Q!Ids(after)
                     \/ project.failed = "unavailable" /\ after.default \notin Q!Ids(after)
               /\ project.failed = NoText => Q!GoesWhereShown(after, p, choice, project)
<1> DEFINE form == Q!Submitted(p, choice)
           project == Q!ResolveCreateTaskProject(after, form)
<1>1. /\ form.newName = IF p.isNew THEN p.project ELSE NoText
      /\ form.projectID = IF ~p.isNew /\ p.options = <<>> THEN p.id ELSE NoText
      /\ choice = "create" => form.selection = "create"
      /\ choice = "as shown" => form.selection = IF p.options = <<>> THEN NoText ELSE p.id
      /\ choice = "cleared" => form.selection = NoText
      /\ choice \in Id => form.selection = choice
  BY DEF Q!Submitted, Words
<1> DEFINE Goal == /\ project.failed # NoText =>
                      \/ /\ project.failed = "not found"
                         /\ p.id \notin Q!Ids(after) \/ choice \notin Q!Ids(after)
                      \/ project.failed = "unavailable" /\ after.default \notin Q!Ids(after)
                   /\ project.failed = NoText => Q!GoesWhereShown(after, p, choice, project)
<1> SUFFICES Goal
  OBVIOUS
<1> HIDE DEF form
<1>2. \A w \in Words : NoText # w /\ w \notin Id
  OBVIOUS
<1>3. CASE choice = "create"
  <2>1. form.selection = "create" /\ form.newName = p.project /\ p.project # NoText
    BY <1>1, <1>3, <1>2 DEF Words
  <2>2. project = Q!CreateQuickAddProject(after, form.newName)
    <3> HIDE DEF Goal
    <3> QED
      BY <2>1, FormSettles
  <2>3. Q!Named(after, p.project) # {} =>
          ProjectKey[Q!NameOf(after, Q!ByName(after, p.project))] = ProjectKey[p.project]
    BY DEF Q!ByName, Q!Named
  <2>4. project = IF Q!Named(after, p.project) # {}
                  THEN [failed |-> NoText, id |-> Q!ByName(after, p.project), created |-> FALSE]
                  ELSE [failed |-> NoText, id |-> "new", created |-> TRUE]
    BY <2>1, <2>2 DEF Q!CreateQuickAddProject, Q!Into
  <2> HIDE DEF project
  <2> QED
    BY <1>3, <2>3, <2>4 DEF Q!GoesWhereShown
<1>4. \A any : project = Q!ResolveTaskProject(after, any) =>
             /\ any # NoText /\ any \in Q!Ids(after) => project.failed = NoText /\ project.id = any
             /\ any # NoText /\ any \notin Q!Ids(after) => project.failed = "not found"
             /\ any = NoText /\ after.default \in Q!Ids(after) =>
                  project.failed = NoText /\ project.id = after.default
             /\ any = NoText /\ after.default \notin Q!Ids(after) => project.failed = "unavailable"
  <2> HIDE DEF project, Goal
  <2> TAKE any
  <2> HAVE project = Q!ResolveTaskProject(after, any)
  <2>1. ASSUME any # NoText, any \in Q!Ids(after) PROVE project.failed = NoText /\ project.id = any
    <3>1. project = Q!Into(any)
      BY <2>1, ProjectTaken
    <3> QED
      BY <3>1, Outcomes
  <2>2. ASSUME any # NoText, any \notin Q!Ids(after) PROVE project.failed = "not found"
    <3>1. project = Q!Failed("not found")
      BY <2>2, ProjectTaken
    <3> QED
      BY <3>1, Outcomes
  <2>3. ASSUME any = NoText, after.default \in Q!Ids(after)
        PROVE  project.failed = NoText /\ project.id = after.default
    <3>1. project = Q!Into(after.default)
      BY <2>3, ProjectTaken
    <3> QED
      BY <3>1, Outcomes
  <2>4. ASSUME any = NoText, after.default \notin Q!Ids(after) PROVE project.failed = "unavailable"
    <3>1. project = Q!Failed("unavailable")
      BY <2>4, ProjectTaken
    <3> QED
      BY <3>1, Outcomes
  <2> QED
    BY <2>1, <2>2, <2>3, <2>4
<1>5. CASE choice \in Id
  <2>1. project = Q!ResolveTaskProject(after, choice)
    BY <1>1, <1>2, <1>5 DEF Q!ResolveCreateTaskProject, Words
  <2>2. choice # NoText /\ choice \notin Words
    BY <1>5, <1>2
  <2> HIDE DEF project
  <2> QED
    BY <1>2, <1>4, <1>5, <2>1, <2>2 DEF Words, Q!GoesWhereShown
<1>6. CASE choice = "as shown"
  <2>1. ~p.isNew
    BY <1>2, <1>6 DEF Words
  <2>2. project = Q!ResolveTaskProject(after, p.id)
    <3>1. CASE p.options = <<>> \/ p.id = NoText
      <4>1. form.selection = NoText /\ form.newName = NoText /\ form.projectID = NoText /\ p.id = NoText
        BY <1>1, <1>6, <2>1, <3>1
      <4> QED
        BY <1>2, <4>1 DEF Q!ResolveCreateTaskProject, Words
    <3>2. CASE p.options # <<>> /\ p.id # NoText
      <4>1. form.selection = p.id /\ p.id \in Id
        BY <1>1, <1>6, <3>2
      <4> QED
        BY <1>2, <4>1 DEF Q!ResolveCreateTaskProject, Words
    <3> QED
      BY <3>1, <3>2
  <2>3. choice \notin Q!Ids(after)
    <3>1. Q!Ids(after) \subseteq Id
      BY IdsAreIds
    <3> QED
      BY <1>2, <1>6, <3>1 DEF Words
  <2> HIDE DEF project
  <2> QED
    BY <1>2, <1>4, <1>6, <2>2, <2>3 DEF Words, Q!GoesWhereShown
<1>7. CASE choice = "cleared"
  <2>1. ~p.isNew
    BY <1>2, <1>7 DEF Words
  <2>2. form.selection = NoText /\ form.newName = NoText /\ form.projectID = NoText
    BY <1>1, <1>7, <2>1
  <2>3. project = Q!ResolveTaskProject(after, NoText)
    BY <1>2, <2>2 DEF Q!ResolveCreateTaskProject, Words
  <2> HIDE DEF project
  <2> QED
    BY <1>2, <1>4, <1>7, <2>3 DEF Words, Q!GoesWhereShown
<1> QED
  BY <1>3, <1>5, <1>6, <1>7

\* FlattenSeq joins its parts one after the other, and every way of doing so
\* has a record of its steps.
LEMMA JoiningExists ==
    ASSUME NEW parts, NEW n \in Nat
    PROVE  \E g : g = [i \in 1 .. n |-> IF i = 1 THEN parts[i] ELSE g[i - 1] \o parts[i]]
<1> DEFINE step(g, i) == IF i = 1 THEN parts[i] ELSE g[i - 1] \o parts[i]
           is(g, k) == g = [i \in 1 .. k |-> step(g, i)]
           bad == {k \in 0 .. n : ~ \E g : is(g, k)}
<1>1. SUFFICES ASSUME bad # {} PROVE FALSE
  <2>1. bad = {} => \E g : is(g, n)
    <3> HIDE DEF is
    <3> QED
      OBVIOUS
  <2> QED
    BY <2>1
<1>2. PICK k \in bad : \A j \in bad : k <= j
  <2>1. bad \in SUBSET (0 .. n)
    OBVIOUS
  <2> HIDE DEF bad
  <2> QED
    BY <1>1, <2>1, LeastExists
<1>3. k \in 0 .. n /\ ~ \E g : is(g, k)
  BY <1>2
<1>4. k # 0
  <2>1. PICK g : g = [i \in 1 .. 0 |-> 0]
    OBVIOUS
  <2>2. is(g, 0)
    BY <2>1
  <2> QED
    BY <1>3, <2>2
<1>5. k - 1 \in 0 .. n /\ k - 1 \notin bad
  <2>1. k - 1 \in 0 .. n /\ ~ (k <= k - 1)
    BY <1>3, <1>4
  <2> HIDE DEF bad
  <2> QED
    BY <1>2, <2>1
<1>6. PICK g : is(g, k - 1)
  BY <1>5
<1>7. PICK f : f = [i \in 1 .. k |-> IF i < k THEN g[i] ELSE step(g, k)]
  OBVIOUS
<1>8. \A i \in 1 .. k : f[i] = step(f, i)
  <2> TAKE i \in 1 .. k
  <2>1. i # 1 => f[i - 1] = g[i - 1]
    BY <1>3, <1>7
  <2>2. CASE i = k
    BY <1>3, <1>4, <1>7, <2>1, <2>2
  <2>3. CASE i < k
    <3>1. i \in 1 .. k - 1
      BY <1>3, <2>3
    <3>2. \A j \in 1 .. k - 1 : g[j] = step(g, j)
      BY <1>6
    <3>3. f[i] = g[i] /\ g[i] = step(g, i)
      BY <1>7, <2>3, <3>1, <3>2
    <3> QED
      BY <2>1, <3>3
  <2> QED
    BY <1>3, <2>2, <2>3
<1>9. is(f, k)
  BY <1>7, <1>8
<1> QED
  BY <1>3, <1>9

\* Two lists, one after the other.
LEMMA SpelledTogether ==
    ASSUME NEW Word, NEW a \in Seq(Word), NEW b \in Seq(Word)
    PROVE  a \o b \in Seq(Word) /\ SpelledIn(a \o b) = SpelledIn(a) \cup SpelledIn(b)
<1> DEFINE s == a \o b
           m == Len(a)
           n == Len(b)
<1>1. /\ s \in Seq(Word) /\ m \in Nat /\ n \in Nat /\ DOMAIN s = 1 .. m + n
      /\ \A i \in 1 .. m + n : s[i] = IF i <= m THEN a[i] ELSE b[i - m]
      /\ DOMAIN a = 1 .. m /\ DOMAIN b = 1 .. n
  OBVIOUS
<1> HIDE DEF s, m, n
<1>2. \A x \in SpelledIn(s) : x \in SpelledIn(a) \cup SpelledIn(b)
  <2> SUFFICES ASSUME NEW i \in 1 .. m + n PROVE s[i] \in SpelledIn(a) \cup SpelledIn(b)
    BY <1>1 DEF SpelledIn
  <2>1. CASE i <= m
    BY <1>1, <2>1 DEF SpelledIn
  <2>2. CASE ~(i <= m)
    <3>1. i - m \in 1 .. n
      BY <1>1, <2>2
    <3> QED
      BY <1>1, <2>2, <3>1 DEF SpelledIn
  <2> QED
    BY <2>1, <2>2
<1>3. \A x \in SpelledIn(a) : x \in SpelledIn(s)
  <2> SUFFICES ASSUME NEW i \in 1 .. m PROVE a[i] \in SpelledIn(s)
    BY <1>1 DEF SpelledIn
  <2>1. i \in 1 .. m + n /\ s[i] = a[i]
    BY <1>1
  <2> QED
    BY <1>1, <2>1 DEF SpelledIn
<1>4. \A x \in SpelledIn(b) : x \in SpelledIn(s)
  <2> SUFFICES ASSUME NEW i \in 1 .. n PROVE b[i] \in SpelledIn(s)
    BY <1>1 DEF SpelledIn
  <2>1. i + m \in 1 .. m + n /\ ~(i + m <= m) /\ i + m - m = i
    BY <1>1
  <2>2. s[i + m] = b[i]
    BY <1>1, <2>1
  <2> QED
    BY <1>1, <2>1, <2>2 DEF SpelledIn
<1> QED
  BY <1>1, <1>2, <1>3, <1>4 DEF s

\* The pieces of the labels, in one list: a smallest number of labels whose
\* list has other words than their pieces would have one label less.
LEMMA ParsedLabels ==
    ASSUME NEW Word, \A c \in Word : Pieces[c] \in Seq(Word), NEW labels \in Seq(Word)
    PROVE  /\ Q!ParseQuickAddLabels(labels) \in Seq(Word)
           /\ SpelledIn(Q!ParseQuickAddLabels(labels)) = Q!Said(labels)
<1> DEFINE parts == [i \in DOMAIN labels |-> Pieces[labels[i]]]
           n == Len(labels)
<1>1. /\ n \in Nat /\ DOMAIN labels = 1 .. n /\ Len(parts) = n
      /\ \A i \in 1 .. n : parts[i] = Pieces[labels[i]] /\ parts[i] \in Seq(Word)
  OBVIOUS
<1>2. \A x : x \in Q!Said(labels) <=> \E i \in 1 .. n : x \in SpelledIn(parts[i])
  <2>1. \A x : x \in Q!Said(labels)
                <=> \E i \in DOMAIN labels : x \in Q!ToSet(Pieces[labels[i]])
    BY DEF Q!Said
  <2>2. \A s : Q!ToSet(s) = SpelledIn(s)
    BY DEF Q!ToSet, SpelledIn
  <2> HIDE DEF parts, n
  <2> QED
    BY <1>1, <2>1, <2>2
<1>3. Q!ParseQuickAddLabels(labels) = Q!FlattenSeq(parts)
  BY DEF Q!ParseQuickAddLabels
<1>4. CASE n = 0
  <2>1. Q!FlattenSeq(parts) = parts
    BY <1>1, <1>4 DEF Q!FlattenSeq
  <2>2. parts \in Seq(Word) /\ DOMAIN parts = {}
    BY <1>1, <1>4
  <2>3. SpelledIn(parts) = {}
    BY <2>2 DEF SpelledIn
  <2>4. Q!Said(labels) = {}
    BY <1>2, <1>4
  <2> HIDE DEF parts
  <2> QED
    BY <1>3, <2>1, <2>2, <2>3, <2>4
<1>5. CASE n # 0
  <2> DEFINE g == CHOOSE g : g = [i \in 1 .. n |-> IF i = 1 THEN parts[i]
                                                 ELSE g[i - 1] \o parts[i]]
  <2>1. Q!FlattenSeq(parts) = g[n]
    BY <1>1, <1>5 DEF Q!FlattenSeq
  <2>2. g = [i \in 1 .. n |-> IF i = 1 THEN parts[i] ELSE g[i - 1] \o parts[i]]
    <3> HIDE DEF parts, n
    <3> QED
      BY <1>1, JoiningExists
  <2> HIDE DEF g, parts
  <2>3. \A i \in 1 .. n : g[i] = IF i = 1 THEN parts[i] ELSE g[i - 1] \o parts[i]
    BY <2>2
  <2> HIDE DEF n
  <2> DEFINE good(k) == /\ g[k] \in Seq(Word)
                        /\ \A x : x \in SpelledIn(g[k])
                                    <=> \E i \in 1 .. k : x \in SpelledIn(parts[i])
             bad == {k \in 1 .. n : ~good(k)}
  <2>4. ASSUME bad # {} PROVE FALSE
    <3>1. PICK k \in bad : \A j \in bad : k <= j
      <4>1. bad \in SUBSET (0 .. n)
        OBVIOUS
      <4> HIDE DEF bad
      <4> QED
        BY <1>1, <2>4, <4>1, LeastExists
    <3>2. k \in 1 .. n /\ ~good(k)
      BY <3>1
    <3>3. k # 1
      <4>1. CASE k = 1
        <5>1. g[k] = parts[k] /\ 1 .. k = {k}
          BY <1>1, <2>3, <3>2, <4>1
        <5> QED
          BY <1>1, <3>2, <5>1
      <4> QED
        BY <4>1
    <3>4. k - 1 \in 1 .. n /\ good(k - 1)
      <4>1. k - 1 \in 1 .. n /\ ~ (k <= k - 1)
        BY <1>1, <3>2, <3>3
      <4>2. k - 1 \notin bad
        <5> HIDE DEF bad
        <5> QED
          BY <3>1, <4>1
      <4> HIDE DEF good
      <4> QED
        BY <4>1, <4>2
    <3>5. g[k] = g[k - 1] \o parts[k] /\ parts[k] \in Seq(Word)
      BY <1>1, <2>3, <3>2, <3>3
    <3>6. g[k] \in Seq(Word) /\ SpelledIn(g[k]) = SpelledIn(g[k - 1]) \cup SpelledIn(parts[k])
      BY <3>4, <3>5, SpelledTogether
    <3>7. \A i : i \in 1 .. k <=> i \in 1 .. k - 1 \/ i = k
      BY <1>1, <3>2
    <3>8. ASSUME NEW x
          PROVE  x \in SpelledIn(g[k]) <=> \E i \in 1 .. k : x \in SpelledIn(parts[i])
      <4>1. x \in SpelledIn(g[k - 1]) <=> \E i \in 1 .. k - 1 : x \in SpelledIn(parts[i])
        BY <3>4
      <4>2. x \in SpelledIn(g[k]) <=> x \in SpelledIn(g[k - 1]) \/ x \in SpelledIn(parts[k])
        BY <3>6
      <4>3. (\E i \in 1 .. k : x \in SpelledIn(parts[i]))
               <=> \/ \E i \in 1 .. k - 1 : x \in SpelledIn(parts[i])
                   \/ x \in SpelledIn(parts[k])
        BY <3>7
      <4> QED
        BY <4>1, <4>2, <4>3
    <3>9. good(k)
      BY <3>6, <3>8
    <3> HIDE DEF good
    <3> QED
      BY <3>2, <3>9
  <2>5. good(n)
    <3>1. n \in 1 .. n
      BY <1>1, <1>5
    <3>2. n \notin bad
      BY <2>4
    <3> HIDE DEF good
    <3> QED
      BY <3>1, <3>2
  <2> QED
    BY <1>2, <1>3, <2>1, <2>5
<1> QED
  BY <1>4, <1>5

\* Labels without commas are their own pieces.
LEMMA UncutSaid ==
    ASSUME NEW labels, Q!Uncut(labels)
    PROVE  Q!Said(labels) = SpelledIn(labels)
<1>1. \A c : Q!ToSet(<<c>>) = {c}
  BY DEF Q!ToSet
<1>2. \A i \in DOMAIN labels : Q!ToSet(Pieces[labels[i]]) = {labels[i]}
  BY <1>1 DEF Q!Uncut
<1>3. \A x : x \in Q!Said(labels) <=> \E i \in DOMAIN labels : x \in Q!ToSet(Pieces[labels[i]])
  BY DEF Q!Said
<1> QED
  BY <1>2, <1>3 DEF SpelledIn

\* What the creation writes for the labels and the priority of a draft.
LEMMA CreationWrites ==
    ASSUME NEW Word, Spelled(Word), NoText \notin Int, NEW labels \in Seq(Word), NEW word
    PROVE  LET fields == Q!Normalized([categories |-> labels, priority |-> Q!PriorityNumber(word)])
           IN  /\ Q!FavoriteIsHigh(fields)
               /\ Q!Names(fields.categories) = Q!Names(labels)
               /\ Q!Names(labels) = KeysIn({c \in SpelledIn(labels) : ~Q!Reserved(c)})
               /\ \/ fields.priority = Q!PriorityNumber(word)
                  \/ /\ \E c \in SpelledIn(labels) : Q!Reserved(c)
                     /\ fields.priority = Q!FavoritePriority
<1> DEFINE fields == Q!Normalized([categories |-> labels, priority |-> Q!PriorityNumber(word)])
           f == [categories |-> labels, priority |-> Q!PriorityNumber(word)]
<1>2. Q!PriorityNumber(word) \in Priority
  BY DEF Q!PriorityNumber, Priority
<1>3. f \in Fields(Word) /\ f.categories = labels
      /\ f.priority = Q!PriorityNumber(word)
  BY <1>2 DEF Fields
<1> HIDE DEF f
<1>4. fields = L!Normalized(f)
  BY FieldsInQuickAdd DEF f
<1>5. AsPromised(fields) /\ L!Names(fields.categories) = L!Names(f.categories)
  BY <1>3, <1>4, RuledSettled
<1>6. L!Names(labels) = {k \in KeysIn(SpelledIn(labels)) : k # Key[L!Starred]}
  BY LabelsPlain, NamesAre
<1>7. {k \in KeysIn(SpelledIn(labels)) : k # Key[L!Starred]}
        = KeysIn({c \in SpelledIn(labels) : ~Q!Reserved(c)})
  BY FieldsInQuickAdd DEF KeysIn, L!Reserved
<1>8. Q!IsFavorite(labels) => \E c \in SpelledIn(labels) : Q!Reserved(c)
  BY DEF Q!IsFavorite, SpelledIn
<1>9. fields.priority = IF /\ L!IsFavorite(f.categories) \/ L!PriorityIsHigh(f.priority)
                           /\ ~L!PriorityIsHigh(f.priority)
                        THEN L!FavoritePriority ELSE f.priority
  BY <1>4 DEF L!Normalized
<1> HIDE DEF fields
<1>10. \/ fields.priority = Q!PriorityNumber(word)
       \/ /\ \E c \in SpelledIn(labels) : Q!Reserved(c)
          /\ fields.priority = Q!FavoritePriority
  BY <1>3, <1>8, <1>9, FieldsInQuickAdd DEF L!FavoritePriority, Q!FavoritePriority
<1> QED
  BY <1>3, <1>5, <1>6, <1>7, <1>10, FieldsInQuickAdd DEF AsPromised, fields

\* Quick add: whatever happens to the projects between the preview of a draft
\* and its confirmation, and whichever project the user takes, the task that
\* is created is the one that was shown, except that a label with commas in it
\* becomes a label of each of its pieces.
THEOREM QuickAddCreatesAsShown ==
    ASSUME NEW Word, Spelled(Word), NoText \notin Int, NoText \notin Words,
           NEW Id, NoText \notin Id, Words \cap Id = {}, NEW Name,
           \A c \in Word : Pieces[c] \in Seq(Word), NEW draft, draft.labels \in Seq(Word),
           NEW before \in ProjectList(Id, Name), NEW after \in ProjectList(Id, Name), NEW choice,
           Q!Preview(draft, before).isNew => choice \in {"create"} \cup Id,
           ~Q!Preview(draft, before).isNew => choice \in {"as shown", "cleared"}
    PROVE  Q!CreatedAsShown(draft, before, after, choice)
<1> DEFINE p == Q!Preview(draft, before)
           form == Q!Submitted(p, choice)
           task == Q!CreateTask(after, form)
           project == Q!ResolveCreateTaskProject(after, form)
           pieces == Q!ParseQuickAddLabels(draft.labels)
           fields == Q!Normalized([categories |-> pieces,
                                   priority |-> Q!PriorityNumber(draft.priority)])
<1>1. /\ p.id \in Id \cup {NoText}
      /\ p.options = <<>> => p.id = NoText
      /\ p.isNew => p.project # NoText
  <2> HIDE DEF form, task, project, fields
  <2> HIDE DEF p
  <2>1. Q!Preview(draft, before).id \in Id \cup {NoText}
    BY PreviewedProject
  <2>2. before.projects = <<>> => Q!Preview(draft, before).id = NoText
    BY NothingToPreview
  <2>4. Q!Preview(draft, before).options = before.projects
    BY DEF Q!Preview
  <2>3. Q!Preview(draft, before).isNew => Q!Preview(draft, before).project # NoText
    BY PreviewedProject
  <2> QED
    BY <2>1, <2>2, <2>3, <2>4 DEF p
<1>2. /\ p.title = draft.title /\ p.labels = draft.labels /\ p.due = draft.due
      /\ p.recurrence = draft.recurrence /\ p.priority = draft.priority
  BY DEF Q!Preview
<1>3. /\ p.isNew => choice \in {"create"} \cup Id
      /\ ~p.isNew => choice \in {"as shown", "cleared"}
  OBVIOUS
<1> HIDE DEF p
<1>4. /\ form.title = p.title /\ form.labels = p.labels /\ form.priority = p.priority
      /\ form.due = p.due /\ form.recurrence = p.recurrence
  BY DEF Q!Submitted
<1>5. /\ project.failed # NoText =>
            \/ /\ project.failed = "not found"
               /\ p.id \notin Q!Ids(after) \/ choice \notin Q!Ids(after)
            \/ project.failed = "unavailable" /\ after.default \notin Q!Ids(after)
      /\ project.failed = NoText => Q!GoesWhereShown(after, p, choice, project)
  <2> HIDE DEF task, fields
  <2> QED
    BY <1>1, <1>3, ChosenProject
<1> DEFINE starred == \E c \in Q!Said(draft.labels) : Q!Reserved(c)
<1>6. /\ Q!FavoriteIsHigh(fields)
      /\ Q!Names(fields.categories) = Q!LabelsSaid(draft.labels)
      /\ Q!Uncut(draft.labels) => Q!Names(fields.categories) = Q!Names(draft.labels)
      /\ \/ fields.priority = Q!PriorityNumber(draft.priority)
         \/ starred /\ fields.priority = Q!FavoritePriority
  <2>1. pieces \in Seq(Word) /\ SpelledIn(pieces) = Q!Said(draft.labels)
    BY ParsedLabels
  <2> HIDE DEF pieces
  <2>2. /\ Q!FavoriteIsHigh(fields)
        /\ Q!Names(fields.categories) = Q!Names(pieces)
        /\ Q!Names(pieces) = KeysIn({c \in SpelledIn(pieces) : ~Q!Reserved(c)})
        /\ \/ fields.priority = Q!PriorityNumber(draft.priority)
           \/ /\ \E c \in SpelledIn(pieces) : Q!Reserved(c)
              /\ fields.priority = Q!FavoritePriority
    BY <2>1, CreationWrites
  <2>3. Q!Names(draft.labels) = KeysIn({c \in SpelledIn(draft.labels) : ~Q!Reserved(c)})
    BY CreationWrites
  <2>4. Q!Uncut(draft.labels) => Q!Said(draft.labels) = SpelledIn(draft.labels)
    BY UncutSaid
  <2> HIDE DEF fields
  <2> QED
    BY <2>1, <2>2, <2>3, <2>4 DEF Q!LabelsSaid, KeysIn
<1>7. task = CASE form.title = <<>> -> [failed |-> "title required"]
               [] /\ form.title # <<>>
                  /\ form.recurrence # NoText /\ ~Q!ValidRecurrence(form.recurrence) ->
                    [failed |-> "recurrence invalid"]
               [] OTHER ->
                    IF project.failed # NoText THEN project
                    ELSE [failed |-> NoText, id |-> project.id, created |-> project.created,
                          title |-> form.title, due |-> form.due, recurrence |-> form.recurrence,
                          categories |-> fields.categories, priority |-> fields.priority]
  <2>1. form.labels = draft.labels /\ form.priority = draft.priority
    BY <1>2, <1>4
  <2> HIDE DEF form
  <2> QED
    BY <2>1 DEF Q!CreateTask, Q!Failed
<1> HIDE DEF form, project, fields, pieces, task
<1>8. "title required" # NoText /\ "recurrence invalid" # NoText
  BY DEF Words
<1>9. Q!CreatedAsShown(draft, before, after, choice)
        = IF task.failed # NoText
          THEN \/ p.title = <<>>
               \/ p.recurrence # NoText /\ ~Q!ValidRecurrence(p.recurrence)
               \/ task.failed = "not found" /\ (p.id \notin Q!Ids(after) \/ choice \notin Q!Ids(after))
               \/ task.failed = "unavailable" /\ after.default \notin Q!Ids(after)
          ELSE /\ Q!GoesWhereShown(after, p, choice, task)
               /\ task.title = p.title /\ task.due = p.due /\ task.recurrence = p.recurrence
               /\ Q!Names(task.categories) = Q!LabelsSaid(p.labels)
               /\ Q!Uncut(p.labels) => Q!Names(task.categories) = Q!Names(p.labels)
               /\ \/ task.priority = Q!PriorityNumber(p.priority)
                  \/ starred /\ task.priority = Q!FavoritePriority
               /\ Q!FavoriteIsHigh(task)
  BY <1>2 DEF Q!CreatedAsShown, task, form, p
<1>10. CASE form.title = <<>>
  BY <1>4, <1>7, <1>8, <1>9, <1>10
<1>11. CASE /\ form.title # <<>>
            /\ form.recurrence # NoText /\ ~Q!ValidRecurrence(form.recurrence)
  BY <1>4, <1>7, <1>8, <1>9, <1>11
<1>12. CASE /\ form.title # <<>>
            /\ ~(form.recurrence # NoText /\ ~Q!ValidRecurrence(form.recurrence))
  <2>1. CASE project.failed # NoText
    <3>1. task = project
      BY <1>7, <1>12, <2>1
    <3> QED
      BY <1>5, <1>9, <2>1, <3>1
  <2>2. CASE project.failed = NoText
    <3>1. task = [failed |-> NoText, id |-> project.id, created |-> project.created,
                  title |-> form.title, due |-> form.due, recurrence |-> form.recurrence,
                  categories |-> fields.categories, priority |-> fields.priority]
      BY <1>7, <1>12, <2>2
    <3>2. /\ task.failed = NoText /\ task.id = project.id /\ task.created = project.created
          /\ task.title = p.title /\ task.due = p.due /\ task.recurrence = p.recurrence
          /\ task.categories = fields.categories /\ task.priority = fields.priority
      BY <1>4, <3>1
    <3>3. Q!FavoriteIsHigh(task)
      BY <1>6, <3>2 DEF Q!FavoriteIsHigh
    <3>4. Q!GoesWhereShown(after, p, choice, task)
      BY <1>5, <2>2, <3>2 DEF Q!GoesWhereShown
    <3> QED
      BY <1>2, <1>6, <1>9, <3>2, <3>3, <3>4
  <2> QED
    BY <2>1, <2>2
<1> QED
  BY <1>10, <1>11, <1>12

\* As many values as places, if no two places have the same.
LEMMA Counted ==
    ASSUME NEW n \in Nat, NEW f, \A i, j \in 1 .. n : f[i] = f[j] => i = j,
           NEW values, \A x : x \in values <=> \E i \in 1 .. n : x = f[i]
    PROVE  Cardinality(values) = n
<1> DEFINE g == [i \in 1 .. n |-> f[i]]
<1>1. g \in Bijection(1 .. n, values)
  <2>1. g \in [1 .. n -> values] /\ \A i \in 1 .. n : g[i] = f[i]
    OBVIOUS
  <2>2. \A x \in values : \E i \in 1 .. n : g[i] = x
    OBVIOUS
  <2>3. \A i, j \in 1 .. n : g[i] = g[j] => i = j
    BY <2>1
  <2>4. DOMAIN g = 1 .. n
    OBVIOUS
  <2> HIDE DEF g
  <2> QED
    BY <2>1, <2>2, <2>3, <2>4 DEF Bijection, Injection, Surjection, IsInjective
<1>2. IsFiniteSet(1 .. n) /\ Cardinality(1 .. n) = n
  <2>1. IsFiniteSet(1 .. n) /\ Cardinality(1 .. n) = IF 1 > n THEN 0 ELSE n - 1 + 1
    BY FS_Interval
  <2> QED
    BY <2>1
<1> HIDE DEF g
<1>3. Cardinality(1 .. n) = Cardinality(values)
  BY <1>1, <1>2, FS_Bijection DEF ExistsBijection
<1> QED
  BY <1>2, <1>3

\* A list is cut off at its limit.
LEMMA CutOff ==
    ASSUME NEW S, NEW list \in Seq(S), NEW n \in Nat
    PROVE  /\ Len(Q!AtMost(n, list)) = IF Len(list) < n THEN Len(list) ELSE n
           /\ Q!AtMost(n, list) \in Seq(S)
           /\ \A i \in 1 .. Len(Q!AtMost(n, list)) : Q!AtMost(n, list)[i] = list[i]
<1> DEFINE m == IF Len(list) < n THEN Len(list) ELSE n
           part == SubSeq(list, 1, m)
<1>1. m \in Nat /\ m <= Len(list) /\ Len(list) \in Nat
  OBVIOUS
<1> HIDE DEF m
<1>2. part \in Seq(S) /\ Len(part) = m /\ \A i \in 1 .. m : part[i] = list[i]
  BY <1>1
<1> HIDE DEF part
<1>3. Q!AtMost(n, list) = part
  BY DEF Q!AtMost, m, part
<1> QED
  BY <1>2, <1>3 DEF m

\* QuickAddCreate takes parts of lists in the same way.
LEMMA PartOf ==
    ASSUME NEW S, NEW list \in Seq(S), NEW places \in SUBSET DOMAIN list
    PROVE  /\ Cardinality(places) \in Nat
           /\ Q!At(list, places) \in Seq(S)
           /\ Len(Q!At(list, places)) = Cardinality(places)
           /\ \E place \in Bijection(1 .. Cardinality(places), places) :
                \A n \in 1 .. Cardinality(places) : Q!At(list, places)[n] = list[place[n]]
<1> DEFINE part == L!At(list, places)
           n == Cardinality(places)
<1>1. Q!At(list, places) = part
  BY DEF Q!At, L!At, Q!Cardinality, L!Cardinality, Q!IsFiniteSet, L!IsFiniteSet
<1>2. places \in SUBSET (1 .. Len(list)) /\ Len(list) \in Nat
  OBVIOUS
<1> HIDE DEF part, n
<1>3. n \in Nat /\ DOMAIN part = 1 .. n /\ part = [k \in 1 .. n |-> part[k]]
  BY <1>2, PartAt DEF part, n
<1>4. PICK place \in Bijection(1 .. n, places) : \A k \in 1 .. n : part[k] = list[place[k]]
  BY <1>2, PartAt DEF part, n
<1>5. \A k \in 1 .. n : place[k] \in DOMAIN list
  BY DEF Bijection, Injection
<1>6. \A k \in 1 .. n : part[k] \in S
  BY <1>4, <1>5
<1>7. part \in Seq(S) /\ Len(part) = n
  BY <1>3, <1>6
<1> QED
  BY <1>1, <1>3, <1>4, <1>7 DEF n

\* The labels that the preview suggests.
LEMMA LabelsSuggested ==
    ASSUME NEW Word, NEW draft, NEW known \in Seq(Word), LabelLimit \in Nat
    PROVE  LET labels == Q!LabelSuggestions(draft, known)
               names == {Key[labels[i]] : i \in DOMAIN labels}
               had == {Key[draft.labels[i]] : i \in DOMAIN draft.labels}
           IN  /\ names \cap had = {} /\ Cardinality(names) = Len(labels)
               /\ Len(labels) <= LabelLimit
               /\ \/ {Key[known[i]] : i \in DOMAIN known} \subseteq names \cup had
                  \/ Len(labels) = LabelLimit
<1> DEFINE had == {Key[draft.labels[i]] : i \in DOMAIN draft.labels}
           new == {i \in DOMAIN known : /\ Key[known[i]] \notin had
                                        /\ \A j \in 1 .. i - 1 : Key[known[j]] # Key[known[i]]}
           m == Cardinality(new)
           labels == Q!LabelSuggestions(draft, known)
           names == {Key[labels[i]] : i \in DOMAIN labels}
<1>1. labels = Q!AtMost(LabelLimit, Q!At(known, new))
  <2>1. \A k : k \notin had <=> \A j \in DOMAIN draft.labels : Key[draft.labels[j]] # k
    OBVIOUS
  <2>2. new = {i \in DOMAIN known :
                 /\ \A j \in DOMAIN draft.labels : Key[draft.labels[j]] # Key[known[i]]
                 /\ \A j \in 1 .. i - 1 : Key[known[j]] # Key[known[i]]}
    <3> HIDE DEF had
    <3> QED
      BY <2>1
  <2> HIDE DEF new, had
  <2> QED
    BY <2>2 DEF Q!LabelSuggestions
<1>2. new \in SUBSET DOMAIN known /\ Len(known) \in Nat /\ DOMAIN known = 1 .. Len(known)
  OBVIOUS
<1>3. \A i, j \in new : Key[known[i]] = Key[known[j]] => i = j
  BY <1>2
<1>4. \A i \in new : Key[known[i]] \notin had
  OBVIOUS
<1>5. ASSUME NEW i \in DOMAIN known, Key[known[i]] \notin had
      PROVE  \E j \in new : Key[known[j]] = Key[known[i]]
  <2>1. Key[known[i]] \in KeysIn(SpelledIn(known))
    BY DEF KeysIn, SpelledIn
  <2>2. Key[known[i]] \in KeysIn(L!FirstSpellings(known))
    BY <2>1, FirstOfEach
  <2> HIDE DEF had
  <2>3. PICK j \in DOMAIN known : /\ Key[known[i]] = Key[known[j]]
                                  /\ \A k \in 1 .. j - 1 : Key[known[k]] # Key[known[j]]
    BY <2>2 DEF KeysIn, L!FirstSpellings
  <2> QED
    BY <1>5, <2>3
<1> HIDE DEF new, had, labels
<1>6. PICK place \in Bijection(1 .. m, new) :
            \A n \in 1 .. m : Q!At(known, new)[n] = known[place[n]]
  BY <1>2, PartOf
<1>7. m \in Nat /\ Q!At(known, new) \in Seq(Word) /\ Len(Q!At(known, new)) = m
  BY <1>2, PartOf
<1> HIDE DEF m
<1>8. /\ labels \in Seq(Word) /\ Len(labels) = IF m < LabelLimit THEN m ELSE LabelLimit
      /\ \A n \in 1 .. Len(labels) : labels[n] = known[place[n]]
  <2>1. /\ labels \in Seq(Word) /\ Len(labels) = IF m < LabelLimit THEN m ELSE LabelLimit
        /\ \A n \in 1 .. Len(labels) : labels[n] = Q!At(known, new)[n]
    BY <1>1, <1>7, CutOff
  <2> QED
    BY <1>6, <1>7, <2>1
<1>9. /\ Len(labels) \in Nat /\ Len(labels) <= m /\ Len(labels) <= LabelLimit
      /\ DOMAIN labels = 1 .. Len(labels)
  BY <1>7, <1>8
<1>10. /\ \A n \in 1 .. m : place[n] \in new
       /\ \A n, k \in 1 .. m : place[n] = place[k] => n = k
       /\ \A i \in new : \E n \in 1 .. m : place[n] = i
  BY DEF Bijection, Injection, Surjection, IsInjective
<1>11. \A n \in 1 .. Len(labels) : n \in 1 .. m /\ labels[n] = known[place[n]]
  BY <1>7, <1>8, <1>9
<1>12. names \cap had = {}
  BY <1>4, <1>9, <1>10, <1>11
<1>13. Cardinality(names) = Len(labels)
  <2> DEFINE len == Len(labels)
             f == [n \in 1 .. len |-> Key[labels[n]]]
  <2>1. \A n, k \in 1 .. len : f[n] = f[k] => n = k
    BY <1>3, <1>10, <1>11
  <2>2. \A x : x \in names <=> \E n \in 1 .. len : x = f[n]
    BY <1>9
  <2>3. len \in Nat
    BY <1>9
  <2> HIDE DEF f, names, len
  <2>4. Cardinality(names) = len
    BY <2>1, <2>2, <2>3, Counted
  <2> QED
    BY <2>4 DEF len
<1>14. ASSUME Len(labels) # LabelLimit
       PROVE  {Key[known[i]] : i \in DOMAIN known} \subseteq names \cup had
  <2>1. Len(labels) = m
    BY <1>8, <1>14
  <2>2. \A j \in new : Key[known[j]] \in names
    BY <1>9, <1>10, <1>11, <2>1
  <2> HIDE DEF names
  <2> QED
    BY <1>5, <2>2
<1> QED
  BY <1>9, <1>12, <1>13, <1>14 DEF labels, had

\* The projects that the preview suggests for a new name.
LEMMA ProjectsSuggested ==
    ASSUME NEW Id, NEW Name, NEW store \in ProjectList(Id, Name), NEW name, Limit \in Nat,
           NEW suggested, suggested = Q!Suggestions(store, name)
    PROVE  /\ Len(suggested) \in Nat /\ Len(suggested) <= Limit
           /\ DOMAIN suggested = 1 .. Len(suggested)
           /\ \E place \in [1 .. Len(suggested) -> DOMAIN store.projects] :
                /\ \A n \in 1 .. Len(suggested) : suggested[n] = store.projects[place[n]]
                /\ \A n, k \in 1 .. Len(suggested) : place[n] = place[k] => n = k
                /\ \/ \A i \in Q!Near(store, name) : \E n \in 1 .. Len(suggested) : place[n] = i
                   \/ /\ Len(suggested) = Limit
                      /\ \A n \in 1 .. Len(suggested) : place[n] \in Q!Near(store, name)
<1> DEFINE list == store.projects
           P1 == [id : Id, name : Name]
           N == Q!Near(store, name)
           F == DOMAIN list \ N
           a == Cardinality(N)
           b == Cardinality(F)
           all == Q!At(list, N) \o Q!At(list, F)
<1>1. list \in Seq(P1)
  BY DEF ProjectList
<1>2. suggested = Q!AtMost(Limit, all)
  BY DEF Q!Suggestions
<1>3. N \in SUBSET DOMAIN list /\ F \in SUBSET DOMAIN list /\ N \cap F = {}
  BY DEF Q!Near
<1> HIDE DEF list, P1, N, F
<1>6. PICK first \in Bijection(1 .. a, N) :
            \A n \in 1 .. a : Q!At(list, N)[n] = list[first[n]]
  BY <1>1, <1>3, PartOf
<1>7. PICK then \in Bijection(1 .. b, F) :
            \A n \in 1 .. b : Q!At(list, F)[n] = list[then[n]]
  BY <1>1, <1>3, PartOf
<1>8. /\ a \in Nat /\ Q!At(list, N) \in Seq(P1) /\ Len(Q!At(list, N)) = a
      /\ b \in Nat /\ Q!At(list, F) \in Seq(P1) /\ Len(Q!At(list, F)) = b
  BY <1>1, <1>3, PartOf
<1> HIDE DEF a, b
<1>9. /\ \A n \in 1 .. a : first[n] \in N
      /\ \A n, k \in 1 .. a : first[n] = first[k] => n = k
      /\ \A i \in N : \E n \in 1 .. a : first[n] = i
      /\ \A n \in 1 .. b : then[n] \in F
      /\ \A n, k \in 1 .. b : then[n] = then[k] => n = k
  BY DEF Bijection, Injection, Surjection, IsInjective
<1> DEFINE place == [i \in 1 .. a + b |-> IF i <= a THEN first[i] ELSE then[i - a]]
<1>10. /\ all \in Seq(P1) /\ Len(all) = a + b
       /\ \A i \in 1 .. a : all[i] = list[first[i]]
       /\ \A i \in 1 .. a + b : i > a => i - a \in 1 .. b /\ all[i] = list[then[i - a]]
  <2> DEFINE A == Q!At(list, N)
             B == Q!At(list, F)
  <2>1. A \in Seq(P1) /\ B \in Seq(P1) /\ Len(A) = a /\ Len(B) = b
    BY <1>8
  <2> HIDE DEF A, B
  <2>2. /\ A \o B \in Seq(P1) /\ Len(A \o B) = a + b
        /\ \A i \in 1 .. a + b : (A \o B)[i] = IF i <= a THEN A[i] ELSE B[i - a]
    BY <1>8, <2>1
  <2>3. \A i \in 1 .. a : A[i] = list[first[i]]
    BY <1>6 DEF A
  <2>4. \A i \in 1 .. b : B[i] = list[then[i]]
    BY <1>7 DEF B
  <2>5. \A i \in 1 .. a : i \in 1 .. a + b /\ i <= a
    BY <1>8
  <2>6. \A i \in 1 .. a + b : i > a => i - a \in 1 .. b /\ ~(i <= a)
    BY <1>8
  <2>7. /\ \A i \in 1 .. a : (A \o B)[i] = list[first[i]]
        /\ \A i \in 1 .. a + b : i > a => i - a \in 1 .. b /\ (A \o B)[i] = list[then[i - a]]
    BY <2>2, <2>3, <2>4, <2>5, <2>6
  <2> QED
    BY <2>2, <2>7 DEF A, B
<1> HIDE DEF all
<1>11. /\ \A i \in 1 .. a + b : place[i] \in DOMAIN list /\ all[i] = list[place[i]]
       /\ \A i \in 1 .. a : place[i] = first[i]
       /\ \A i, j \in 1 .. a + b : place[i] = place[j] => i = j
  <2>1. ASSUME NEW i \in 1 .. a + b
        PROVE  /\ i <= a => i \in 1 .. a /\ place[i] = first[i] /\ place[i] \in N
               /\ i > a => i - a \in 1 .. b /\ place[i] = then[i - a] /\ place[i] \in F
               /\ i <= a \/ i > a
    BY <1>8, <1>9
  <2>2. \A i \in 1 .. a : i \in 1 .. a + b /\ i <= a
    BY <1>8
  <2>3. ASSUME NEW i \in 1 .. a + b, NEW j \in 1 .. a + b, place[i] = place[j]
        PROVE  i = j
    <3> HIDE DEF place
    <3>1. CASE i <= a /\ j <= a
      BY <1>9, <2>1, <2>3, <3>1
    <3>2. CASE i > a /\ j > a
      <4>1. i - a = j - a
        BY <1>9, <2>1, <2>3, <3>2
      <4> QED
        BY <1>8, <4>1
    <3>3. CASE (i <= a /\ j > a) \/ (i > a /\ j <= a)
      BY <1>3, <2>1, <2>3, <3>3
    <3> QED
      BY <2>1, <3>1, <3>2, <3>3
  <2> HIDE DEF place
  <2> QED
    BY <1>3, <1>10, <2>1, <2>2, <2>3
<1> HIDE DEF place
<1>12. /\ Len(suggested) = IF a + b < Limit THEN a + b ELSE Limit
       /\ suggested \in Seq(P1)
       /\ \A i \in 1 .. Len(suggested) : suggested[i] = all[i]
  BY <1>2, <1>10, CutOff
<1>13. /\ Len(suggested) \in Nat /\ Len(suggested) <= a + b /\ Len(suggested) <= Limit
       /\ DOMAIN suggested = 1 .. Len(suggested)
  BY <1>8, <1>12
<1>14. \A i \in 1 .. Len(suggested) : i \in 1 .. a + b /\ suggested[i] = list[place[i]]
  BY <1>8, <1>11, <1>12, <1>13
<1> DEFINE chosen == [n \in 1 .. Len(suggested) |-> place[n]]
<1>15. /\ chosen \in [1 .. Len(suggested) -> DOMAIN list]
       /\ \A n \in 1 .. Len(suggested) : chosen[n] = place[n] /\ suggested[n] = list[chosen[n]]
       /\ \A n, k \in 1 .. Len(suggested) : chosen[n] = chosen[k] => n = k
  BY <1>11, <1>14
<1> HIDE DEF chosen
<1>16. ASSUME a <= Len(suggested)
       PROVE  \A i \in N : \E n \in 1 .. Len(suggested) : chosen[n] = i
  <2>1. \A n \in 1 .. a : n \in 1 .. Len(suggested) /\ chosen[n] = first[n]
    BY <1>8, <1>11, <1>13, <1>15, <1>16
  <2> QED
    BY <1>9, <2>1
<1>17. ASSUME Len(suggested) < a
       PROVE  Len(suggested) = Limit /\ \A n \in 1 .. Len(suggested) : chosen[n] \in N
  <2>1. Len(suggested) = Limit
    BY <1>8, <1>12, <1>17
  <2>2. \A n \in 1 .. Len(suggested) : n \in 1 .. a
    BY <1>8, <1>13, <1>17
  <2> QED
    BY <1>9, <1>11, <1>15, <2>1, <2>2
<1>18. a <= Len(suggested) \/ Len(suggested) < a
  BY <1>8, <1>13
<1> QED
  BY <1>13, <1>15, <1>16, <1>17, <1>18 DEF list, N

\* Quick add: whatever projects and labels there are, the preview suggests
\* projects that exist, those with a name near the wanted one before others, and
\* labels that the draft does not have, in both cases as many as fit.
THEOREM QuickAddSuggestsWhatFits ==
    ASSUME NEW Id, NEW Name, NEW store \in ProjectList(Id, Name),
           \A i, j \in DOMAIN store.projects :
              store.projects[i].id = store.projects[j].id => i = j,
           NEW Word, NEW known \in Seq(Word), NEW draft, Limit \in Nat, LabelLimit \in Nat
    PROVE  Q!SuggestionsFit(draft, store, known)
<1> DEFINE p == Q!Preview(draft, store)
           suggested == p.suggestions
           ids == {suggested[i].id : i \in DOMAIN suggested}
           near == {store.projects[i].id : i \in Q!Near(store, draft.project)}
           labels == Q!LabelSuggestions(draft, known)
           names == {Key[labels[i]] : i \in DOMAIN labels}
           had == {Key[draft.labels[i]] : i \in DOMAIN draft.labels}
<1>1. p.isNew => suggested = Q!Suggestions(store, draft.project)
  BY DEF Q!Preview
<1>2. \A S : Q!Cardinality(S) = Cardinality(S)
  BY DEF Q!Cardinality, Cardinality, Q!IsFiniteSet, IsFiniteSet
<1>3. ASSUME p.isNew
      PROVE  /\ ids \subseteq Q!Ids(store) /\ Cardinality(ids) = Len(suggested)
             /\ Len(suggested) <= Limit
             /\ near \subseteq ids \/ (ids \subseteq near /\ Len(suggested) = Limit)
  <2> HIDE DEF suggested
  <2>1. suggested = Q!Suggestions(store, draft.project)
    BY <1>1, <1>3
  <2>2. /\ Len(suggested) \in Nat /\ Len(suggested) <= Limit
        /\ DOMAIN suggested = 1 .. Len(suggested)
    BY <2>1, ProjectsSuggested
  <2>3. PICK place \in [1 .. Len(suggested) -> DOMAIN store.projects] :
              /\ \A n \in 1 .. Len(suggested) : suggested[n] = store.projects[place[n]]
              /\ \A n, k \in 1 .. Len(suggested) : place[n] = place[k] => n = k
              /\ \/ \A i \in Q!Near(store, draft.project) :
                        \E n \in 1 .. Len(suggested) : place[n] = i
                 \/ /\ Len(suggested) = Limit
                    /\ \A n \in 1 .. Len(suggested) : place[n] \in Q!Near(store, draft.project)
    BY <2>1, ProjectsSuggested
  <2>4. ids \subseteq Q!Ids(store)
    <3>1. Q!Ids(store) = {store.projects[i].id : i \in DOMAIN store.projects}
      BY DEF Q!Ids
    <3>2. ASSUME NEW n \in 1 .. Len(suggested) PROVE suggested[n].id \in Q!Ids(store)
      <4>1. place[n] \in DOMAIN store.projects /\ suggested[n] = store.projects[place[n]]
        BY <2>3
      <4> QED
        BY <3>1, <4>1
    <3> QED
      BY <2>2, <3>2
  <2>5. Cardinality(ids) = Len(suggested)
    <3> DEFINE len == Len(suggested)
               f == [n \in 1 .. len |-> suggested[n].id]
    <3>1. \A n \in 1 .. len : f[n] = store.projects[place[n]].id /\ place[n] \in DOMAIN store.projects
      BY <2>3
    <3>2. \A x : x \in ids <=> \E n \in 1 .. len : x = f[n]
      BY <2>2
    <3>3. \A n, k \in 1 .. len : f[n] = f[k] => n = k
      <4> HIDE DEF f
      <4> QED
        BY <2>3, <3>1
    <3>4. len \in Nat
      BY <2>2
    <3> HIDE DEF f, len, ids
    <3>5. Cardinality(ids) = len
      BY <3>2, <3>3, <3>4, Counted
    <3> QED
      BY <3>5 DEF len
  <2>6. CASE \A i \in Q!Near(store, draft.project) :
               \E n \in 1 .. Len(suggested) : place[n] = i
    <3>1. \A n \in 1 .. Len(suggested) : suggested[n].id \in ids
      BY <2>2
    <3>2. ASSUME NEW i \in Q!Near(store, draft.project) PROVE store.projects[i].id \in ids
      <4>1. PICK n \in 1 .. Len(suggested) : place[n] = i
        BY <2>6
      <4> HIDE DEF ids
      <4> QED
        BY <2>3, <3>1, <4>1
    <3>3. near \subseteq ids
      <4> HIDE DEF ids
      <4> QED
        BY <3>2
    <3> HIDE DEF near, ids
    <3> QED
      BY <2>2, <2>4, <2>5, <3>3
  <2>7. CASE /\ Len(suggested) = Limit
             /\ \A n \in 1 .. Len(suggested) : place[n] \in Q!Near(store, draft.project)
    <3>1. ids \subseteq near
      BY <2>2, <2>3, <2>7
    <3> HIDE DEF near, ids
    <3> QED
      BY <2>2, <2>4, <2>5, <2>7, <3>1
  <2> HIDE DEF near, ids
  <2> QED
    BY <2>3, <2>6, <2>7
<1>4. /\ names \cap had = {} /\ Cardinality(names) = Len(labels)
      /\ Len(labels) <= LabelLimit
      /\ {Key[known[i]] : i \in DOMAIN known} \subseteq names \cup had \/ Len(labels) = LabelLimit
  BY LabelsSuggested
<1>5. Q!Cardinality(ids) = Cardinality(ids) /\ Q!Cardinality(names) = Cardinality(names)
  <2> HIDE DEF ids, names
  <2> QED
    BY <1>2
<1> QED
  BY <1>3, <1>4, <1>5 DEF Q!SuggestionsFit
=============================================================================
