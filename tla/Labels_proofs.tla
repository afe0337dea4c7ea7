--------------------------- MODULE Labels_proofs ----------------------------
(***************************************************************************)
(* Proofs about Labels, for any tasks, names, labels, texts of the other   *)
(* client and numbers of requests, and all faults.                         *)
(*                                                                         *)
(* A text that was listed is still the text of the row as long as the row  *)
(* has the version that was listed.  The assignments of a task follow its  *)
(* text because ids are given out in the order of the new names, one each, *)
(* and a label that is used keeps its row and its name.                    *)
(***************************************************************************)
EXTENDS Labels, Operators_proofs, FiniteSetTheorems

\* What a request has read of a task is below the row, or the row itself.
Read == {l \in Listed : /\ l.ver <= rows[l.task].ver
                        /\ rows[l.task].ver = l.ver => rows[l.task].raw = l.raw}

Snapshot == [task : Task, ver : Nat, raw : Content] \cup {None}

Request == [pc : {"idle", "list", "prepare", "remote", "mark", "unused", "delete", "row"},
            op : {"none", "rename", "remove", "edit", "undo"},
            label : Id \cup {None}, old : Spelling \cup {None}, new : SUBSET Spelling,
            todo : SUBSET Listed, cur : Task \cup {None}, ver : Nat, etag : Nat,
            raw : Text, result : {"none", "ok", "fail", "conflict"}, got : Nat,
            snapshot : Snapshot]

RequestOK(r) ==
    /\ r.op \in {"rename", "remove"} => r.old \in Spelling
    /\ r.op = "rename" => NewName(r) \in Spelling
    /\ r.op = "edit" => r.new \in Value
    /\ r.pc = "prepare" => r.op \in {"rename", "remove", "edit"}
    /\ r.pc \in {"list", "row"} => r.op \in {"rename", "remove"}
    /\ r.pc = "row" => r.op = "rename"
    /\ r.pc \in {"remote", "mark"} => /\ r.cur \in Task /\ r.raw \in Content
                                      /\ r.op # "none"

RequestsOK == /\ req \in [Handler -> Request]
              /\ \A h \in Handler : RequestOK(req[h]) /\ req[h].todo \subseteq Read

SnapOK == snap \in Snapshot

\* Labels: their names, and what is assigned.
NamesOK == /\ name \in [Id -> Spelling \cup {None}]
           /\ tags \in [Task -> SUBSET Id]
           /\ issued \in 0 .. MaxId
           /\ loose \subseteq Task
           /\ \A i \in Id : i > issued => name[i] = None
           /\ AssignedAsWritten

IInv == TypeOK /\ NamesOK /\ SnapOK /\ RequestsOK

-----------------------------------------------------------------------------
(* The names in a text, and the order of their keys.                       *)

LEMMA NamesType ==
    ASSUME NEW text \in Content
    PROVE  /\ Names(text) \in Value /\ Names(text) \in SUBSET Spelling
           /\ IsFiniteSet(Names(text))
BY LabelsAssumption DEF Names, Content

LEMMA TextOf ==
    ASSUME NEW names \in Value
    PROVE  Text1(names) \in Content
BY LabelsAssumption DEF Text1, Content

LEMMA KeysType ==
    ASSUME NEW text \in Content
    PROVE  Keys(text) \in SUBSET Nat /\ IsFiniteSet(Keys(text))
<1> DEFINE f == [n \in Names(text) |-> Fold[n]]
<1>1. Keys(text) \in SUBSET Nat
  BY NamesType, LabelsAssumption DEF Keys
<1>2. f \in Surjection(Names(text), Keys(text))
  BY DEF Surjection, Keys
<1>3. IsFiniteSet(Keys(text))
  BY <1>2, NamesType, FS_Surjection
<1> QED
  BY <1>1, <1>3

\* Counting up to a key numbers the keys, each with a number of its own.
Upto(K, k) == {j \in K : j <= k}

LEMMA RankType ==
    ASSUME NEW K \in SUBSET Nat, IsFiniteSet(K), NEW k \in K
    PROVE  /\ Cardinality(Upto(K, k)) \in 1 .. Cardinality(K)
           /\ IsFiniteSet(Upto(K, k)) /\ Cardinality(K) \in Nat
<1>1. Upto(K, k) \in SUBSET K /\ k \in Upto(K, k)
  BY DEF Upto
<1>2. IsFiniteSet(Upto(K, k)) /\ Cardinality(Upto(K, k)) <= Cardinality(K)
  BY <1>1, FS_Subset
<1>3. Cardinality(Upto(K, k)) # 0
  BY <1>1, <1>2, FS_EmptySet
<1> QED
  BY <1>2, <1>3, FS_CardinalityType

LEMMA RankLess ==
    ASSUME NEW K \in SUBSET Nat, IsFiniteSet(K), NEW k \in K, NEW l \in K, k < l
    PROVE  Cardinality(Upto(K, k)) # Cardinality(Upto(K, l))
<1>1. Upto(K, k) \in SUBSET Upto(K, l) /\ l \in Upto(K, l) /\ l \notin Upto(K, k)
  <2>1. k \in Nat /\ l \in Nat /\ \A j \in K : j \in Nat
    OBVIOUS
  <2>2. \A j \in K : j <= k => j <= l
    BY <2>1
  <2>3. l <= l /\ ~(l <= k)
    BY <2>1
  <2> QED
    BY <2>2, <2>3 DEF Upto
<1> QED
  BY <1>1, RankType, FS_Subset

LEMMA RankOne ==
    ASSUME NEW K \in SUBSET Nat, IsFiniteSet(K), NEW k \in K, NEW l \in K,
           Cardinality(Upto(K, k)) = Cardinality(Upto(K, l))
    PROVE  k = l
<1>1. k \in Nat /\ l \in Nat
  OBVIOUS
<1>2. ~(k < l) /\ ~(l < k)
  BY RankLess
<1> QED
  BY <1>1, <1>2

-----------------------------------------------------------------------------
(* Writers of task_labels.                                                 *)

\* What the steps below leave alone of the labels, or keep up.
LEMMA NamesKept ==
    ASSUME NamesOK, UNCHANGED <<name, tags, issued>>, loose \subseteq loose',
           loose' \subseteq Task,
           \A t \in Task \ loose' : rows'[t].raw = rows[t].raw
    PROVE  NamesOK'
<1>1. \A k : IdOf(k)' = IdOf(k)
  BY DEF IdOf, Live
<1>2. AssignedAsWritten'
  BY <1>1 DEF NamesOK, AssignedAsWritten
<1> QED
  BY <1>2 DEF NamesOK

\* syncTaskLabels: the assignments of the task are those of its text, and the
\* other tasks keep theirs.
LEMMA SyncKeeps ==
    ASSUME NamesOK, NEW t \in Task, NEW text \in Content, SyncTaskLabels(t, text),
           rows'[t].raw = text, \A u \in Task \ {t} : rows'[u].raw = rows[u].raw,
           loose' = loose \ {t}
    PROVE  NamesOK'
<1> DEFINE new == NewKeys(text)
           id(k) == issued + Cardinality(Upto(new, k))
           fresh(i) == {k \in new : id(k) = i}
           spelt(k) == SpellingOf(k, text)
<1>1. /\ Keys(text) \in SUBSET Nat /\ new \in SUBSET Keys(text) /\ new \in SUBSET Nat
      /\ IsFiniteSet(new) /\ Cardinality(new) \in Nat
      /\ \A k \in new : IdOf(k) = {}
      /\ \A k \in Keys(text) \ new : IdOf(k) # {}
  <2>1. Keys(text) \in SUBSET Nat /\ IsFiniteSet(Keys(text))
    BY KeysType
  <2>2. new \in SUBSET Keys(text)
    BY DEF NewKeys
  <2>3. IsFiniteSet(new) /\ Cardinality(new) \in Nat
    BY <2>1, <2>2, FS_Subset, FS_CardinalityType
  <2> QED
    BY <2>1, <2>2, <2>3 DEF NewKeys
<1>2. /\ issued + Cardinality(new) <= MaxId /\ issued' = issued + Cardinality(new)
      /\ name' = [i \in Id |-> IF fresh(i) = {} THEN name[i]
                               ELSE spelt(CHOOSE k \in fresh(i) : TRUE)]
      /\ tags' = [tags EXCEPT ![t] = {id(k) : k \in new}
                                \cup UNION {IdOf(k) : k \in Keys(text) \ new}]
  BY DEF SyncTaskLabels, FreshId, Upto
<1>3. issued \in Nat /\ MaxId \in Nat /\ issued' \in 0 .. MaxId
  BY <1>1, <1>2, LabelsAssumption DEF NamesOK
<1>4. \A k \in new : id(k) \in Id /\ id(k) > issued /\ id(k) <= issued'
  <2> SUFFICES ASSUME NEW k \in new
               PROVE  id(k) \in Id /\ id(k) > issued /\ id(k) <= issued'
    OBVIOUS
  <2>1. Cardinality(Upto(new, k)) \in 1 .. Cardinality(new)
    BY <1>1, RankType
  <2> QED
    BY <1>1, <1>2, <1>3, <2>1 DEF Id
<1>5. \A k, l \in new : id(k) = id(l) => k = l
  <2> SUFFICES ASSUME NEW k \in new, NEW l \in new, id(k) = id(l)
               PROVE  k = l
    OBVIOUS
  <2>1. Cardinality(Upto(new, k)) \in Nat /\ Cardinality(Upto(new, l)) \in Nat
    BY <1>1, RankType
  <2>2. Cardinality(Upto(new, k)) = Cardinality(Upto(new, l))
    BY <1>3, <2>1
  <2> QED
    BY <1>1, <2>2, RankOne
<1>6. \A k \in new : spelt(k) \in Spelling /\ Fold[spelt(k)] = k
  <2> SUFFICES ASSUME NEW k \in new
               PROVE  spelt(k) \in Spelling /\ Fold[spelt(k)] = k
    OBVIOUS
  <2>1. \E n \in Names(text) : Fold[n] = k
    BY <1>1 DEF Keys
  <2>2. spelt(k) \in Names(text) /\ Fold[spelt(k)] = k
    BY <2>1 DEF SpellingOf
  <2> QED
    BY <2>2, NamesType
<1> HIDE DEF new, id, spelt
<1>7. \A k \in new : fresh(id(k)) = {k}
  BY <1>5
<1>8. \A k \in new : name'[id(k)] = spelt(k)
  <2> SUFFICES ASSUME NEW k \in new PROVE name'[id(k)] = spelt(k)
    OBVIOUS
  <2>1. (CHOOSE l \in {k} : TRUE) = k
    OBVIOUS
  <2>2. name'[id(k)] = IF fresh(id(k)) = {} THEN name[id(k)]
                       ELSE spelt(CHOOSE l \in fresh(id(k)) : TRUE)
    BY <1>2, <1>4
  <2> HIDE DEF fresh
  <2> QED
    BY <1>7, <2>1, <2>2
<1>9. \A i \in Id : (\A k \in new : id(k) # i) => name'[i] = name[i]
  BY <1>2
<1>10. None \notin Spelling
  BY LabelsAssumption
<1>11. \A i \in Id : name'[i] \in Spelling \cup {None}
  <2> SUFFICES ASSUME NEW i \in Id PROVE name'[i] \in Spelling \cup {None}
    OBVIOUS
  <2>1. CASE \E k \in new : id(k) = i
    BY <1>6, <1>8, <2>1
  <2>2. CASE \A k \in new : id(k) # i
    BY <1>9, <2>2 DEF NamesOK
  <2> QED
    BY <2>1, <2>2
<1>12. name' \in [Id -> Spelling \cup {None}]
  <2>1. name' = [i \in Id |-> name'[i]]
    BY <1>2
  <2> QED
    BY <1>11, <2>1
<1>13. \A i \in Id : i > issued' => name'[i] = None
  <2> SUFFICES ASSUME NEW i \in Id, i > issued' PROVE name'[i] = None
    OBVIOUS
  <2>1. \A k \in new : id(k) # i
    BY <1>3, <1>4 DEF Id
  <2>2. i > issued
    BY <1>1, <1>2, <1>3 DEF Id
  <2> QED
    BY <1>9, <2>1, <2>2 DEF NamesOK
<1>14. \A k : k \notin new => IdOf(k)' = IdOf(k)
  <2> SUFFICES ASSUME NEW key, key \notin new, NEW i \in Id
               PROVE  name'[i] # None /\ Fold[name'[i]] = key
                      <=> name[i] # None /\ Fold[name[i]] = key
    BY DEF IdOf, Live
  <2>1. CASE \E k \in new : id(k) = i
    <3>1. PICK k \in new : id(k) = i
      BY <2>1
    <3>2. name'[i] = spelt(k) /\ Fold[name'[i]] = k /\ name[i] = None
      BY <1>4, <1>6, <1>8, <3>1 DEF NamesOK
    <3> QED
      BY <3>2
  <2>2. CASE \A k \in new : id(k) # i
    BY <1>9, <2>2
  <2> QED
    BY <2>1, <2>2
<1>15. \A k \in new : IdOf(k)' = {id(k)}
  <2> SUFFICES ASSUME NEW key \in new, NEW i \in Id
               PROVE  name'[i] # None /\ Fold[name'[i]] = key <=> i = id(key)
    BY <1>4 DEF IdOf, Live
  <2>1. CASE \E k \in new : id(k) = i
    <3>1. PICK k \in new : id(k) = i
      BY <2>1
    <3>2. name'[i] = spelt(k) /\ Fold[name'[i]] = k /\ name'[i] # None
      BY <1>6, <1>8, <1>10, <3>1
    <3> QED
      BY <1>5, <3>1, <3>2
  <2>2. CASE \A k \in new : id(k) # i
    <3>1. name'[i] = name[i] /\ i # id(key)
      BY <1>9, <2>2
    <3> QED
      BY <1>1, <3>1 DEF IdOf, Live
  <2> QED
    BY <2>1, <2>2
<1>16. tags' \in [Task -> SUBSET Id] /\ \A u \in Task \ {t} : tags'[u] = tags[u]
  <2>1. {id(k) : k \in new} \subseteq Id
    BY <1>4
  <2>2. UNION {IdOf(k) : k \in Keys(text) \ new} \subseteq Id
    BY DEF IdOf, Live
  <2> QED
    BY <1>2, <2>1, <2>2 DEF NamesOK
<1>17. AssignedAsWritten'
  <2> SUFFICES ASSUME NEW u \in Task, u \notin loose'
               PROVE  /\ tags'[u] = UNION {IdOf(k)' : k \in Keys(rows'[u].raw)}
                      /\ \A k \in Keys(rows'[u].raw) : IdOf(k)' # {}
    BY DEF AssignedAsWritten, Keys, Names
  <2>1. CASE u = t
    <3>1. \A k \in Keys(text) : IdOf(k)' # {}
      BY <1>1, <1>14, <1>15
    <3>2. tags'[t] = {id(k) : k \in new} \cup UNION {IdOf(k) : k \in Keys(text) \ new}
      BY <1>2 DEF NamesOK
    <3>3. UNION {IdOf(k)' : k \in Keys(text)}
              = {id(k) : k \in new} \cup UNION {IdOf(k) : k \in Keys(text) \ new}
      BY <1>1, <1>14, <1>15
    <3> QED
      BY <2>1, <3>1, <3>2, <3>3
  <2>2. CASE u # t
    <3>1. /\ tags[u] = UNION {IdOf(k) : k \in Keys(rows[u].raw)}
          /\ \A k \in Keys(rows[u].raw) : IdOf(k) # {}
      BY <2>2 DEF NamesOK, AssignedAsWritten
    <3>2. \A k \in Keys(rows[u].raw) : IdOf(k)' = IdOf(k)
      BY <1>1, <1>14, <3>1
    <3> QED
      BY <1>16, <2>2, <3>1, <3>2
  <2> QED
    BY <2>1, <2>2
<1>18. loose' \subseteq Task
  BY DEF NamesOK
<1> QED
  BY <1>3, <1>12, <1>13, <1>16, <1>17, <1>18 DEF NamesOK

\* syncTaskLabels leaves the names alone of the labels that there are.
LEMMA SyncNames ==
    ASSUME NamesOK, NEW t \in Task, NEW text \in Content, SyncTaskLabels(t, text)
    PROVE  \A i \in Live : name'[i] = name[i]
<1> SUFFICES ASSUME NEW i \in Live
             PROVE  name'[i] = name[i]
  OBVIOUS
<1> DEFINE new == NewKeys(text)
           fresh == {k \in new : FreshId(k, text) = i}
<1>1. new \in SUBSET Nat /\ IsFiniteSet(new)
  <2>1. Keys(text) \in SUBSET Nat /\ IsFiniteSet(Keys(text)) /\ new \in SUBSET Keys(text)
    BY KeysType DEF NewKeys
  <2> QED
    BY <2>1, FS_Subset
<1>2. i \in Id /\ ~(i > issued) /\ issued \in Nat
  BY LabelsAssumption DEF Live, NamesOK
<1>3. \A k \in new : FreshId(k, text) # i
  <2> SUFFICES ASSUME NEW k \in new
               PROVE  issued + Cardinality(Upto(new, k)) # i
    BY DEF FreshId, Upto
  <2> HIDE DEF new
  <2>1. Cardinality(Upto(new, k)) \in Nat \ {0}
    BY <1>1, RankType
  <2> QED
    BY <1>2, <2>1 DEF Id
<1>4. fresh = {}
  BY <1>3
<1>5. name'[i] = IF fresh = {} THEN name[i]
                 ELSE SpellingOf(CHOOSE k \in fresh : TRUE, text)
  BY <1>2 DEF SyncTaskLabels
<1> QED
  BY <1>4, <1>5

\* A label that is not used loses its row.
LEMMA UnusedGoes ==
    ASSUME NamesOK, NEW i \in Id, Unused(i), name' = [name EXCEPT ![i] = None],
           UNCHANGED <<issued, loose>>, UNCHANGED rows,
           tags' = tags \/ tags' = [t \in Task |-> tags[t] \ {i}]
    PROVE  NamesOK'
<1>1. \A k : IdOf(k)' = IdOf(k) \ {i}
  BY DEF NamesOK, IdOf, Live
<1>2. \A t \in Task : i \notin tags[t]
  BY DEF Unused
<1>3. tags' = tags
  <2>1. \A t \in Task : tags[t] \ {i} = tags[t]
    BY <1>2
  <2>2. tags = [t \in Task |-> tags[t]]
    BY DEF NamesOK
  <2> QED
    BY <2>1, <2>2
<1>4. AssignedAsWritten'
  <2> SUFFICES ASSUME NEW t \in Task, t \notin loose
               PROVE  \A k \in Keys(rows[t].raw) : IdOf(k)' = IdOf(k)
    BY <1>3 DEF NamesOK, AssignedAsWritten
  <2>1. tags[t] = UNION {IdOf(k) : k \in Keys(rows[t].raw)}
    BY DEF NamesOK, AssignedAsWritten
  <2>2. \A k \in Keys(rows[t].raw) : i \notin IdOf(k)
    BY <1>2, <2>1
  <2> QED
    BY <1>1, <2>2
<1> QED
  BY <1>3, <1>4 DEF NamesOK

\* A label takes a name that no other label has, and the tasks that have it
\* under another name are counted as loose.
LEMMA NameTaken ==
    ASSUME NamesOK, NEW i \in Live, NEW n \in Spelling, IdOf(Fold[n]) \subseteq {i},
           name' = [name EXCEPT ![i] = n], UNCHANGED <<tags, issued, rows>>,
           loose' \subseteq Task, loose \subseteq loose',
           Fold[name[i]] # Fold[n] => \A t \in Task \ loose' : i \notin tags[t]
    PROVE  NamesOK'
<1>1. /\ i \in Id /\ name' \in [Id -> Spelling \cup {None}] /\ name'[i] = n /\ n # None
      /\ \A j \in Id \ {i} : name'[j] = name[j]
  BY LabelsAssumption DEF NamesOK, Live
<1>2. \A j \in Id : j > issued' => name'[j] = None
  BY <1>1 DEF NamesOK, Live
<1>3. i \in IdOf(Fold[n])' /\ \A j \in IdOf(Fold[n])' : j = i
  BY <1>1 DEF IdOf, Live
<1>4. \A k : k # Fold[n] => IdOf(k)' = IdOf(k) \ {i}
  BY <1>1 DEF IdOf, Live
<1>5. AssignedAsWritten'
  <2> SUFFICES ASSUME NEW t \in Task, t \notin loose'
               PROVE  \A k \in Keys(rows[t].raw) : IdOf(k)' = IdOf(k)
    BY DEF NamesOK, AssignedAsWritten
  <2> TAKE k \in Keys(rows[t].raw)
  <2>1. tags[t] = UNION {IdOf(l) : l \in Keys(rows[t].raw)} /\ IdOf(k) # {}
    BY DEF NamesOK, AssignedAsWritten
  <2>2. i \in IdOf(Fold[name[i]])
    BY DEF IdOf, Live
  <2>3. CASE k = Fold[n]
    BY <1>3, <2>1, <2>3
  <2>4. CASE k # Fold[n]
    <3>1. CASE i \in IdOf(k)
      <4>1. Fold[name[i]] = k /\ i \in tags[t]
        BY <2>1, <3>1 DEF IdOf
      <4> QED
        BY <2>4, <4>1
    <3>2. CASE i \notin IdOf(k)
      BY <1>4, <2>4, <3>2
    <3> QED
      BY <3>1, <3>2
  <2> QED
    BY <2>3, <2>4
<1> QED
  BY <1>1, <1>2, <1>5 DEF NamesOK

-----------------------------------------------------------------------------
(* Rows and requests.                                                      *)

\* A row gets a new version or keeps its text.
RowsEvolve == \A t \in Task : \/ rows[t].ver < rows'[t].ver
                              \/ rows'[t].ver = rows[t].ver /\ rows'[t].raw = rows[t].raw

LEMMA ReadKept ==
    ASSUME rows \in [Task -> Row], rows' \in [Task -> Row], RowsEvolve
    PROVE  Read \subseteq Read'
<1> SUFFICES ASSUME NEW l \in Read
             PROVE  l \in Read'
  OBVIOUS
<1>1. /\ l \in Listed /\ l.task \in Task /\ l.ver \in Nat /\ l.ver <= rows[l.task].ver
      /\ rows[l.task].ver \in Nat /\ rows'[l.task].ver \in Nat
      /\ rows[l.task].ver = l.ver => rows[l.task].raw = l.raw
  BY DEF Read, Listed, Row
<1>2. CASE rows[l.task].ver < rows'[l.task].ver
  BY <1>1, <1>2 DEF Read
<1>3. CASE rows'[l.task].ver = rows[l.task].ver /\ rows'[l.task].raw = rows[l.task].raw
  BY <1>1, <1>3 DEF Read
<1> QED
  BY <1>1, <1>2, <1>3 DEF RowsEvolve

\* One row is rewritten.
LEMMA RowRewritten ==
    ASSUME rows \in [Task -> Row], NEW t \in Task, NEW row \in Row,
           rows' = [rows EXCEPT ![t] = row],
           \/ row.ver = rows[t].ver + 1
           \/ row.ver = rows[t].ver /\ row.raw = rows[t].raw
    PROVE  /\ rows' \in [Task -> Row] /\ RowsEvolve /\ rows'[t] = row
           /\ \A u \in Task \ {t} : rows'[u] = rows[u]
<1>1. /\ rows' \in [Task -> Row] /\ rows'[t] = row
      /\ \A u \in Task \ {t} : rows'[u] = rows[u]
  OBVIOUS
<1>2. rows[t].ver \in Nat
  BY DEF Row
<1>3. RowsEvolve
  BY <1>1, <1>2 DEF RowsEvolve
<1> QED
  BY <1>1, <1>3

LEMMA RowsSame ==
    ASSUME rows \in [Task -> Row], UNCHANGED rows
    PROVE  rows' \in [Task -> Row] /\ RowsEvolve /\ Read' = Read
BY DEF RowsEvolve, Read

\* A request goes on to what fits the rows after the step.
GoesOn(h) == \E r \in Request : /\ req' = [req EXCEPT ![h] = r]
                                /\ RequestOK(r) /\ r.todo \subseteq Read'

LEMMA HandlerStep ==
    ASSUME IInv, NEW h \in Handler, GoesOn(h), NamesOK', SnapOK',
           rows' \in [Task -> Row], RowsEvolve,
           server' \in [Task -> [text : Content, last : Nat]]
    PROVE  IInv'
<1>1. PICK r \in Request : /\ req' = [req EXCEPT ![h] = r]
                           /\ RequestOK(r) /\ r.todo \subseteq Read'
  BY DEF GoesOn
<1>2. /\ req' \in [Handler -> Request] /\ req'[h] = r
      /\ \A k \in Handler \ {h} : req'[k] = req[k]
  BY <1>1 DEF IInv, RequestsOK
<1>3. Read \subseteq Read'
  BY ReadKept DEF IInv, TypeOK
<1>4. \A k \in Handler : RequestOK(req'[k]) /\ req'[k].todo \subseteq Read'
  BY <1>1, <1>2, <1>3 DEF IInv, RequestsOK
<1>5. RequestsOK'
  BY <1>2, <1>4 DEF RequestsOK, RequestOK, NewName
<1>6. TypeOK'
  BY DEF TypeOK, NamesOK
<1> QED
  BY <1>5, <1>6 DEF IInv

\* Steps that change a request and at most the labels.
LEMMA LabelStep ==
    ASSUME IInv, NEW h \in Handler, GoesOn(h), NamesOK', UNCHANGED <<server, rows, snap>>
    PROVE  IInv'
<1>1. rows' \in [Task -> Row] /\ RowsEvolve
  BY RowsSame DEF IInv, TypeOK
<1>2. SnapOK' /\ server' \in [Task -> [text : Content, last : Nat]]
  BY DEF IInv, SnapOK, TypeOK
<1> QED
  BY <1>1, <1>2, HandlerStep

LEMMA OnlyRequest ==
    ASSUME IInv, NEW h \in Handler, GoesOn(h), UNCHANGED <<server, rows, Derived, snap>>
    PROVE  IInv'
<1>1. NamesOK'
  BY NamesKept DEF Derived, IInv, NamesOK
<1> QED
  BY <1>1, LabelStep

LEMMA NoRequestOK ==
    /\ NoRequest \in Request /\ RequestOK(NoRequest) /\ NoRequest.pc = "idle"
    /\ NoRequest.todo = {}
BY DEF NoRequest, Request, Text, Snapshot, RequestOK

LEMMA EndsGoesOn ==
    ASSUME NEW h \in Handler, Ends(h)
    PROVE  GoesOn(h)
<1>1. NoRequest.todo \subseteq Read'
  BY NoRequestOK
<1> QED
  BY <1>1, NoRequestOK, Zenon DEF Ends, Goes, GoesOn

-----------------------------------------------------------------------------
(* Texts that a request writes.                                            *)

LEMMA FewerNames ==
    ASSUME NEW names \in Value, NEW some \in SUBSET names
    PROVE  some \in Value
<1>1. names \in SUBSET Spelling /\ IsFiniteSet(names)
  BY LabelsAssumption
<1>2. IsFiniteSet(some)
  BY <1>1, FS_Subset
<1> QED
  BY <1>1, <1>2, LabelsAssumption

LEMMA OneMoreName ==
    ASSUME NEW names \in Value, NEW n \in Spelling, \A m \in names : Fold[m] # Fold[n]
    PROVE  names \cup {n} \in Value
<1>1. names \in SUBSET Spelling /\ IsFiniteSet(names)
  BY LabelsAssumption
<1>2. IsFiniteSet(names \cup {n})
  BY <1>1, FS_AddElement
<1> QED
  BY <1>1, <1>2, LabelsAssumption

LEMMA RenamedType ==
    ASSUME NEW names \in Value, NEW old, NEW new \in Spelling
    PROVE  Renamed(names, old, new) \in Value /\ Removed(names, old) \in Value
<1> DEFINE hit == {n \in names : Fold[n] = Fold[old]}
           other == {n \in names \ hit : Fold[n] = Fold[new]}
<1>1. names \ hit \in Value /\ (names \ hit) \ other \in Value
  BY FewerNames
<1>2. ((names \ hit) \ other) \cup {new} \in Value
  BY <1>1, OneMoreName
<1>3. Renamed(names, old, new) \in {names, names \ hit, ((names \ hit) \ other) \cup {new}}
  BY DEF Renamed
<1>4. Removed(names, old) \in Value
  BY FewerNames DEF Removed
<1> QED
  BY <1>1, <1>2, <1>3, <1>4

LEMMA RemovedType ==
    ASSUME NEW names \in Value, NEW old
    PROVE  Removed(names, old) \in Value
BY FewerNames DEF Removed

LEMMA TargetType ==
    ASSUME NEW r \in Request, RequestOK(r), r.op \in {"rename", "remove", "edit"},
           NEW text \in Content
    PROVE  Target(r, text) \in Content
<1>1. Names(text) \in Value
  BY NamesType
<1>2. CASE r.op = "rename"
  BY <1>1, <1>2, RenamedType, TextOf DEF Target, RequestOK
<1>3. CASE r.op = "remove"
  BY <1>1, <1>3, RemovedType, TextOf DEF Target
<1>4. CASE r.op = "edit"
  BY <1>4, TextOf DEF Target, RequestOK
<1> QED
  BY <1>2, <1>3, <1>4

-----------------------------------------------------------------------------
(* The steps of a request.                                                 *)

LEMMA RowRead ==
    ASSUME IInv, NEW t \in Task
    PROVE  [task |-> t, ver |-> rows[t].ver, raw |-> rows[t].raw] \in Read \cap Listed
<1>1. rows[t].ver \in Nat /\ rows[t].raw \in Content
  BY DEF IInv, TypeOK, Row
<1> QED
  BY <1>1 DEF Read, Listed

LEMMA StartLabelStep ==
    ASSUME IInv, NEW h \in Handler, StartLabel(h)
    PROVE  IInv'
<1>1. PICK i \in Live, op \in {"rename", "remove"}, n \in Spelling :
          Accept(h, op, [NoRequest EXCEPT !.pc = "list", !.label = i, !.old = name[i],
                            !.new = IF op = "rename" THEN {n} ELSE {}])
  BY DEF StartLabel
<1> DEFINE names == IF op = "rename" THEN {n} ELSE {}
           q == [NoRequest EXCEPT !.pc = "list", !.label = i, !.old = name[i], !.new = names]
           r == [q EXCEPT !.op = op]
<1>2. /\ i \in Id /\ name[i] \in Spelling /\ names \in SUBSET Spelling
      /\ op = "rename" => names = {n}
  BY DEF Live, IInv, NamesOK
<1>3. req' = [req EXCEPT ![h] = r]
  BY <1>1 DEF Accept
<1> HIDE DEF names
<1>4. /\ q \in Request /\ q.pc = "list" /\ q.old = name[i] /\ q.new = names
      /\ q.todo = {}
  BY <1>2 DEF NoRequest, Request, Text, Snapshot
<1>5. /\ r \in Request /\ r.pc = "list" /\ r.old = name[i] /\ r.new = names
      /\ r.todo = {} /\ r.op = op
  BY <1>2, <1>4 DEF Request
<1> HIDE DEF r, q
<1>6. r.op = "rename" => NewName(r) \in Spelling
  BY <1>2, <1>5 DEF NewName
<1>7. RequestOK(r) /\ r.todo \subseteq Read'
  BY <1>2, <1>5, <1>6 DEF RequestOK
<1>8. GoesOn(h)
  BY <1>3, <1>5, <1>7 DEF GoesOn
<1> QED
  BY <1>8, OnlyRequest DEF StartLabel, Derived

LEMMA ListStep ==
    ASSUME IInv, NEW h \in Handler, List(h)
    PROVE  IInv'
<1> DEFINE q == req[h]
           assigned == {t \in Task : q.label \in tags[t]}
           todo == {[task |-> t, ver |-> rows[t].ver, raw |-> rows[t].raw] : t \in assigned}
           pc == IF assigned = {} THEN "unused" ELSE "prepare"
           r == [q EXCEPT !.pc = pc, !.todo = todo]
<1>1. /\ q \in Request /\ q.pc = "list" /\ RequestOK(q) /\ Goes(h, r)
      /\ UNCHANGED <<server, rows, Derived, snap>>
  BY DEF IInv, RequestsOK, List
<1>2. todo \in SUBSET Listed /\ todo \subseteq Read /\ pc \in {"unused", "prepare"}
  BY RowRead
<1> HIDE DEF todo, pc
<1>3. /\ r \in Request /\ r.pc = pc /\ r.todo = todo /\ r.op = q.op /\ r.old = q.old
      /\ r.new = q.new
  BY <1>1, <1>2 DEF Request
<1> HIDE DEF r
<1>4. RequestOK(r)
  BY <1>1, <1>2, <1>3 DEF RequestOK, NewName
<1>5. r.todo \subseteq Read'
  BY <1>1, <1>2, <1>3, RowsSame DEF IInv, TypeOK
<1>6. GoesOn(h)
  BY <1>1, <1>3, <1>4, <1>5 DEF GoesOn, Goes
<1> QED
  BY <1>1, <1>6, OnlyRequest

LEMMA StartEditStep ==
    ASSUME IInv, NEW h \in Handler, StartEdit(h)
    PROVE  IInv'
<1>1. PICK t \in Task, names \in Choice :
          Accept(h, "edit", [NoRequest EXCEPT !.pc = "prepare", !.new = names,
              !.todo = {[task |-> t, ver |-> rows[t].ver, raw |-> rows[t].raw]}])
  BY DEF StartEdit
<1> DEFINE todo == {[task |-> t, ver |-> rows[t].ver, raw |-> rows[t].raw]}
           q == [NoRequest EXCEPT !.pc = "prepare", !.new = names, !.todo = todo]
           r == [q EXCEPT !.op = "edit"]
<1>2. /\ todo \in SUBSET Listed /\ todo \subseteq Read
      /\ names \in Value /\ names \in SUBSET Spelling
  BY RowRead, LabelsAssumption
<1>3. req' = [req EXCEPT ![h] = r]
  BY <1>1 DEF Accept
<1> HIDE DEF todo
<1>4. q \in Request /\ q.pc = "prepare" /\ q.new = names /\ q.todo = todo
  BY <1>2 DEF NoRequest, Request, Text, Snapshot
<1>5. /\ r \in Request /\ r.pc = "prepare" /\ r.new = names /\ r.todo = todo
      /\ r.op = "edit"
  BY <1>2, <1>4 DEF Request
<1> HIDE DEF r, q
<1>6. RequestOK(r)
  BY <1>2, <1>5 DEF RequestOK
<1>7. UNCHANGED <<server, rows, Derived, snap>>
  BY DEF StartEdit, Derived
<1>8. r.todo \subseteq Read'
  BY <1>2, <1>5, <1>7, RowsSame DEF IInv, TypeOK
<1>9. GoesOn(h)
  BY <1>3, <1>5, <1>6, <1>8 DEF GoesOn
<1> QED
  BY <1>7, <1>9, OnlyRequest

LEMMA PrepareStep ==
    ASSUME IInv, NEW h \in Handler, Prepare(h)
    PROVE  IInv'
<1> DEFINE q == req[h]
<1>1. /\ q \in Request /\ q.pc = "prepare" /\ RequestOK(q) /\ q.todo \subseteq Read
      /\ UNCHANGED <<server, remoteWrites>>
  BY DEF IInv, RequestsOK, Prepare
<1>2. PICK l \in q.todo :
          LET t == l.task
              text == Target(q, l.raw)
          IN  IF rows[t].ver = l.ver
              THEN /\ rows' = [rows EXCEPT ![t] = Pending(rows[t], text)]
                   /\ SyncTaskLabels(t, text)
                   /\ loose' = loose \ {t}
                   /\ snap' = [task |-> t, ver |-> l.ver, raw |-> rows[t].raw]
                   /\ Goes(h, [q EXCEPT !.pc = "remote", !.todo = q.todo \ {l}, !.cur = t,
                            !.ver = l.ver + 1, !.etag = rows[t].etag, !.raw = text])
              ELSE Ends(h) /\ UNCHANGED <<rows, Derived, snap>>
  BY DEF Prepare
<1> DEFINE t == l.task
           text == Target(q, l.raw)
           todo == q.todo \ {l}
           r == [q EXCEPT !.pc = "remote", !.todo = todo, !.cur = t,
                          !.ver = l.ver + 1, !.etag = rows[t].etag, !.raw = text]
<1>3. CASE rows[t].ver # l.ver
  BY <1>1, <1>2, <1>3, EndsGoesOn, OnlyRequest
<1>4. CASE rows[t].ver = l.ver
  <2>1. l \in Listed /\ t \in Task /\ l.ver \in Nat /\ l.raw \in Content
    BY <1>1 DEF Request, Listed
  <2>2. rows[t] \in Row /\ rows[t].etag \in Nat /\ rows[t].raw \in Content /\ l.ver + 1 \in Nat
    BY <2>1 DEF IInv, TypeOK, Row
  <2>3. text \in Content /\ text \in Text
    BY <1>1, <2>1, TargetType DEF RequestOK, Text
  <2>4. /\ rows' = [rows EXCEPT ![t] = Pending(rows[t], text)]
        /\ SyncTaskLabels(t, text) /\ loose' = loose \ {t}
        /\ snap' = [task |-> t, ver |-> l.ver, raw |-> rows[t].raw] /\ Goes(h, r)
    BY <1>2, <1>4
  <2>5. todo \in SUBSET Listed /\ todo \subseteq Read
    BY <1>1 DEF Request
  <2> HIDE DEF text, todo
  <2>6. /\ r \in Request /\ r.pc = "remote" /\ r.todo = todo /\ r.cur = t /\ r.raw = text
        /\ r.op = q.op /\ r.old = q.old /\ r.new = q.new
    BY <1>1, <2>1, <2>2, <2>3, <2>5 DEF Request
  <2> HIDE DEF r
  <2>7. Pending(rows[t], text) \in Row /\ Pending(rows[t], text).raw = text
        /\ Pending(rows[t], text).ver = rows[t].ver + 1
    BY <2>2, <2>3, PendingRowOK
  <2>8. /\ rows' \in [Task -> Row] /\ RowsEvolve /\ rows'[t].raw = text
        /\ \A u \in Task \ {t} : rows'[u] = rows[u]
    BY <2>1, <2>4, <2>7, RowRewritten DEF IInv, TypeOK
  <2>9. NamesOK'
    BY <2>1, <2>3, <2>4, <2>8, SyncKeeps DEF IInv
  <2>10. SnapOK'
    BY <2>1, <2>2, <2>4 DEF SnapOK, Snapshot
  <2>11. RequestOK(r)
    BY <1>1, <2>1, <2>3, <2>6 DEF RequestOK, NewName
  <2>12. r.todo \subseteq Read'
    BY <2>5, <2>6, <2>8, ReadKept DEF IInv, TypeOK
  <2>13. GoesOn(h)
    BY <2>4, <2>6, <2>11, <2>12 DEF GoesOn, Goes
  <2>14. server' \in [Task -> [text : Content, last : Nat]]
    BY <1>1 DEF IInv, TypeOK
  <2> QED
    BY <2>8, <2>9, <2>10, <2>13, <2>14, HandlerStep
<1> QED
  BY <1>3, <1>4

LEMMA StartUndoStep ==
    ASSUME IInv, NEW h \in Handler, StartUndo(h)
    PROVE  IInv'
<1> DEFINE t == snap.task
           raw == snap.raw
           q == [NoRequest EXCEPT !.pc = "remote", !.cur = t, !.ver = rows[t].ver + 1,
                                  !.etag = rows[t].etag, !.raw = raw, !.snapshot = snap]
           r == [q EXCEPT !.op = "undo"]
<1>1. /\ snap # None /\ req' = [req EXCEPT ![h] = r]
      /\ rows' = [rows EXCEPT ![t] = Pending(rows[t], raw)]
      /\ loose' = loose \cup {t}
      /\ UNCHANGED <<server, name, tags, issued, snap>>
  BY DEF StartUndo, Accept
<1>2. /\ t \in Task /\ raw \in Content /\ raw \in Text /\ rows[t] \in Row
      /\ rows[t].ver + 1 \in Nat /\ rows[t].etag \in Nat
      /\ snap \in Snapshot
  BY <1>1 DEF IInv, SnapOK, Snapshot, TypeOK, Row, Text
<1> HIDE DEF t, raw
<1>3. q \in Request /\ q.pc = "remote" /\ q.cur = t /\ q.raw = raw /\ q.todo = {}
  BY <1>2 DEF NoRequest, Request
<1>4. /\ r \in Request /\ r.pc = "remote" /\ r.cur = t /\ r.raw = raw /\ r.todo = {}
      /\ r.op = "undo"
  BY <1>3 DEF Request
<1> HIDE DEF r, q
<1>5. GoesOn(h)
  BY <1>1, <1>2, <1>4 DEF GoesOn, RequestOK
<1>6. /\ Pending(rows[t], raw) \in Row /\ Pending(rows[t], raw).ver = rows[t].ver + 1
  BY <1>2, PendingRowOK
<1>7. /\ rows' \in [Task -> Row] /\ RowsEvolve
      /\ \A u \in Task \ {t} : rows'[u] = rows[u]
  BY <1>1, <1>2, <1>6, RowRewritten DEF IInv, TypeOK
<1>8. NamesOK'
  BY <1>1, <1>2, <1>7, NamesKept DEF IInv, NamesOK
<1>9. SnapOK' /\ server' \in [Task -> [text : Content, last : Nat]]
  BY <1>1 DEF IInv, SnapOK, TypeOK
<1> QED
  BY <1>5, <1>7, <1>8, <1>9, HandlerStep

LEMMA RemoteStep ==
    ASSUME IInv, NEW h \in Handler, Remote(h)
    PROVE  IInv'
<1> DEFINE q == req[h]
           marked(result, got) == [q EXCEPT !.pc = "mark", !.result = result, !.got = got]
<1>1. /\ q \in Request /\ q.pc = "remote" /\ RequestOK(q) /\ q.todo \subseteq Read
      /\ q.cur \in Task /\ q.raw \in Content
      /\ UNCHANGED <<rows, Derived, snap>>
  BY DEF IInv, RequestsOK, RequestOK, Remote
<1>2. /\ server[q.cur].last \in Nat /\ server[q.cur].last + 1 \in Nat
  BY <1>1 DEF IInv, TypeOK
<1>3. rows' \in [Task -> Row] /\ RowsEvolve /\ Read' = Read
  BY <1>1, RowsSame DEF IInv, TypeOK
<1>4. ASSUME NEW result \in {"ok", "fail", "conflict"}, NEW got \in Nat,
             Goes(h, marked(result, got))
      PROVE  GoesOn(h)
  <2> DEFINE r == marked(result, got)
  <2>1. /\ r \in Request /\ r.pc = "mark" /\ r.cur = q.cur /\ r.raw = q.raw
        /\ r.op = q.op /\ r.old = q.old /\ r.new = q.new /\ r.todo = q.todo
    BY <1>1 DEF Request
  <2>2. Goes(h, r)
    BY <1>4
  <2> HIDE DEF r
  <2>3. RequestOK(r) /\ r.todo \subseteq Read'
    BY <1>1, <1>3, <2>1 DEF RequestOK, NewName
  <2> QED
    BY <2>1, <2>2, <2>3 DEF GoesOn, Goes
<1>5. GoesOn(h)
  <2> DEFINE n == server[q.cur].last
  <2>1. \/ Goes(h, marked("ok", n + 1)) \/ Goes(h, marked("conflict", n))
        \/ Goes(h, marked("fail", 0))
    BY DEF Remote
  <2>2. n \in Nat /\ n + 1 \in Nat /\ 0 \in Nat
    BY <1>2
  <2> HIDE DEF n, marked
  <2> QED
    BY <1>4, <2>1, <2>2
<1>6. NamesOK' /\ SnapOK'
  BY <1>1, NamesKept DEF IInv, NamesOK, SnapOK, Derived
<1>7. server' \in [Task -> [text : Content, last : Nat]]
  <2>1. Wrote(server[q.cur], q.raw) \in [text : Content, last : Nat]
    BY <1>1, <1>2 DEF Wrote
  <2>2. \/ UNCHANGED server
        \/ server' = [server EXCEPT ![q.cur] = Wrote(server[q.cur], q.raw)]
    BY DEF Remote
  <2> QED
    BY <2>1, <2>2 DEF IInv, TypeOK
<1> QED
  BY <1>3, <1>5, <1>6, <1>7, HandlerStep

LEMMA MarkStep ==
    ASSUME IInv, NEW h \in Handler, Mark(h)
    PROVE  IInv'
<1> DEFINE q == req[h]
           row == rows[q.cur]
           pc == IF q.todo # {} THEN "prepare"
                 ELSE IF q.op = "rename" /\ Fold[q.old] = Fold[NewName(q)]
                      THEN "row" ELSE "delete"
           r == [q EXCEPT !.pc = pc]
<1>1. /\ q \in Request /\ q.pc = "mark" /\ RequestOK(q) /\ q.todo \subseteq Read
      /\ q.cur \in Task /\ q.op # "none" /\ q.got \in Nat /\ row \in Row
      /\ UNCHANGED <<server, Derived>>
  BY DEF IInv, TypeOK, RequestsOK, RequestOK, Request, Mark
<1>2. CASE ~Marked(q)
  BY <1>1, <1>2, EndsGoesOn, OnlyRequest DEF Mark
<1>3. ASSUME NEW new \in Row, rows' = [rows EXCEPT ![q.cur] = new],
             \/ new.ver = row.ver + 1
             \/ new.ver = row.ver /\ new.raw = row.raw,
             new.raw = row.raw, snap' \in {snap, None}
      PROVE  /\ NamesOK' /\ SnapOK' /\ rows' \in [Task -> Row] /\ RowsEvolve
             /\ Read \subseteq Read'
             /\ server' \in [Task -> [text : Content, last : Nat]]
  <2>1. /\ rows' \in [Task -> Row] /\ RowsEvolve /\ rows'[q.cur] = new
        /\ \A u \in Task \ {q.cur} : rows'[u] = rows[u]
    BY <1>1, <1>3, RowRewritten DEF IInv, TypeOK
  <2>2. NamesOK'
    BY <1>1, <1>3, <2>1, NamesKept DEF IInv, NamesOK, Derived
  <2>3. Read \subseteq Read'
    BY <2>1, ReadKept DEF IInv, TypeOK
  <2> QED
    BY <1>1, <1>3, <2>1, <2>2, <2>3 DEF IInv, SnapOK, Snapshot, TypeOK
<1>4. CASE Marked(q) /\ q.result = "ok"
  <2> DEFINE new == Synced(row, q.got)
  <2>1. new \in Row /\ new.ver = row.ver + 1 /\ new.raw = row.raw
    BY <1>1, SyncedRowOK
  <2>2. /\ rows' = [rows EXCEPT ![q.cur] = new] /\ snap' \in {snap, None}
        /\ Ends(h) \/ (q.op \notin {"edit", "undo"} /\ Goes(h, r))
    BY <1>4 DEF Mark
  <2> HIDE DEF new
  <2>3. /\ NamesOK' /\ SnapOK' /\ rows' \in [Task -> Row] /\ RowsEvolve
        /\ Read \subseteq Read'
        /\ server' \in [Task -> [text : Content, last : Nat]]
    BY <1>3, <2>1, <2>2
  <2>4. ASSUME q.op \notin {"edit", "undo"}, Goes(h, r)
        PROVE  GoesOn(h)
    <3>1. pc \in {"prepare", "row", "delete"} /\ (pc = "row" => q.op = "rename")
      OBVIOUS
    <3>2. q.op \in {"rename", "remove"}
      BY <1>1, <2>4 DEF Request
    <3> HIDE DEF pc
    <3>3. /\ r \in Request /\ r.pc = pc /\ r.op = q.op /\ r.old = q.old
          /\ r.new = q.new /\ r.todo = q.todo
      BY <1>1, <3>1 DEF Request
    <3> HIDE DEF r
    <3>4. RequestOK(r) /\ r.todo \subseteq Read'
      BY <1>1, <2>3, <3>1, <3>2, <3>3 DEF RequestOK, NewName
    <3> QED
      BY <2>4, <3>3, <3>4 DEF GoesOn, Goes
  <2>5. GoesOn(h)
    BY <2>2, <2>4, EndsGoesOn
  <2> QED
    BY <2>3, <2>5, HandlerStep
<1>5. CASE Marked(q) /\ q.result # "ok"
  <2> DEFINE new == IF q.result = "conflict" THEN Conflicted(row, q.got)
                    ELSE [row EXCEPT !.status = "error"]
  <2>1. new \in Row /\ new.ver = row.ver /\ new.raw = row.raw
    <3>1. CASE q.result = "conflict"
      BY <1>1, <3>1, ConflictedRowOK
    <3>2. CASE q.result # "conflict"
      BY <1>1, <3>2, StatusRowOK DEF SyncStatus
    <3> QED
      BY <3>1, <3>2
  <2>2. rows' = [rows EXCEPT ![q.cur] = new] /\ snap' = snap /\ Ends(h)
    BY <1>5 DEF Mark
  <2> HIDE DEF new
  <2>3. /\ NamesOK' /\ SnapOK' /\ rows' \in [Task -> Row] /\ RowsEvolve
        /\ server' \in [Task -> [text : Content, last : Nat]]
    BY <1>3, <2>1, <2>2
  <2> QED
    BY <2>2, <2>3, EndsGoesOn, HandlerStep
<1> QED
  BY <1>2, <1>4, <1>5

-----------------------------------------------------------------------------
(* The label's own row.                                                    *)

LEMMA DeleteUnusedLabelStep ==
    ASSUME IInv, NEW h \in Handler, DeleteUnusedLabel(h)
    PROVE  IInv'
<1> DEFINE i == req[h].label
<1>1. Ends(h) /\ UNCHANGED <<server, rows, issued, loose, snap>>
  BY DEF DeleteUnusedLabel
<1>2. CASE ~Deletable(i)
  BY <1>1, <1>2, EndsGoesOn, OnlyRequest DEF DeleteUnusedLabel, Derived
<1>3. CASE Deletable(i)
  <2>1. /\ name' = [name EXCEPT ![i] = None] /\ tags' = [t \in Task |-> tags[t] \ {i}]
        /\ Unused(i) /\ i \in Id
    BY <1>3 DEF DeleteUnusedLabel, Deletable, Unused, Live
  <2>2. NamesOK'
    BY <1>1, <2>1, UnusedGoes DEF IInv
  <2> QED
    BY <1>1, <2>2, EndsGoesOn, LabelStep
<1> QED
  BY <1>2, <1>3

LEMMA RenameUnusedLabelStep ==
    ASSUME IInv, NEW h \in Handler, RenameUnusedLabel(h)
    PROVE  IInv'
<1> DEFINE r == req[h]
           i == r.label
           taken == IdOf(Fold[NewName(r)]) \ {i} # {}
<1>1. /\ Ends(h) /\ UNCHANGED <<server, rows, tags, issued, loose, snap>>
      /\ NewName(r) \in Spelling
      /\ name' = IF ~Unused(i) THEN name
                 ELSE [name EXCEPT ![i] = IF taken THEN None ELSE NewName(r)]
  BY DEF RenameUnusedLabel, IInv, RequestsOK, RequestOK
<1>2. CASE ~Unused(i)
  BY <1>1, <1>2, EndsGoesOn, OnlyRequest DEF Derived
<1>3. CASE Unused(i) /\ taken
  <2>1. NamesOK'
    BY <1>1, <1>3, UnusedGoes DEF IInv, Unused, Live
  <2> QED
    BY <1>1, <2>1, EndsGoesOn, LabelStep
<1>4. CASE Unused(i) /\ ~taken
  <2>1. i \in Live /\ \A t \in Task : i \notin tags[t]
    BY <1>4 DEF Unused
  <2>2. NamesOK'
    BY <1>1, <1>4, <2>1, NameTaken DEF IInv, NamesOK
  <2> QED
    BY <1>1, <2>2, EndsGoesOn, LabelStep
<1> QED
  BY <1>2, <1>3, <1>4

LEMMA RenameLabelRowStep ==
    ASSUME IInv, NEW h \in Handler, RenameLabelRow(h)
    PROVE  IInv'
<1> DEFINE r == req[h]
           i == r.label
           renames == i \in Live /\ IdOf(Fold[NewName(r)]) \subseteq {i}
           other == renames /\ Fold[name[i]] # Fold[NewName(r)]
<1>1. /\ Ends(h) /\ UNCHANGED <<server, rows, tags, issued, snap>>
      /\ NewName(r) \in Spelling
      /\ name' = IF renames THEN [name EXCEPT ![i] = NewName(r)] ELSE name
      /\ loose' = IF other THEN loose \cup {t \in Task : i \in tags[t]} ELSE loose
  BY DEF RenameLabelRow, IInv, RequestsOK, RequestOK
<1>2. CASE ~renames
  BY <1>1, <1>2, EndsGoesOn, OnlyRequest DEF Derived
<1>3. CASE renames
  <2>1. loose' \subseteq Task /\ loose \subseteq loose'
    BY <1>1 DEF IInv, NamesOK
  <2>2. Fold[name[i]] # Fold[NewName(r)] => \A t \in Task \ loose' : i \notin tags[t]
    BY <1>1, <1>3
  <2>3. NamesOK'
    BY <1>1, <1>3, <2>1, <2>2, NameTaken DEF IInv
  <2> QED
    BY <1>1, <2>3, EndsGoesOn, LabelStep
<1> QED
  BY <1>2, <1>3

-----------------------------------------------------------------------------
(* The scans, the other client and the end of the process.                 *)

LEMMA ScanStep ==
    ASSUME IInv, Scan
    PROVE  IInv'
<1>1. PICK t \in Task :
          LET o == server[t]
              verdict == Verdict(rows[t], o.text, o.last)
              row == AfterVerdict(rows[t], verdict, o.text, o.last)
          IN  /\ rows' = [rows EXCEPT ![t] = row]
              /\ IF verdict \in {"import", "merge"}
                 THEN SyncTaskLabels(t, row.raw) /\ loose' = loose \ {t}
                 ELSE UNCHANGED Derived
  BY DEF Scan
<1> DEFINE o == server[t]
           verdict == Verdict(rows[t], o.text, o.last)
           row == AfterVerdict(rows[t], verdict, o.text, o.last)
<1>2. UNCHANGED <<server, snap, req>>
  BY DEF Scan
<1>3. /\ rows[t] \in Row /\ o.text \in Content /\ o.last \in Nat
      /\ o.text \in Text /\ o.text # NoText
  BY VtodoAssumption DEF IInv, TypeOK, Text
<1>4. verdict \in {"keep", "import", "merge", "field_conflict"}
  BY VerdictTypes
<1> HIDE DEF verdict
<1>5. row \in Row
  BY <1>3, <1>4, AfterVerdictType
<1>6. \/ row.ver = rows[t].ver + 1 /\ verdict \in {"import", "merge"}
      \/ /\ row.ver = rows[t].ver /\ row.raw = rows[t].raw
         /\ verdict \notin {"import", "merge"}
  <2>1. CASE verdict = "keep"
    BY <2>1 DEF AfterVerdict
  <2>2. CASE verdict = "import"
    BY <1>3, <2>2, ImportedAgainOK DEF AfterVerdict
  <2>3. CASE verdict = "merge"
    <3>1. MergedVTODO(rows[t].base, rows[t].raw, o.text) \in Content
      BY <1>3, MergedType DEF Row
    <3> QED
      BY <1>3, <2>3, <3>1, ImportedAgainOK DEF AfterVerdict
  <2>4. CASE verdict = "field_conflict"
    BY <1>3, <2>4, ConflictedRowOK DEF AfterVerdict
  <2> QED
    BY <1>4, <2>1, <2>2, <2>3, <2>4
<1>7. /\ rows' = [rows EXCEPT ![t] = row]
      /\ verdict \in {"import", "merge"} =>
             SyncTaskLabels(t, row.raw) /\ loose' = loose \ {t}
      /\ verdict \notin {"import", "merge"} => UNCHANGED Derived
  BY <1>1 DEF verdict
<1> HIDE DEF row
<1>8. /\ rows' \in [Task -> Row] /\ RowsEvolve /\ rows'[t] = row
      /\ \A u \in Task \ {t} : rows'[u] = rows[u]
  BY <1>5, <1>6, <1>7, RowRewritten DEF IInv, TypeOK
<1>9. NamesOK'
  <2>1. CASE verdict \in {"import", "merge"}
    <3>1. row.raw \in Content
      BY <1>5 DEF Row
    <3> QED
      BY <1>7, <1>8, <2>1, <3>1, SyncKeeps DEF IInv
  <2>2. CASE verdict \notin {"import", "merge"}
    BY <1>6, <1>7, <1>8, <2>2, NamesKept DEF Derived, IInv, NamesOK
  <2> QED
    BY <2>1, <2>2
<1>10. Read \subseteq Read'
  BY <1>8, ReadKept DEF IInv, TypeOK
<1>11. RequestsOK'
  BY <1>2, <1>10 DEF IInv, RequestsOK
<1>12. TypeOK' /\ SnapOK'
  BY <1>2, <1>8, <1>9 DEF IInv, TypeOK, NamesOK, SnapOK
<1> QED
  BY <1>9, <1>11, <1>12 DEF IInv

LEMMA OtherClientStep ==
    ASSUME IInv, OtherClient
    PROVE  IInv'
<1>1. PICK t \in Task, v \in RemoteText :
          server' = [server EXCEPT ![t] = Wrote(server[t], v)]
  BY DEF OtherClient
<1>2. UNCHANGED <<rows, Derived, snap, req>>
  BY DEF OtherClient
<1>3. Wrote(server[t], v) \in [text : Content, last : Nat]
  <2>1. v \in Content /\ server[t].last + 1 \in Nat
    BY LabelsAssumption DEF IInv, TypeOK
  <2> QED
    BY <2>1 DEF Wrote
<1>4. NamesOK' /\ Read' = Read
  BY <1>2, NamesKept, RowsSame DEF Derived, IInv, NamesOK, TypeOK
<1>5. TypeOK' /\ SnapOK' /\ RequestsOK'
  BY <1>1, <1>2, <1>3, <1>4 DEF IInv, TypeOK, NamesOK, SnapOK, RequestsOK
<1> QED
  BY <1>4, <1>5 DEF IInv

LEMMA CrashStep ==
    ASSUME IInv, Crash
    PROVE  IInv'
<1>1. /\ req' = [h \in Handler |-> NoRequest]
      /\ UNCHANGED <<server, rows, Derived, snap>>
  BY DEF Crash
<1>2. NamesOK'
  BY <1>1, NamesKept DEF Derived, IInv, NamesOK
<1>3. RequestsOK'
  BY <1>1, NoRequestOK DEF RequestsOK
<1>4. TypeOK' /\ SnapOK'
  BY <1>1, <1>2 DEF IInv, TypeOK, NamesOK, SnapOK
<1> QED
  BY <1>2, <1>3, <1>4 DEF IInv

-----------------------------------------------------------------------------
\* The keys of some tasks are finitely many.
LEMMA AllKeys ==
    ASSUME NEW text \in [Task -> RemoteText], NEW some \in SUBSET Task
    PROVE  LET keys == UNION {Keys(text[t]) : t \in some}
           IN  keys \in SUBSET Nat /\ IsFiniteSet(keys) /\ Cardinality(keys) \in Nat
<1> DEFINE sets == {Keys(text[t]) : t \in some}
           f == [t \in some |-> Keys(text[t])]
<1>1. \A t \in some : Keys(text[t]) \in SUBSET Nat /\ IsFiniteSet(Keys(text[t]))
  BY KeysType, LabelsAssumption
<1>2. f \in Surjection(some, sets)
  BY DEF Surjection
<1>3. IsFiniteSet(some)
  BY LabelsAssumption, FS_Subset
<1>4. IsFiniteSet(sets)
  BY <1>2, <1>3, FS_Surjection
<1>5. \A K \in sets : IsFiniteSet(K)
  BY <1>1
<1>6. IsFiniteSet(UNION sets)
  BY <1>4, <1>5, FS_UNION
<1> QED
  BY <1>1, <1>6, FS_CardinalityType

LEMMA InitIInv == Init => IInv
<1> SUFFICES ASSUME Init PROVE IInv
  OBVIOUS
<1>1. PICK text \in [Task -> RemoteText], scanned \in SUBSET Task :
    LET keys == UNION {Keys(text[t]) : t \in scanned}
        id(k) == Cardinality({j \in keys : j <= k})
        named(i) == {n \in UNION {Names(text[t]) : t \in scanned} : id(Fold[n]) = i}
    IN  /\ server = [t \in Task |-> [text |-> text[t], last |-> 1]]
        /\ rows = [t \in Task |-> ImportedRow(text[t], 1)]
        /\ issued = Cardinality(keys) /\ issued <= MaxId
        /\ name \in {f \in [Id -> Spelling \cup {None}] :
                       \A i \in Id : IF i > issued THEN f[i] = None ELSE f[i] \in named(i)}
        /\ tags = [t \in Task |-> IF t \in scanned THEN {id(k) : k \in Keys(text[t])} ELSE {}]
        /\ loose = Task \ scanned
  BY DEF Init
<1> DEFINE keys == UNION {Keys(text[t]) : t \in scanned}
           id(k) == Cardinality(Upto(keys, k))
           named(i) == {n \in UNION {Names(text[t]) : t \in scanned} : id(Fold[n]) = i}
<1>2. /\ server = [t \in Task |-> [text |-> text[t], last |-> 1]]
      /\ rows = [t \in Task |-> ImportedRow(text[t], 1)]
      /\ issued = Cardinality(keys) /\ issued <= MaxId
      /\ name \in [Id -> Spelling \cup {None}]
      /\ \A i \in Id : IF i > issued THEN name[i] = None ELSE name[i] \in named(i)
      /\ tags = [t \in Task |-> IF t \in scanned THEN {id(k) : k \in Keys(text[t])} ELSE {}]
      /\ loose = Task \ scanned
  BY <1>1 DEF Upto
<1>3. snap = None /\ req = [h \in Handler |-> NoRequest]
  BY DEF Init
<1>4. keys \in SUBSET Nat /\ IsFiniteSet(keys) /\ Cardinality(keys) \in Nat
  BY AllKeys
<1>5. \A t \in Task : text[t] \in Content
  BY LabelsAssumption
<1>6. \A t \in scanned : /\ Keys(text[t]) \subseteq keys /\ text[t] \in Content
                         /\ Names(text[t]) \subseteq Spelling
                         /\ \A n \in Names(text[t]) : Fold[n] \in Keys(text[t])
  BY <1>5, NamesType DEF Keys
<1>7. \A k \in keys : id(k) \in 1 .. issued /\ id(k) \in Id
  <2> SUFFICES ASSUME NEW k \in keys PROVE id(k) \in 1 .. issued /\ id(k) \in Id
    OBVIOUS
  <2> HIDE DEF keys
  <2>1. id(k) \in 1 .. issued
    BY <1>2, <1>4, RankType
  <2> QED
    BY <1>2, <1>4, <2>1, LabelsAssumption DEF Id
<1>8. \A k, l \in keys : id(k) = id(l) => k = l
  <2> HIDE DEF keys
  <2> QED
    BY <1>4, RankOne
<1>9. \A n \in UNION {Names(text[t]) : t \in scanned} : n \in Spelling /\ Fold[n] \in keys
  BY <1>6
<1> HIDE DEF keys, id
<1>10. \A k \in keys : IdOf(k) = {id(k)}
  <2> SUFFICES ASSUME NEW key \in keys, NEW i \in Id
               PROVE  name[i] # None /\ Fold[name[i]] = key <=> i = id(key)
    BY <1>7 DEF IdOf, Live
  <2>1. CASE i > issued
    <3>1. name[i] = None
      BY <1>2, <2>1
    <3>2. i # id(key)
      BY <1>2, <1>4, <1>7, <2>1 DEF Id
    <3> QED
      BY <3>1, <3>2
  <2>2. CASE ~(i > issued)
    <3>1. name[i] \in named(i)
      BY <1>2, <2>2
    <3>2. /\ name[i] \in Spelling /\ Fold[name[i]] \in keys /\ id(Fold[name[i]]) = i
      BY <1>9, <3>1
    <3> QED
      BY <1>8, <3>2, LabelsAssumption
  <2> QED
    BY <2>1, <2>2
<1>11. AssignedAsWritten
  <2> SUFFICES ASSUME NEW t \in Task, t \notin loose
               PROVE  /\ tags[t] = UNION {IdOf(k) : k \in Keys(rows[t].raw)}
                      /\ \A k \in Keys(rows[t].raw) : IdOf(k) # {}
    BY DEF AssignedAsWritten
  <2>1. t \in scanned /\ tags[t] = {id(k) : k \in Keys(text[t])}
    BY <1>2
  <2>2. rows[t].raw = text[t]
    BY <1>2, <1>5, NewRowOK
  <2>3. \A k \in Keys(text[t]) : IdOf(k) = {id(k)}
    BY <1>6, <1>10, <2>1
  <2> QED
    BY <2>1, <2>2, <2>3
<1>12. tags \in [Task -> SUBSET Id]
  <2>1. \A t \in scanned : \A k \in Keys(text[t]) : id(k) \in Id
    BY <1>6, <1>7
  <2> QED
    BY <1>2, <2>1
<1>13. NamesOK
  BY <1>2, <1>4, <1>11, <1>12, LabelsAssumption DEF NamesOK
<1>14. TypeOK
  <2>1. \A t \in Task : ImportedRow(text[t], 1) \in Row
    BY <1>5, NewRowOK
  <2> QED
    BY <1>2, <1>5, <1>13, <2>1 DEF TypeOK, NamesOK
<1>15. SnapOK /\ RequestsOK
  BY <1>3, NoRequestOK DEF SnapOK, Snapshot, RequestsOK
<1> QED
  BY <1>13, <1>14, <1>15 DEF IInv

LEMMA NextIInv ==
    ASSUME IInv, [Next]_vars
    PROVE  IInv'
<1>1. ASSUME NEW h \in Handler,
             StartLabel(h) \/ StartEdit(h) \/ StartUndo(h) \/ Work(h)
      PROVE  IInv'
  BY <1>1, StartLabelStep, StartEditStep, StartUndoStep, ListStep, PrepareStep,
     RemoteStep, MarkStep, DeleteUnusedLabelStep, RenameUnusedLabelStep,
     RenameLabelRowStep DEF Work
<1>2. CASE UNCHANGED vars
  <2>1. NamesOK' /\ Read' = Read
    BY <1>2, NamesKept, RowsSame DEF vars, IInv, NamesOK, TypeOK
  <2> QED
    BY <1>2, <2>1 DEF vars, IInv, TypeOK, NamesOK, SnapOK, RequestsOK
<1> QED
  BY <1>1, <1>2, ScanStep, OtherClientStep, CrashStep DEF Next

-----------------------------------------------------------------------------
\* What was listed is current or outdated by its version, and the assignments
\* follow the texts, whatever LabelRename, LabelDelete, TaskUpdate, the undo,
\* the scans and the other client do in between.
THEOREM LabelsInvariant == Spec => []IInv
<1>1. Init => IInv
  BY InitIInv
<1>2. IInv /\ [Next]_vars => IInv'
  BY NextIInv
<1> QED
  BY <1>1, <1>2, PTL DEF Spec

\* The state keeps its types.
THEOREM TypeCorrect == Spec => []TypeOK
<1>1. IInv => TypeOK
  BY DEF IInv
<1> QED
  BY <1>1, LabelsInvariant, PTL

\* The assignments in task_labels are those of the text, for every task that a
\* writer with syncTaskLabels has stored last and that no older rename has
\* caught up with.
THEOREM TagsFollowTexts == Spec => []AssignedAsWritten
<1>1. IInv => AssignedAsWritten
  BY DEF IInv, NamesOK
<1> QED
  BY <1>1, LabelsInvariant, PTL

\* writeLabelTaskUpdates never stores a text over one that it has not read: a
\* row that has the version of the listing has its text.
THEOREM RenamesKnowTexts == Spec => []ListedIsCurrent
<1>1. IInv => ListedIsCurrent
  BY DEF IInv, RequestsOK, ListedIsCurrent, Read
<1> QED
  BY <1>1, LabelsInvariant, PTL

\* When a rename or a deletion takes the row of a label away, no task names it
\* any more that the assignments speak for.
THEOREM LabelsGo == Spec => GoneFromTasks
<1>1. ASSUME IInv, Next, NEW i \in Live, name'[i] = None, NEW t \in Task \ loose
      PROVE  Fold[name[i]] \notin Keys(rows[t].raw)
  <2>1. i \in Id /\ name[i] # None /\ name' # name /\ None \notin Spelling
    BY <1>1, LabelsAssumption DEF Live
  <2>2. ASSUME NEW u \in Task, NEW text \in Content, SyncTaskLabels(u, text)
        PROVE  FALSE
    BY <1>1, <2>1, <2>2, SyncNames DEF IInv
  <2>3. Unused(i)
    <3>1. ASSUME NEW h \in Handler, Prepare(h)
          PROVE  FALSE
      <4>1. PICK l \in req[h].todo :
                SyncTaskLabels(l.task, Target(req[h], l.raw)) \/ UNCHANGED Derived
        BY <3>1 DEF Prepare
      <4>2. /\ req[h] \in Request /\ RequestOK(req[h]) /\ l \in Listed
            /\ req[h].pc = "prepare"
        BY <1>1, <3>1 DEF Prepare, IInv, RequestsOK, Request
      <4>3. l.task \in Task /\ l.raw \in Content
        BY <4>2 DEF Listed
      <4>4. Target(req[h], l.raw) \in Content
        BY <4>2, <4>3, TargetType DEF RequestOK
      <4> QED
        BY <2>1, <2>2, <4>1, <4>3, <4>4 DEF Derived
    <3>2. ASSUME Scan
          PROVE  FALSE
      <4>1. PICK u \in Task :
                LET o == server[u]
                    row == AfterVerdict(rows[u], Verdict(rows[u], o.text, o.last),
                                        o.text, o.last)
                IN  SyncTaskLabels(u, row.raw) \/ UNCHANGED Derived
        BY <3>2 DEF Scan
      <4> DEFINE o == server[u]
                 verdict == Verdict(rows[u], o.text, o.last)
                 row == AfterVerdict(rows[u], verdict, o.text, o.last)
      <4>2. /\ rows[u] \in Row /\ o.text \in Content /\ o.last \in Nat
            /\ o.text \in Text /\ o.text # NoText
        BY <1>1, VtodoAssumption DEF IInv, TypeOK, Text
      <4>3. SyncTaskLabels(u, row.raw) \/ UNCHANGED Derived
        BY <4>1
      <4>4. verdict \in {"keep", "import", "merge", "field_conflict"}
        BY VerdictTypes
      <4> HIDE DEF verdict
      <4>5. row \in Row
        BY <4>2, <4>4, AfterVerdictType
      <4> HIDE DEF row
      <4>6. row.raw \in Content
        BY <4>5 DEF Row
      <4> QED
        BY <2>1, <2>2, <4>3, <4>6 DEF Derived
    <3>3. ASSUME NEW h \in Handler, DeleteUnusedLabel(h)
          PROVE  Unused(i)
      <4>1. name' = IF Deletable(req[h].label) THEN [name EXCEPT ![req[h].label] = None]
                    ELSE name
        BY <3>3 DEF DeleteUnusedLabel
      <4>2. Deletable(req[h].label) /\ i = req[h].label
        BY <1>1, <2>1, <4>1 DEF IInv, TypeOK
      <4> QED
        BY <4>2 DEF Deletable
    <3>4. ASSUME NEW h \in Handler, RenameUnusedLabel(h)
          PROVE  Unused(i)
      <4> DEFINE r == req[h]
      <4>1. PICK v : name' = IF ~Unused(r.label) THEN name ELSE [name EXCEPT ![r.label] = v]
        BY <3>4 DEF RenameUnusedLabel
      <4> QED
        BY <1>1, <2>1, <4>1 DEF IInv, TypeOK
    <3>5. ASSUME NEW h \in Handler, RenameLabelRow(h)
          PROVE  FALSE
      <4>1. /\ NewName(req[h]) \in Spelling
            /\ name' = [name EXCEPT ![req[h].label] = NewName(req[h])]
        BY <1>1, <2>1, <3>5 DEF RenameLabelRow, IInv, RequestsOK, RequestOK
      <4> QED
        BY <1>1, <2>1, <4>1 DEF IInv, TypeOK
    <3>6. ASSUME NEW h \in Handler,
                 StartLabel(h) \/ StartEdit(h) \/ StartUndo(h) \/ List(h) \/ Remote(h) \/ Mark(h)
          PROVE  FALSE
      BY <2>1, <3>6 DEF StartLabel, StartEdit, StartUndo, List, Remote, Mark, Derived
    <3>7. ASSUME OtherClient \/ Crash
          PROVE  FALSE
      BY <2>1, <3>7 DEF OtherClient, Crash, Derived
    <3> QED
      BY <1>1, <3>1, <3>2, <3>3, <3>4, <3>5, <3>6, <3>7 DEF Next, Work
  <2>4. tags[t] = UNION {IdOf(k) : k \in Keys(rows[t].raw)} /\ i \notin tags[t]
    BY <1>1, <2>3 DEF IInv, NamesOK, AssignedAsWritten, Unused
  <2>5. i \in IdOf(Fold[name[i]])
    BY DEF IdOf
  <2> QED
    BY <2>4, <2>5
<1>2. IInv /\ [Next]_vars =>
         [\A i \in Live : name'[i] = None =>
             \A t \in Task \ loose : Fold[name[i]] \notin Keys(rows[t].raw)]_vars
  BY <1>1
<1> QED
  BY <1>2, LabelsInvariant, PTL DEF Spec, GoneFromTasks
=============================================================================
