---------------------------- MODULE Setup_proofs ----------------------------
(***************************************************************************)
(* Proofs about Setup, for any tabs, goroutines, calendars and capacity of *)
(* the queues, and all faults.                                             *)
(*                                                                         *)
(* The invariant follows the import from its start to the completion: what *)
(* the goroutine has still to read, together with what it has stored, is   *)
(* the choice of calendars; and from the moment the broker says that the   *)
(* import has succeeded, nothing imports, as long as no import begins in   *)
(* one of the gaps.                                                        *)
(***************************************************************************)
EXTENDS Setup, FiniteSetTheorems, TLAPS

Active(r) == run[r].pc \in {"load", "list", "store", "done"}

Loaded(r) == run[r].pc \in {"list", "store", "done"}

\* What only a completed setup can have.
CommittedOK ==
    /\ gate \/ ticking \/ own # {} => complete
    /\ \A p \in Page : page[p].finish \in {"mark", "start"} => complete

\* A goroutine works on calendars of its choice, which may be an old one.
ListOK == \A r \in Run : Loaded(r) =>
    /\ run[r].choice <= projects.choice
    /\ run[r].pc = "store" => run[r].at \in Calendar
    /\ run[r].choice = projects.choice =>
          /\ run[r].todo \subseteq projects.chosen
          /\ run[r].pc = "store" => run[r].at \in projects.chosen

OneRun == "early" \notin gaps =>
    /\ \A r, s \in Run : run[r].pc # "none" /\ run[s].pc # "none" => r = s
    /\ \A r \in Run : Active(r) => broker.running /\ ~broker.succeeded

\* What a goroutine has still to store.
Pending(r) == CASE run[r].pc = "list" -> run[r].todo
                [] run[r].pc = "store" -> run[r].todo \cup {run[r].at}
                [] run[r].pc = "done" -> {}

ReadOK == gaps = {} => \A r \in Run : Loaded(r) =>
    /\ run[r].choice = known
    /\ known = projects.choice => projects.chosen \subseteq imported \cup Pending(r)

\* From the success of an import on, through the completion.
Concluding == \/ broker.succeeded \/ complete
              \/ \E p \in Page : page[p].finish \in {"commit", "mark", "start"}

ReadyOK == gaps = {} /\ Concluding =>
    /\ \A r \in Run : ~Active(r)
    /\ known = projects.choice => imported = projects.chosen

IInv == TypeOK /\ CommittedOK /\ ListOK /\ OneRun /\ ReadOK /\ ReadyOK

-----------------------------------------------------------------------------
(* Tabs, flags and goroutines are well typed.                              *)

LEMMA NewTypes == /\ NoTab \in Tab /\ NoTab.queue = <<>> /\ NoTab.finish = "none"
                  /\ NoRun \in Import /\ NoRun.pc = "none"
                  /\ NewBroker \in Flags /\ ~NewBroker.succeeded
                  /\ Started \in Flags /\ Started.running /\ ~Started.succeeded
BY SetupAssumption DEF NoTab, Tab, NoRun, Import, NewBroker, Started, Flags

\* One tab changes.
LEMMA TabChanges ==
    ASSUME TypeOK, NEW p \in Page, NEW tab \in Tab, Len(tab.queue) <= QueueBound,
           page' = [page EXCEPT ![p] = tab]
    PROVE  /\ page' \in [Page -> Tab] /\ \A q \in Page : Len(page'[q].queue) <= QueueBound
           /\ page'[p] = tab /\ \A q \in Page \ {p} : page'[q] = page[q]
BY DEF TypeOK

\* The queue of a tab that is not connected.
LEMMA EmptyQueue == <<>> \in Seq(Event) /\ Len(<<>>) <= QueueBound
<1>1. <<>> \in Seq(Event) /\ Len(<<>>) = 0 /\ QueueBound \in Nat
  BY SetupAssumption
<1> QED
  BY <1>1

LEMMA TailType ==
    ASSUME NEW queue \in Seq(Event), queue # <<>>, Len(queue) <= QueueBound
    PROVE  /\ Head(queue) \in Event
           /\ Tail(queue) \in Seq(Event) /\ Len(Tail(queue)) <= QueueBound
<1>1. QueueBound \in Nat /\ Len(queue) \in Nat \ {0}
  BY SetupAssumption
<1>2. Len(Tail(queue)) = Len(queue) - 1
  BY <1>1
<1> QED
  BY <1>1, <1>2

LEMMA ShorterType ==
    ASSUME NEW tab \in Tab, tab.queue # <<>>, Len(tab.queue) <= QueueBound,
           NEW new, new = [tab EXCEPT !.queue = Tail(@)]
    PROVE  new \in Tab /\ Len(new.queue) <= QueueBound /\ new.finish = tab.finish
<1>1. tab.queue \in Seq(Event)
  BY DEF Tab
<1>2. Tail(tab.queue) \in Seq(Event) /\ Len(Tail(tab.queue)) <= QueueBound
  BY <1>1, TailType
<1> DEFINE queue == Tail(tab.queue)
<1>3. queue \in Seq(Event) /\ Len(queue) <= QueueBound /\ new = [tab EXCEPT !.queue = queue]
  BY <1>2
<1> HIDE DEF queue
<1> QED
  BY <1>3 DEF Tab

LEMMA ClosedType ==
    ASSUME NEW tab \in Tab, NEW stage \in {"complete", "home", "error"}
    PROVE  /\ Closed(tab, stage) \in Tab /\ Closed(tab, stage).finish = tab.finish
           /\ Len(Closed(tab, stage).queue) <= QueueBound
<1> DEFINE queue == <<>>
<1>1. queue \in Seq(Event) /\ Len(queue) <= QueueBound
  BY EmptyQueue
<1>2. Closed(tab, stage)
        = [tab EXCEPT !.stage = stage, !.subscribed = FALSE, !.queue = queue]
  BY DEF Closed
<1> HIDE DEF queue
<1> QED
  BY <1>1, <1>2 DEF Tab

\* An event changes queues only.
LEMMA DeliveredType ==
    ASSUME TypeOK, NEW event \in Event, page' = Delivered(event)
    PROVE  /\ page' \in [Page -> Tab] /\ \A p \in Page : Len(page'[p].queue) <= QueueBound
           /\ \A p \in Page : page'[p].finish = page[p].finish
<1>1. QueueBound \in Nat
  BY SetupAssumption
<1>2. ASSUME NEW p \in Page
      PROVE  /\ page'[p] \in Tab /\ Len(page'[p].queue) <= QueueBound
             /\ page'[p].finish = page[p].finish
  <2>1. page[p] \in Tab /\ Len(page[p].queue) <= QueueBound
    BY DEF TypeOK
  <2>2. CASE page[p].subscribed /\ Len(page[p].queue) < QueueBound
    <3>1. page'[p] = [page[p] EXCEPT !.queue = Append(@, event)]
      BY <2>2 DEF Delivered
    <3>2. /\ Append(page[p].queue, event) \in Seq(Event)
          /\ Len(Append(page[p].queue, event)) <= QueueBound
      BY <1>1, <2>1, <2>2 DEF Tab
    <3> QED
      BY <2>1, <3>1, <3>2 DEF Tab
  <2>3. CASE ~(page[p].subscribed /\ Len(page[p].queue) < QueueBound)
    <3>1. page'[p] = page[p] \/ page'[p] = [page[p] EXCEPT !.missed = TRUE]
      BY <2>3 DEF Delivered
    <3> QED
      BY <2>1, <3>1 DEF Tab
  <2> QED
    BY <2>2, <2>3
<1>3. page' = [p \in Page |-> page'[p]]
  BY DEF Delivered
<1> QED
  BY <1>2, <1>3

LEMMA PublishedType ==
    ASSUME NEW b \in Flags, NEW event \in Event
    PROVE  /\ Published(b, event) \in Flags
           /\ event = "progress" => Published(b, event) = b
           /\ event = "error" => ~Published(b, event).succeeded
BY DEF Published, Flags, Event

-----------------------------------------------------------------------------
LEMMA InitIInv == Init => IInv
<1> SUFFICES ASSUME Init PROVE IInv
  OBVIOUS
<1>1. /\ \A r \in Run : run[r] = NoRun
      /\ \A p \in Page : page[p] = NoTab
  BY DEF Init
<1>2. TypeOK
  <2>1. run \in [Run -> Import] /\ page \in [Page -> Tab] /\ broker \in Flags
    BY NewTypes DEF Init
  <2>2. Len(<<>>) = 0 /\ QueueBound \in Nat /\ MaxForms \in Nat
    BY SetupAssumption
  <2>3. \A p \in Page : Len(page[p].queue) <= QueueBound
    BY <1>1, <2>2, NewTypes
  <2>4. /\ projects = [chosen |-> {}, choice |-> 0]
        /\ projects \in [chosen : SUBSET Calendar, choice : Nat]
        /\ known \in 0 .. projects.choice /\ forms \in 0 .. MaxForms
    BY <2>2 DEF Init
  <2> QED
    BY <2>1, <2>3, <2>4 DEF Init, TypeOK
<1>3. CommittedOK /\ ListOK /\ OneRun /\ ReadOK
  BY <1>1, NewTypes DEF Init, CommittedOK, ListOK, OneRun, ReadOK, Active, Loaded
<1>4. ReadyOK
  BY <1>1, NewTypes DEF Init, ReadyOK, Concluding
<1> QED
  BY <1>2, <1>3, <1>4 DEF IInv

-----------------------------------------------------------------------------
(* Steps of a tab that touch neither the import nor what it stores.        *)

LEMMA TabStep ==
    ASSUME IInv, NEW p \in Page, NEW tab \in Tab, Len(tab.queue) <= QueueBound,
           page' = [page EXCEPT ![p] = tab],
           forms' \in 0 .. MaxForms, gate' \in BOOLEAN, ticking' \in BOOLEAN,
           gate' \/ ticking' => complete,
           tab.finish \in {"mark", "start"} => complete,
           tab.finish \in {"commit", "mark", "start"} => Concluding,
           UNCHANGED <<database, broker, run, gaps, known>>
    PROVE  IInv'
<1> USE DEF database
<1>1. /\ page' \in [Page -> Tab] /\ \A q \in Page : Len(page'[q].queue) <= QueueBound
      /\ page'[p] = tab /\ \A q \in Page \ {p} : page'[q] = page[q]
  BY TabChanges DEF IInv
<1>2. TypeOK'
  BY <1>1 DEF IInv, TypeOK
<1>3. CommittedOK' /\ ListOK' /\ OneRun' /\ ReadOK'
  BY <1>1 DEF IInv, CommittedOK, ListOK, OneRun, ReadOK, Active, Loaded, Pending
<1>4. Concluding' => Concluding
  BY <1>1 DEF Concluding
<1>5. ReadyOK'
  BY <1>4 DEF IInv, ReadyOK, Active
<1> QED
  BY <1>2, <1>3, <1>5 DEF IInv

LEMMA TabSteps ==
    ASSUME IInv, NEW p \in Page,
           \/ Visit(p) \/ Cut(p) \/ Subscribe(p) \/ Receive(p) \/ ImportCheck(p)
           \/ CompleteCheck(p) \/ CompleteMark(p) \/ CompleteStart(p)
    PROVE  IInv'
<1> DEFINE tab == page[p]
<1>1. /\ tab \in Tab /\ Len(tab.queue) <= QueueBound /\ QueueBound \in Nat
      /\ page \in [Page -> Tab] /\ forms \in 0 .. MaxForms /\ MaxForms \in Nat
      /\ gate \in BOOLEAN /\ ticking \in BOOLEAN
  BY SetupAssumption DEF IInv, TypeOK
<1>2. /\ gate \/ ticking => complete
      /\ tab.finish \in {"mark", "start"} => complete
      /\ tab.finish \in {"commit", "mark", "start"} => Concluding
  BY DEF IInv, CommittedOK, Concluding
<1>4. CASE Visit(p)
  <2>1. OnImportPage(p) \in Tab /\ OnImportPage(p).queue = <<>>
        /\ OnImportPage(p).finish = "none"
    BY NewTypes DEF OnImportPage, NoTab, Tab
  <2>2. /\ page' = [page EXCEPT ![p] = OnImportPage(p)] /\ forms' \in 0 .. MaxForms
        /\ UNCHANGED <<database, memory, broker, run, gaps, known>>
    BY <1>1, <1>4 DEF Visit
  <2>3. Len(OnImportPage(p).queue) <= QueueBound
    BY <2>1, EmptyQueue, Zenon
  <2> QED
    BY <1>1, <1>2, <2>1, <2>2, <2>3, TabStep DEF memory
<1>5. CASE Cut(p)
  <2> DEFINE queue == <<>>
             new == [tab EXCEPT !.stage = "connect", !.subscribed = FALSE,
                                !.queue = queue, !.missed = TRUE]
  <2>1. queue \in Seq(Event) /\ Len(queue) <= QueueBound
    BY EmptyQueue
  <2>2. new \in Tab /\ Len(new.queue) <= QueueBound /\ new.finish = tab.finish
    <3> HIDE DEF queue
    <3> QED
      BY <1>1, <2>1 DEF Tab
  <2>3. /\ page' = [page EXCEPT ![p] = new]
        /\ UNCHANGED <<database, memory, broker, run, gaps, known, forms>>
    BY <1>5 DEF Cut
  <2> HIDE DEF new
  <2> QED
    BY <1>1, <1>2, <2>2, <2>3, TabStep DEF memory
<1>6. CASE Subscribe(p)
  <2> DEFINE new == [tab EXCEPT !.stage = "watch", !.subscribed = TRUE, !.asked = TRUE,
                                !.post = IF tab.asked THEN @ ELSE "load"]
  <2>1. new \in Tab /\ Len(new.queue) <= QueueBound /\ new.finish = tab.finish
    BY <1>1 DEF Tab
  <2>2. /\ page' = [page EXCEPT ![p] = new]
        /\ UNCHANGED <<database, memory, broker, run, gaps, known, forms>>
    BY <1>1, <1>6 DEF Subscribe
  <2> HIDE DEF new
  <2> QED
    BY <1>1, <1>2, <2>1, <2>2, TabStep DEF memory
<1>7. CASE Receive(p)
  <2>1. /\ tab.queue \in Seq(Event) /\ tab.queue # <<>>
        /\ UNCHANGED <<database, memory, broker, run, gaps, known, forms>>
    BY <1>1, <1>7 DEF Receive, Tab
  <2>2. Head(tab.queue) \in Event
    BY <1>1, <2>1, TailType
  <2>3. CASE Head(tab.queue) = "progress"
    <3> DEFINE new == [tab EXCEPT !.queue = Tail(@)]
    <3>1. page' = [page EXCEPT ![p] = new]
      BY <1>7, <2>3 DEF Receive
    <3>2. new \in Tab /\ Len(new.queue) <= QueueBound /\ new.finish = tab.finish
      BY <1>1, <2>1, ShorterType, Zenon
    <3> HIDE DEF new
    <3> QED
      BY <1>1, <1>2, <2>1, <3>1, <3>2, TabStep DEF memory
  <2>4. CASE Head(tab.queue) = "done"
    <3> DEFINE new == [Closed(tab, "complete") EXCEPT !.finish = "can"]
    <3>1. Closed(tab, "complete") \in Tab /\ Len(Closed(tab, "complete").queue) <= QueueBound
      BY <1>1, ClosedType
    <3>2. new \in Tab /\ Len(new.queue) <= QueueBound /\ new.finish = "can"
      BY <3>1 DEF Tab
    <3>3. page' = [page EXCEPT ![p] = new]
      BY <1>7, <2>4 DEF Receive
    <3> HIDE DEF new
    <3> QED
      BY <1>1, <1>2, <2>1, <3>2, <3>3, TabStep DEF memory
  <2>5. CASE Head(tab.queue) = "error"
    <3> DEFINE new == Closed(tab, "error")
    <3>1. new \in Tab /\ Len(new.queue) <= QueueBound /\ new.finish = tab.finish
      BY <1>1, ClosedType
    <3>2. page' = [page EXCEPT ![p] = new]
      BY <1>7, <2>5 DEF Receive
    <3> HIDE DEF new
    <3> QED
      BY <1>1, <1>2, <2>1, <3>1, <3>2, TabStep DEF memory
  <2> QED
    BY <2>2, <2>3, <2>4, <2>5 DEF Event
<1>8. CASE ImportCheck(p)
  <2> DEFINE left == IF tab.stage \in {"watch", "connect"} THEN Closed(tab, "error") ELSE tab
             new == IF step = "import" THEN [tab EXCEPT !.post = "start"]
                                       ELSE [left EXCEPT !.post = "none"]
  <2>1. left \in Tab /\ Len(left.queue) <= QueueBound /\ left.finish = tab.finish
    BY <1>1, ClosedType
  <2>2. new \in Tab /\ Len(new.queue) <= QueueBound /\ new.finish = tab.finish
    <3> HIDE DEF left
    <3> QED
      BY <1>1, <2>1 DEF Tab
  <2>3. /\ page' = [page EXCEPT ![p] = new]
        /\ UNCHANGED <<database, memory, broker, run, gaps, known, forms>>
    BY <1>1, <1>8 DEF ImportCheck
  <2> HIDE DEF new
  <2> QED
    BY <1>1, <1>2, <2>2, <2>3, TabStep DEF memory
<1>9. CASE CompleteCheck(p)
  <2> DEFINE new == IF CanCompleteSetup(broker) THEN [tab EXCEPT !.finish = "commit"]
                    ELSE [tab EXCEPT !.finish = "none", !.stage = "error"]
  <2>1. new \in Tab /\ Len(new.queue) <= QueueBound /\ new.finish \in {"none", "commit"}
    BY <1>1 DEF Tab
  <2>2. new.finish = "commit" => Concluding
    BY <1>1 DEF CanCompleteSetup, Concluding, Tab
  <2>3. /\ page' = [page EXCEPT ![p] = new]
        /\ UNCHANGED <<database, memory, broker, run, gaps, known, forms>>
    BY <1>9 DEF CompleteCheck, Refused
  <2> HIDE DEF new
  <2> QED
    BY <1>1, <1>2, <2>1, <2>2, <2>3, TabStep DEF memory
<1>10. CASE CompleteMark(p)
  <2> DEFINE new == [tab EXCEPT !.finish = "start"]
  <2>1. /\ new \in Tab /\ Len(new.queue) <= QueueBound /\ new.finish = "start"
        /\ tab.finish = "mark"
    BY <1>1, <1>10 DEF Tab, CompleteMark
  <2>2. /\ page' = [page EXCEPT ![p] = new] /\ gate' = TRUE
        /\ UNCHANGED <<database, ticking, broker, run, gaps, known, forms>>
    BY <1>10 DEF CompleteMark
  <2> HIDE DEF new
  <2> QED
    BY <1>1, <1>2, <2>1, <2>2, TabStep
<1>11. CASE CompleteStart(p)
  <2> DEFINE new == [tab EXCEPT !.finish = "none", !.stage = "home"]
  <2>1. /\ new \in Tab /\ Len(new.queue) <= QueueBound /\ new.finish = "none"
        /\ tab.finish = "start"
    BY <1>1, <1>11 DEF Tab, CompleteStart
  <2>2. /\ page' = [page EXCEPT ![p] = new] /\ ticking' = TRUE
        /\ UNCHANGED <<database, gate, broker, run, gaps, known, forms>>
    BY <1>11 DEF CompleteStart
  <2> HIDE DEF new
  <2> QED
    BY <1>1, <1>2, <2>1, <2>2, TabStep
<1> QED
  BY <1>4, <1>5, <1>6, <1>7, <1>8, <1>9, <1>10, <1>11

-----------------------------------------------------------------------------
(* Steps of an import.                                                     *)

\* The goroutine r becomes go; nothing else imports, unless in a gap.
LEMMA RunChanges ==
    ASSUME IInv, NEW r \in Run, NEW go \in Import, run' = [run EXCEPT ![r] = go]
    PROVE  /\ run' \in [Run -> Import]
           /\ run'[r] = go /\ \A s \in Run \ {r} : run'[s] = run[s]
BY DEF IInv, TypeOK

\* While a goroutine is at work and no gap has been used, nothing concludes.
LEMMA Exclusive ==
    ASSUME IInv, NEW r \in Run, Active(r)
    PROVE  /\ gaps = {} => ~Concluding
           /\ "early" \notin gaps => /\ broker.running /\ ~broker.succeeded
                                     /\ \A s \in Run \ {r} : run[s].pc = "none"
BY DEF IInv, ReadyOK, OneRun, Active

LEMMA ImportLoadStep ==
    ASSUME IInv, NEW r \in Run, ImportLoad(r)
    PROVE  IInv'
<1> DEFINE go == [run[r] EXCEPT !.pc = "list", !.todo = projects.chosen,
                                !.choice = projects.choice]
<1>1. /\ run[r] \in Import /\ run[r].pc = "load" /\ Active(r)
      /\ projects.chosen \in SUBSET Calendar /\ projects.choice \in Nat
  BY DEF IInv, TypeOK, ImportLoad, Active
<1>2. /\ run' = [run EXCEPT ![r] = go] /\ known' = projects.choice
      /\ broker' = Published(broker, "progress") /\ page' = Delivered("progress")
      /\ UNCHANGED <<database, memory, gaps, forms>>
  BY DEF ImportLoad, Publish
<1>3. /\ go \in Import /\ go.pc = "list" /\ go.todo = projects.chosen
      /\ go.choice = projects.choice
  BY <1>1 DEF Import
<1> HIDE DEF go
<1>4. /\ run' \in [Run -> Import]
      /\ run'[r] = go /\ \A s \in Run \ {r} : run'[s] = run[s]
  BY <1>2, <1>3, RunChanges
<1>5. broker' = broker
  BY <1>2, PublishedType DEF IInv, TypeOK, Event
<1>6. /\ page' \in [Page -> Tab] /\ \A p \in Page : Len(page'[p].queue) <= QueueBound
      /\ \A p \in Page : page'[p].finish = page[p].finish
  BY <1>2, DeliveredType DEF IInv, Event
<1>7. TypeOK'
  BY <1>1, <1>2, <1>4, <1>5, <1>6 DEF IInv, TypeOK, database, memory
<1>8. CommittedOK'
  BY <1>2, <1>6 DEF IInv, CommittedOK, database, memory
<1>9. ListOK'
  BY <1>1, <1>2, <1>3, <1>4 DEF IInv, ListOK, Loaded, database
<1>10. OneRun'
  BY <1>1, <1>2, <1>3, <1>4, <1>5 DEF IInv, OneRun, Active
<1>11. ReadOK'
  BY <1>1, <1>2, <1>3, <1>4, Exclusive DEF ReadOK, Loaded, Pending, database
<1>12. ReadyOK'
  <2>1. gaps = {} => ~Concluding'
    BY <1>1, <1>2, <1>5, <1>6, Exclusive DEF Concluding, database
  <2> QED
    BY <1>2, <2>1 DEF ReadyOK
<1> QED
  BY <1>7, <1>8, <1>9, <1>10, <1>11, <1>12 DEF IInv

LEMMA ImportListStep ==
    ASSUME IInv, NEW r \in Run, ImportList(r)
    PROVE  IInv'
<1>1. PICK c \in run[r].todo :
          run' = [run EXCEPT ![r].pc = "store", ![r].at = c, ![r].todo = @ \ {c}]
  BY DEF ImportList
<1> DEFINE go == [run[r] EXCEPT !.pc = "store", !.at = c, !.todo = @ \ {c}]
<1>2. /\ run[r] \in Import /\ run[r].pc = "list" /\ c \in Calendar
      /\ run[r].todo \in SUBSET Calendar
      /\ UNCHANGED <<database, memory, broker, page, gaps, known, forms>>
  BY DEF IInv, TypeOK, ImportList, Import
<1>3. /\ go \in Import /\ go.pc = "store" /\ go.at = c /\ go.choice = run[r].choice
      /\ go.todo = run[r].todo \ {c} /\ run' = [run EXCEPT ![r] = go]
  BY <1>1, <1>2 DEF Import
<1> HIDE DEF go
<1>4. /\ run' \in [Run -> Import]
      /\ run'[r] = go /\ \A s \in Run \ {r} : run'[s] = run[s]
  BY <1>3, RunChanges
<1> USE DEF database, memory
<1>5. TypeOK'
  BY <1>2, <1>4 DEF IInv, TypeOK
<1>6. CommittedOK' /\ ListOK'
  BY <1>2, <1>3, <1>4 DEF IInv, CommittedOK, ListOK, Loaded
<1>7. OneRun' /\ ReadyOK'
  BY <1>2, <1>3, <1>4 DEF IInv, OneRun, ReadyOK, Active, Concluding
<1>8. ReadOK'
  BY <1>2, <1>3, <1>4 DEF IInv, ReadOK, Loaded, Pending
<1> QED
  BY <1>5, <1>6, <1>7, <1>8 DEF IInv

\* A goroutine that has failed, or is done: what it has read no longer counts.
LEMMA ImportEnds ==
    ASSUME IInv, NEW r \in Run, Active(r),
           run' = [run EXCEPT ![r].pc = "finish"],
           NEW event \in {"done", "error"}, Publish(event),
           event = "done" /\ gaps = {} /\ known = projects.choice
               => imported = projects.chosen,
           UNCHANGED <<database, memory, gaps, known, forms>>
    PROVE  IInv'
<1> USE DEF database, memory
<1> DEFINE go == [run[r] EXCEPT !.pc = "finish"]
<1>1. go \in Import /\ go.pc = "finish" /\ run' = [run EXCEPT ![r] = go]
  BY DEF IInv, TypeOK, Import
<1> HIDE DEF go
<1>2. /\ run' \in [Run -> Import]
      /\ run'[r] = go /\ \A s \in Run \ {r} : run'[s] = run[s]
  BY <1>1, RunChanges
<1>3. broker' \in Flags /\ (event = "error" => ~broker'.succeeded)
  BY PublishedType DEF IInv, TypeOK, Event, Publish
<1>4. /\ page' \in [Page -> Tab] /\ \A p \in Page : Len(page'[p].queue) <= QueueBound
      /\ \A p \in Page : page'[p].finish = page[p].finish
  BY DeliveredType DEF IInv, Event, Publish
<1>5. TypeOK'
  BY <1>2, <1>3, <1>4 DEF IInv, TypeOK
<1>6. CommittedOK' /\ ListOK' /\ ReadOK'
  BY <1>1, <1>2, <1>4 DEF IInv, CommittedOK, ListOK, ReadOK, Loaded, Pending
<1>7. OneRun'
  BY <1>1, <1>2, Exclusive DEF IInv, OneRun, Active
<1>8. ReadyOK'
  <2>1. gaps = {} => \A s \in Run : ~Active(s)'
    BY <1>1, <1>2, Exclusive DEF Active
  <2>2. gaps = {} /\ Concluding' => event = "done"
    BY <1>3, <1>4, Exclusive DEF Concluding
  <2> QED
    BY <2>1, <2>2 DEF ReadyOK
<1> QED
  BY <1>5, <1>6, <1>7, <1>8 DEF IInv

LEMMA ImportStoreStep ==
    ASSUME IInv, NEW r \in Run, ImportStore(r)
    PROVE  IInv'
<1> USE DEF database, memory
<1> DEFINE c == run[r].at
           current == run[r].choice = projects.choice
<1>1. /\ run[r] \in Import /\ run[r].pc = "store" /\ c \in Calendar
      /\ Active(r) /\ Loaded(r) /\ (current => c \in projects.chosen)
  BY DEF IInv, TypeOK, ListOK, ImportStore, Active, Loaded
<1>2. CASE ~(current \/ c \notin Full)
  <2>1. run' = [run EXCEPT ![r].pc = "finish"] /\ Publish("error")
    BY <1>2 DEF ImportStore, Failed
  <2>2. UNCHANGED <<database, memory, gaps, known, forms>>
    BY <1>2 DEF ImportStore
  <2> QED
    BY <1>1, <2>1, <2>2, ImportEnds
<1>3. CASE current \/ c \notin Full
  <2> DEFINE go == [run[r] EXCEPT !.at = None,
                                  !.pc = IF run[r].todo = {} THEN "done" ELSE "list"]
  <2>1. /\ run' = [run EXCEPT ![r] = go]
        /\ imported' = IF current THEN imported \cup {c} ELSE imported
        /\ own' = IF current THEN own \ {c} ELSE own
        /\ broker' = Published(broker, "progress") /\ page' = Delivered("progress")
        /\ UNCHANGED <<step, complete, projects, memory, gaps, known, forms>>
    BY <1>3 DEF ImportStore, Publish
  <2>2. /\ go \in Import /\ go.choice = run[r].choice /\ go.todo = run[r].todo
        /\ go.pc \in {"done", "list"} /\ (go.pc = "done" => go.todo = {})
    BY <1>1 DEF Import
  <2> HIDE DEF go
  <2>3. /\ run' \in [Run -> Import]
        /\ run'[r] = go /\ \A s \in Run \ {r} : run'[s] = run[s]
    BY <2>1, <2>2, RunChanges
  <2>4. broker' = broker
    BY <2>1, PublishedType DEF IInv, TypeOK, Event
  <2>5. /\ page' \in [Page -> Tab] /\ \A p \in Page : Len(page'[p].queue) <= QueueBound
        /\ \A p \in Page : page'[p].finish = page[p].finish
    BY <2>1, DeliveredType DEF IInv, Event
  <2>6. TypeOK'
    BY <1>1, <2>1, <2>3, <2>4, <2>5 DEF IInv, TypeOK
  <2>7. CommittedOK' /\ ListOK'
    BY <1>1, <2>1, <2>2, <2>3, <2>5 DEF IInv, CommittedOK, ListOK, Loaded
  <2>8. OneRun'
    BY <1>1, <2>1, <2>2, <2>3, <2>4 DEF IInv, OneRun, Active
  <2>9. ReadOK'
    <3> SUFFICES ASSUME gaps = {}, NEW s \in Run, Loaded(s)'
                 PROVE  /\ run'[s].choice = known
                        /\ known = projects.choice
                           => projects.chosen \subseteq imported' \cup Pending(s)'
      BY <2>1 DEF ReadOK
    <3>1. s = r
      BY <1>1, <2>3, Exclusive DEF Loaded
    <3>2. /\ run[r].choice = known
          /\ known = projects.choice
             => projects.chosen \subseteq imported \cup run[r].todo \cup {c}
      BY <1>1 DEF IInv, ReadOK, Pending
    <3>3. Pending(s)' = go.todo
      BY <2>2, <2>3, <3>1 DEF Pending
    <3> QED
      BY <2>1, <2>2, <2>3, <3>1, <3>2, <3>3
  <2>10. ReadyOK'
    <3>1. gaps = {} => ~Concluding'
      BY <1>1, <2>1, <2>4, <2>5, Exclusive DEF Concluding
    <3> QED
      BY <2>1, <3>1 DEF ReadyOK
  <2> QED
    BY <2>6, <2>7, <2>8, <2>9, <2>10 DEF IInv
<1> QED
  BY <1>2, <1>3

LEMMA ImportDoneStep ==
    ASSUME IInv, NEW r \in Run, ImportListFailed(r) \/ ImportDone(r)
    PROVE  IInv'
<1>1. CASE ImportListFailed(r)
  BY <1>1, ImportEnds DEF ImportListFailed, Failed, Active
<1>2. CASE ImportDone(r)
  <2>1. /\ run[r].pc = "done" /\ Active(r) /\ Loaded(r) /\ Pending(r) = {}
        /\ run' = [run EXCEPT ![r].pc = "finish"] /\ Publish("done")
        /\ UNCHANGED <<database, memory, gaps, known, forms>>
    BY <1>2 DEF ImportDone, Active, Loaded, Pending
  <2>2. gaps = {} /\ known = projects.choice => imported = projects.chosen
    BY <2>1 DEF IInv, TypeOK, ReadOK
  <2> QED
    BY <2>1, <2>2, ImportEnds
<1> QED
  BY <1>1, <1>2

LEMMA ImportFinishStep ==
    ASSUME IInv, NEW r \in Run, ImportFinish(r)
    PROVE  IInv'
<1> USE DEF database, memory
<1>1. /\ run[r].pc = "finish" /\ run' = [run EXCEPT ![r] = NoRun]
      /\ broker' = [broker EXCEPT !.running = FALSE] /\ broker \in Flags
      /\ UNCHANGED <<database, memory, page, gaps, known, forms>>
  BY DEF IInv, TypeOK, ImportFinish
<1>2. /\ run' \in [Run -> Import]
      /\ run'[r] = NoRun /\ \A s \in Run \ {r} : run'[s] = run[s]
  BY <1>1, NewTypes, RunChanges
<1>3. broker' \in Flags /\ broker'.succeeded = broker.succeeded
  BY <1>1 DEF Flags
<1>4. TypeOK'
  BY <1>1, <1>2, <1>3 DEF IInv, TypeOK
<1>5. CommittedOK' /\ ListOK' /\ ReadOK'
  BY <1>1, <1>2, NewTypes DEF IInv, CommittedOK, ListOK, ReadOK, Loaded, Pending
<1>6. OneRun'
  BY <1>1, <1>2, NewTypes DEF IInv, OneRun, Active
<1>7. ReadyOK'
  BY <1>1, <1>2, <1>3, NewTypes DEF IInv, ReadyOK, Active, Concluding
<1> QED
  BY <1>4, <1>5, <1>6, <1>7 DEF IInv

\* An import starts: outside of the gaps nothing is at work or concluding.
LEMMA ImportStartStep ==
    ASSUME IInv, NEW p \in Page, ImportStart(p)
    PROVE  IInv'
<1> USE DEF database, memory
<1> DEFINE tab == [page[p] EXCEPT !.post = "none"]
<1>1. /\ page[p] \in Tab /\ Len(page[p].queue) <= QueueBound
      /\ page' = [page EXCEPT ![p] = tab]
      /\ UNCHANGED <<database, memory, known, forms>>
  BY DEF IInv, TypeOK, ImportStart
<1>2. tab \in Tab /\ Len(tab.queue) <= QueueBound /\ tab.finish = page[p].finish
  BY <1>1 DEF Tab
<1> HIDE DEF tab
<1>3. CASE ~MayStart(broker)
  <2>1. UNCHANGED <<broker, run, gaps>>
    BY <1>3 DEF ImportStart
  <2>2. /\ forms' \in 0 .. MaxForms /\ gate' \in BOOLEAN /\ ticking' \in BOOLEAN
        /\ gate' \/ ticking' => complete
        /\ tab.finish \in {"mark", "start"} => complete
        /\ tab.finish \in {"commit", "mark", "start"} => Concluding
    BY <1>1, <1>2 DEF IInv, TypeOK, CommittedOK, Concluding
  <2> QED
    BY <1>1, <1>2, <2>1, <2>2, TabStep
<1>4. CASE MayStart(broker)
  <2> DEFINE r == CHOOSE q \in Run : run[q].pc = "none"
             go == [run[r] EXCEPT !.pc = "load"]
  <2>1. /\ broker' = Started /\ gaps' = gaps \cup Gaps
        /\ run' = [run EXCEPT ![r].pc = "load"] /\ ~broker.running
        /\ r \in Run /\ run[r].pc = "none"
    BY <1>4 DEF ImportStart, MayStart
  <2> HIDE DEF r
  <2>2. go \in Import /\ go.pc = "load" /\ run' = [run EXCEPT ![r] = go]
    BY <2>1 DEF IInv, TypeOK, Import
  <2> HIDE DEF go
  <2>3. /\ run' \in [Run -> Import]
        /\ run'[r] = go /\ \A s \in Run \ {r} : run'[s] = run[s]
    BY <2>1, <2>2, RunChanges
  <2>4. /\ page' \in [Page -> Tab] /\ \A q \in Page : Len(page'[q].queue) <= QueueBound
        /\ \A q \in Page : page'[q].finish = page[q].finish
    BY <1>1, <1>2, TabChanges DEF IInv
  <2>5. gaps' \subseteq {"early", "late"} /\ gaps \subseteq gaps'
    BY <2>1 DEF IInv, TypeOK, Gaps
  <2>6. "early" \notin gaps' => \A s \in Run : run[s].pc = "none"
    <3> SUFFICES ASSUME "early" \notin gaps', NEW s \in Run PROVE run[s].pc = "none"
      OBVIOUS
    <3>1. run[s].pc # "finish"
      BY <2>1 DEF Gaps
    <3>2. ~Active(s)
      BY <2>1, <2>5 DEF IInv, OneRun
    <3> QED
      BY <3>1, <3>2 DEF IInv, TypeOK, Import, Active
  <2>7. TypeOK'
    BY <1>1, <2>1, <2>3, <2>4, <2>5, NewTypes DEF IInv, TypeOK
  <2>8. CommittedOK' /\ ListOK'
    BY <1>1, <2>2, <2>3, <2>4 DEF IInv, CommittedOK, ListOK, Loaded
  <2>9. OneRun'
    BY <2>1, <2>2, <2>3, <2>5, <2>6, NewTypes DEF OneRun, Active
  <2>10. ReadOK'
    BY <2>2, <2>3, <2>5, <2>6 DEF ReadOK, Loaded
  <2>11. ReadyOK'
    <3>1. gaps' = {} => ~Concluding'
      BY <1>1, <2>1, <2>4, NewTypes DEF Gaps, Concluding
    <3> QED
      BY <3>1 DEF ReadyOK
  <2> QED
    BY <2>7, <2>8, <2>9, <2>10, <2>11 DEF IInv
<1> QED
  BY <1>3, <1>4

-----------------------------------------------------------------------------
(* The forms, the completion, and the life of the process.                 *)

LEMMA SaveCalDAVStep ==
    ASSUME IInv, SaveCalDAV
    PROVE  IInv'
<1> USE DEF memory
<1>1. /\ step' = "calendars" /\ forms' \in 0 .. MaxForms
      /\ UNCHANGED <<complete, projects, imported, own, memory, broker, run, page, gaps, known>>
  BY SetupAssumption DEF IInv, TypeOK, SaveCalDAV
<1>2. TypeOK'
  BY <1>1 DEF IInv, TypeOK
<1>3. CommittedOK' /\ ListOK' /\ OneRun' /\ ReadOK'
  BY <1>1 DEF IInv, CommittedOK, ListOK, OneRun, ReadOK, Active, Loaded, Pending
<1>4. ReadyOK'
  BY <1>1 DEF IInv, ReadyOK, Active, Concluding
<1> QED
  BY <1>2, <1>3, <1>4 DEF IInv

\* Whatever was imported belongs to an earlier choice from now on.
LEMMA SaveCalendarsStep ==
    ASSUME IInv, NEW p \in Page, NEW chosen \in SUBSET Calendar, SaveCalendars(p, chosen)
    PROVE  IInv'
<1> USE DEF memory
<1>1. /\ projects' = [chosen |-> chosen, choice |-> projects.choice + 1]
      /\ imported' = {} /\ own = {} /\ step' = "import"
      /\ page' = [page EXCEPT ![p] = OnImportPage(p)] /\ forms' \in 0 .. MaxForms
      /\ UNCHANGED <<complete, own, memory, broker, run, gaps, known>>
  BY SetupAssumption DEF IInv, TypeOK, SaveCalendars
<1>2. projects.choice \in Nat /\ known \in Nat /\ known <= projects.choice
  BY DEF IInv, TypeOK
<1>3. OnImportPage(p) \in Tab /\ OnImportPage(p).queue = <<>>
      /\ OnImportPage(p).finish = "none"
  BY NewTypes DEF OnImportPage, NoTab, Tab
<1>4. Len(OnImportPage(p).queue) <= QueueBound
  BY <1>3, EmptyQueue, Zenon
<1>5. /\ page' \in [Page -> Tab] /\ \A q \in Page : Len(page'[q].queue) <= QueueBound
      /\ \A q \in Page : page'[q].finish \in {"none", page[q].finish}
  BY <1>1, <1>3, <1>4, TabChanges DEF IInv
<1>6. TypeOK'
  BY <1>1, <1>2, <1>5 DEF IInv, TypeOK
<1>7. CommittedOK' /\ OneRun'
  BY <1>1, <1>5 DEF IInv, CommittedOK, OneRun, Active
<1>8. ListOK'
  <2>1. \A r \in Run : run[r].choice \in Nat
    BY DEF IInv, TypeOK, Import
  <2> QED
    BY <1>1, <1>2, <2>1 DEF IInv, ListOK, Loaded
<1>9. ReadOK' /\ ReadyOK'
  <2>1. Concluding' => Concluding
    BY <1>1, <1>5 DEF Concluding
  <2>2. known' # projects'.choice
    BY <1>1, <1>2
  <2> QED
    BY <1>1, <2>1, <2>2 DEF IInv, ReadOK, ReadyOK, Loaded, Active
<1> QED
  BY <1>6, <1>7, <1>8, <1>9 DEF IInv

LEMMA CompleteCommitStep ==
    ASSUME IInv, NEW p \in Page, CompleteCommit(p)
    PROVE  IInv'
<1> USE DEF database, memory
<1>1. /\ page[p] \in Tab /\ Len(page[p].queue) <= QueueBound /\ page[p].finish = "commit"
      /\ UNCHANGED <<projects, imported, own, memory, broker, run, gaps, known, forms>>
  BY DEF IInv, TypeOK, CompleteCommit
<1>2. CASE step = "import" /\ projects.chosen # {} /\ own = {}
  <2> DEFINE tab == [page[p] EXCEPT !.finish = "mark"]
  <2>1. /\ step' = "complete" /\ complete' = TRUE /\ page' = [page EXCEPT ![p] = tab]
    BY <1>2 DEF CompleteCommit
  <2>2. tab \in Tab /\ Len(tab.queue) <= QueueBound
    BY <1>1 DEF Tab
  <2> HIDE DEF tab
  <2>3. page' \in [Page -> Tab] /\ \A q \in Page : Len(page'[q].queue) <= QueueBound
    BY <2>1, <2>2, TabChanges DEF IInv
  <2>4. TypeOK'
    BY <1>1, <2>1, <2>3 DEF IInv, TypeOK
  <2>5. CommittedOK' /\ ListOK' /\ OneRun' /\ ReadOK'
    BY <1>1, <2>1 DEF IInv, CommittedOK, ListOK, OneRun, ReadOK, Active, Loaded, Pending
  <2>6. ReadyOK'
    BY <1>1 DEF IInv, ReadyOK, Active, Concluding
  <2> QED
    BY <2>4, <2>5, <2>6 DEF IInv
<1>3. CASE ~(step = "import" /\ projects.chosen # {} /\ own = {})
  <2> DEFINE tab == [page[p] EXCEPT !.finish = "none", !.stage = "error"]
  <2>1. page' = [page EXCEPT ![p] = tab] /\ UNCHANGED <<step, complete>>
    BY <1>3 DEF CompleteCommit, Refused
  <2>2. tab \in Tab /\ Len(tab.queue) <= QueueBound /\ tab.finish = "none"
    BY <1>1 DEF Tab
  <2>3. /\ forms' \in 0 .. MaxForms /\ gate' \in BOOLEAN /\ ticking' \in BOOLEAN
        /\ gate' \/ ticking' => complete
    BY <1>1 DEF IInv, TypeOK, CommittedOK
  <2> HIDE DEF tab
  <2> QED
    BY <1>1, <2>1, <2>2, <2>3, TabStep
<1> QED
  BY <1>2, <1>3

LEMMA WorkStep ==
    ASSUME IInv, NEW c \in Calendar, Work(c)
    PROVE  IInv'
<1> USE DEF memory
<1>1. /\ c \in projects.chosen /\ own' = own \cup {c} /\ gate
      /\ UNCHANGED <<step, complete, projects, imported, memory, broker, run, page, gaps,
                     known, forms>>
  BY DEF Work
<1>2. TypeOK'
  BY <1>1 DEF IInv, TypeOK
<1>3. CommittedOK' /\ ListOK' /\ OneRun' /\ ReadOK'
  BY <1>1 DEF IInv, CommittedOK, ListOK, OneRun, ReadOK, Active, Loaded, Pending
<1>4. ReadyOK'
  BY <1>1 DEF IInv, ReadyOK, Active, Concluding
<1> QED
  BY <1>2, <1>3, <1>4 DEF IInv

LEMMA RestartStep ==
    ASSUME IInv, Restart
    PROVE  IInv'
<1> USE DEF database
<1>1. /\ gate' = complete /\ ticking' = complete /\ broker' = NewBroker
      /\ run' = [r \in Run |-> NoRun]
      /\ UNCHANGED <<database, gaps, known, forms>>
  BY DEF Restart, Completed
<1>2. /\ run' \in [Run -> Import] /\ \A r \in Run : run'[r].pc = "none"
  BY <1>1, NewTypes
<1>3. ASSUME NEW p \in Page
      PROVE  page'[p] \in Tab /\ Len(page'[p].queue) <= QueueBound /\ page'[p].finish = "none"
  <2> DEFINE queue == <<>>
             tab == [page[p] EXCEPT !.queue = queue, !.subscribed = FALSE,
                                    !.post = "none", !.finish = "none"]
             new == [tab EXCEPT !.stage = "connect", !.missed = TRUE]
  <2>1. queue \in Seq(Event) /\ Len(queue) <= QueueBound /\ page[p] \in Tab
    BY EmptyQueue DEF IInv, TypeOK
  <2>2. page'[p] \in {tab, new, Closed(tab, "error")}
    BY DEF Restart
  <2>3. /\ tab \in Tab /\ Len(tab.queue) <= QueueBound /\ tab.finish = "none"
    <3> HIDE DEF queue
    <3> QED
      BY <2>1 DEF Tab
  <2> HIDE DEF tab
  <2>4. /\ new \in Tab /\ Len(new.queue) <= QueueBound /\ new.finish = "none"
    BY <2>3 DEF Tab
  <2>5. /\ Closed(tab, "error") \in Tab /\ Len(Closed(tab, "error").queue) <= QueueBound
        /\ Closed(tab, "error").finish = "none"
    BY <2>3, ClosedType
  <2> HIDE DEF new
  <2> QED
    BY <2>2, <2>3, <2>4, <2>5
<1>4. page' \in [Page -> Tab]
  <2>1. page' = [p \in Page |-> page'[p]]
    BY DEF Restart
  <2> QED
    BY <1>3, <2>1
<1>5. TypeOK'
  BY <1>1, <1>2, <1>3, <1>4, NewTypes DEF IInv, TypeOK
<1>6. CommittedOK' /\ ListOK' /\ OneRun' /\ ReadOK'
  BY <1>1, <1>2, <1>3 DEF IInv, CommittedOK, ListOK, OneRun, ReadOK, Active, Loaded
<1>7. ReadyOK'
  BY <1>1, <1>2, <1>3, NewTypes DEF IInv, ReadyOK, Active, Concluding
<1> QED
  BY <1>5, <1>6, <1>7 DEF IInv

LEMMA StutterStep ==
    ASSUME IInv, UNCHANGED vars
    PROVE  IInv'
BY DEF IInv, vars, TypeOK, CommittedOK, ListOK, OneRun, ReadOK, ReadyOK, Active, Loaded,
       Pending, Concluding

LEMMA NextIInv == IInv /\ [Next]_vars => IInv'
<1> SUFFICES ASSUME IInv, [Next]_vars PROVE IInv'
  OBVIOUS
<1>1. CASE SaveCalDAV
  BY <1>1, SaveCalDAVStep
<1>2. ASSUME NEW p \in Page, \E chosen \in SUBSET Calendar : SaveCalendars(p, chosen)
      PROVE  IInv'
  BY <1>2, SaveCalendarsStep
<1>3. ASSUME NEW p \in Page, Visit(p) \/ Cut(p) \/ PageStep(p)
      PROVE  IInv'
  BY <1>3, TabSteps, ImportStartStep, CompleteCommitStep DEF PageStep
<1>4. ASSUME NEW r \in Run, RunStep(r)
      PROVE  IInv'
  BY <1>4, ImportLoadStep, ImportListStep, ImportStoreStep, ImportDoneStep,
     ImportFinishStep DEF RunStep
<1>5. CASE \E c \in Calendar : Work(c)
  BY <1>5, WorkStep
<1>6. CASE Restart
  BY <1>6, RestartStep
<1>7. CASE UNCHANGED vars
  BY <1>7, StutterStep
<1> QED
  BY <1>1, <1>2, <1>3, <1>4, <1>5, <1>6, <1>7 DEF Next

-----------------------------------------------------------------------------
\* Through any interleaving of tabs, goroutines and crashes, the import that
\* SetupComplete relies on is the only one at work and has read, or has still
\* in its list, every calendar of the choice it loaded (StartRun, FinishRun,
\* executeSetupInitialImport).
THEOREM SetupInvariant == Spec => []IInv
<1>1. Init => IInv
  BY InitIInv
<1>2. IInv /\ [Next]_vars => IInv'
  BY NextIInv
<1> QED
  BY <1>1, <1>2, PTL DEF Spec

\* Every variable keeps its type: a channel holds at most its capacity of
\* events, and imported and own tasks lie in projects that were chosen.
THEOREM TypeCorrect == Spec => []TypeOK
<1>1. IInv => TypeOK
  BY DEF IInv
<1> QED
  BY <1>1, SetupInvariant, PTL

\* The normal routes and the scheduler open after the commit of the setup only
\* (steps 4 to 6 of SetupComplete, and main after a crash).
THEOREM GateWaits == Spec => []GateAfterCommit
<1>1. IInv => GateAfterCommit
  BY DEF IInv, CommittedOK, GateAfterCommit
<1> QED
  BY <1>1, SetupInvariant, PTL

\* At most one goroutine imports, unless one began between the end that the
\* last published and its FinishRun.
THEOREM ImportsAlone == Spec => []OneImport
<1>1. IInv => OneImport
  <2> SUFFICES ASSUME IInv, "early" \notin gaps
               PROVE  Cardinality({r \in Run : run[r].pc \notin {"none", "finish"}}) <= 1
    BY DEF OneImport
  <2> DEFINE S == {r \in Run : run[r].pc \notin {"none", "finish"}}
  <2>1. \A r, s \in S : r = s
    BY DEF IInv, OneRun
  <2>2. CASE S = {}
    BY <2>2, FS_EmptySet
  <2>3. CASE S # {}
    <3>1. PICK r \in S : S = {r}
      BY <2>1, <2>3
    <3>2. Cardinality({r}) = 1
      BY FS_Singleton
    <3> QED
      BY <3>1, <3>2
  <2> QED
    BY <2>2, <2>3
<1> QED
  BY <1>1, SetupInvariant, PTL

\* SetupComplete commits only after every chosen calendar has been read, if the
\* choice did not change since the import loaded it and no import began in a
\* gap.
THEOREM CompletionImported == Spec => CompleteImported
<1>1. ASSUME IInv, [Next]_vars
      PROVE  complete' /\ ~complete /\ known = projects.choice /\ gaps = {}
                 => imported = projects.chosen
  <2> SUFFICES ASSUME complete', ~complete, known = projects.choice, gaps = {}
               PROVE  imported = projects.chosen
    OBVIOUS
  <2>1. PICK p \in Page : CompleteCommit(p)
    BY <1>1 DEF Next, vars, database, PageStep, RunStep, SaveCalDAV, SaveCalendars, Visit, Cut,
       Subscribe, Receive, ImportCheck, ImportStart, CompleteCheck, CompleteMark,
       CompleteStart, ImportLoad, ImportList, ImportListFailed, ImportStore, ImportDone,
       ImportFinish, Work, Restart
  <2>2. Concluding
    BY <2>1 DEF CompleteCommit, Concluding
  <2> QED
    BY <1>1, <2>2 DEF IInv, ReadyOK
<1> QED
  BY <1>1, SetupInvariant, PTL DEF Spec, CompleteImported

\* An import that replaces the tasks of a project (ReplaceSetupProjectTasks)
\* meets none of the user's own, unless it began in a gap: it is over before
\* the setup is complete.
THEOREM ImportsSpareOwn == Spec => OwnTasksSafe
<1>1. ASSUME IInv, [Next]_vars
      PROVE  gaps = {} => own \subseteq own'
  <2> SUFFICES ASSUME gaps = {}, ~(own \subseteq own')
               PROVE  FALSE
    OBVIOUS
  <2>1. PICK r \in Run : ImportStore(r)
    BY <1>1 DEF Next, vars, database, PageStep, RunStep, SaveCalDAV, SaveCalendars, Visit, Cut,
       Subscribe, Receive, ImportCheck, ImportStart, CompleteCheck, CompleteCommit,
       CompleteMark, CompleteStart, ImportLoad, ImportList, ImportListFailed, ImportDone,
       ImportFinish, Work, Restart
  <2>2. ~Concluding
    BY <1>1, <2>1, Exclusive DEF ImportStore, Active
  <2>3. own = {}
    BY <1>1, <2>2 DEF IInv, CommittedOK, Concluding
  <2> QED
    BY <2>3
<1> QED
  BY <1>1, SetupInvariant, PTL DEF Spec, OwnTasksSafe

=============================================================================
