----------------------------- MODULE TaskStore ------------------------------
(***************************************************************************)
(* What optimistic locking promises about the texts of task rows, without  *)
(* saying how: an edit is one atomic step that patches the text its row    *)
(* has at that moment, whoever else writes; the version of a row names its *)
(* text; a removed row never comes back.                                   *)
(***************************************************************************)
EXTENDS Vtodo, Naturals, Sequences

CONSTANT Handler

VARIABLES store,  \* the rows: version, text, and whether the row still exists
          job     \* the edit each handler has yet to store: at most one

Init == /\ store \in {<<>>} \cup {<<cell>> : cell \in
              [ver : {1}, raw : Content, state : {"live"}]}
        /\ job = [h \in Handler |-> {}]

Begin(h) == /\ job[h] = {}
            /\ \E n \in DOMAIN store, patch \in Patch :
                  /\ store[n].state = "live"
                  /\ job' = [job EXCEPT ![h] = {[n |-> n, patch |-> patch]}]
            /\ UNCHANGED store

\* Read, modify and write in one step.
Edit(h) ==
    \E j \in job[h] :
        /\ store[j.n].state = "live"
        /\ store' = [store EXCEPT ![j.n] =
              [ver |-> @.ver + 1, raw |-> Patched(@.raw, j.patch), state |-> "live"]]
        /\ job' = [job EXCEPT ![h] = {}]

Drop(h) == /\ job' = [job EXCEPT ![h] = {}]
           /\ UNCHANGED store

\* Same text, or a new version, or gone.
Successor(old, new) ==
    \/ new = old
    \/ /\ old.state = "live" /\ new.state = "live"
       /\ new.ver = old.ver + 1
    \/ new = [ver |-> old.ver, raw |-> old.raw, state |-> "gone"]

\* Undo, resolution, marks and imports write rows, and may add one.
Rewrite == /\ Len(store') \in {Len(store), Len(store) + 1}
           /\ \A n \in DOMAIN store : Successor(store[n], store'[n])
           /\ \A n \in DOMAIN store' \ DOMAIN store :
                 store'[n].ver = 1 /\ store'[n].state = "live"
           /\ UNCHANGED job

Next == \/ \E h \in Handler : Begin(h) \/ Edit(h) \/ Drop(h)
        \/ Rewrite

Spec == Init /\ [][Next]_<<store, job>>
=============================================================================
