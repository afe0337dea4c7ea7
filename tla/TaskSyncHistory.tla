-------------------------- MODULE TaskSyncHistory ---------------------------
(***************************************************************************)
(* TaskSync with a history variable: for every field, the value of the     *)
(* last edit that Caldo stored, unless another client has written the      *)
(* field since.                                                            *)
(***************************************************************************)
EXTENDS TaskSync

VARIABLE stored

NoEdit == [f \in Field |-> NoText]

HistoryInit == Init /\ stored = NoEdit

\* The fields in which the current object on the server changes.
RewrittenFields ==
    {f \in Field : CurrentVTODO # NoText => CurrentVTODO'[f] # CurrentVTODO[f]}

HistoryNext ==
    \/ \E h \in Handler : /\ UpdatePrepare(h)
                          /\ stored' = Patched(stored, req[h].patch)
    \/ /\ RemoteWrite
       /\ stored' = IF CurrentVTODO' = NoText THEN NoEdit
                    ELSE [f \in Field |-> IF f \in RewrittenFields
                                          THEN NoText ELSE stored[f]]
    \/ /\ Next
       /\ \A h \in Handler : ~UpdatePrepare(h)
       /\ ~RemoteWrite
       /\ UNCHANGED stored

HistorySpec == HistoryInit /\ [][HistoryNext]_<<vars, stored>>

-----------------------------------------------------------------------------
\* The texts of the object that someone still holds.
Held == {rows[n].raw : n \in Live}
        \cup {CurrentVTODO}
        \cup {req[h].raw : h \in {g \in Handler : req[g].pc \notin {"idle", "prepare"}}}
        \cup UNION {{c.local, c.remote} : c \in
               UNION {{conflicts[n][k] : k \in
                          {i \in DOMAIN conflicts[n] : OpenConflict(n, i)}}
                      : n \in Live}}

\* What the user last wrote into a field is still there to be seen: in a row,
\* in the object on the server, in an unresolved conflict, or in a request
\* under way.
NoEditLost ==
    \A f \in Field :
        stored[f] # NoText => \E text \in Held \ {NoText} : text[f] = stored[f]
=============================================================================
