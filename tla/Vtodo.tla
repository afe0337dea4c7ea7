------------------------------- MODULE Vtodo -------------------------------
(***************************************************************************)
(* The content of one VTODO, and the operations Caldo has on it            *)
(* (internal/model).  A content maps every field to a value.  Caldo parses *)
(* the fields of KnownField; the others (X- properties, alarms) are kept   *)
(* as unparsed lines of raw_vtodo.                                         *)
(***************************************************************************)
CONSTANTS Field,       \* the properties of the VTODO
          KnownField,  \* those that ParseVTODOFields and the merge know
          Value,       \* what a property can hold
          NoText       \* the empty raw text: there is no such VTODO

Content == [Field -> Value]

ASSUME VtodoAssumption == /\ KnownField \subseteq Field
                          /\ NoText \notin Content

Text == Content \cup {NoText}

\* A patch names the fields a request wants to write (model.VTODOPatch).
Patch == UNION {[D -> Value] : D \in SUBSET KnownField}

NoPatch == [f \in {} |-> NoText]

\* model.PatchVTODO: the fields of the patch are written, the rest is kept.
Patched(content, patch) ==
    [f \in Field |-> IF f \in DOMAIN patch THEN patch[f] ELSE content[f]]

-----------------------------------------------------------------------------
(***************************************************************************)
(* The field-wise three-way merge (model.MergeVTODOFields).                *)
(***************************************************************************)
Changed(base, content, f) == content[f] # base[f]

\* Both sides changed a field the merge knows, to different values.
MergeConflict(base, local, remote) ==
    \E f \in KnownField : /\ Changed(base, local, f)
                          /\ Changed(base, remote, f)
                          /\ local[f] # remote[f]

\* The patch is applied to the base text: unknown fields keep the base value.
MergedVTODO(base, local, remote) ==
    Patched(base, [f \in KnownField |-> IF Changed(base, local, f)
                                        THEN local[f] ELSE remote[f]])
=============================================================================
