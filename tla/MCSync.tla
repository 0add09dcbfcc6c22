-------------------------------- MODULE MCSync --------------------------------
(***************************************************************************)
(* Instances of the three modules of optimistic edits.  They share no state,  *)
(* so that a behaviour follows one of them: two edits of one page and one of   *)
(* another; one update of each; three mutations of one post.                  *)
(***************************************************************************)
EXTENDS ProjectionSync, MutationSync

VARIABLE subject

MCAuthorOf == [p \in Patches |-> IF p = "b1" THEN "b" ELSE "a"]
MCKeyOf == [p \in Patches |-> "note"]
MCTargetOf == [p \in Patches |-> "post"]
MCMaxFetches == [c \in Clients |-> IF c = "a" THEN 1 ELSE 0]
MCUpdateAuthor == [u \in Updates |-> IF u = "b1" THEN "b" ELSE "a"]
MCUpdateKey == [u \in Updates |-> "note"]
MCUpdateTarget == [u \in Updates |-> "workspace"]
MCMutationTarget == [m \in Mutations |-> "post"]
\* "n" is made by another actor, under the id of "m".
MCMutationAuthor == [m \in Mutations |-> IF m \in {"n", "m0"} THEN "b" ELSE "a"]
MCMutationId == [m \in Mutations |-> IF m = "n" THEN "m" ELSE m]
MCBaseOf ==
  [m \in Mutations |-> CASE m = "m0" -> 0 [] m = "m" -> 1 [] OTHER -> NoBase]

Init ==
  /\ subject \in {"draft", "projection", "mutation"}
  /\ DraftInit /\ ProjectionInit /\ MutationInit

Next ==
  /\ UNCHANGED subject
  /\ \/ /\ subject = "draft" /\ DraftNext
        /\ UNCHANGED <<projectionVars, mutationVars>>
     \/ /\ subject = "projection" /\ ProjectionNext
        /\ UNCHANGED <<draftVars, mutationVars>>
     \/ /\ subject = "mutation" /\ MutationNext
        /\ UNCHANGED <<draftVars, projectionVars>>

Spec == Init /\ [][Next]_<<subject, draftVars, projectionVars, mutationVars>>
=============================================================================
