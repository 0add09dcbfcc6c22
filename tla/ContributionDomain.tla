------------------------- MODULE ContributionDomain -------------------------
(***************************************************************************)
(* The pure rules of packages/domain/src/contribution: the lifecycle of a  *)
(* contribution post and the policies the application service consults     *)
(* before it writes.  A post is a record with the fields creator, state,   *)
(* title and credit; type, description and difficulty behave as title and  *)
(* are left out.                                                           *)
(***************************************************************************)
EXTENDS Integers

PostStates ==
  {"open", "in_review", "accepted", "in_progress", "completed",
   "verified", "disputed", "cancelled", "expired"}

PostTransitions ==
  [s \in PostStates |->
     CASE s = "open"        -> {"in_review", "accepted", "cancelled", "expired"}
       [] s = "in_review"   -> {"accepted", "cancelled", "expired"}
       [] s = "accepted"    -> {"in_progress", "cancelled"}
       [] s = "in_progress" -> {"completed", "cancelled"}
       [] s = "completed"   -> {"verified", "disputed"}
       [] s = "disputed"    -> {"in_progress", "cancelled"}
       [] OTHER             -> {}]

CanTransition(from, to) == to \in PostTransitions[from]

\* assertValidPostCreation: the title and description checks of the policy are
\* also made by the body validation and do not depend on any state.
PositiveCredit(credit) == credit > 0

\* Mutant: the creator may apply.
CanSubmitApplication_Own(post, user) == post.state \in {"open", "in_review"}

CanSubmitApplication(post, user) ==
  /\ post.state \in {"open", "in_review"}
  /\ post.creator # user

\* assertCanAcceptApplication; the role "requester" is derived from the same
\* comparison by mapActorToContributionRole.
CanAcceptApplication(post, user) == post.creator = user
=============================================================================
