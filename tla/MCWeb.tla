--------------------------------- MODULE MCWeb ---------------------------------
(***************************************************************************)
(* Instances of the modules of the web app.  They share no state, so that a     *)
(* behaviour follows one of them: the realtime connection, the session, or the    *)
(* list of contributions.                                                         *)
(***************************************************************************)
EXTENDS RealtimeClient, WebSession, ContributionList

VARIABLE subject

Budget(signIns, published, moves, renders, breaks, restarts) ==
  [sessions |-> signIns, updates |-> published, visits |-> moves,
   renders |-> renders, breaks |-> breaks, restarts |-> restarts]

\* Two sessions with a line that breaks; one session with a restart; updates and
\* renders over two sessions; two breaks.
MCBudgets ==
  {Budget(2, 0, 1, 0, 1, 0), Budget(1, 1, 2, 0, 1, 1), Budget(2, 1, 1, 1, 0, 0),
   Budget(1, 0, 1, 1, 2, 0)}

\* A visit of the list and one of a post, with five updates.
MCTwoPages == {Budget(1, 5, 2, 0, 0, 0)}

Init ==
  /\ subject \in {"feed", "session", "list"}
  /\ FeedInit /\ SessionInit /\ ListInit
  /\ subject # "feed" => left = CHOOSE b \in Budgets : TRUE
  /\ subject # "session" => minted = 0 /\ storage = 0
                            /\ \A b \in Tabs : tabs[b].route = "app"

Next ==
  /\ UNCHANGED subject
  /\ \/ /\ subject = "feed" /\ FeedNext
        /\ UNCHANGED <<sessionVars, listVars>>
     \/ /\ subject = "session" /\ SessionNext
        /\ UNCHANGED <<feedVars, listVars>>
     \/ /\ subject = "list" /\ ListNext
        /\ UNCHANGED <<feedVars, sessionVars>>

Spec == Init /\ [][Next]_<<subject, feedVars, sessionVars, listVars>> /\ FeedFairness

WebTypeOK == FeedTypeOK /\ SessionTypeOK /\ ListTypeOK
=============================================================================
