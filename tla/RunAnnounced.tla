---------------------------- MODULE RunAnnounced ----------------------------
(***************************************************************************)
(* RunLifecycle with the history of the cards that are lost with a killed   *)
(* handler.  A verdict is committed first and its card is emitted next; a    *)
(* handler killed in between leaves a settled row, and the redelivery of its *)
(* message finds nothing to do and emits no card.                            *)
(***************************************************************************)
EXTENDS RunLifecycle

VARIABLE unsaid  \* history: cards that were due when their handler was killed

announcedVars == <<vars, unsaid>>

\* The card that follows the verdict the handler has committed.
CardDue(w) ==
  CASE pc[w] = "doneCard" -> {"done"}
    [] pc[w] \in {"failCard", "refuseCard"} -> {"failed"}
    [] OTHER -> {}

Killed(w) == Crash(w) /\ unsaid' = unsaid \cup CardDue(w)

AnnouncedNext ==
  \/ /\ \/ \E w \in Workers : Handle(w) \/ AckDeadline(w)
        \/ \E w \in Workers, m \in Msgs : Deliver(w, m)
        \/ \E m \in Msgs : DeadLetter(m)
        \/ Vanish
     /\ UNCHANGED unsaid
  \/ \E w \in Workers : Killed(w)

AnnouncedSpec == Init /\ unsaid = {} /\ [][AnnouncedNext]_announcedVars /\ Fairness
-----------------------------------------------------------------------------
\* A settled run's page is told the verdict, through kills, redeliveries and
\* overlapping handlers; only a kill between the commit of the verdict and its
\* card loses the card.
VerdictIsAnnounced ==
  /\ status = "succeeded" ~> "done" \in log \cup unsaid \/ status = "absent"
  /\ status = "failed" ~> "failed" \in log \cup unsaid \/ status = "absent"
=============================================================================
