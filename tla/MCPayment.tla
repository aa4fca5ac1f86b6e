----------------------------- MODULE MCPayment -----------------------------
(* Instances of Payment for TLC: from the start, and, for two executions of *)
(* the webhook, from the states in which a second checkout has stored its   *)
(* session.                                                                 *)
EXTENDS Payment, TLC

CONSTANTS s1, s2, h1, h2, b1, b2

CallerSymmetry == Permutations(Hooks) \cup Permutations(Buyers) \cup Permutations(Sessions)

\* The creation of the run died on a revision without billing.  The buyer left
\* the page of the first session, or its delayed payment is processing, came back,
\* paid in the second one, by a delayed method too, and closed the browser.
LateInit ==
  /\ pay = "pending" /\ status = "pending" /\ stamped = TRUE
  /\ stored = s2 /\ intent = None /\ published = 0
  /\ \/ /\ sess = (s1 :> "expired" @@ s2 :> "complete")
        /\ money = (s1 :> "none" @@ s2 :> "processing")
        /\ inbox = {<<"expired", s1>>} /\ answered = {<<"unpaid", s2>>}
     \/ /\ sess = [s \in Sessions |-> "complete"]
        /\ money = [s \in Sessions |-> "processing"]
        /\ inbox = {} /\ answered = {<<"unpaid", s1>>, <<"unpaid", s2>>}
  /\ key = s2
  /\ pc = [c \in Callers |-> "idle"]
  /\ again = [c \in Callers |-> FALSE]
  /\ held = [c \in Callers |-> None]
  /\ kind = [c \in Callers |-> "none"]
  /\ drops = 1 /\ dups = 0

LateSpec == (Init \/ LateInit) /\ [][Next]_vars /\ Fairness
=============================================================================
