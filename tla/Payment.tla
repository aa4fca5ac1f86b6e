------------------------------ MODULE Payment ------------------------------
(***************************************************************************)
(* The paywall of one run: POST /api/checkout opens a Stripe session,      *)
(* Stripe's events reach POST /api/stripe/webhook at least once and in any *)
(* order, and enqueueRun publishes the run to the orchestrator.            *)
(*                                                                         *)
(* Every prisma call and every Stripe or Pub/Sub call is one step, so      *)
(* handlers interleave between what they read and what they write.  Stripe *)
(* and Pub/Sub are modelled from how the handlers use them.                *)
(***************************************************************************)
EXTENDS Naturals, FiniteSets

CONSTANTS
  Sessions,   \* Checkout Sessions Stripe may create for the run
  None,       \* no session
  Hooks,      \* concurrent executions of the webhook handler
  Buyers,     \* concurrent executions of POST /api/checkout
  Creator,    \* the execution of POST /api/runs that inserted the row
  Unbilled,   \* executions where BILLING_ENABLED is off, on all revisions or on one
  MaxDrops,   \* calls that throw or die before they answer
  MaxDups,    \* events Stripe delivers again after a 200
  PublishCap  \* publishes are counted up to PublishCap

Callers == Hooks \cup Buyers \cup {Creator}
Pay == {"pending", "paid", "failed", "refunded"}
PaidEvents == {"completed", "asyncPaid"}
FailEvents == {"expired", "asyncFailed"}
\* "unpaid" is checkout.session.completed with payment_status "unpaid".
EventTypes == PaidEvents \cup FailEvents \cup {"unpaid", "refunded"}
Events == EventTypes \X Sessions

ASSUME CallersDiffer ==
  /\ Hooks \cap Buyers = {} /\ Creator \notin Hooks \cup Buyers
  /\ None \notin Sessions
ASSUME BoundsAssumption ==
  /\ Unbilled \subseteq Callers
  /\ MaxDrops \in Nat /\ MaxDups \in Nat /\ PublishCap \in Nat \ {0}

VARIABLES
  pay,        \* runs.payment_status
  status,     \* runs.status: "pending", or "moved" once a worker claimed it
  stamped,    \* runs.terms_version_at_run is set
  stored,     \* runs.stripe_checkout_session_id
  intent,     \* runs.stripe_payment_intent, named by its session
  published,  \* RunEnqueued messages published
  sess,       \* Stripe: state of each session
  money,      \* Stripe: what happened to the buyer's money in each session
  key,        \* Stripe: the session remembered for the idempotency key
  inbox,      \* Stripe: events not answered with 200 yet
  answered,   \* Stripe: events answered with 200
  pc,         \* caller: what it does next
  again,      \* webhook: it has found the run paid already
  held,       \* caller: its event's session, or the session it works on
  kind,       \* webhook: the type of its event
  drops, dups

row == <<pay, status, stamped, stored, intent>>
stripe == <<sess, money, key>>
mail == <<inbox, answered>>
local == <<again, held, kind>>
vars == <<row, published, stripe, mail, pc, local, drops, dups>>

Billing == Unbilled = {}

CallerSteps == {"idle", "markPaid", "markFailed", "markRefunded", "enqueue",
                "publish", "ok", "retrieve", "create", "store", "bypass"}

\* createRun has inserted the row; without billing POST /api/runs goes on.
Init ==
  /\ pay = "pending" /\ status = "pending" /\ stamped = FALSE
  /\ stored = None /\ intent = None /\ published = 0
  /\ sess = [s \in Sessions |-> "none"] /\ money = [s \in Sessions |-> "none"]
  /\ key = None /\ inbox = {} /\ answered = {}
  /\ pc = [c \in Callers |-> IF c = Creator /\ c \in Unbilled THEN "bypass" ELSE "idle"]
  /\ again = [c \in Callers |-> FALSE]
  /\ held = [c \in Callers |-> None]
  /\ kind = [c \in Callers |-> "none"]
  /\ drops = 0 /\ dups = 0

Goto(c, l) == pc' = [pc EXCEPT ![c] = l]
\* The call answers; its locals are gone.
Leave(c) ==
  /\ Goto(c, "idle")
  /\ again' = [again EXCEPT ![c] = FALSE]
  /\ held' = [held EXCEPT ![c] = None]
  /\ kind' = [kind EXCEPT ![c] = "none"]
-----------------------------------------------------------------------------
(* Stripe.                                                                 *)

Send(e) == inbox' = inbox \cup {e} /\ answered' = answered

\* The buyer completes the hosted page; a delayed method settles later.
PaySession(s) ==
  /\ sess[s] = "open"
  /\ sess' = [sess EXCEPT ![s] = "complete"]
  /\ \/ money' = [money EXCEPT ![s] = "paid"] /\ Send(<<"completed", s>>)
     \/ money' = [money EXCEPT ![s] = "processing"] /\ Send(<<"unpaid", s>>)
  /\ UNCHANGED <<row, published, key, pc, local, drops, dups>>

Settle(s) ==
  /\ money[s] = "processing"
  /\ \/ money' = [money EXCEPT ![s] = "paid"] /\ Send(<<"asyncPaid", s>>)
     \/ money' = [money EXCEPT ![s] = "declined"] /\ Send(<<"asyncFailed", s>>)
  /\ UNCHANGED <<row, published, sess, key, pc, local, drops, dups>>

\* expires_at: 30 minutes after the creation.
Expire(s) ==
  /\ sess[s] = "open"
  /\ sess' = [sess EXCEPT ![s] = "expired"]
  /\ Send(<<"expired", s>>)
  /\ UNCHANGED <<row, published, money, key, pc, local, drops, dups>>

\* The operator refunds the charge in the dashboard.
Refund(s) ==
  /\ money[s] = "paid"
  /\ money' = [money EXCEPT ![s] = "refunded"]
  /\ Send(<<"refunded", s>>)
  /\ UNCHANGED <<row, published, sess, key, pc, local, drops, dups>>

\* Idempotency keys live 24 hours, longer than any open session and any call.
ForgetKey ==
  /\ key # None /\ sess[key] # "open"
  /\ \A c \in Callers : pc[c] = "idle"
  /\ key' = None
  /\ UNCHANGED <<row, published, sess, money, mail, pc, local, drops, dups>>

\* A caller throws or its instance dies: Stripe gets no 200 and keeps the
\* event; a browser shows an error.
Drop(c) ==
  /\ pc[c] # "idle" /\ drops < MaxDrops
  /\ drops' = drops + 1
  /\ Leave(c)
  /\ UNCHANGED <<row, published, stripe, mail, dups>>
-----------------------------------------------------------------------------
(* POST /api/stripe/webhook.                                               *)

\* Slip: payment_status is not checked.
MoneyMovedAny(type) == type \in PaidEvents \cup {"unpaid"}

\* The session's payment_status is "paid".
MoneyMoved(type) == type \in PaidEvents

\* Slips: an already paid run is not enqueued again; markFailed does not look
\* whether the run is paid.
OnPaidOnce == IF pay = "paid" THEN "ok" ELSE "markPaid"
OnFailedBlind == "markFailed"

\* What markPaidAndEnqueue, markFailed and markRefunded do with the run they
\* find.  A session leads to it by client_reference_id, a refund by the stored
\* payment intent.
OnPaid == IF pay = "paid" THEN "enqueue" ELSE "markPaid"
OnFailed == IF pay \in {"paid", "refunded"} THEN "ok" ELSE "markFailed"
OnRefund(session) ==
  IF intent # session \/ pay = "refunded" THEN "ok" ELSE "markRefunded"

AfterFind(type, session) ==
  CASE MoneyMoved(type) -> OnPaid
    [] type \in FailEvents -> OnFailed
    [] type = "refunded" -> OnRefund(session)
    [] OTHER -> "ok"

\* A delivery: the first ones, retries and duplicates.  The handler looks the
\* run up before it does anything else.
Receive(h, e) ==
  /\ pc[h] = "idle"
  /\ \/ e \in inbox /\ dups' = dups
     \/ e \in answered /\ dups < MaxDups /\ dups' = dups + 1
  /\ kind' = [kind EXCEPT ![h] = e[1]]
  /\ held' = [held EXCEPT ![h] = e[2]]
  /\ again' = [again EXCEPT ![h] = pay = "paid"]
  /\ Goto(h, AfterFind(e[1], e[2]))
  /\ UNCHANGED <<row, published, stripe, mail, drops>>

\* Slip: the payment intent came expanded, not as a string.
MarkPaidNoIntent(h) ==
  /\ pc[h] = "markPaid"
  /\ pay' = "paid" /\ intent' = None
  /\ Goto(h, "enqueue")
  /\ UNCHANGED <<status, stamped, stored, published, stripe, mail, local, drops, dups>>

\* The writes are unconditional: nothing is read again.
MarkPaid(h) ==
  /\ pc[h] = "markPaid"
  /\ pay' = "paid" /\ intent' = held[h]
  /\ Goto(h, "enqueue")
  /\ UNCHANGED <<status, stamped, stored, published, stripe, mail, local, drops, dups>>

MarkFailed(h) ==
  /\ pc[h] = "markFailed"
  /\ pay' = "failed"
  /\ Goto(h, "ok")
  /\ UNCHANGED <<status, stamped, stored, intent, published, stripe, mail, local, drops, dups>>

MarkRefunded(h) ==
  /\ pc[h] = "markRefunded"
  /\ pay' = "refunded"
  /\ Goto(h, "ok")
  /\ UNCHANGED <<status, stamped, stored, intent, published, stripe, mail, local, drops, dups>>

\* 200: the event is done.
Answer(h) ==
  /\ pc[h] = "ok"
  /\ inbox' = inbox \ {<<kind[h], held[h]>>}
  /\ answered' = answered \cup {<<kind[h], held[h]>>}
  /\ Leave(h)
  /\ UNCHANGED <<row, published, stripe, drops, dups>>
-----------------------------------------------------------------------------
(* enqueueRun.                                                             *)

\* The webhook goes on to its 200; the routes answer the browser.
Finish(c) == IF c \in Hooks THEN Goto(c, "ok") /\ UNCHANGED local ELSE Leave(c)

\* It reads the row.  A run that is not paid is reported: the first-time path
\* of the webhook throws, the redelivery path ignores it.
Enqueue(c) ==
  /\ pc[c] = "enqueue"
  /\ \/ pay # "paid" /\ IF again[c] THEN Finish(c) ELSE Leave(c)
     \/ pay = "paid" /\ status # "pending" /\ Finish(c)
     \/ pay = "paid" /\ status = "pending" /\ Goto(c, "publish") /\ UNCHANGED local
  /\ UNCHANGED <<row, published, stripe, mail, drops, dups>>

\* Slip: the count passes its bound.
PublishUncapped(c) ==
  /\ pc[c] = "publish"
  /\ published' = published + 1
  /\ Finish(c)
  /\ UNCHANGED <<row, stripe, mail, drops, dups>>

Publish(c) ==
  /\ pc[c] = "publish"
  /\ published' = IF published < PublishCap THEN published + 1 ELSE published
  /\ Finish(c)
  /\ UNCHANGED <<row, stripe, mail, drops, dups>>

\* The orchestrator claims the run.
Claim ==
  /\ published > 0 /\ status = "pending"
  /\ status' = "moved"
  /\ UNCHANGED <<pay, stamped, stored, intent, published, stripe, mail, pc, local, drops, dups>>
-----------------------------------------------------------------------------
(* POST /api/checkout, and the end of POST /api/runs without billing.      *)

\* The buyer learns the run from the answer of POST /api/runs.  A paid or refunded
\* run is answered with 409.  The first checkout stamps the run; a stamp that
\* fails is logged and the checkout goes on.
Checkout(b) ==
  /\ pc[b] = "idle" /\ pc[Creator] = "idle"
  /\ pay \notin {"paid", "refunded"}
  /\ held' = [held EXCEPT ![b] = stored]
  /\ Goto(b, IF b \in Unbilled THEN "bypass" ELSE IF stored # None THEN "retrieve" ELSE "create")
  /\ \/ stamped' = TRUE /\ drops' = drops
     \/ ~stamped /\ drops < MaxDrops /\ drops' = drops + 1 /\ stamped' = stamped
  /\ UNCHANGED <<pay, status, stored, intent, published, stripe, mail, again, kind, dups>>

Bypass(b) ==
  /\ pc[b] = "bypass"
  /\ pay' = "paid"
  /\ Goto(b, "enqueue")
  /\ UNCHANGED <<status, stamped, stored, intent, published, stripe, mail, local, drops, dups>>

\* The stored session is reused while it is open; an error falls through.
Retrieve(b) ==
  /\ pc[b] = "retrieve"
  /\ \/ sess[held[b]] = "open" /\ Leave(b) /\ drops' = drops
     \/ sess[held[b]] # "open" /\ Goto(b, "create") /\ UNCHANGED <<local, drops>>
     \/ drops < MaxDrops /\ drops' = drops + 1 /\ Goto(b, "create") /\ UNCHANGED local
  /\ UNCHANGED <<row, published, stripe, mail, dups>>

\* Slip: no idempotency key.
CreateUnkeyed(b) ==
  /\ pc[b] = "create"
  /\ \E s \in Sessions :
       /\ sess[s] = "none"
       /\ sess' = [sess EXCEPT ![s] = "open"] /\ key' = s
       /\ held' = [held EXCEPT ![b] = s] /\ Goto(b, "store") /\ UNCHANGED <<again, kind>>
  /\ UNCHANGED <<row, published, money, mail, drops, dups>>

\* With the key in use Stripe answers a request of the same second with the
\* session it remembers, and a later one with an error: expires_at differs.
Create(b) ==
  /\ pc[b] = "create"
  /\ \/ /\ key = None
        /\ \E s \in Sessions :
             /\ sess[s] = "none"
             /\ sess' = [sess EXCEPT ![s] = "open"] /\ key' = s
             /\ held' = [held EXCEPT ![b] = s]
        /\ Goto(b, "store") /\ UNCHANGED <<again, kind>>
     \/ /\ key # None /\ sess[key] = "open"
        /\ held' = [held EXCEPT ![b] = key]
        /\ Goto(b, "store") /\ UNCHANGED <<again, kind, sess, key>>
     \/ /\ key # None \/ \A s \in Sessions : sess[s] # "none"
        /\ Leave(b) /\ UNCHANGED <<sess, key>>
  /\ UNCHANGED <<row, published, money, mail, drops, dups>>

Store(b) ==
  /\ pc[b] = "store"
  /\ stored' = held[b]
  /\ Leave(b)
  /\ UNCHANGED <<pay, status, stamped, intent, published, stripe, mail, drops, dups>>

-----------------------------------------------------------------------------
Hook(h) == MarkPaid(h) \/ MarkFailed(h) \/ MarkRefunded(h) \/ Answer(h)
Browse(b) == Bypass(b) \/ Retrieve(b) \/ Create(b) \/ Store(b)
Handle(c) == Hook(c) \/ Browse(c) \/ Enqueue(c) \/ Publish(c)

Next ==
  \/ \E c \in Callers : Handle(c) \/ Drop(c)
  \/ \E h \in Hooks, e \in Events : Receive(h, e)
  \/ \E b \in Buyers : Checkout(b)
  \/ \E s \in Sessions : PaySession(s) \/ Settle(s) \/ Expire(s) \/ Refund(s)
  \/ ForgetKey \/ Claim

Spec == Init /\ [][Next]_vars

\* A request runs until it answers, and Stripe retries every event that has
\* not been answered with 200.
Fairness ==
  /\ \A c \in Callers : WF_vars(Handle(c))
  /\ \A e \in Events : WF_vars(\E h \in Hooks : e \in inbox /\ Receive(h, e))

FairSpec == Spec /\ Fairness
-----------------------------------------------------------------------------
(* Properties.                                                             *)

\* The row, Stripe's records and the callers' locals have their shape.
TypeOK ==
  /\ pay \in Pay /\ status \in {"pending", "moved"} /\ stamped \in BOOLEAN
  /\ stored \in Sessions \cup {None} /\ intent \in Sessions \cup {None}
  /\ published \in 0..PublishCap
  /\ sess \in [Sessions -> {"none", "open", "complete", "expired"}]
  /\ money \in [Sessions -> {"none", "processing", "paid", "declined", "refunded"}]
  /\ key \in Sessions \cup {None}
  /\ inbox \subseteq Events /\ answered \subseteq Events
  /\ pc \in [Callers -> CallerSteps]
  /\ again \in [Callers -> BOOLEAN]
  /\ held \in [Callers -> Sessions \cup {None}]
  /\ kind \in [Callers -> EventTypes \cup {"none"}]
  /\ drops \in 0..MaxDrops /\ dups \in 0..MaxDups

Taken == {s \in Sessions : money[s] \in {"paid", "refunded"}}

\* With billing on, nothing reaches the orchestrator before the buyer's money
\* was taken: no order of events, retries and races spends LLM budget on an
\* unpaid run.
UnpaidNeverRuns == Billing /\ published > 0 => Taken # {}

\* However many times the buyer goes through checkout, at most one session is
\* open, so the buyer cannot be on two payment pages at once.
OneOpenSession == \A s, t \in Sessions : sess[s] = "open" /\ sess[t] = "open" => s = t

\* The payment intent of a paid or refunded run is one whose money was taken,
\* so that a refund finds its run.
IntentIsPaid ==
  Billing /\ pay \in {"paid", "refunded"} => intent \in Taken

\* Two executions of the webhook may overlap, so a paid run can be undone without
\* a refund; but only by the failure of another of its sessions, in an execution
\* that had found the run not paid yet.  The session that paid never undoes it.
PaidUndone ==
  [][pay = "paid" /\ pay' \notin {"paid", "refunded"} =>
       \E h \in Hooks : pc[h] = "markFailed" /\ ~again[h] /\ held[h] # intent]_vars

\* Money taken and kept leads to a dispatched run, through failing publishes and
\* overlapping, retried and repeated events, unless the row ends as failed or
\* refunded: then another session of the run has undone its payment.
PaidIsDispatched ==
  \A s \in Sessions :
    <>[](money[s] = "paid" /\ published = 0) => <>[](pay \in {"failed", "refunded"})

\* A refunded run stays refunded.
RefundIsFinal == [][pay = "refunded" => pay' = "refunded"]_vars
=============================================================================
