--------------------------- MODULE PaymentProofs ---------------------------
(***************************************************************************)
(* Proofs about Payment for every number of sessions, of webhook and       *)
(* checkout executions, and of faults and repeated events.                 *)
(***************************************************************************)
EXTENDS Payment, TLAPS

-----------------------------------------------------------------------------
(* Type correctness.                                                       *)

\* Steps of the webhook only, and the event of a webhook in its middle.
OfHooks ==
  \A c \in Callers :
    pc[c] \in {"markPaid", "markFailed", "markRefunded", "ok"} => c \in Hooks
HaveEvents ==
  \A h \in Hooks : pc[h] # "idle" => held[h] \in Sessions /\ kind[h] \in EventTypes

TypeInv == TypeOK /\ OfHooks /\ HaveEvents

\* The part of TypeInv about the callers, which every action can disturb.
CallersTyped ==
  /\ pc \in [Callers -> CallerSteps]
  /\ again \in [Callers -> BOOLEAN]
  /\ held \in [Callers -> Sessions \cup {None}]
  /\ kind \in [Callers -> EventTypes \cup {"none"}]
  /\ OfHooks /\ HaveEvents

LEMMA TypeInvCallers == TypeInv => CallersTyped
BY DEF TypeInv, TypeOK, CallersTyped

\* Leaving keeps the callers typed.
LEMMA LeaveTyped ==
  ASSUME CallersTyped, NEW c \in Callers, Leave(c)
  PROVE  CallersTyped'
<1>1. "idle" \in CallerSteps
  BY DEF CallerSteps
<1>2. \A d \in Callers \ {c} : pc'[d] = pc[d] /\ held'[d] = held[d] /\ kind'[d] = kind[d]
  BY DEF Leave, Goto, CallersTyped
<1>3. pc'[c] = "idle"
  BY DEF Leave, Goto, CallersTyped
<1>4. /\ pc' \in [Callers -> CallerSteps] /\ again' \in [Callers -> BOOLEAN]
      /\ held' \in [Callers -> Sessions \cup {None}]
      /\ kind' \in [Callers -> EventTypes \cup {"none"}]
  BY <1>1 DEF Leave, Goto, CallersTyped
<1>5. OfHooks'
  BY <1>2, <1>3 DEF OfHooks, CallersTyped
<1>6. HaveEvents'
  BY <1>2, <1>3 DEF HaveEvents, CallersTyped, Callers
<1>7. QED
  BY <1>4, <1>5, <1>6 DEF CallersTyped

\* So does going from one step to another that is not the webhook's alone.
LEMMA GotoTyped ==
  ASSUME CallersTyped, NEW c \in Callers, NEW l \in CallerSteps, Goto(c, l),
         pc[c] # "idle", UNCHANGED local,
         c \in Hooks \/ l \notin {"markPaid", "markFailed", "markRefunded", "ok"}
  PROVE  CallersTyped'
<1>1. \A d \in Callers \ {c} : pc'[d] = pc[d]
  BY DEF Goto, CallersTyped
<1>2. pc'[c] = l
  BY DEF Goto, CallersTyped
<1>3. pc' \in [Callers -> CallerSteps] /\ again' = again /\ held' = held /\ kind' = kind
  BY DEF Goto, CallersTyped, local
<1>4. OfHooks'
  BY <1>1, <1>2 DEF OfHooks, CallersTyped
<1>5. HaveEvents'
  BY <1>1, <1>3 DEF HaveEvents, CallersTyped, Callers
<1>6. QED
  BY <1>3, <1>4, <1>5 DEF CallersTyped

\* So does the end of enqueueRun.
LEMMA FinishTyped ==
  ASSUME CallersTyped, NEW c \in Callers, pc[c] # "idle", Finish(c)
  PROVE  CallersTyped'
<1>1. CASE c \in Hooks
  <2>1. Goto(c, "ok") /\ UNCHANGED local /\ "ok" \in CallerSteps
    BY <1>1 DEF Finish, CallerSteps
  <2>2. QED
    BY <1>1, <2>1, GotoTyped
<1>2. CASE c \notin Hooks
  BY <1>2, LeaveTyped DEF Finish
<1>3. QED
  BY <1>1, <1>2

\* So do Stripe's steps, which leave the callers alone.
LEMMA StayTyped ==
  ASSUME CallersTyped, UNCHANGED <<pc, local>>
  PROVE  CallersTyped'
BY DEF CallersTyped, OfHooks, HaveEvents, local

LEMMA StepNames ==
  {"idle", "markPaid", "markFailed", "markRefunded", "enqueue", "publish", "ok",
   "retrieve", "create", "store", "bypass"} = CallerSteps
BY DEF CallerSteps

\* The part of TypeInv about the row, Stripe and the counters.
SystemTyped ==
  /\ pay \in Pay /\ status \in {"pending", "moved"} /\ stamped \in BOOLEAN
  /\ stored \in Sessions \cup {None} /\ intent \in Sessions \cup {None}
  /\ published \in 0..PublishCap
  /\ sess \in [Sessions -> {"none", "open", "complete", "expired"}]
  /\ money \in [Sessions -> {"none", "processing", "paid", "declined", "refunded"}]
  /\ key \in Sessions \cup {None}
  /\ inbox \subseteq Events /\ answered \subseteq Events
  /\ drops \in 0..MaxDrops /\ dups \in 0..MaxDups

LEMMA TypeInvParts == TypeInv <=> SystemTyped /\ CallersTyped
BY DEF TypeInv, TypeOK, SystemTyped, CallersTyped

\* The same one step later.
LEMMA TypeInvPartsNext == TypeInv' <=> SystemTyped' /\ CallersTyped'
BY DEF TypeInv, TypeOK, SystemTyped, CallersTyped

LEMMA InitTyped == Init => TypeInv
<1> SUFFICES ASSUME Init PROVE SystemTyped /\ CallersTyped
  BY TypeInvParts
<1>1. SystemTyped
  <2>1. published \in 0..PublishCap /\ drops \in 0..MaxDrops /\ dups \in 0..MaxDups
    BY BoundsAssumption DEF Init
  <2>2. inbox \subseteq Events /\ answered \subseteq Events
    BY DEF Init
  <2>3. /\ sess \in [Sessions -> {"none", "open", "complete", "expired"}]
        /\ money \in [Sessions -> {"none", "processing", "paid", "declined", "refunded"}]
    BY DEF Init
  <2>4. QED
    BY <2>1, <2>2, <2>3 DEF Init, SystemTyped, Pay
<1>2. CallersTyped
  BY CallersDiffer DEF Init, CallersTyped, OfHooks, HaveEvents, CallerSteps, Callers
<1>3. QED
  BY <1>1, <1>2

LEMMA StripeTyped ==
  ASSUME TypeInv, NEW s \in Sessions,
         PaySession(s) \/ Settle(s) \/ Expire(s) \/ Refund(s)
  PROVE  TypeInv'
<1>1. SystemTyped /\ CallersTyped
  BY TypeInvParts
<1>2. CallersTyped'
  BY <1>1, StayTyped DEF PaySession, Settle, Expire, Refund
<1>3. \A type \in EventTypes : <<type, s>> \in Events
  BY DEF Events
<1>4. {"completed", "unpaid", "asyncPaid", "asyncFailed", "expired", "refunded"} \subseteq EventTypes
  BY DEF EventTypes, PaidEvents, FailEvents
<1>5. SystemTyped'
  <2>1. CASE PaySession(s)
    BY <1>1, <1>3, <1>4, <2>1 DEF PaySession, Send, SystemTyped, row
  <2>2. CASE Settle(s)
    BY <1>1, <1>3, <1>4, <2>2 DEF Settle, Send, SystemTyped, row
  <2>3. CASE Expire(s)
    BY <1>1, <1>3, <1>4, <2>3 DEF Expire, Send, SystemTyped, row
  <2>4. CASE Refund(s)
    BY <1>1, <1>3, <1>4, <2>4 DEF Refund, Send, SystemTyped, row
  <2>5. QED
    BY <2>1, <2>2, <2>3, <2>4
<1>6. QED
  BY <1>2, <1>5, TypeInvPartsNext

LEMMA ReceiveTyped ==
  ASSUME TypeInv, NEW h \in Hooks, NEW e \in Events, Receive(h, e)
  PROVE  TypeInv'
<1>1. SystemTyped /\ CallersTyped /\ h \in Callers
  BY TypeInvParts DEF Callers
<1>2. e[1] \in EventTypes /\ e[2] \in Sessions
  BY DEF Events
<1>3. AfterFind(e[1], e[2]) \in CallerSteps
  BY DEF AfterFind, OnPaid, OnFailed, OnRefund, CallerSteps
<1>4. SystemTyped'
  BY <1>1, BoundsAssumption DEF Receive, SystemTyped, row, stripe, mail
<1>5. /\ pc' \in [Callers -> CallerSteps] /\ again' \in [Callers -> BOOLEAN]
      /\ held' \in [Callers -> Sessions \cup {None}]
      /\ kind' \in [Callers -> EventTypes \cup {"none"}]
  BY <1>1, <1>2, <1>3 DEF Receive, Goto, CallersTyped
<1>6. \A d \in Callers \ {h} : pc'[d] = pc[d] /\ held'[d] = held[d] /\ kind'[d] = kind[d]
  BY <1>1 DEF Receive, Goto, CallersTyped
<1>7. held'[h] = e[2] /\ kind'[h] = e[1]
  BY <1>1 DEF Receive, CallersTyped
<1>8. OfHooks'
  BY <1>1, <1>6 DEF OfHooks, CallersTyped
<1>9. HaveEvents'
  BY <1>1, <1>2, <1>6, <1>7 DEF HaveEvents, CallersTyped, Callers
<1>10. QED
  BY <1>4, <1>5, <1>8, <1>9, TypeInvPartsNext DEF CallersTyped

\* The webhook's writes and its answer.
LEMMA HookTyped ==
  ASSUME TypeInv, NEW h \in Callers, Hook(h)
  PROVE  TypeInv'
<1>1. SystemTyped /\ CallersTyped
  BY TypeInvParts
<1>2. pc[h] \in {"markPaid", "markFailed", "markRefunded", "ok"}
  BY DEF Hook, MarkPaid, MarkFailed, MarkRefunded, Answer
<1>3. h \in Hooks
  BY <1>1, <1>2 DEF CallersTyped, OfHooks
<1>4. held[h] \in Sessions /\ kind[h] \in EventTypes
  BY <1>1, <1>2, <1>3 DEF CallersTyped, HaveEvents
<1>5. SystemTyped'
  <2>1. CASE MarkPaid(h)
    BY <1>1, <1>4, <2>1 DEF MarkPaid, SystemTyped, Pay, stripe, mail
  <2>2. CASE MarkFailed(h)
    BY <1>1, <2>2 DEF MarkFailed, SystemTyped, Pay, stripe, mail
  <2>3. CASE MarkRefunded(h)
    BY <1>1, <2>3 DEF MarkRefunded, SystemTyped, Pay, stripe, mail
  <2>4. CASE Answer(h)
    <3>1. <<kind[h], held[h]>> \in Events
      BY <1>4 DEF Events
    <3>2. inbox' \subseteq Events /\ answered' \subseteq Events
      BY <1>1, <2>4, <3>1 DEF Answer, SystemTyped
    <3>3. QED
      BY <1>1, <2>4, <3>2 DEF Answer, SystemTyped, row, stripe
  <2>5. QED
    BY <2>1, <2>2, <2>3, <2>4 DEF Hook
<1>6. CallersTyped'
  <2>1. CASE Answer(h)
    BY <1>1, <2>1, LeaveTyped DEF Answer
  <2>2. CASE MarkPaid(h) \/ MarkFailed(h) \/ MarkRefunded(h)
    <3>1. PICK l \in CallerSteps : Goto(h, l)
      BY <2>2, StepNames DEF MarkPaid, MarkFailed, MarkRefunded
    <3>2. UNCHANGED local /\ pc[h] # "idle"
      BY <2>2, <1>2 DEF MarkPaid, MarkFailed, MarkRefunded
    <3>3. QED
      BY <1>1, <1>3, <3>1, <3>2, GotoTyped
  <2>3. QED
    BY <2>1, <2>2 DEF Hook
<1>7. QED
  BY <1>5, <1>6, TypeInvPartsNext

\* The checkout's calls.
LEMMA BrowseTyped ==
  ASSUME TypeInv, NEW b \in Callers, Browse(b)
  PROVE  TypeInv'
<1>1. SystemTyped /\ CallersTyped
  BY TypeInvParts
<1>2. pc[b] \in {"bypass", "retrieve", "create", "store"}
  BY DEF Browse, Bypass, Retrieve, Create, Store
<1>3. CASE Bypass(b)
  <2>1. SystemTyped'
    BY <1>1, <1>3 DEF Bypass, SystemTyped, Pay, stripe, mail
  <2>2. CallersTyped'
    BY <1>1, <1>2, <1>3, StepNames, GotoTyped DEF Bypass
  <2>3. QED
    BY <2>1, <2>2, TypeInvPartsNext
<1>4. CASE Retrieve(b)
  <2>1. SystemTyped'
    BY <1>1, <1>4, BoundsAssumption DEF Retrieve, SystemTyped, row, stripe, mail
  <2>2. CallersTyped'
    BY <1>1, <1>2, <1>4, StepNames, GotoTyped, LeaveTyped DEF Retrieve
  <2>3. QED
    BY <2>1, <2>2, TypeInvPartsNext
<1>5. CASE Create(b)
  <2>1. SystemTyped'
    BY <1>1, <1>5 DEF Create, SystemTyped, row, mail
  <2>2. CASE Leave(b)
    BY <1>1, <2>1, <2>2, LeaveTyped, TypeInvPartsNext
  <2>3. CASE \E s \in Sessions : held' = [held EXCEPT ![b] = s] /\ Goto(b, "store") /\ UNCHANGED <<again, kind>>
    <3>1. PICK s \in Sessions : held' = [held EXCEPT ![b] = s] /\ Goto(b, "store") /\ UNCHANGED <<again, kind>>
      BY <2>3
    <3>2. \A d \in Callers \ {b} : pc'[d] = pc[d] /\ held'[d] = held[d]
      BY <1>1, <3>1 DEF Goto, CallersTyped
    <3>3. pc'[b] = "store" /\ held'[b] = s
      BY <1>1, <3>1 DEF Goto, CallersTyped
    <3>4. /\ pc' \in [Callers -> CallerSteps] /\ again' = again /\ kind' = kind
          /\ held' \in [Callers -> Sessions \cup {None}]
      BY <1>1, <3>1, StepNames DEF Goto, CallersTyped
    <3>5. OfHooks' /\ HaveEvents'
      BY <1>1, <1>2, <3>2, <3>3, <3>4 DEF OfHooks, HaveEvents, CallersTyped, Callers
    <3>6. QED
      BY <1>1, <2>1, <3>4, <3>5, TypeInvPartsNext DEF CallersTyped
  <2>4. CASE key # None /\ held' = [held EXCEPT ![b] = key] /\ Goto(b, "store") /\ UNCHANGED <<again, kind>>
    <3>1. key \in Sessions
      BY <1>1, <2>4 DEF SystemTyped
    <3>2. QED
      BY <2>3, <2>4, <3>1
  <2>5. QED
    BY <1>5, <2>2, <2>3, <2>4 DEF Create
<1>6. CASE Store(b)
  <2>1. SystemTyped'
    BY <1>1, <1>6 DEF Store, SystemTyped, CallersTyped, stripe, mail
  <2>2. CallersTyped'
    BY <1>1, <1>6, LeaveTyped DEF Store
  <2>3. QED
    BY <2>1, <2>2, TypeInvPartsNext
<1>7. QED
  BY <1>3, <1>4, <1>5, <1>6 DEF Browse

LEMMA EnqueueTyped ==
  ASSUME TypeInv, NEW c \in Callers, Enqueue(c) \/ Publish(c)
  PROVE  TypeInv'
<1>1. SystemTyped /\ CallersTyped
  BY TypeInvParts
<1>2. CASE Enqueue(c)
  <2>1. SystemTyped'
    BY <1>1, <1>2 DEF Enqueue, SystemTyped, row, stripe, mail
  <2>2. CallersTyped'
    BY <1>1, <1>2, StepNames, GotoTyped, LeaveTyped, FinishTyped DEF Enqueue
  <2>3. QED
    BY <2>1, <2>2, TypeInvPartsNext
<1>3. CASE Publish(c)
  <2>1. published' \in 0..PublishCap
    BY <1>1, <1>3, BoundsAssumption DEF Publish, SystemTyped
  <2>2. SystemTyped'
    BY <1>1, <1>3, <2>1 DEF Publish, SystemTyped, row, stripe, mail
  <2>3. CallersTyped'
    BY <1>1, <1>3, FinishTyped DEF Publish
  <2>4. QED
    BY <2>2, <2>3, TypeInvPartsNext
<1>4. QED
  BY <1>2, <1>3

LEMMA CheckoutTyped ==
  ASSUME TypeInv, NEW b \in Buyers, Checkout(b)
  PROVE  TypeInv'
<1>1. SystemTyped /\ CallersTyped /\ b \in Callers
  BY TypeInvParts DEF Callers
<1>2. b \notin Hooks
  BY CallersDiffer
<1>3. SystemTyped'
  <2>1. drops' \in 0..MaxDrops /\ stamped' \in BOOLEAN
    <3>1. CASE stamped' = TRUE /\ drops' = drops
      BY <1>1, <3>1 DEF SystemTyped
    <3>2. CASE drops < MaxDrops /\ drops' = drops + 1 /\ stamped' = stamped
      BY <1>1, <3>2, BoundsAssumption DEF SystemTyped
    <3>3. QED
      BY <3>1, <3>2 DEF Checkout
  <2>2. QED
    BY <1>1, <2>1 DEF Checkout, SystemTyped, stripe, mail
<1>4. PICK l \in {"bypass", "retrieve", "create"} : Goto(b, l)
  BY DEF Checkout
<1>5. \A d \in Callers \ {b} : pc'[d] = pc[d] /\ held'[d] = held[d]
  BY <1>1 DEF Checkout, Goto, CallersTyped
<1>6. pc'[b] = l
  BY <1>1, <1>4 DEF Goto, CallersTyped
<1>7. /\ pc' \in [Callers -> CallerSteps] /\ again' = again /\ kind' = kind
      /\ held' \in [Callers -> Sessions \cup {None}]
  BY <1>1, <1>4, StepNames DEF Checkout, Goto, CallersTyped, SystemTyped
<1>8. OfHooks' /\ HaveEvents'
  BY <1>1, <1>2, <1>5, <1>6, <1>7 DEF OfHooks, HaveEvents, CallersTyped, Callers
<1>9. QED
  BY <1>1, <1>3, <1>7, <1>8, TypeInvPartsNext DEF CallersTyped

LEMMA RestTyped ==
  ASSUME TypeInv, ForgetKey \/ Claim \/ (\E c \in Callers : Drop(c)) \/ UNCHANGED vars
  PROVE  TypeInv'
<1>1. SystemTyped /\ CallersTyped
  BY TypeInvParts
<1>2. CASE ForgetKey
  BY <1>1, <1>2, StayTyped, TypeInvPartsNext DEF ForgetKey, SystemTyped, row, mail
<1>3. CASE Claim
  BY <1>1, <1>3, StayTyped, TypeInvPartsNext DEF Claim, SystemTyped, stripe, mail
<1>4. ASSUME NEW c \in Callers, Drop(c)
      PROVE  TypeInv'
  <2>1. SystemTyped'
    BY <1>1, <1>4, BoundsAssumption DEF Drop, SystemTyped, row, stripe, mail
  <2>2. CallersTyped'
    BY <1>1, <1>4, LeaveTyped DEF Drop
  <2>3. QED
    BY <2>1, <2>2, TypeInvPartsNext
<1>5. CASE UNCHANGED vars
  BY <1>1, <1>5, StayTyped, TypeInvPartsNext DEF vars, SystemTyped, row, stripe, mail
<1>6. QED
  BY <1>2, <1>3, <1>4, <1>5

LEMMA StepTyped == TypeInv /\ [Next]_vars => TypeInv'
<1> SUFFICES ASSUME TypeInv, [Next]_vars PROVE TypeInv'
  OBVIOUS
<1>1. CASE \E c \in Callers : Handle(c)
  BY <1>1, HookTyped, BrowseTyped, EnqueueTyped DEF Handle
<1>2. CASE \E h \in Hooks, e \in Events : Receive(h, e)
  BY <1>2, ReceiveTyped
<1>3. CASE \E b \in Buyers : Checkout(b)
  BY <1>3, CheckoutTyped
<1>4. CASE \E s \in Sessions : PaySession(s) \/ Settle(s) \/ Expire(s) \/ Refund(s)
  BY <1>4, StripeTyped
<1>5. CASE ForgetKey \/ Claim \/ (\E c \in Callers : Drop(c)) \/ UNCHANGED vars
  BY <1>5, RestTyped
<1>6. QED
  BY <1>1, <1>2, <1>3, <1>4, <1>5 DEF Next

\* The invariant behind TypeOK holds in every behaviour.
THEOREM Typed == Spec => []TypeInv
BY InitTyped, StepTyped, PTL DEF Spec

\* However many sessions, handlers, faults and repeated events there are, the
\* row, Stripe's records and every handler's locals keep their shape.
THEOREM TypeCorrect == Spec => []TypeOK
<1>1. TypeInv => TypeOK
  BY DEF TypeInv
<1>2. QED
  BY Typed, <1>1, PTL
-----------------------------------------------------------------------------
(* Stripe's sessions.                                                      *)

\* The idempotency key remembers the only open session, and nobody has paid
\* in a session that is not complete.
SessionInv ==
  \A s \in Sessions :
    /\ sess[s] = "open" => key = s
    /\ sess[s] \in {"none", "open", "expired"} => money[s] = "none"

LEMMA StripeSessions ==
  ASSUME TypeInv, SessionInv, NEW s \in Sessions,
         PaySession(s) \/ Settle(s) \/ Expire(s) \/ Refund(s)
  PROVE  SessionInv'
<1>1. /\ sess \in [Sessions -> {"none", "open", "complete", "expired"}]
      /\ money \in [Sessions -> {"none", "processing", "paid", "declined", "refunded"}]
  BY DEF TypeInv, TypeOK
<1>2. key' = key
  BY DEF PaySession, Settle, Expire, Refund
<1>3. \A t \in Sessions \ {s} : sess'[t] = sess[t] /\ money'[t] = money[t]
  BY <1>1 DEF PaySession, Settle, Expire, Refund
<1>4. /\ sess'[s] \notin {"none", "open"}
      /\ sess'[s] = "expired" => money'[s] = "none"
  BY <1>1 DEF PaySession, Settle, Expire, Refund, SessionInv
<1>5. QED
  BY <1>2, <1>3, <1>4 DEF SessionInv

\* A session is created only while the key remembers none.
LEMMA CreateSessions ==
  ASSUME TypeInv, SessionInv, NEW b \in Callers, Create(b)
  PROVE  SessionInv'
<1>1. sess \in [Sessions -> {"none", "open", "complete", "expired"}] /\ None \notin Sessions
  BY CallersDiffer DEF TypeInv, TypeOK
<1>2. money' = money
  BY DEF Create
<1>3. CASE key = None /\ \E s \in Sessions :
             sess[s] = "none" /\ sess' = [sess EXCEPT ![s] = "open"] /\ key' = s
  BY <1>1, <1>2, <1>3 DEF SessionInv
<1>4. CASE UNCHANGED <<sess, key>>
  BY <1>2, <1>4 DEF SessionInv
<1>5. QED
  BY <1>3, <1>4 DEF Create

LEMMA StepSessions == TypeInv /\ SessionInv /\ [Next]_vars => SessionInv'
<1> SUFFICES ASSUME TypeInv, SessionInv, [Next]_vars PROVE SessionInv'
  OBVIOUS
<1>1. CASE \E s \in Sessions : PaySession(s) \/ Settle(s) \/ Expire(s) \/ Refund(s)
  BY <1>1, StripeSessions
<1>2. CASE \E b \in Callers : Create(b)
  BY <1>2, CreateSessions
<1>3. CASE ForgetKey
  BY <1>3 DEF ForgetKey, SessionInv
<1>4. CASE UNCHANGED stripe
  BY <1>4 DEF stripe, SessionInv
<1>5. ASSUME NEW c \in Callers, Handle(c), ~Create(c)
      PROVE  UNCHANGED stripe
  BY <1>5 DEF Handle, Hook, Browse, MarkPaid, MarkFailed, MarkRefunded, Answer,
              Bypass, Retrieve, Store, Enqueue, Publish
<1>6. ASSUME NEW c \in Callers, Drop(c)
      PROVE  UNCHANGED stripe
  BY <1>6 DEF Drop
<1>7. ASSUME \/ \E h \in Hooks, e \in Events : Receive(h, e)
             \/ \E b \in Buyers : Checkout(b)
             \/ Claim \/ UNCHANGED vars
      PROVE  UNCHANGED stripe
  BY <1>7 DEF Receive, Checkout, Claim, vars
<1>8. QED
  BY <1>1, <1>2, <1>3, <1>4, <1>5, <1>6, <1>7 DEF Next

\* The idempotency key and the sessions agree in every behaviour.
THEOREM SessionsHold == Spec => []SessionInv
<1>1. Init => SessionInv
  BY DEF Init, SessionInv
<1>2. QED
  BY Typed, <1>1, StepSessions, PTL DEF Spec

\* However many buyers' tabs call POST /api/checkout, and whatever fails in
\* between, at most one Checkout Session of the run is open.
THEOREM OneSession == Spec => []OneOpenSession
<1>1. SessionInv => OneOpenSession
  BY DEF SessionInv, OneOpenSession
<1>2. QED
  BY SessionsHold, <1>1, PTL

-----------------------------------------------------------------------------
(* The paywall.  Every piece of state that leads to a dispatch rests on a  *)
(* session whose money was taken: events, what handlers hold, the row.     *)

PaidEventsTaken ==
  \A e \in inbox \cup answered :
    e[1] \in PaidEvents \cup {"refunded"} => e[2] \in Taken

\* A webhook keeps a paid event of a paid session, also once another one has
\* answered that event.  One about to mark the run paid holds a session that was paid; one
\* about to mark it refunded has found its intent.
HooksHoldPaid ==
  /\ \A h \in Hooks : pc[h] # "idle" /\ kind[h] \in PaidEvents \cup {"refunded"} => held[h] \in Taken
  /\ \A c \in Callers :
       /\ pc[c] = "markPaid" => held[c] \in Taken
       /\ pc[c] = "markRefunded" => intent # None
  /\ \A h \in Hooks : pc[h] \notin {"retrieve", "create", "store"}

\* With billing nobody takes the bypass, so pay says paid only with an intent.
PayHasIntent ==
  Billing =>
    /\ \A c \in Callers : pc[c] # "bypass"
    /\ pay \in {"paid", "refunded"} => intent # None
    /\ \A c \in Callers : pc[c] = "publish" => intent # None
    /\ published > 0 => intent # None

PayInv ==
  /\ TypeInv
  /\ intent # None => intent \in Taken
  /\ PaidEventsTaken /\ HooksHoldPaid /\ PayHasIntent

LEMMA InitPaid == Init => PayInv
<1> SUFFICES ASSUME Init PROVE PayInv
  OBVIOUS
<1>1. TypeInv
  BY InitTyped
<1>2. intent = None /\ PaidEventsTaken
  BY DEF Init, PaidEventsTaken
<1>3. HooksHoldPaid
  BY CallersDiffer DEF Init, HooksHoldPaid, Callers
<1>4. PayHasIntent
  BY DEF Init, PayHasIntent, Billing
<1>5. QED
  BY <1>1, <1>2, <1>3, <1>4 DEF PayInv

\* A step of one caller that leaves the row's payment, the publishes and the
\* money alone.
LEMMA QuietStep ==
  ASSUME PayInv, TypeInv', NEW c \in Callers,
         UNCHANGED <<pay, intent, published, money>>, PaidEventsTaken',
         \A d \in Callers \ {c} : pc'[d] = pc[d] /\ held'[d] = held[d] /\ kind'[d] = kind[d],
         c \in Hooks /\ pc'[c] # "idle" /\ kind'[c] \in PaidEvents \cup {"refunded"}
           => held'[c] \in Taken,
         pc'[c] = "markPaid" => held'[c] \in Taken,
         pc'[c] = "markRefunded" => intent # None,
         c \in Hooks => pc'[c] \notin {"retrieve", "create", "store"},
         pc'[c] = "bypass" => ~Billing,
         pc'[c] = "publish" /\ Billing => intent # None
  PROVE  PayInv'
<1>1. Taken' = Taken
  BY DEF Taken
<1>2. HooksHoldPaid'
  BY <1>1 DEF PayInv, HooksHoldPaid, Callers
<1>3. PayHasIntent'
  BY DEF PayInv, PayHasIntent
<1>4. QED
  BY <1>1, <1>2, <1>3 DEF PayInv

\* No new mail, or mail its handler had.
LEMMA SameMail ==
  ASSUME PayInv, UNCHANGED <<money, mail>>
  PROVE  PaidEventsTaken'
<1>1. Taken' = Taken
  BY DEF Taken
<1>2. QED
  BY <1>1 DEF PayInv, PaidEventsTaken, mail

\* Leaving and finishing move one caller only.
LEMMA LeaveMoves ==
  ASSUME CallersTyped, NEW c \in Callers, Leave(c) \/ Finish(c)
  PROVE  /\ \A d \in Callers \ {c} : pc'[d] = pc[d] /\ held'[d] = held[d] /\ kind'[d] = kind[d]
         /\ pc'[c] = "idle" \/ (pc'[c] = "ok" /\ held' = held /\ kind' = kind)
<1>1. CASE Leave(c)
  <2>1. pc'[c] = "idle"
    BY <1>1 DEF Leave, Goto, CallersTyped
  <2>2. \A d \in Callers \ {c} : pc'[d] = pc[d] /\ held'[d] = held[d] /\ kind'[d] = kind[d]
    BY <1>1 DEF Leave, Goto, CallersTyped
  <2>3. QED
    BY <2>1, <2>2
<1>2. CASE Goto(c, "ok") /\ UNCHANGED local
  BY <1>2 DEF Goto, CallersTyped, local
<1>3. QED
  BY <1>1, <1>2 DEF Finish

\* A caller that leaves enqueueRun, the checkout or a failing handler.
LEMMA LeaveStep ==
  ASSUME PayInv, TypeInv', NEW c \in Callers,
         UNCHANGED <<pay, intent, published, money>>, PaidEventsTaken',
         pc[c] # "idle",
         Leave(c) \/ Finish(c)
  PROVE  PayInv'
<1>1. CallersTyped
  BY TypeInvCallers DEF PayInv
<1>2. \A d \in Callers \ {c} : pc'[d] = pc[d] /\ held'[d] = held[d] /\ kind'[d] = kind[d]
  BY <1>1, LeaveMoves
<1>3. pc'[c] = "idle" \/ (pc'[c] = "ok" /\ held' = held /\ kind' = kind)
  BY <1>1, LeaveMoves
<1>4. c \in Hooks /\ pc'[c] # "idle" /\ kind'[c] \in PaidEvents \cup {"refunded"} => held'[c] \in Taken
  BY <1>3 DEF PayInv, HooksHoldPaid
<1>5. QED
  BY <1>2, <1>3, <1>4, QuietStep

LEMMA AnswerPaid ==
  ASSUME PayInv, TypeInv', NEW h \in Hooks, Answer(h)
  PROVE  PayInv'
<1>1. h \in Callers /\ pc[h] = "ok"
  BY DEF Callers, Answer
<1>2. Taken' = Taken
  BY DEF Taken, Answer, stripe
<1>3. \A e \in inbox' \cup answered' :
        e \in inbox \cup answered \/ e = <<kind[h], held[h]>>
  BY DEF Answer
<1>4. kind[h] \in PaidEvents \cup {"refunded"} => held[h] \in Taken
  BY <1>1 DEF PayInv, HooksHoldPaid
<1>5. PaidEventsTaken'
  BY <1>2, <1>3, <1>4 DEF PayInv, PaidEventsTaken
<1>6. QED
  BY <1>1, <1>5, LeaveStep DEF Answer, row, stripe

\* The webhook's writes.
LEMMA HookPaid ==
  ASSUME PayInv, TypeInv', NEW h \in Callers, Hook(h)
  PROVE  PayInv'
<1>1. CallersTyped
  BY TypeInvCallers DEF PayInv
<1>2. h \in Hooks
  BY <1>1 DEF Hook, MarkPaid, MarkFailed, MarkRefunded, Answer, CallersTyped, OfHooks
<1>3. CASE Answer(h)
  BY <1>2, <1>3, AnswerPaid
<1>4. CASE MarkPaid(h) \/ MarkFailed(h) \/ MarkRefunded(h)
  <2>1. Taken' = Taken /\ PaidEventsTaken'
    BY <1>4, SameMail DEF Taken, MarkPaid, MarkFailed, MarkRefunded, stripe
  <2>2. \A d \in Callers \ {h} : pc'[d] = pc[d]
    BY <1>1, <1>4 DEF MarkPaid, MarkFailed, MarkRefunded, Goto, CallersTyped
  <2>3. pc'[h] \in {"enqueue", "ok"} /\ pc[h] # "idle" /\ held' = held /\ kind' = kind
    BY <1>1, <1>4 DEF MarkPaid, MarkFailed, MarkRefunded, Goto, CallersTyped, local
  <2>4. intent # None => intent' # None
    <3>1. CASE MarkPaid(h)
      <4>1. held[h] \in Taken
        BY <3>1 DEF MarkPaid, PayInv, HooksHoldPaid
      <4>2. QED
        BY <3>1, <4>1, CallersDiffer DEF MarkPaid, Taken
    <3>2. CASE MarkFailed(h) \/ MarkRefunded(h)
      BY <3>2 DEF MarkFailed, MarkRefunded
    <3>3. QED
      BY <1>4, <3>1, <3>2
  <2>5. HooksHoldPaid'
    BY <2>1, <2>2, <2>3, <2>4 DEF PayInv, HooksHoldPaid, Callers
  <2>6. pay' \in {"paid", "refunded"} => intent' # None
    <3>1. CASE MarkPaid(h)
      <4>1. held[h] \in Taken
        BY <3>1 DEF MarkPaid, PayInv, HooksHoldPaid
      <4>2. QED
        BY <3>1, <4>1, CallersDiffer DEF MarkPaid, Taken
    <3>2. CASE MarkFailed(h)
      BY <3>2 DEF MarkFailed
    <3>3. CASE MarkRefunded(h)
      BY <3>3 DEF MarkRefunded, PayInv, HooksHoldPaid
    <3>4. QED
      BY <1>4, <3>1, <3>2, <3>3
  <2>7. published' = published
    BY <1>4 DEF MarkPaid, MarkFailed, MarkRefunded
  <2>8. PayHasIntent'
    BY <2>2, <2>3, <2>4, <2>6, <2>7 DEF PayInv, PayHasIntent
  <2>9. intent' # None => intent' \in Taken'
    <3>1. CASE MarkPaid(h)
      BY <2>1, <3>1 DEF MarkPaid, PayInv, HooksHoldPaid
    <3>2. CASE MarkFailed(h) \/ MarkRefunded(h)
      BY <2>1, <3>2 DEF MarkFailed, MarkRefunded, PayInv
    <3>3. QED
      BY <1>4, <3>1, <3>2
  <2>10. QED
    BY <2>1, <2>5, <2>8, <2>9 DEF PayInv
<1>5. QED
  BY <1>3, <1>4 DEF Hook

\* An event leads to markPaid only if it is about a paid session, and to
\* markRefunded only if its intent is the run's.
LEMMA ReceivePaid ==
  ASSUME PayInv, TypeInv', NEW h \in Hooks, NEW e \in Events, Receive(h, e)
  PROVE  PayInv'
<1>1. CallersTyped /\ h \in Callers
  BY TypeInvCallers DEF PayInv, Callers
<1>2. e \in inbox \cup answered /\ e[2] \in Sessions
  BY DEF Receive, Events
<1>3. e[1] \in PaidEvents \cup {"refunded"} => e[2] \in Taken
  BY <1>2 DEF PayInv, PaidEventsTaken
<1>4. \A d \in Callers \ {h} : pc'[d] = pc[d] /\ held'[d] = held[d] /\ kind'[d] = kind[d]
  BY <1>1 DEF Receive, Goto, CallersTyped
<1>5. held'[h] = e[2] /\ kind'[h] = e[1] /\ pc'[h] = AfterFind(e[1], e[2])
  BY <1>1 DEF Receive, Goto, CallersTyped
<1>6. AfterFind(e[1], e[2]) \in {"ok", "markFailed", "enqueue", "markPaid", "markRefunded"}
  BY DEF AfterFind, OnPaid, OnFailed, OnRefund
<1>7. AfterFind(e[1], e[2]) = "markPaid" => e[1] \in PaidEvents
  BY DEF AfterFind, OnPaid, OnFailed, OnRefund, MoneyMoved
<1>8. AfterFind(e[1], e[2]) = "markRefunded" => intent # None
  BY <1>2, CallersDiffer DEF AfterFind, OnPaid, OnFailed, OnRefund
<1>9. UNCHANGED <<pay, intent, published, money, mail>>
  BY DEF Receive, row, stripe
<1>10. PaidEventsTaken'
  BY <1>9, SameMail
<1>11. QED
  BY <1>1, <1>3, <1>4, <1>5, <1>6, <1>7, <1>8, <1>9, <1>10, QuietStep

\* enqueueRun publishes what it has read paid.
LEMMA EnqueuePaid ==
  ASSUME PayInv, TypeInv', NEW c \in Callers, Enqueue(c) \/ Publish(c)
  PROVE  PayInv'
<1>1. CallersTyped
  BY TypeInvCallers DEF PayInv
<1>2. UNCHANGED <<pay, intent, money, mail>> /\ PaidEventsTaken' /\ pc[c] # "idle"
  BY SameMail DEF Enqueue, Publish, row, stripe
<1>3. CASE Enqueue(c)
  <2>1. published' = published
    BY <1>3 DEF Enqueue
  <2>2. CASE Leave(c) \/ Finish(c)
    BY <1>2, <2>1, <2>2, LeaveStep
  <2>3. CASE pay = "paid" /\ Goto(c, "publish") /\ UNCHANGED local
    <3>1. \A d \in Callers \ {c} : pc'[d] = pc[d] /\ held'[d] = held[d] /\ kind'[d] = kind[d]
      BY <1>1, <2>3 DEF Goto, CallersTyped, local
    <3>2. pc'[c] = "publish" /\ held' = held /\ kind' = kind
      BY <1>1, <2>3 DEF Goto, CallersTyped, local
    <3>3. Billing => intent # None
      BY <2>3 DEF PayInv, PayHasIntent
    <3>4. c \in Hooks /\ kind'[c] \in PaidEvents \cup {"refunded"} => held'[c] \in Taken
      BY <1>2, <3>2 DEF PayInv, HooksHoldPaid
    <3>5. QED
      BY <1>2, <2>1, <3>1, <3>2, <3>3, <3>4, QuietStep
  <2>4. QED
    BY <1>3, <2>2, <2>3 DEF Enqueue
<1>4. CASE Publish(c)
  <2>1. Taken' = Taken
    BY <1>2 DEF Taken
  <2>2. pc'[c] \in {"idle", "ok"} /\ \A d \in Callers \ {c} : pc'[d] = pc[d] /\ held'[d] = held[d] /\ kind'[d] = kind[d]
    BY <1>1, <1>4, LeaveMoves DEF Publish
  <2>3. pc'[c] = "idle" \/ (held' = held /\ kind' = kind)
    BY <1>1, <1>4, LeaveMoves DEF Publish
  <2>4. HooksHoldPaid'
    BY <1>2, <2>1, <2>2, <2>3 DEF PayInv, HooksHoldPaid, Callers
  <2>5. Billing => intent # None
    BY <1>4 DEF Publish, PayInv, PayHasIntent
  <2>6. PayHasIntent'
    BY <1>2, <2>2, <2>5 DEF PayInv, PayHasIntent
  <2>7. QED
    BY <1>2, <2>1, <2>4, <2>6 DEF PayInv
<1>5. QED
  BY <1>3, <1>4

\* The checkout's calls: with billing the bypass is out of reach.
LEMMA BrowsePaid ==
  ASSUME PayInv, TypeInv', NEW b \in Callers, Browse(b)
  PROVE  PayInv'
<1>1. CallersTyped
  BY TypeInvCallers DEF PayInv
<1>2. UNCHANGED <<published, money, mail, intent>> /\ PaidEventsTaken' /\ Taken' = Taken
  BY SameMail DEF Browse, Bypass, Retrieve, Create, Store, row, stripe, Taken
<1>3. pc[b] \in {"bypass", "retrieve", "create", "store"}
  BY DEF Browse, Bypass, Retrieve, Create, Store
<1>4. CASE Bypass(b)
  <2>1. ~Billing
    BY <1>4 DEF Bypass, PayInv, PayHasIntent
  <2>2. \A d \in Callers \ {b} : pc'[d] = pc[d]
    BY <1>1, <1>4 DEF Bypass, Goto, CallersTyped
  <2>3. pc'[b] = "enqueue" /\ held' = held /\ kind' = kind
    BY <1>1, <1>4 DEF Bypass, Goto, CallersTyped, local
  <2>4. HooksHoldPaid'
    BY <1>2, <1>3, <2>2, <2>3 DEF PayInv, HooksHoldPaid, Callers
  <2>5. QED
    BY <1>2, <2>1, <2>4 DEF PayInv, PayHasIntent
<1>5. CASE Retrieve(b) \/ Create(b) \/ Store(b)
  <2>1. pay' = pay
    BY <1>5 DEF Retrieve, Create, Store, row
  <2>2. CASE Leave(b)
    BY <1>2, <1>3, <2>1, <2>2, LeaveStep
  <2>3. CASE \E l \in {"create", "store"} : Goto(b, l) /\ kind' = kind
             /\ \A d \in Callers \ {b} : held'[d] = held[d]
    <3>1. b \notin Hooks
      BY <1>5 DEF Retrieve, Create, Store, PayInv, HooksHoldPaid
    <3>2. QED
      BY <1>1, <1>2, <2>1, <2>3, <3>1, QuietStep DEF Goto, CallersTyped
  <2>4. QED
    BY <1>1, <1>5, <2>2, <2>3 DEF Retrieve, Create, Store, CallersTyped, local
<1>6. QED
  BY <1>4, <1>5 DEF Browse

LEMMA CheckoutPaid ==
  ASSUME PayInv, TypeInv', NEW b \in Buyers, Checkout(b)
  PROVE  PayInv'
<1>1. CallersTyped /\ b \in Callers /\ b \notin Hooks
  BY TypeInvCallers, CallersDiffer DEF PayInv, Callers
<1>2. UNCHANGED <<pay, intent, published, money, mail, kind>> /\ PaidEventsTaken'
  BY SameMail DEF Checkout, stripe
<1>3. \A d \in Callers \ {b} : pc'[d] = pc[d] /\ held'[d] = held[d]
  BY <1>1 DEF Checkout, Goto, CallersTyped
<1>4. pc'[b] \in {"retrieve", "create"} \/ (pc'[b] = "bypass" /\ ~Billing)
  <2>1. PICK l \in CallerSteps : Goto(b, l) /\ (l \in {"retrieve", "create"} \/ (l = "bypass" /\ ~Billing))
    BY StepNames DEF Checkout, Billing
  <2>2. pc'[b] = l
    BY <1>1, <2>1 DEF Goto, CallersTyped
  <2>3. QED
    BY <2>1, <2>2
<1>5. QED
  BY <1>1, <1>2, <1>3, <1>4, QuietStep

\* Money is never given back to a session as if it had not been taken.
LEMMA StripePaid ==
  ASSUME PayInv, TypeInv', SessionInv, NEW s \in Sessions,
         PaySession(s) \/ Settle(s) \/ Expire(s) \/ Refund(s)
  PROVE  PayInv'
<1>1. money \in [Sessions -> {"none", "processing", "paid", "declined", "refunded"}]
  BY DEF PayInv, TypeInv, TypeOK
<1>2. UNCHANGED <<pay, intent, published, pc, held, kind>>
  BY DEF PaySession, Settle, Expire, Refund, row, local
<1>3. PICK e \in Events :
        /\ inbox' = inbox \cup {e} /\ answered' = answered
        /\ e[1] \in PaidEvents \cup {"refunded"} => e[2] \in Taken'
  <2>1. {"completed", "unpaid", "asyncPaid", "asyncFailed", "expired", "refunded"} \subseteq EventTypes
    BY DEF EventTypes, PaidEvents, FailEvents
  <2>2. \A type \in EventTypes : /\ <<type, s>> \in Events
                                /\ <<type, s>>[1] = type /\ <<type, s>>[2] = s
    BY DEF Events
  <2>3. money'[s] \in {"paid", "refunded"} => s \in Taken'
    BY DEF Taken
  <2>4. CASE money'[s] \in {"paid", "refunded"}
    <3>1. PICK type \in EventTypes : Send(<<type, s>>)
      BY <2>1 DEF PaySession, Settle, Expire, Refund
    <3>2. QED
      BY <2>2, <2>3, <2>4, <3>1 DEF Send
  <2>5. CASE money'[s] \notin {"paid", "refunded"}
    <3>1. PICK type \in {"unpaid", "asyncFailed", "expired"} : Send(<<type, s>>)
      BY <1>1, <2>5 DEF PaySession, Settle, Expire, Refund
    <3>2. type \in EventTypes /\ type \notin PaidEvents \cup {"refunded"}
      BY <2>1 DEF PaidEvents
    <3>3. QED
      BY <2>2, <3>1, <3>2 DEF Send
  <2>6. QED
    BY <2>4, <2>5
<1>4. Taken \subseteq Taken'
  <2>1. \A t \in Sessions : money'[t] = money[t] \/ t = s
    BY <1>1 DEF PaySession, Settle, Expire, Refund
  <2>2. s \in Taken => s \in Taken'
    <3>1. CASE PaySession(s)
      BY <1>1, <3>1 DEF PaySession, Taken, SessionInv
    <3>2. CASE Settle(s)
      BY <1>1, <3>2 DEF Settle, Taken
    <3>3. CASE Expire(s) \/ Refund(s)
      BY <1>1, <3>3 DEF Expire, Refund, Taken
    <3>4. QED
      BY <3>1, <3>2, <3>3
  <2>3. QED
    BY <2>1, <2>2 DEF Taken
<1>5. PaidEventsTaken'
  BY <1>3, <1>4 DEF PayInv, PaidEventsTaken
<1>6. HooksHoldPaid'
  BY <1>2, <1>4 DEF PayInv, HooksHoldPaid
<1>7. PayHasIntent'
  BY <1>2 DEF PayInv, PayHasIntent
<1>8. QED
  BY <1>2, <1>4, <1>5, <1>6, <1>7 DEF PayInv

LEMMA RestPaid ==
  ASSUME PayInv, TypeInv', ForgetKey \/ Claim \/ (\E c \in Callers : Drop(c)) \/ UNCHANGED vars
  PROVE  PayInv'
<1>1. UNCHANGED <<pay, intent, published, money, mail>> /\ PaidEventsTaken' /\ Taken' = Taken
  BY SameMail DEF ForgetKey, Claim, Drop, vars, row, stripe, Taken
<1>2. CASE \E c \in Callers : Drop(c)
  BY <1>1, <1>2, LeaveStep DEF Drop
<1>3. CASE UNCHANGED <<pc, local>>
  <2>1. HooksHoldPaid'
    BY <1>1, <1>3 DEF PayInv, HooksHoldPaid, local
  <2>2. PayHasIntent'
    BY <1>1, <1>3 DEF PayInv, PayHasIntent
  <2>3. QED
    BY <1>1, <2>1, <2>2 DEF PayInv
<1>4. QED
  BY <1>2, <1>3 DEF ForgetKey, Claim, vars

LEMMA StepPaid == PayInv /\ SessionInv /\ [Next]_vars => PayInv'
<1> SUFFICES ASSUME PayInv, SessionInv, [Next]_vars PROVE PayInv'
  OBVIOUS
<1>1. TypeInv'
  BY StepTyped DEF PayInv
<1>2. CASE \E c \in Callers : Handle(c)
  BY <1>1, <1>2, HookPaid, BrowsePaid, EnqueuePaid DEF Handle
<1>3. CASE \E h \in Hooks, e \in Events : Receive(h, e)
  BY <1>1, <1>3, ReceivePaid
<1>4. CASE \E b \in Buyers : Checkout(b)
  BY <1>1, <1>4, CheckoutPaid
<1>5. CASE \E s \in Sessions : PaySession(s) \/ Settle(s) \/ Expire(s) \/ Refund(s)
  BY <1>1, <1>5, StripePaid
<1>6. CASE ForgetKey \/ Claim \/ (\E c \in Callers : Drop(c)) \/ UNCHANGED vars
  BY <1>1, <1>6, RestPaid
<1>7. QED
  BY <1>2, <1>3, <1>4, <1>5, <1>6 DEF Next

\* The invariant behind the paywall holds in every behaviour.
THEOREM PaywallHolds == Spec => []PayInv
BY InitPaid, StepPaid, SessionsHold, PTL DEF Spec

\* With billing on, no order of events, retries and races of any number of
\* handlers publishes a run whose buyer's money was not taken.
THEOREM PaidBeforeRun == Spec => []UnpaidNeverRuns
<1>1. PayInv => UnpaidNeverRuns
  <2> SUFFICES ASSUME PayInv, Billing, published > 0 PROVE Taken # {}
    BY DEF UnpaidNeverRuns
  <2>1. intent # None
    BY DEF PayInv, PayHasIntent
  <2>2. QED
    BY <2>1 DEF PayInv
<1>2. QED
  BY PaywallHolds, <1>1, PTL

\* The intent of a paid or refunded run is always one whose money was taken.
THEOREM IntentWasPaid == Spec => []IntentIsPaid
<1>1. PayInv => IntentIsPaid
  BY DEF PayInv, PayHasIntent, IntentIsPaid
<1>2. QED
  BY PaywallHolds, <1>1, PTL
-----------------------------------------------------------------------------
(* What can undo a paid run.                                               *)

\* The session ended without money.
Unpaid(s) == sess[s] = "expired" \/ money[s] = "declined"

FailedEventsUnpaid ==
  \A e \in inbox \cup answered : e[1] \in FailEvents => Unpaid(e[2])

\* A webhook keeps the failure of a session that ended without money, and marks
\* the run failed only after it found it not paid.
HooksHoldFailed ==
  \A h \in Hooks :
    /\ pc[h] # "idle" /\ kind[h] \in FailEvents => Unpaid(held[h])
    /\ pc[h] = "markFailed" => kind[h] \in FailEvents /\ ~again[h]

FailInv == FailedEventsUnpaid /\ HooksHoldFailed

\* Ended without money is for good.
LEMMA UnpaidStays ==
  ASSUME TypeInv, SessionInv, [Next]_vars, NEW s \in Sessions, Unpaid(s)
  PROVE  Unpaid(s)'
<1>1. /\ sess \in [Sessions -> {"none", "open", "complete", "expired"}]
      /\ money \in [Sessions -> {"none", "processing", "paid", "declined", "refunded"}]
  BY DEF TypeInv, TypeOK
<1>2. CASE \E t \in Sessions : PaySession(t) \/ Settle(t) \/ Expire(t) \/ Refund(t)
  <2>1. PICK t \in Sessions : PaySession(t) \/ Settle(t) \/ Expire(t) \/ Refund(t)
    BY <1>2
  <2>2. CASE t = s
    BY <1>1, <2>1, <2>2 DEF PaySession, Settle, Expire, Refund, Unpaid, SessionInv
  <2>3. CASE t # s
    BY <1>1, <2>1, <2>3 DEF PaySession, Settle, Expire, Refund, Unpaid
  <2>4. QED
    BY <2>2, <2>3
<1>3. CASE \E b \in Callers : Create(b)
  BY <1>1, <1>3 DEF Create, Unpaid
<1>4. CASE UNCHANGED <<sess, money>>
  BY <1>4 DEF Unpaid
<1>5. ASSUME NEW c \in Callers, Handle(c), ~Create(c)
      PROVE  UNCHANGED <<sess, money>>
  BY <1>5 DEF Handle, Hook, Browse, MarkPaid, MarkFailed, MarkRefunded, Answer,
              Bypass, Retrieve, Store, Enqueue, Publish, stripe
<1>6. ASSUME \/ \E c \in Callers : Drop(c)
             \/ \E h \in Hooks, e \in Events : Receive(h, e)
             \/ \E b \in Buyers : Checkout(b)
             \/ ForgetKey \/ Claim \/ UNCHANGED vars
      PROVE  UNCHANGED <<sess, money>>
  BY <1>6 DEF Drop, Receive, Checkout, ForgetKey, Claim, vars, stripe
<1>7. QED
  BY <1>2, <1>3, <1>4, <1>5, <1>6 DEF Next

\* Stripe says that a session failed only when it has ended without money.
LEMMA StripeFails ==
  ASSUME TypeInv, NEW s \in Sessions,
         PaySession(s) \/ Settle(s) \/ Expire(s) \/ Refund(s)
  PROVE  \E e \in Events : /\ inbox' = inbox \cup {e} /\ answered' = answered
                           /\ e[1] \in FailEvents => Unpaid(e[2])'
<1>1. /\ sess \in [Sessions -> {"none", "open", "complete", "expired"}]
      /\ money \in [Sessions -> {"none", "processing", "paid", "declined", "refunded"}]
  BY DEF TypeInv, TypeOK
<1>2. \A type \in EventTypes : /\ <<type, s>> \in Events
                              /\ <<type, s>>[1] = type /\ <<type, s>>[2] = s
  BY DEF Events
<1>3. {"completed", "unpaid", "asyncPaid", "asyncFailed", "expired", "refunded"} \subseteq EventTypes
  BY DEF EventTypes, PaidEvents, FailEvents
<1>4. CASE Unpaid(s)'
  <2>1. PICK type \in EventTypes : Send(<<type, s>>)
    BY <1>3 DEF PaySession, Settle, Expire, Refund
  <2>2. QED
    BY <1>2, <1>4, <2>1 DEF Send
<1>5. CASE ~Unpaid(s)'
  <2>1. PICK type \in {"completed", "unpaid", "asyncPaid", "refunded"} : Send(<<type, s>>)
    BY <1>1, <1>5 DEF PaySession, Settle, Expire, Refund, Unpaid
  <2>2. type \in EventTypes /\ type \notin FailEvents
    BY <1>3 DEF FailEvents
  <2>3. QED
    BY <1>2, <2>1, <2>2 DEF Send
<1>6. QED
  BY <1>4, <1>5

\* A call whose caller leaves, or goes on with the event it has, and is not about
\* to mark the run failed.
LEMMA KeepsFailed ==
  ASSUME TypeInv, FailInv, SessionInv, [Next]_vars, UNCHANGED mail, NEW c \in Callers,
         \A d \in Callers \ {c} :
           /\ pc'[d] = pc[d] /\ held'[d] = held[d]
           /\ kind'[d] = kind[d] /\ again'[d] = again[d],
         \/ pc'[c] = "idle"
         \/ c \notin Hooks
         \/ /\ pc[c] # "idle" /\ pc'[c] # "markFailed"
            /\ held'[c] = held[c] /\ kind'[c] = kind[c]
  PROVE  FailInv'
<1>1. \A h \in Hooks : pc[h] # "idle" => held[h] \in Sessions
  BY DEF TypeInv, HaveEvents
<1>2. \A e \in inbox \cup answered : e[2] \in Sessions
  BY DEF TypeInv, TypeOK, Events
<1>3. FailedEventsUnpaid'
  BY <1>2, UnpaidStays DEF FailInv, FailedEventsUnpaid, mail
<1>4. ASSUME NEW h \in Hooks PROVE
        /\ pc'[h] # "idle" /\ kind'[h] \in FailEvents => Unpaid(held[h])' /\ held'[h] = held[h]
        /\ pc'[h] = "markFailed" => kind'[h] \in FailEvents /\ ~again'[h]
  <2>1. h \in Callers
    BY DEF Callers
  <2>2. CASE h # c
    BY <1>1, <2>1, <2>2, UnpaidStays DEF FailInv, HooksHoldFailed
  <2>3. CASE h = c
    BY <1>1, <2>1, <2>3, UnpaidStays DEF FailInv, HooksHoldFailed
  <2>4. QED
    BY <2>2, <2>3
<1>5. HooksHoldFailed'
  BY <1>4 DEF HooksHoldFailed, Unpaid
<1>6. QED
  BY <1>3, <1>5 DEF FailInv

\* Leaving and finishing in full: the other callers keep all their locals.
LEMMA LeaveKeeps ==
  ASSUME CallersTyped, NEW c \in Callers, Leave(c) \/ Finish(c)
  PROVE  /\ \A d \in Callers \ {c} :
              /\ pc'[d] = pc[d] /\ held'[d] = held[d]
              /\ kind'[d] = kind[d] /\ again'[d] = again[d]
         /\ pc'[c] = "idle" \/ (pc'[c] = "ok" /\ held' = held /\ kind' = kind)
<1>1. CASE Leave(c)
  BY <1>1 DEF Leave, Goto, CallersTyped
<1>2. CASE Goto(c, "ok") /\ UNCHANGED local
  BY <1>2 DEF Goto, CallersTyped, local
<1>3. QED
  BY <1>1, <1>2 DEF Finish

\* A call that leaves, or goes on without looking for another run.
LEMMA CallFails ==
  ASSUME PayInv, FailInv, SessionInv, [Next]_vars, NEW c \in Callers, UNCHANGED mail,
         \/ pc[c] # "idle" /\ (Leave(c) \/ Finish(c))
         \/ \E l \in CallerSteps \ {"markFailed"} :
              pc[c] # "idle" /\ Goto(c, l) /\ UNCHANGED local
         \/ \E l \in CallerSteps :
              /\ c \notin Hooks /\ Goto(c, l) /\ UNCHANGED <<again, kind>>
              /\ \A d \in Callers \ {c} : held'[d] = held[d]
  PROVE  FailInv'
<1>1. CallersTyped /\ TypeInv
  BY TypeInvCallers DEF PayInv
<1>2. CASE pc[c] # "idle" /\ (Leave(c) \/ Finish(c))
  <2>1. /\ \A d \in Callers \ {c} :
             /\ pc'[d] = pc[d] /\ held'[d] = held[d]
             /\ kind'[d] = kind[d] /\ again'[d] = again[d]
        /\ pc'[c] = "idle" \/ (pc'[c] = "ok" /\ held' = held /\ kind' = kind)
    BY <1>1, <1>2, LeaveKeeps
  <2>2. QED
    BY <1>1, <1>2, <2>1, KeepsFailed
<1>3. ASSUME NEW l \in CallerSteps \ {"markFailed"},
             pc[c] # "idle", Goto(c, l), UNCHANGED local
      PROVE  FailInv'
  <2>1. pc'[c] = l /\ \A d \in Callers \ {c} : pc'[d] = pc[d]
    BY <1>1, <1>3 DEF Goto, CallersTyped
  <2>2. held' = held /\ kind' = kind /\ again' = again
    BY <1>3 DEF local
  <2>3. QED
    BY <1>1, <1>3, <2>1, <2>2, KeepsFailed
<1>4. ASSUME NEW l \in CallerSteps, c \notin Hooks, Goto(c, l), UNCHANGED <<again, kind>>,
             \A d \in Callers \ {c} : held'[d] = held[d]
      PROVE  FailInv'
  <2>1. \A d \in Callers \ {c} : pc'[d] = pc[d]
    BY <1>1, <1>4 DEF Goto, CallersTyped
  <2>2. QED
    BY <1>1, <1>4, <2>1, KeepsFailed
<1>5. QED
  BY <1>2, <1>3, <1>4

\* A delivery whose handler looks the run up.
LEMMA ReceiveFails ==
  ASSUME PayInv, FailInv, SessionInv, [Next]_vars,
         NEW h \in Hooks, NEW e \in Events, Receive(h, e)
  PROVE  FailInv'
<1>1. CallersTyped /\ TypeInv /\ h \in Callers
  BY TypeInvCallers DEF PayInv, Callers
<1>2. /\ pc'[h] = AfterFind(e[1], e[2]) /\ kind'[h] = e[1] /\ held'[h] = e[2]
      /\ again'[h] = (pay = "paid")
  BY <1>1 DEF Receive, Goto, CallersTyped
<1>3. \A g \in Callers \ {h} : /\ pc'[g] = pc[g] /\ kind'[g] = kind[g]
                               /\ held'[g] = held[g] /\ again'[g] = again[g]
  BY <1>1 DEF Receive, Goto, CallersTyped
<1>4. UNCHANGED <<sess, money, mail>> /\ e \in inbox \cup answered
  BY DEF Receive, stripe
<1>5. e[1] \in FailEvents => Unpaid(e[2])
  BY <1>4 DEF FailInv, FailedEventsUnpaid
<1>6. pc'[h] = "markFailed" => e[1] \in FailEvents /\ pay # "paid"
  BY <1>2 DEF AfterFind, OnPaid, OnFailed, OnRefund
<1>7. FailedEventsUnpaid'
  BY <1>4 DEF FailInv, FailedEventsUnpaid, Unpaid, mail
<1>8. HooksHoldFailed'
  BY <1>2, <1>3, <1>4, <1>5, <1>6 DEF FailInv, HooksHoldFailed, Unpaid, Callers
<1>9. QED
  BY <1>7, <1>8 DEF FailInv

\* The event its handler held goes to the answered ones.
LEMMA AnswerFails ==
  ASSUME PayInv, FailInv, NEW h \in Hooks, Answer(h)
  PROVE  FailInv'
<1>1. CallersTyped /\ h \in Callers /\ pc[h] = "ok"
  BY TypeInvCallers DEF PayInv, Callers, Answer
<1>2. UNCHANGED <<sess, money>>
  BY DEF Answer, stripe
<1>3. \A e \in inbox' \cup answered' :
        e \in inbox \cup answered \/ e = <<kind[h], held[h]>>
  BY DEF Answer
<1>4. kind[h] \in FailEvents => Unpaid(held[h])
  BY <1>1 DEF FailInv, HooksHoldFailed
<1>5. FailedEventsUnpaid'
  BY <1>2, <1>3, <1>4 DEF FailInv, FailedEventsUnpaid, Unpaid
<1>6. /\ pc'[h] = "idle"
      /\ \A g \in Callers \ {h} :
           /\ pc'[g] = pc[g] /\ held'[g] = held[g]
           /\ kind'[g] = kind[g] /\ again'[g] = again[g]
  BY <1>1, LeaveKeeps DEF Answer, Leave, Goto, CallersTyped
<1>7. HooksHoldFailed'
  BY <1>2, <1>6 DEF FailInv, HooksHoldFailed, Unpaid, Callers
<1>8. QED
  BY <1>5, <1>7 DEF FailInv

\* Stripe sends one more event.
LEMMA SendFails ==
  ASSUME PayInv, FailInv, SessionInv, [Next]_vars, NEW s \in Sessions,
         PaySession(s) \/ Settle(s) \/ Expire(s) \/ Refund(s)
  PROVE  FailInv'
<1>1. TypeInv
  BY DEF PayInv
<1>2. PICK e \in Events : /\ inbox' = inbox \cup {e} /\ answered' = answered
                          /\ e[1] \in FailEvents => Unpaid(e[2])'
  BY <1>1, StripeFails
<1>3. \A d \in inbox \cup answered : d[2] \in Sessions
  BY <1>1 DEF TypeInv, TypeOK, Events
<1>4. \A t \in Sessions : Unpaid(t) => Unpaid(t)'
  BY <1>1, UnpaidStays
<1>5. FailedEventsUnpaid'
  BY <1>2, <1>3, <1>4 DEF FailInv, FailedEventsUnpaid, Unpaid
<1>6. UNCHANGED <<pc, held, kind, again>>
  BY DEF PaySession, Settle, Expire, Refund, local
<1>7. \A h \in Hooks : pc[h] # "idle" => held[h] \in Sessions
  BY <1>1 DEF TypeInv, HaveEvents
<1>8. HooksHoldFailed'
  BY <1>4, <1>6, <1>7 DEF FailInv, HooksHoldFailed, Unpaid
<1>9. QED
  BY <1>5, <1>8 DEF FailInv

LEMMA StepFails == PayInv /\ SessionInv /\ FailInv /\ [Next]_vars => FailInv'
<1> SUFFICES ASSUME PayInv, SessionInv, FailInv, [Next]_vars PROVE FailInv'
  OBVIOUS
<1>1. CallersTyped /\ HooksHoldPaid
  BY TypeInvCallers DEF PayInv
<1>2. ASSUME NEW c \in Callers, MarkPaid(c) \/ MarkFailed(c) \/ MarkRefunded(c) \/ Bypass(c)
      PROVE  FailInv'
  <2>1. \E l \in CallerSteps \ {"markFailed"} :
          pc[c] # "idle" /\ Goto(c, l) /\ UNCHANGED local
    BY <1>2, StepNames DEF MarkPaid, MarkFailed, MarkRefunded, Bypass
  <2>2. UNCHANGED mail
    BY <1>2 DEF MarkPaid, MarkFailed, MarkRefunded, Bypass
  <2>3. QED
    BY <2>1, <2>2, CallFails
<1>3. ASSUME NEW c \in Callers, Enqueue(c) \/ Publish(c) \/ Drop(c) \/ Store(c)
      PROVE  FailInv'
  <2>1. pc[c] # "idle" /\ UNCHANGED mail
    BY <1>3 DEF Enqueue, Publish, Drop, Store
  <2>2. Leave(c) \/ Finish(c) \/ (Goto(c, "publish") /\ UNCHANGED local)
    BY <1>3 DEF Enqueue, Publish, Drop, Store
  <2>3. "publish" \in CallerSteps \ {"markFailed"}
    BY DEF CallerSteps
  <2>4. QED
    BY <2>1, <2>2, <2>3, CallFails
<1>4. ASSUME NEW c \in Callers, Retrieve(c) \/ Create(c)
      PROVE  FailInv'
  <2>1. c \notin Hooks /\ pc[c] # "idle" /\ UNCHANGED mail
    BY <1>1, <1>4 DEF Retrieve, Create, HooksHoldPaid
  <2>2. CASE Leave(c)
    BY <2>1, <2>2, CallFails
  <2>3. CASE ~Leave(c)
    <3>1. \E l \in {"create", "store"} : Goto(c, l) /\ UNCHANGED <<again, kind>>
              /\ \A d \in Callers \ {c} : held'[d] = held[d]
      BY <1>1, <1>4, <2>3 DEF Retrieve, Create, CallersTyped, local
    <3>2. QED
      BY <2>1, <3>1, CallFails, StepNames
  <2>4. QED
    BY <2>2, <2>3
<1>5. ASSUME NEW b \in Buyers, Checkout(b) PROVE FailInv'
  <2>1. b \in Callers /\ b \notin Hooks /\ UNCHANGED mail
    BY <1>5, CallersDiffer DEF Checkout, Callers
  <2>2. \E l \in {"bypass", "retrieve", "create"} : Goto(b, l)
    BY <1>5 DEF Checkout
  <2>3. UNCHANGED <<again, kind>> /\ \A d \in Callers \ {b} : held'[d] = held[d]
    BY <1>1, <1>5 DEF Checkout, CallersTyped
  <2>4. QED
    BY <2>1, <2>2, <2>3, CallFails, StepNames
<1>6. ASSUME NEW c \in Callers, Answer(c) PROVE FailInv'
  BY <1>1, <1>6, AnswerFails DEF Answer, CallersTyped, OfHooks
<1>7. CASE \E h \in Hooks, e \in Events : Receive(h, e)
  BY <1>7, ReceiveFails
<1>8. CASE \E s \in Sessions : PaySession(s) \/ Settle(s) \/ Expire(s) \/ Refund(s)
  BY <1>8, SendFails
<1>9. CASE ForgetKey \/ Claim \/ UNCHANGED vars
  BY <1>9 DEF ForgetKey, Claim, vars, local, mail, stripe, FailInv, FailedEventsUnpaid,
              HooksHoldFailed, Unpaid
<1>10. CASE \E c \in Callers : Handle(c) \/ Drop(c)
  BY <1>2, <1>3, <1>4, <1>6, <1>10 DEF Handle, Hook, Browse
<1>11. QED
  BY <1>5, <1>7, <1>8, <1>9, <1>10 DEF Next

\* A step that takes the run out of paid is the write of a webhook that holds
\* another session.
LEMMA WhoUndoes ==
  PayInv /\ FailInv /\ SessionInv /\ [Next]_vars =>
    (pay = "paid" /\ pay' \notin {"paid", "refunded"} =>
       \E h \in Hooks : pc[h] = "markFailed" /\ ~again[h] /\ held[h] # intent)
<1> SUFFICES ASSUME PayInv, FailInv, SessionInv, [Next]_vars,
                    pay = "paid", pay' \notin {"paid", "refunded"}
             PROVE  \E h \in Hooks : pc[h] = "markFailed" /\ ~again[h] /\ held[h] # intent
  OBVIOUS
<1>1. PICK h \in Callers : MarkFailed(h)
  BY DEF Next, Handle, Hook, Browse, MarkPaid, MarkRefunded, Answer, Bypass, Retrieve,
         Create, Store, Enqueue, Publish, Drop, Receive, Checkout, PaySession, Settle,
         Expire, Refund, ForgetKey, Claim, vars, row
<1>2. h \in Hooks /\ pc[h] = "markFailed"
  BY <1>1 DEF MarkFailed, PayInv, TypeInv, OfHooks
<1>3. ~again[h] /\ Unpaid(held[h]) /\ held[h] \in Sessions
  BY <1>2 DEF FailInv, HooksHoldFailed, PayInv, TypeInv, HaveEvents
<1>4. held[h] \notin Taken
  BY <1>3 DEF Unpaid, Taken, SessionInv
<1>5. held[h] # intent
  BY <1>3, <1>4, CallersDiffer DEF PayInv
<1>6. QED
  BY <1>2, <1>3, <1>5

\* With any number of sessions, of overlapping webhook executions and of repeated
\* events, with billing or without, the session that paid never undoes the payment:
\* only a refund does, or the failure of another session that a webhook had received
\* before the run was paid.
THEOREM OnlyAnotherUndoes == Spec => PaidUndone
<1>1. Init => FailInv
  BY CallersDiffer DEF Init, FailInv, FailedEventsUnpaid, HooksHoldFailed, Callers
<1>2. PayInv /\ SessionInv /\ FailInv /\ [Next]_vars => FailInv'
  BY StepFails
<1>3. PayInv /\ SessionInv /\ FailInv /\ [Next]_vars =>
        [pay = "paid" /\ pay' \notin {"paid", "refunded"} =>
           \E h \in Hooks : pc[h] = "markFailed" /\ ~again[h] /\ held[h] # intent]_vars
  BY WhoUndoes
<1>4. QED
  BY <1>1, <1>2, <1>3, PaywallHolds, SessionsHold, PTL DEF Spec, PaidUndone
=============================================================================
