------------------------- MODULE RunLifecycleProofs -------------------------
(***************************************************************************)
(* Proofs about RunLifecycle for every number of messages, handlers,       *)
(* deliveries and attempts, among them that it implements RunContract.     *)
(***************************************************************************)
EXTENDS RunLifecycle, TLAPS

-----------------------------------------------------------------------------
(* Type correctness.  A handler inside a dispatch block has an index into  *)
(* the pipeline; with it TypeOK is inductive.                              *)

TypeInv ==
  /\ TypeOK
  /\ \A w \in Workers : pc[w] = "agent" => stage[w] <= Len(Pipeline)

LEMMA LenIsNat == Len(Pipeline) \in Nat \ {0}
BY ParamAssumption

LEMMA StepNames ==
  {"idle", "refuseCard", "failCard", "doneCard", "ack", "nack", "claimRead",
   "claimCommit", "markRead", "markCommit", "finRead", "finCommit", "load",
   "progress", "agent", "uploadMd", "uploadJson", "uploadPdf"} = Steps
BY DEF Steps, ClaimSteps, MarkSteps, RunSteps, UploadSteps, FinSteps

LEMMA StatusNames ==
  Status = {"pending", "running", "succeeded", "failed", "refunded", "absent"}
BY DEF Status, Terminal

LEMMA UploadNames ==
  \A u \in UploadSteps :
    /\ KindOf[u] \in Kinds
    /\ NextUpload[u] \in {"uploadJson", "uploadPdf", "finRead"}
BY DEF UploadSteps, KindOf, NextUpload, Kinds

\* Who may be failing a run.
How == {"none", "funnel", "specific", "missing"}

\* The handlers' steps and attempt numbers keep their types, and no handler
\* enters a block.
Moved ==
  /\ pc' \in [Workers -> Steps] /\ try' \in [Workers -> 1..MaxAttempts]
  /\ \A v \in Workers : pc'[v] = "agent" => pc[v] = "agent"

\* Going to a step outside a dispatch block puts no handler inside one.
LEMMA GotoType ==
  ASSUME TypeInv, NEW w \in Workers, NEW l \in Steps, l # "agent", Goto(w, l)
  PROVE  /\ pc' \in [Workers -> Steps]
         /\ \A v \in Workers : pc'[v] = "agent" => pc[v] = "agent"
<1>1. pc \in [Workers -> Steps] /\ pc' = [pc EXCEPT ![w] = l]
  BY DEF TypeInv, TypeOK, Goto
<1>2. QED
  BY <1>1

LEMMA StayType ==
  ASSUME TypeInv, NEW w \in Workers, NEW l \in Steps, l # "agent", Goto(w, l), try' = try
  PROVE  Moved
<1>1. try \in [Workers -> 1..MaxAttempts]
  BY DEF TypeInv, TypeOK
<1>2. QED
  BY <1>1, GotoType DEF Moved

LEMMA BeginType ==
  ASSUME TypeInv, NEW w \in Workers, NEW l \in Steps, l # "agent", Begin(w, l)
  PROVE  Moved
<1>1. try \in [Workers -> 1..MaxAttempts] /\ try' = [try EXCEPT ![w] = 1] /\ Goto(w, l)
  BY DEF TypeInv, TypeOK, Begin
<1>2. 1 \in 1..MaxAttempts
  BY ParamAssumption
<1>3. try' \in [Workers -> 1..MaxAttempts]
  BY <1>1, <1>2
<1>4. QED
  BY <1>1, <1>3, GotoType DEF Moved

\* A handler that starts to fail the run.
LEMMA FailType ==
  ASSUME TypeInv, NEW w \in Workers, NEW h \in How, Fail(w, h)
  PROVE  Moved /\ how' \in [Workers -> How]
<1>1. how \in [Workers -> How] /\ how' = [how EXCEPT ![w] = h] /\ Begin(w, "markRead")
  BY DEF TypeInv, TypeOK, Fail, How
<1>2. "markRead" \in Steps
  BY StepNames
<1>3. how' \in [Workers -> How]
  BY <1>1
<1>4. QED
  BY <1>1, <1>2, <1>3, BeginType

\* A card, written or not.
LEMMA CardType ==
  ASSUME TypeInv, NEW c \in Cards, Persisted(c) \/ EmitRaised(c)
  PROVE  log' \subseteq Cards /\ live' \subseteq Cards
<1>1. log \subseteq Cards /\ live \subseteq Cards
  BY DEF TypeInv, TypeOK
<1>2. QED
  BY <1>1 DEF Persisted, EmitRaised

\* A handler whose locals are gone.
LEMMA LeaveType ==
  ASSUME TypeInv, NEW w \in Workers, Leave(w)
  PROVE  /\ Moved
         /\ job' \in [Workers -> Msgs] /\ att' \in [Workers -> 1..MaxDelivery]
         /\ saw' \in [Workers -> Status] /\ pdf' \in [Workers -> BOOLEAN]
         /\ stage' \in [Workers -> 1..(Len(Pipeline) + 1)] /\ how' \in [Workers -> How]
         /\ \A v \in Workers : pc'[v] = "agent" => stage'[v] <= Len(Pipeline)
<1>1. Moved /\ pc'[w] = "idle"
  BY StepNames, BeginType DEF Leave, Begin, Goto, TypeInv, TypeOK
<1>2. (CHOOSE m \in Msgs : TRUE) \in Msgs
  BY SomeMessage
<1>3. job' \in [Workers -> Msgs]
  BY <1>2 DEF Leave, TypeInv, TypeOK
<1>4. 1 \in 1..MaxDelivery /\ 1 \in 1..(Len(Pipeline) + 1)
  BY ParamAssumption, LenIsNat
<1>5. /\ att \in [Workers -> 1..MaxDelivery] /\ stage \in [Workers -> 1..(Len(Pipeline) + 1)]
      /\ att' = [att EXCEPT ![w] = 1] /\ stage' = [stage EXCEPT ![w] = 1]
  BY DEF Leave, TypeInv, TypeOK
<1>6. /\ att' \in [Workers -> 1..MaxDelivery] /\ stage' \in [Workers -> 1..(Len(Pipeline) + 1)]
      /\ \A v \in Workers \ {w} : stage'[v] = stage[v]
  BY <1>4, <1>5
<1>7. /\ saw \in [Workers -> Status] /\ saw' = [saw EXCEPT ![w] = "pending"]
      /\ "pending" \in Status
  BY StatusNames DEF Leave, TypeInv, TypeOK
<1>8. saw' \in [Workers -> Status]
  BY <1>7
<1>9. /\ how \in [Workers -> How] /\ how' = [how EXCEPT ![w] = "none"] /\ "none" \in How
  BY DEF Leave, TypeInv, TypeOK, How
<1>10. how' \in [Workers -> How]
  BY <1>9
<1>11. pdf' \in [Workers -> BOOLEAN]
  BY DEF Leave, TypeInv, TypeOK
<1>12. \A v \in Workers : pc'[v] = "agent" => stage'[v] <= Len(Pipeline)
  BY <1>1, <1>6 DEF Moved, TypeInv
<1>13. QED
  BY <1>1, <1>3, <1>6, <1>8, <1>10, <1>11, <1>12

\* A failed attempt stays within MaxAttempts.
LEMMA FailedAttemptType ==
  ASSUME TypeInv, NEW w \in Workers, NEW first \in Steps, NEW raised \in Steps,
         first # "agent", raised # "agent", FailedAttempt(w, first, raised)
  PROVE  Moved
<1>1. CASE try[w] < MaxAttempts /\ Goto(w, first) /\ try' = [try EXCEPT ![w] = @ + 1]
  <2>1. try[w] + 1 \in 1..MaxAttempts
    BY <1>1, ParamAssumption DEF TypeInv, TypeOK
  <2>2. try' \in [Workers -> 1..MaxAttempts]
    BY <1>1, <2>1 DEF TypeInv, TypeOK
  <2>3. QED
    BY <1>1, <2>2, GotoType DEF Moved
<1>2. CASE try[w] = MaxAttempts /\ Begin(w, raised)
  BY <1>2, BeginType
<1>3. QED
  BY <1>1, <1>2 DEF FailedAttempt

LEMMA WriteType ==
  ASSUME TypeInv, NEW w, NEW s \in Status, Write(w, s)
  PROVE  status' \in Status
BY DEF TypeInv, TypeOK, Write

\* The artifact count saturates at RowCap.
LEMMA FinaliseType ==
  ASSUME TypeInv, NEW w \in Workers, Finalise(w)
  PROVE  status' \in Status /\ rows' \in [Kinds -> 0..RowCap]
<1>1. status' \in Status
  BY WriteType, StatusNames DEF Finalise
<1>2. rows' \in [Kinds -> 0..RowCap]
  BY ParamAssumption DEF TypeInv, TypeOK, Finalise
<1>3. QED
  BY <1>1, <1>2

\* The initial state has the types.
LEMMA TypeInit == Init => TypeInv
BY ParamAssumption, LenIsNat, StepNames, StatusNames
   DEF Init, TypeInv, TypeOK, Kinds, Cards

\* Every step of a handler, of the subscription or of the row keeps them.
LEMMA TypeNext == TypeInv /\ [Next]_vars => TypeInv'
<1> SUFFICES ASSUME TypeInv, [Next]_vars PROVE TypeInv'
  OBVIOUS
<1>1. TypeInv'
  <2>1. ASSUME NEW w \in Workers, ClaimRead(w)
       PROVE  TypeInv'
    <3>1. Moved
      BY <2>1, StayType, StepNames DEF ClaimRead, Read
    <3>2. saw' \in [Workers -> Status]
      BY <2>1, <3>1 DEF ClaimRead, Read, TypeInv, TypeOK
    <3>3. QED
      BY <2>1, <3>1, <3>2 DEF ClaimRead, Read, store, events, queue, local, TypeInv,
         TypeOK, Moved
  <2>2. ASSUME NEW w \in Workers, ClaimFault(w)
       PROVE  TypeInv'
    <3>1. Moved
      BY <2>2, FailedAttemptType, StepNames DEF ClaimFault
    <3>2. QED
      BY <2>2, <3>1 DEF ClaimFault, store, events, queue, local, TypeInv, TypeOK,
         Moved
  <2>3. ASSUME NEW w \in Workers, ClaimNoop(w)
       PROVE  TypeInv'
    <3>1. Moved
      BY <2>3, StayType, StepNames DEF ClaimNoop
    <3>2. QED
      BY <2>3, <3>1 DEF ClaimNoop, store, events, queue, local, TypeInv, TypeOK, Moved
  <2>4. ASSUME NEW w \in Workers, ClaimCommit(w)
       PROVE  TypeInv'
    <3>1. status' \in Status
      BY <2>4, WriteType, StatusNames DEF ClaimCommit, ClaimTarget
    <3>2. Moved
      BY <2>4, <3>1, BeginType, StepNames DEF ClaimCommit
    <3>3. spent' \in [Msgs -> Nat]
      <4>1. spent \in [Msgs -> Nat] /\ job[w] \in Msgs
        BY DEF TypeInv, TypeOK
      <4>2. QED
        BY <2>4, <4>1 DEF ClaimCommit
    <3>4. QED
      BY <2>4, <3>1, <3>2, <3>3 DEF ClaimCommit, store, events, queue, local, TypeInv,
         TypeOK, Moved
  <2>5. ASSUME NEW w \in Workers, ClaimCommitFault(w)
       PROVE  TypeInv'
    <3>1. status' \in Status
      BY <2>5, WriteType, StatusNames DEF ClaimCommitFault, ClaimTarget, TypeInv,
         TypeOK
    <3>2. Moved
      BY <2>5, <3>1, FailedAttemptType, StepNames DEF ClaimCommitFault
    <3>3. QED
      BY <2>5, <3>1, <3>2 DEF ClaimCommitFault, store, events, queue, local, TypeInv,
         TypeOK, Moved
  <2>6. ASSUME NEW w \in Workers, RefuseCard(w)
       PROVE  TypeInv'
    <3>1. Moved
      BY <2>6, StayType, StepNames DEF RefuseCard
    <3>2. log' \subseteq Cards /\ live' \subseteq Cards
      BY <2>6, <3>1, CardType DEF RefuseCard, Cards
    <3>3. QED
      BY <2>6, <3>1, <3>2 DEF RefuseCard, store, events, queue, local, TypeInv,
         TypeOK, Moved
  <2>7. ASSUME NEW w \in Workers, LoadBrief(w)
       PROVE  TypeInv'
    <3>1. Moved
      BY <2>7, BeginType, FailType, StepNames DEF LoadBrief, How
    <3>2. how' \in [Workers -> How]
      BY <2>7, <3>1, FailType DEF LoadBrief, How, TypeInv, TypeOK
    <3>3. QED
      BY <2>7, <3>1, <3>2 DEF LoadBrief, How, store, events, queue, local, TypeInv,
         TypeOK, Moved
  <2>8. ASSUME NEW w \in Workers, Progress(w)
       PROVE  TypeInv'
    <3>1. CASE stage[w] <= Len(Pipeline) /\ Goto(w, "agent") /\ try' = try
      <4>1. pc' \in [Workers -> Steps] /\ \A v \in Workers \ {w} : pc'[v] = pc[v]
        BY <3>1, StepNames DEF Goto, TypeInv, TypeOK
      <4>2. \A v \in Workers : pc'[v] = "agent" => stage[v] <= Len(Pipeline)
        BY <3>1, <4>1 DEF TypeInv
      <4>3. QED
        BY <2>8, <4>1, <4>2 DEF Progress, store, events, queue, local, TypeInv, TypeOK
    <3>2. CASE (Goto(w, "uploadMd") \/ Goto(w, "nack")) /\ try' = try
      <4>1. Moved
        BY <3>2, StayType, StepNames
      <4>2. QED
        BY <2>8, <4>1 DEF Progress, store, events, queue, local, TypeInv, TypeOK, Moved
    <3>3. QED
      BY <2>8, <3>1, <3>2 DEF Progress
  <2>9. ASSUME NEW w \in Workers, AgentOk(w)
       PROVE  TypeInv'
    <3>1. Moved
      BY <2>9, StayType, StepNames DEF AgentOk
    <3>2. pc[w] = "agent" /\ stage[w] + 1 \in 1..(Len(Pipeline) + 1)
      BY <2>9, <3>1, LenIsNat DEF AgentOk, TypeInv, TypeOK
    <3>3. stage' \in [Workers -> 1..(Len(Pipeline) + 1)] /\ pc'[w] = "progress"
      BY <2>9, <3>1, <3>2 DEF AgentOk, Goto, TypeInv, TypeOK
    <3>4. \A v \in Workers : pc'[v] = "agent" => stage'[v] <= Len(Pipeline)
      BY <2>9, <3>1, <3>2, <3>3 DEF AgentOk, Moved, TypeInv, TypeOK
    <3>5. QED
      BY <2>9, <3>1, <3>2, <3>3, <3>4 DEF AgentOk, store, events, queue, local,
         TypeInv, TypeOK, Moved
  <2>10. ASSUME NEW w \in Workers, AgentFails(w)
       PROVE  TypeInv'
    <3>1. Moved
      BY <2>10, StayType, FailType, StepNames DEF AgentFails, How
    <3>2. how' \in [Workers -> How]
      BY <2>10, <3>1, FailType DEF AgentFails, How, TypeInv, TypeOK
    <3>3. QED
      BY <2>10, <3>1, <3>2 DEF AgentFails, How, store, events, queue, local, TypeInv,
         TypeOK, Moved
  <2>11. ASSUME NEW w \in Workers, MarkRead(w)
       PROVE  TypeInv'
    <3>1. Moved
      BY <2>11, StayType, StepNames DEF MarkRead, Read
    <3>2. saw' \in [Workers -> Status]
      BY <2>11, <3>1 DEF MarkRead, Read, TypeInv, TypeOK
    <3>3. QED
      BY <2>11, <3>1, <3>2 DEF MarkRead, Read, store, events, queue, local, TypeInv,
         TypeOK, Moved
  <2>12. ASSUME NEW w \in Workers, MarkFault(w)
       PROVE  TypeInv'
    <3>1. Moved
      BY <2>12, FailedAttemptType, StepNames DEF MarkFault, MarkRaised
    <3>2. QED
      BY <2>12, <3>1 DEF MarkFault, store, events, queue, local, TypeInv, TypeOK,
         Moved
  <2>13. ASSUME NEW w \in Workers, MarkCommit(w)
       PROVE  TypeInv'
    <3>1. status' \in Status
      BY <2>13, WriteType, StatusNames DEF MarkCommit, TypeInv, TypeOK
    <3>2. Moved
      BY <2>13, <3>1, BeginType, StepNames DEF MarkCommit, AfterMark
    <3>3. QED
      BY <2>13, <3>1, <3>2 DEF MarkCommit, store, events, queue, local, TypeInv,
         TypeOK, Moved
  <2>14. ASSUME NEW w \in Workers, MarkCommitFault(w)
       PROVE  TypeInv'
    <3>1. status' \in Status
      BY <2>14, WriteType, StatusNames DEF MarkCommitFault, TypeInv, TypeOK
    <3>2. Moved
      BY <2>14, <3>1, FailedAttemptType, StepNames DEF MarkCommitFault, MarkRaised
    <3>3. QED
      BY <2>14, <3>1, <3>2 DEF MarkCommitFault, store, events, queue, local, TypeInv,
         TypeOK, Moved
  <2>15. ASSUME NEW w \in Workers, FailCard(w)
       PROVE  TypeInv'
    <3>1. Moved
      BY <2>15, StayType, StepNames DEF FailCard
    <3>2. log' \subseteq Cards /\ live' \subseteq Cards
      BY <2>15, <3>1, CardType DEF FailCard, Cards
    <3>3. QED
      BY <2>15, <3>1, <3>2 DEF FailCard, store, events, queue, local, TypeInv, TypeOK,
         Moved
  <2>16. ASSUME NEW w \in Workers, Upload(w)
       PROVE  TypeInv'
    <3>1. pc[w] \in UploadSteps /\ NextUpload[pc[w]] \in Steps \ {"agent"}
      <4>1. pc[w] \in UploadSteps
        BY <2>16 DEF Upload
      <4>2. QED
        BY <4>1, UploadNames, StepNames
    <3>2. Moved
      BY <2>16, <3>1, BeginType DEF Upload
    <3>3. blobs' \subseteq Kinds /\ pdf' \in [Workers -> BOOLEAN]
      BY <2>16, <3>1, UploadNames DEF Upload, TypeInv, TypeOK
    <3>4. QED
      BY <2>16, <3>2, <3>3 DEF Upload, events, queue, TypeInv, TypeOK, Moved
  <2>17. ASSUME NEW w \in Workers, SkipPdf(w)
       PROVE  TypeInv'
    <3>1. Moved
      BY <2>17, BeginType, StepNames DEF SkipPdf
    <3>2. QED
      BY <2>17, <3>1 DEF SkipPdf, store, events, queue, local, TypeInv, TypeOK, Moved
  <2>18. ASSUME NEW w \in Workers, UploadFails(w)
       PROVE  TypeInv'
    <3>1. Moved /\ how' \in [Workers -> How]
      BY <2>18, FailType DEF UploadFails, How
    <3>2. QED
      BY <2>18, <3>1 DEF UploadFails, How, store, events, queue, local, TypeInv,
         TypeOK, Moved
  <2>19. ASSUME NEW w \in Workers, FinRead(w)
       PROVE  TypeInv'
    <3>1. Moved
      BY <2>19, StayType, StepNames DEF FinRead, Read
    <3>2. saw' \in [Workers -> Status]
      BY <2>19, <3>1 DEF FinRead, Read, TypeInv, TypeOK
    <3>3. QED
      BY <2>19, <3>1, <3>2 DEF FinRead, Read, store, events, queue, local, TypeInv,
         TypeOK, Moved
  <2>20. ASSUME NEW w \in Workers, FinCommit(w)
       PROVE  TypeInv'
    <3>1. status' \in Status /\ rows' \in [Kinds -> 0..RowCap]
      BY <2>20, FinaliseType DEF FinCommit
    <3>2. Moved
      BY <2>20, <3>1, BeginType, StepNames DEF FinCommit
    <3>3. QED
      BY <2>20, <3>1, <3>2 DEF FinCommit, store, events, queue, local, TypeInv,
         TypeOK, Moved
  <2>21. ASSUME NEW w \in Workers, FinFault(w)
       PROVE  TypeInv'
    <3>1. status' \in Status /\ rows' \in [Kinds -> 0..RowCap]
      BY <2>21, FinaliseType DEF FinFault, TypeInv, TypeOK
    <3>2. Moved /\ how' \in [Workers -> How]
      <4>1. CASE try[w] < MaxAttempts /\ Goto(w, "finRead")
                   /\ try' = [try EXCEPT ![w] = @ + 1] /\ how' = how
        <5>1. Moved
          BY <4>1, FailedAttemptType, StepNames DEF FailedAttempt
        <5>2. QED
          BY <4>1, <5>1 DEF How, TypeInv, TypeOK
      <4>2. CASE Fail(w, "funnel")
        BY <4>2, FailType DEF How
      <4>3. QED
        BY <2>21, <4>1, <4>2 DEF FinFault
    <3>3. QED
      BY <2>21, <3>1, <3>2 DEF FinFault, How, events, queue, TypeInv, TypeOK, Moved
  <2>22. ASSUME NEW w \in Workers, DoneCard(w)
       PROVE  TypeInv'
    <3>1. Moved
      BY <2>22, StayType, StepNames DEF DoneCard
    <3>2. log' \subseteq Cards /\ live' \subseteq Cards
      BY <2>22, <3>1, CardType DEF DoneCard, Cards
    <3>3. QED
      BY <2>22, <3>1, <3>2 DEF DoneCard, store, events, queue, local, TypeInv, TypeOK,
         Moved
  <2>23. ASSUME NEW w \in Workers, Ack(w)
       PROVE  TypeInv'
    <3>1. mstate' \in [Msgs -> {"queued", "out", "acked", "dead"}]
      BY <2>23 DEF Ack, TypeInv, TypeOK
    <3>2. Leave(w) /\ UNCHANGED <<store, events, tries, spent>>
      BY <2>23 DEF Ack
    <3>3. QED
      BY <3>1, <3>2, LeaveType DEF store, events, How, TypeInv, TypeOK, Moved
  <2>24. ASSUME NEW w \in Workers, Nack(w) \/ Crash(w)
       PROVE  TypeInv'
    <3>1. mstate' \in [Msgs -> {"queued", "out", "acked", "dead"}]
      BY <2>24 DEF Nack, Crash, Return, TypeInv, TypeOK
    <3>2. Leave(w) /\ UNCHANGED <<store, events, tries, spent>>
      BY <2>24 DEF Nack, Crash, Return
    <3>3. QED
      BY <3>1, <3>2, LeaveType DEF store, events, How, TypeInv, TypeOK, Moved
  <2>25. ASSUME NEW w \in Workers, AckDeadline(w)
       PROVE  TypeInv'
    <3>1. mstate' \in [Msgs -> {"queued", "out", "acked", "dead"}]
      BY <2>25 DEF AckDeadline, TypeInv, TypeOK
    <3>2. QED
      BY <2>25, <3>1 DEF AckDeadline, store, events, queue, local, TypeInv, TypeOK,
         Moved
  <2>26. ASSUME NEW w \in Workers, NEW m \in Msgs, Deliver(w, m)
       PROVE  TypeInv'
    <3>1. Moved
      BY <2>26, BeginType, StepNames DEF Deliver
    <3>2. tries[m] + 1 \in 1..MaxDelivery
      BY <2>26, ParamAssumption DEF Deliver, TypeInv, TypeOK
    <3>3. tries' \in [Msgs -> 0..MaxDelivery] /\ att' \in [Workers -> 1..MaxDelivery]
      BY <2>26, <3>2, ParamAssumption DEF Deliver, TypeInv, TypeOK
    <3>4. /\ mstate' \in [Msgs -> {"queued", "out", "acked", "dead"}]
          /\ job' \in [Workers -> Msgs]
      BY <2>26 DEF Deliver, TypeInv, TypeOK
    <3>5. QED
      BY <2>26, <3>1, <3>3, <3>4 DEF Deliver, store, events, TypeInv, TypeOK, Moved
  <2>27. ASSUME NEW m \in Msgs, DeadLetter(m)
       PROVE  TypeInv'
    <3>1. mstate' \in [Msgs -> {"queued", "out", "acked", "dead"}]
      BY <2>27 DEF DeadLetter, TypeInv, TypeOK
    <3>2. QED
      BY <2>27, <3>1 DEF DeadLetter, store, events, queue, local, TypeInv, TypeOK,
         Moved
  <2>28. ASSUME Vanish
       PROVE  TypeInv'
    <3>1. status' \in Status /\ rows' \in [Kinds -> 0..RowCap]
      BY <2>28, StatusNames, ParamAssumption DEF Vanish
    <3>2. QED
      BY <2>28, <3>1 DEF Vanish, store, events, queue, local, TypeInv, TypeOK, Moved
  <2>29. ASSUME UNCHANGED vars
       PROVE  TypeInv'
    BY <2>29 DEF vars, store, events, queue, local, TypeInv, TypeOK, Moved
  <2>30. QED
    BY <2>1, <2>2, <2>3, <2>4, <2>5, <2>6, <2>7, <2>8, <2>9, <2>10, <2>11, <2>12,
       <2>13, <2>14, <2>15, <2>16, <2>17, <2>18, <2>19, <2>20, <2>21, <2>22, <2>23,
       <2>24, <2>25, <2>26, <2>27, <2>28, <2>29 DEF Next, Handle, Work
<1>2. QED
  BY <1>1

\* The tables, the subscription and the handlers' locals keep their types.
THEOREM TypeCorrect == Spec => []TypeInv
BY TypeInit, TypeNext, PTL DEF Spec

\* The rows, the queue and the locals of every handler keep their shape.
THEOREM TypesHold == Spec => []TypeOK
<1>1. TypeInv => TypeOK
  BY DEF TypeInv
<1>2. QED
  BY <1>1, TypeCorrect, PTL

-----------------------------------------------------------------------------
(* Deliveries.  Between its delivery and its answer a handler only moves   *)
(* its program counter, and never back into the claim.                     *)

Moves(w) ==
  /\ pc[w] # "idle" /\ pc'[w] # "idle"
  /\ pc'[w] \in ClaimSteps => pc[w] \in ClaimSteps
  /\ \A v \in Workers \ {w} : pc'[v] = pc[v]
  /\ UNCHANGED <<mstate, tries, job, att>>

LEMMA WorkMoves ==
  ASSUME TypeInv, NEW w \in Workers, Work(w)
  PROVE  Moves(w)
<1>1. CASE ClaimRead(w)
  BY <1>1 DEF ClaimRead, Read, Moves, Goto, Begin, queue, local, ClaimSteps,
     TypeInv, TypeOK
<1>2. CASE ClaimFault(w)
  BY <1>2 DEF ClaimFault, FailedAttempt, Moves, Goto, Begin, queue, local,
     ClaimSteps, TypeInv, TypeOK
<1>3. CASE ClaimNoop(w)
  BY <1>3 DEF ClaimNoop, Moves, Goto, Begin, queue, local, ClaimSteps,
     TypeInv, TypeOK
<1>4. CASE ClaimCommit(w)
  BY <1>4 DEF ClaimCommit, Moves, Goto, Begin, queue, local, ClaimSteps,
     TypeInv, TypeOK
<1>5. CASE ClaimCommitFault(w)
  BY <1>5 DEF ClaimCommitFault, FailedAttempt, Moves, Goto, Begin, queue,
     local, ClaimSteps, TypeInv, TypeOK
<1>6. CASE RefuseCard(w)
  BY <1>6 DEF RefuseCard, Moves, Goto, Begin, queue, local, ClaimSteps,
     TypeInv, TypeOK
<1>7. CASE LoadBrief(w)
  BY <1>7 DEF LoadBrief, Fail, Moves, Goto, Begin, queue, local, ClaimSteps,
     TypeInv, TypeOK
<1>8. CASE Progress(w)
  BY <1>8 DEF Progress, Moves, Goto, Begin, queue, local, ClaimSteps,
     TypeInv, TypeOK
<1>9. CASE AgentOk(w)
  BY <1>9 DEF AgentOk, Moves, Goto, Begin, queue, local, ClaimSteps,
     TypeInv, TypeOK
<1>10. CASE AgentFails(w)
  BY <1>10 DEF AgentFails, Fail, Moves, Goto, Begin, queue, local,
     ClaimSteps, TypeInv, TypeOK
<1>11. CASE MarkRead(w)
  BY <1>11 DEF MarkRead, Read, Moves, Goto, Begin, queue, local, ClaimSteps,
     TypeInv, TypeOK
<1>12. CASE MarkFault(w)
  BY <1>12 DEF MarkFault, FailedAttempt, MarkRaised, Moves, Goto, Begin,
     queue, local, ClaimSteps, TypeInv, TypeOK
<1>13. CASE MarkCommit(w)
  BY <1>13 DEF MarkCommit, AfterMark, Moves, Goto, Begin, queue, local,
     ClaimSteps, TypeInv, TypeOK
<1>14. CASE MarkCommitFault(w)
  BY <1>14 DEF MarkCommitFault, FailedAttempt, MarkRaised, Moves, Goto,
     Begin, queue, local, ClaimSteps, TypeInv, TypeOK
<1>15. CASE FailCard(w)
  BY <1>15 DEF FailCard, Moves, Goto, Begin, queue, local, ClaimSteps,
     TypeInv, TypeOK
<1>16. CASE Upload(w)
  BY <1>16 DEF Upload, UploadSteps, NextUpload, Moves, Goto, Begin, queue,
     local, ClaimSteps, TypeInv, TypeOK
<1>17. CASE SkipPdf(w)
  BY <1>17 DEF SkipPdf, Moves, Goto, Begin, queue, local, ClaimSteps,
     TypeInv, TypeOK
<1>18. CASE UploadFails(w)
  BY <1>18 DEF UploadFails, Fail, UploadSteps, Moves, Goto, Begin, queue,
     local, ClaimSteps, TypeInv, TypeOK
<1>19. CASE FinRead(w)
  BY <1>19 DEF FinRead, Read, Moves, Goto, Begin, queue, local, ClaimSteps,
     TypeInv, TypeOK
<1>20. CASE FinCommit(w)
  BY <1>20 DEF FinCommit, Moves, Goto, Begin, queue, local, ClaimSteps,
     TypeInv, TypeOK
<1>21. CASE FinFault(w)
  BY <1>21 DEF FinFault, Fail, Moves, Goto, Begin, queue, local, ClaimSteps,
     TypeInv, TypeOK
<1>22. CASE DoneCard(w)
  BY <1>22 DEF DoneCard, Moves, Goto, Begin, queue, local, ClaimSteps,
     TypeInv, TypeOK
<1>23. QED
  BY <1>1, <1>2, <1>3, <1>4, <1>5, <1>6, <1>7, <1>8, <1>9, <1>10, <1>11,
     <1>12, <1>13, <1>14, <1>15, <1>16, <1>17, <1>18, <1>19, <1>20, <1>21,
     <1>22 DEF Work

\* The claim takes a few database attempts; the ack deadline is ten minutes.
ClaimIsQuick == RedeliverAt \cap ClaimSteps = {}

\* A delivery has one handler, and while a handler claims, its delivery is
\* the newest of its message and has not gone back to the queue.
DeliveryInv ==
  /\ \A w \in Workers : pc[w] # "idle" => att[w] <= tries[job[w]]
  /\ \A w, v \in Workers :
       /\ pc[w] # "idle" /\ pc[v] # "idle"
       /\ job[w] = job[v] /\ att[w] = att[v]
       => w = v
  /\ \A w \in Workers :
       pc[w] \in ClaimSteps =>
         att[w] = tries[job[w]] /\ mstate[job[w]] \in {"out", "acked"}

LEMMA DeliveryInit == Init => DeliveryInv
BY DEF Init, DeliveryInv, ClaimSteps

LEMMA DeliveryNext ==
  ASSUME ClaimIsQuick
  PROVE  TypeInv /\ DeliveryInv /\ [Next]_vars => DeliveryInv'
<1> SUFFICES ASSUME TypeInv, DeliveryInv, [Next]_vars PROVE DeliveryInv'
  OBVIOUS
<1>1. ASSUME NEW w \in Workers, Work(w) PROVE DeliveryInv'
  BY <1>1, WorkMoves DEF Moves, DeliveryInv
<1>2. ASSUME NEW w \in Workers, Ack(w) PROVE DeliveryInv'
  <2>1. /\ pc'[w] = "idle" /\ tries' = tries /\ pc[w] = "ack"
        /\ \A v \in Workers \ {w} : pc'[v] = pc[v] /\ job'[v] = job[v] /\ att'[v] = att[v]
    BY <1>2 DEF Ack, Leave, Begin, Goto, TypeInv, TypeOK
  <2>2. \/ mstate' = [mstate EXCEPT ![job[w]] = "acked"]
        \/ mstate' = mstate
    BY <1>2 DEF Ack
  <2>3. \A m \in Msgs : mstate'[m] = mstate[m] \/ mstate'[m] = "acked"
    BY <2>2 DEF TypeInv, TypeOK
  <2>4. mstate \in [Msgs -> {"queued", "out", "acked", "dead"}] /\ job \in [Workers -> Msgs]
    BY DEF TypeInv, TypeOK
  <2>5. QED
    BY <2>1, <2>2, <2>3, <2>4 DEF DeliveryInv, ClaimSteps
<1>3. ASSUME NEW w \in Workers, Nack(w) \/ Crash(w) PROVE DeliveryInv'
  <2>1. /\ pc[w] # "idle" /\ pc'[w] = "idle" /\ tries' = tries
        /\ \A v \in Workers \ {w} : pc'[v] = pc[v] /\ job'[v] = job[v] /\ att'[v] = att[v]
    BY <1>3, ParamAssumption DEF Nack, Crash, Return, Leave, Begin, Goto, TypeInv, TypeOK
  <2>2. mstate' = IF Newest(w) THEN [mstate EXCEPT ![job[w]] = "queued"] ELSE mstate
    BY <1>3 DEF Nack, Crash, Return
  <2>3. ASSUME NEW v \in Workers, pc'[v] \in ClaimSteps
        PROVE  att'[v] = tries'[job'[v]] /\ mstate'[job'[v]] \in {"out", "acked"}
    <3>1. v # w /\ pc[v] \in ClaimSteps /\ pc[v] # "idle"
      BY <2>1, <2>3 DEF ClaimSteps
    <3>2. att[v] = tries[job[v]] /\ mstate[job[v]] \in {"out", "acked"}
      BY <3>1 DEF DeliveryInv
    <3>3. Newest(w) => job[v] # job[w]
      BY <2>1, <3>1, <3>2 DEF Newest, DeliveryInv
    <3>4. QED
      BY <2>1, <2>2, <3>1, <3>2, <3>3 DEF TypeInv, TypeOK
  <2>4. QED
    BY <2>1, <2>3 DEF DeliveryInv
<1>4. ASSUME NEW w \in Workers, AckDeadline(w) PROVE DeliveryInv'
  <2>1. /\ pc[w] \in RedeliverAt /\ Newest(w) /\ UNCHANGED <<pc, tries, job, att>>
        /\ mstate' = [mstate EXCEPT ![job[w]] = "queued"]
    BY <1>4 DEF AckDeadline, local
  <2>2. ASSUME NEW v \in Workers, pc[v] \in ClaimSteps PROVE job[v] # job[w]
    BY <2>1, <2>2, ParamAssumption, ClaimIsQuick
       DEF ClaimIsQuick, Newest, DeliveryInv, ClaimSteps
  <2>3. QED
    BY <2>1, <2>2 DEF DeliveryInv, TypeInv, TypeOK
<1>5. ASSUME NEW w \in Workers, NEW m \in Msgs, Deliver(w, m) PROVE DeliveryInv'
  <2>1. /\ pc[w] = "idle" /\ pc'[w] = "claimRead" /\ job'[w] = m /\ att'[w] = tries[m] + 1
        /\ \A v \in Workers \ {w} : pc'[v] = pc[v] /\ job'[v] = job[v] /\ att'[v] = att[v]
    BY <1>5 DEF Deliver, Begin, Goto, TypeInv, TypeOK
  <2>2. /\ mstate[m] = "queued"
        /\ \A n \in Msgs : mstate'[n] = IF n = m THEN "out" ELSE mstate[n]
        /\ \A n \in Msgs : tries'[n] = IF n = m THEN tries[m] + 1 ELSE tries[n]
    BY <1>5 DEF Deliver, TypeInv, TypeOK
  <2>3. \A v \in Workers : att[v] \in Nat /\ job[v] \in Msgs
    BY ParamAssumption DEF TypeInv, TypeOK
  <2>4. \A n \in Msgs : tries[n] \in Nat
    BY ParamAssumption DEF TypeInv, TypeOK
  <2>5. \A v \in Workers : pc'[v] # "idle" => att'[v] <= tries'[job'[v]]
    <3>1. \A v \in Workers \ {w} : pc[v] # "idle" => att[v] <= tries'[job[v]]
      BY <2>2, <2>3, <2>4 DEF DeliveryInv
    <3>2. att'[w] <= tries'[job'[w]]
      BY <2>1, <2>2, <2>4
    <3>3. QED
      BY <2>1, <3>1, <3>2
  <2>6. \A v \in Workers \ {w} : pc[v] # "idle" /\ job[v] = m => att[v] < att'[w]
    BY <2>1, <2>3, <2>4 DEF DeliveryInv
  <2>7. \A v \in Workers \ {w} : pc[v] \in ClaimSteps => job[v] # m
    BY <2>2 DEF DeliveryInv
  <2>8. \A v \in Workers : pc'[v] \in ClaimSteps =>
          att'[v] = tries'[job'[v]] /\ mstate'[job'[v]] \in {"out", "acked"}
    <3>1. \A v \in Workers \ {w} : pc[v] \in ClaimSteps =>
            att[v] = tries'[job[v]] /\ mstate'[job[v]] \in {"out", "acked"}
      BY <2>2, <2>3, <2>7 DEF DeliveryInv
    <3>2. att'[w] = tries'[job'[w]] /\ mstate'[job'[w]] = "out"
      BY <2>1, <2>2
    <3>3. QED
      BY <2>1, <3>1, <3>2
  <2>9. \A u, v \in Workers :
          pc'[u] # "idle" /\ pc'[v] # "idle" /\ job'[u] = job'[v] /\ att'[u] = att'[v]
          => u = v
    BY <2>1, <2>3, <2>4, <2>6 DEF DeliveryInv
  <2>10. QED
    BY <2>5, <2>8, <2>9 DEF DeliveryInv
<1>6. ASSUME NEW m \in Msgs, DeadLetter(m) PROVE DeliveryInv'
  BY <1>6 DEF DeadLetter, local, DeliveryInv, TypeInv, TypeOK
<1>7. CASE Vanish \/ UNCHANGED vars
  BY <1>7 DEF Vanish, vars, local, queue, DeliveryInv
<1>8. QED
  BY <1>1, <1>2, <1>3, <1>4, <1>5, <1>6, <1>7 DEF Next, Handle

\* Delivery discipline holds in every behaviour.
THEOREM DeliverySafe == ASSUME ClaimIsQuick PROVE Spec => []DeliveryInv
<1>1. TypeInv /\ DeliveryInv /\ [Next]_vars => DeliveryInv'
  BY DeliveryNext, ClaimIsQuick
<1>2. QED
  BY <1>1, DeliveryInit, TypeCorrect, PTL DEF Spec

-----------------------------------------------------------------------------
(* One execution per message.  An executed message has left "pending"      *)
(* behind, and its later handlers read that before they claim.             *)

ExecInv ==
  /\ OneExecutionPerMessage
  /\ \A m \in Msgs : spent[m] > 0 => status # "pending" /\ tries[m] >= 1
  /\ \A w \in Workers :
       pc[w] \in ClaimSteps /\ spent[job[w]] > 0 =>
         /\ att[w] > 1
         /\ pc[w] = "claimCommit" => saw[w] # "pending"
  /\ \A w \in Workers :
       pc[w] = "claimCommit" /\ saw[w] # "pending" => status # "pending"

LEMMA ExecInit == Init => ExecInv
BY DEF Init, ExecInv, OneExecutionPerMessage, ClaimSteps

\* No step takes the row back to pending.
LEMMA NeverPendingAgain ==
  ASSUME TypeInv, [Next]_vars, status # "pending"
  PROVE  status' # "pending"
<1>1. ASSUME NEW w \in Workers, Work(w) PROVE status' # "pending"
  BY <1>1 DEF Work, ClaimRead, Read, ClaimFault, ClaimNoop, ClaimCommit,
     ClaimCommitFault, RefuseCard, LoadBrief, Progress, AgentOk, AgentFails,
     MarkRead, MarkFault, MarkCommit, MarkCommitFault, FailCard, Upload, SkipPdf,
     UploadFails, FinRead, FinCommit, FinFault, DoneCard, store, Write, ClaimTarget,
     Finalise
<1>2. QED
  BY <1>1 DEF Next, Handle, Ack, Nack, Crash, Return, AckDeadline, Deliver,
     DeadLetter, Vanish, vars, store

\* A step that is not the commit of a claim starts no execution.
LEMMA SpentUnchanged ==
  ASSUME NEW w \in Workers, Work(w), ~ClaimCommit(w)
  PROVE  spent' = spent
BY DEF Work, ClaimRead, Read, ClaimFault, ClaimNoop, ClaimCommitFault, RefuseCard,
   LoadBrief, Progress, AgentOk, AgentFails, MarkRead, MarkFault, MarkCommit,
   MarkCommitFault, FailCard, Upload, SkipPdf, UploadFails, FinRead, FinCommit,
   FinFault, DoneCard

LEMMA ExecNext ==
  TypeInv /\ DeliveryInv /\ ExecInv /\ [Next]_vars => ExecInv'
<1> SUFFICES ASSUME TypeInv, DeliveryInv, ExecInv, [Next]_vars PROVE ExecInv'
  OBVIOUS
<1>a. status # "pending" => status' # "pending"
  BY NeverPendingAgain
<1>1. ASSUME NEW w \in Workers, ClaimRead(w) PROVE ExecInv'
  <2>1. /\ UNCHANGED <<spent, tries, job, att, status>> /\ pc[w] = "claimRead"
        /\ pc'[w] = "claimCommit" /\ saw'[w] = status
        /\ \A v \in Workers \ {w} : pc'[v] = pc[v] /\ saw'[v] = saw[v]
    BY <1>1 DEF ClaimRead, Read, Goto, store, queue, local, TypeInv, TypeOK
  <2>2. spent[job[w]] > 0 => saw'[w] # "pending"
    BY <2>1 DEF ExecInv, TypeInv, TypeOK
  <2>3. QED
    BY <2>1, <2>2 DEF ExecInv, OneExecutionPerMessage, ClaimSteps
<1>2. ASSUME NEW w \in Workers, ClaimCommit(w) PROVE ExecInv'
  <2>1. /\ pc[w] = "claimCommit" /\ saw[w] \in {"pending", "running"}
        /\ UNCHANGED <<tries, job, att, saw>> /\ Write(w, ClaimTarget(w))
        /\ pc'[w] \notin ClaimSteps
        /\ \A v \in Workers \ {w} : pc'[v] = pc[v]
    BY <1>2 DEF ClaimCommit, Goto, Begin, queue, local, ClaimSteps, TypeInv, TypeOK
  <2>2. CASE Refuses(w)
    <3>1. spent' = spent
      BY <1>2, <2>2 DEF ClaimCommit
    <3>2. QED
      BY <1>a, <2>1, <3>1 DEF ExecInv, OneExecutionPerMessage
  <2>3. CASE ~Refuses(w)
    <3>1. spent' = [spent EXCEPT ![job[w]] = @ + 1]
      BY <1>2, <2>3 DEF ClaimCommit
    <3>2. job[w] \in Msgs /\ pc[w] \in ClaimSteps /\ att[w] \in Nat \ {0}
      BY <2>1, ParamAssumption DEF ClaimSteps, TypeInv, TypeOK
    <3>3. spent[job[w]] = 0
      BY <2>1, <2>3, <3>2 DEF Refuses, ExecInv, TypeInv, TypeOK
    <3>4. status' # "pending"
      BY <1>a, <2>1, <2>3 DEF Write, ClaimTarget, ExecInv
    <3>5. tries[job[w]] >= 1
      BY <3>2 DEF DeliveryInv
    <3>6. \A v \in Workers \ {w} : pc[v] \in ClaimSteps => job[v] # job[w]
      BY <2>1, <3>2 DEF DeliveryInv, ClaimSteps
    <3>7. \A m \in Msgs : spent'[m] = IF m = job[w] THEN 1 ELSE spent[m]
      BY <3>1, <3>2, <3>3 DEF TypeInv, TypeOK
    <3>8. \A v \in Workers : job[v] \in Msgs
      BY DEF TypeInv, TypeOK
    <3>9. QED
      BY <2>1, <3>4, <3>5, <3>6, <3>7, <3>8 DEF ExecInv, OneExecutionPerMessage
  <2>4. QED
    BY <2>2, <2>3
<1>3. ASSUME NEW w \in Workers, Work(w), ~ClaimRead(w), ~ClaimCommit(w) PROVE ExecInv'
  <2>1. Moves(w) /\ spent' = spent
    BY <1>3, WorkMoves, SpentUnchanged
  <2>2. pc'[w] # "claimCommit"
    BY <1>3 DEF Work, ClaimFault, FailedAttempt, ClaimNoop, ClaimCommitFault, RefuseCard,
       LoadBrief, Progress, AgentOk, AgentFails, MarkRead, Read, MarkFault, MarkCommit,
       AfterMark, MarkRaised, MarkCommitFault, FailCard, Upload, UploadSteps, NextUpload,
       SkipPdf, UploadFails, FinRead, FinCommit, FinFault, Fail, DoneCard, Goto, Begin,
       TypeInv, TypeOK
  <2>3. \A v \in Workers \ {w} : pc[v] = "claimCommit" => saw'[v] = saw[v]
    BY <1>3 DEF Work, ClaimFault, ClaimNoop, ClaimCommitFault, RefuseCard,
       LoadBrief, Progress, AgentOk, AgentFails, MarkRead, Read, MarkFault, MarkCommit,
       MarkCommitFault, FailCard, Upload, SkipPdf, UploadFails, FinRead, FinCommit,
       FinFault, DoneCard, TypeInv, TypeOK
  <2>4. QED
    BY <1>a, <2>1, <2>2, <2>3 DEF Moves, ExecInv, OneExecutionPerMessage
<1>4. ASSUME NEW w \in Workers, Ack(w) \/ Nack(w) \/ Crash(w) PROVE ExecInv'
  <2>1. /\ UNCHANGED <<spent, tries, status>> /\ pc'[w] = "idle"
        /\ \A v \in Workers \ {w} : /\ pc'[v] = pc[v] /\ job'[v] = job[v]
                                    /\ att'[v] = att[v] /\ saw'[v] = saw[v]
    BY <1>4 DEF Ack, Nack, Crash, Return, Leave, Begin, Goto, store, TypeInv, TypeOK
  <2>2. QED
    BY <2>1 DEF ExecInv, OneExecutionPerMessage, ClaimSteps
<1>5. ASSUME NEW w \in Workers, AckDeadline(w) PROVE ExecInv'
  BY <1>5 DEF AckDeadline, store, local, ExecInv, OneExecutionPerMessage
<1>6. ASSUME NEW w \in Workers, NEW m \in Msgs, Deliver(w, m) PROVE ExecInv'
  <2>1. /\ pc'[w] = "claimRead" /\ job'[w] = m /\ att'[w] = tries[m] + 1
        /\ \A v \in Workers \ {w} : pc'[v] = pc[v] /\ job'[v] = job[v] /\ att'[v] = att[v]
        /\ \A n \in Msgs : tries[n] \in Nat /\ tries'[n] \in Nat /\ tries'[n] >= tries[n]
        /\ UNCHANGED <<spent, status, saw>>
    BY <1>6, ParamAssumption DEF Deliver, Begin, Goto, store, TypeInv, TypeOK
  <2>2. spent[m] > 0 => att'[w] > 1
    BY <2>1 DEF ExecInv
  <2>3. \A n \in Msgs : spent[n] > 0 => status # "pending" /\ tries'[n] >= 1
    BY <2>1 DEF ExecInv
  <2>4. QED
    BY <2>1, <2>2, <2>3 DEF ExecInv, OneExecutionPerMessage
<1>7. ASSUME NEW m \in Msgs, DeadLetter(m) PROVE ExecInv'
  BY <1>7 DEF DeadLetter, store, local, ExecInv, OneExecutionPerMessage
<1>8. CASE Vanish \/ UNCHANGED vars
  BY <1>8 DEF Vanish, vars, store, local, queue, ExecInv, OneExecutionPerMessage
<1>9. QED
  BY <1>1, <1>2, <1>3, <1>4, <1>5, <1>6, <1>7, <1>8 DEF Next, Handle

\* A message, however often it is delivered, executes the pipeline at most
\* once, with any number of messages, handlers and faults.
THEOREM ExecutesOnce ==
  ASSUME ClaimIsQuick PROVE Spec => []OneExecutionPerMessage
<1>1. TypeInv /\ DeliveryInv /\ ExecInv /\ [Next]_vars => ExecInv'
  BY ExecNext
<1>2. ExecInv => OneExecutionPerMessage
  BY DEF ExecInv
<1>3. Spec => []DeliveryInv
  BY DeliverySafe, ClaimIsQuick
<1>4. QED
  BY <1>1, <1>2, <1>3, ExecInit, TypeCorrect, PTL DEF Spec

-----------------------------------------------------------------------------
(* The package.  A handler about to commit has uploaded what its rows will *)
(* point at; nothing deletes a file or, with the row alive, an artifact.   *)

PackInv ==
  /\ SucceededIsDelivered
  /\ DoneIsDelivered
  /\ \A w \in Workers :
       /\ pc[w] \in {"uploadJson", "uploadPdf"} \cup FinSteps => "md" \in blobs
       /\ pc[w] \in {"uploadPdf"} \cup FinSteps => "json" \in blobs
       /\ pdf[w] => "pdf" \in blobs
       /\ pc[w] = "doneCard" =>
            status = "absent" \/ (rows["md"] > 0 /\ rows["json"] > 0)

LEMMA PackInit == Init => PackInv
BY DEF Init, PackInv, SucceededIsDelivered, DoneIsDelivered, Kinds, FinSteps

\* The commit of _finalise_db keeps every row backed by a file.
LEMMA FinaliseDelivers ==
  ASSUME TypeInv, PackInv, NEW w \in Workers, pc[w] \in FinSteps, Finalise(w)
  PROVE  /\ rows'["md"] > 0 /\ rows'["json"] > 0
         /\ \A k \in Kinds : rows'[k] > 0 => k \in blobs
         /\ \A k \in Kinds : rows[k] > 0 => rows'[k] > 0
<1>1. \A k \in Kinds : rows[k] \in Nat
  BY ParamAssumption DEF TypeInv, TypeOK
<1>2. /\ "md" \in Packed(w) /\ "json" \in Packed(w)
      /\ \A k \in Packed(w) : k \in blobs
  BY DEF Packed, PackInv, FinSteps
<1>3. \A k \in Kinds : rows'[k] = IF k \in Packed(w) /\ rows[k] < RowCap
                                    THEN rows[k] + 1 ELSE rows[k]
  BY DEF Finalise
<1>4. \A k \in Packed(w) : k \in Kinds /\ rows'[k] > 0
  BY <1>1, <1>3, ParamAssumption DEF Packed, Kinds
<1>5. \A k \in Kinds : rows'[k] > 0 => k \in blobs
  BY <1>1, <1>2, <1>3 DEF PackInv, SucceededIsDelivered
<1>6. \A k \in Kinds : rows[k] > 0 => rows'[k] > 0
  BY <1>1, <1>3
<1>7. QED
  BY <1>2, <1>4, <1>5, <1>6

LEMMA PackNext == TypeInv /\ PackInv /\ [Next]_vars => PackInv'
<1> SUFFICES ASSUME TypeInv, PackInv, [Next]_vars PROVE PackInv'
  OBVIOUS
<1> DEFINE Others(w) == \A v \in Workers \ {w} : pc'[v] = pc[v] /\ pdf'[v] = pdf[v]
<1>1. ASSUME NEW w \in Workers, Upload(w) PROVE PackInv'
  <2>1. /\ Others(w) /\ UNCHANGED <<status, rows, log>>
        /\ pc[w] \in UploadSteps /\ pc'[w] = NextUpload[pc[w]]
        /\ blobs' = blobs \cup {KindOf[pc[w]]}
        /\ pdf'[w] => pc[w] = "uploadPdf"
    BY <1>1 DEF Upload, Begin, Goto, events, TypeInv, TypeOK
  <2>2. \/ /\ pc[w] = "uploadMd" /\ pc'[w] = "uploadJson"
           /\ blobs' = blobs \cup {"md"}
        \/ /\ pc[w] = "uploadJson" /\ pc'[w] = "uploadPdf"
           /\ blobs' = blobs \cup {"json"}
        \/ /\ pc[w] = "uploadPdf" /\ pc'[w] = "finRead"
           /\ blobs' = blobs \cup {"pdf"}
    <3>1. CASE pc[w] = "uploadMd"
      BY <2>1, <3>1 DEF NextUpload, KindOf
    <3>2. CASE pc[w] = "uploadJson"
      BY <2>1, <3>2 DEF NextUpload, KindOf
    <3>3. CASE pc[w] = "uploadPdf"
      BY <2>1, <3>3 DEF NextUpload, KindOf
    <3>4. QED
      BY <2>1, <3>1, <3>2, <3>3 DEF UploadSteps
  <2>3. SucceededIsDelivered' /\ DoneIsDelivered'
    BY <2>1 DEF PackInv, SucceededIsDelivered, DoneIsDelivered
  <2>4. QED
    BY <2>1, <2>2, <2>3 DEF PackInv, FinSteps
<1>2. ASSUME NEW w \in Workers, SkipPdf(w) \/ FinRead(w) PROVE PackInv'
  <2>1. /\ Others(w) /\ UNCHANGED <<status, rows, log, blobs, pdf>>
        /\ pc[w] \in {"uploadPdf"} \cup FinSteps /\ pc'[w] \in FinSteps
    BY <1>2 DEF SkipPdf, FinRead, Read, Begin, Goto, store, events, local, FinSteps,
       TypeInv, TypeOK
  <2>2. QED
    BY <2>1 DEF PackInv, SucceededIsDelivered, DoneIsDelivered, FinSteps
<1>3. ASSUME NEW w \in Workers, FinCommit(w) PROVE PackInv'
  <2>1. /\ Others(w) /\ UNCHANGED <<log, blobs, pdf>> /\ Finalise(w)
        /\ pc[w] \in FinSteps /\ pc'[w] = "doneCard"
    BY <1>3 DEF FinCommit, Begin, Goto, events, local, FinSteps, TypeInv, TypeOK
  <2>2. status = "absent" => status' = "absent"
    BY <2>1 DEF Finalise, Write
  <2>3. QED
    BY <2>1, <2>2, FinaliseDelivers DEF PackInv, SucceededIsDelivered,
       DoneIsDelivered, FinSteps, Kinds
<1>4. ASSUME NEW w \in Workers, FinFault(w) PROVE PackInv'
  <2>1. /\ Others(w) /\ UNCHANGED <<log, blobs, pdf>>
        /\ UNCHANGED <<status, rows>> \/ Finalise(w)
        /\ pc[w] \in FinSteps /\ pc'[w] \in {"finRead", "markRead"}
    BY <1>4 DEF FinFault, Fail, Begin, Goto, events, FinSteps, TypeInv, TypeOK
  <2>2. CASE UNCHANGED <<status, rows>>
    BY <2>1, <2>2 DEF PackInv, SucceededIsDelivered, DoneIsDelivered, FinSteps
  <2>3. CASE Finalise(w)
    <3>1. status = "absent" => status' = "absent"
      BY <2>3 DEF Finalise, Write
    <3>2. QED
      BY <2>1, <2>3, <3>1, FinaliseDelivers DEF PackInv, SucceededIsDelivered,
         DoneIsDelivered, FinSteps, Kinds
  <2>4. QED
    BY <2>1, <2>2, <2>3
<1>5. ASSUME NEW w \in Workers, DoneCard(w) PROVE PackInv'
  <2>1. /\ Others(w) /\ UNCHANGED <<status, rows, blobs, pdf>>
        /\ pc[w] = "doneCard" /\ pc'[w] \in {"ack", "nack"}
        /\ log' = log \/ status # "absent"
    BY <1>5 DEF DoneCard, Persisted, EmitRaised, Goto, store, local, TypeInv, TypeOK
  <2>2. QED
    BY <2>1 DEF PackInv, SucceededIsDelivered, DoneIsDelivered, FinSteps
<1>6. ASSUME NEW w \in Workers, FailCard(w) \/ RefuseCard(w) PROVE PackInv'
  <2>1. /\ Others(w) /\ UNCHANGED <<status, rows, blobs, pdf>>
        /\ pc'[w] \in {"ack", "nack"}
        /\ log' \in {log, log \cup {"failed"}}
    BY <1>6 DEF FailCard, RefuseCard, Persisted, EmitRaised, Goto, store, local,
       TypeInv, TypeOK
  <2>2. QED
    BY <2>1 DEF PackInv, SucceededIsDelivered, DoneIsDelivered, FinSteps
<1>7. ASSUME NEW w \in Workers,
             ClaimCommit(w) \/ ClaimCommitFault(w) \/ MarkCommit(w) \/ MarkCommitFault(w)
      PROVE  PackInv'
  <2>1. /\ Others(w) /\ UNCHANGED <<rows, blobs, log, pdf>>
        /\ pc'[w] \in {"claimRead", "nack", "refuseCard", "load", "markRead", "ack",
                       "failCard"}
    BY <1>7 DEF ClaimCommit, ClaimCommitFault, MarkCommit, MarkCommitFault, FailedAttempt,
       AfterMark, MarkRaised, Begin, Goto, events, local, TypeInv, TypeOK
  <2>2. /\ status' = "succeeded" => status = "succeeded"
        /\ status = "absent" => status' = "absent"
    BY <1>7 DEF ClaimCommit, ClaimCommitFault, MarkCommit, MarkCommitFault, ClaimTarget,
       Write
  <2>3. QED
    BY <2>1, <2>2 DEF PackInv, SucceededIsDelivered, DoneIsDelivered, FinSteps
<1>8. ASSUME NEW w \in Workers,
             \/ ClaimRead(w) \/ ClaimFault(w) \/ ClaimNoop(w) \/ LoadBrief(w)
             \/ Progress(w) \/ AgentOk(w) \/ AgentFails(w) \/ MarkRead(w) \/ MarkFault(w)
             \/ UploadFails(w)
      PROVE  PackInv'
  <2>1. /\ Others(w) /\ UNCHANGED <<status, rows, blobs, log, pdf>>
        /\ pc'[w] \in {"claimRead", "claimCommit", "nack", "ack", "markRead", "progress",
                       "agent", "uploadMd", "markCommit", "failCard"}
    BY <1>8 DEF ClaimRead, Read, ClaimFault, FailedAttempt, ClaimNoop, LoadBrief, Fail,
       Progress, AgentOk, AgentFails, MarkRead, MarkFault, MarkRaised, UploadFails,
       Begin, Goto, store, events, local, TypeInv, TypeOK
  <2>2. QED
    BY <2>1 DEF PackInv, SucceededIsDelivered, DoneIsDelivered, FinSteps
<1>9. ASSUME NEW w \in Workers, Ack(w) \/ Nack(w) \/ Crash(w) PROVE PackInv'
  <2>1. /\ Others(w) /\ UNCHANGED <<status, rows, blobs, log>>
        /\ pc'[w] = "idle" /\ pdf'[w] = FALSE
    BY <1>9 DEF Ack, Nack, Crash, Return, Leave, Begin, Goto, store, events,
       TypeInv, TypeOK
  <2>2. QED
    BY <2>1 DEF PackInv, SucceededIsDelivered, DoneIsDelivered, FinSteps
<1>10. ASSUME NEW w \in Workers, NEW m \in Msgs, Deliver(w, m) PROVE PackInv'
  <2>1. /\ Others(w) /\ UNCHANGED <<status, rows, blobs, log, pdf>> /\ pc'[w] = "claimRead"
    BY <1>10 DEF Deliver, Begin, Goto, store, events, TypeInv, TypeOK
  <2>2. QED
    BY <2>1 DEF PackInv, SucceededIsDelivered, DoneIsDelivered, FinSteps
<1>11. CASE Vanish
  BY <1>11 DEF Vanish, local, PackInv, SucceededIsDelivered, DoneIsDelivered
<1>12. ASSUME \/ \E w \in Workers : AckDeadline(w)
              \/ \E m \in Msgs : DeadLetter(m)
              \/ UNCHANGED vars
       PROVE  PackInv'
  BY <1>12 DEF AckDeadline, DeadLetter, vars, store, events, local, PackInv,
     SucceededIsDelivered, DoneIsDelivered
<1>13. QED
  BY <1>1, <1>2, <1>3, <1>4, <1>5, <1>6, <1>7, <1>8, <1>9, <1>10, <1>11, <1>12
     DEF Next, Handle, Work

\* Under every interleaving and every fault, "succeeded" means delivered.
THEOREM SuccessIsDelivered == Spec => []SucceededIsDelivered
<1>1. PackInv => SucceededIsDelivered
  BY DEF PackInv
<1>2. QED
  BY <1>1, PackInit, PackNext, TypeCorrect, PTL DEF Spec

\* Under every interleaving and every fault, the done event means delivered.
THEOREM DoneMeansDelivered == Spec => []DoneIsDelivered
<1>1. PackInv => DoneIsDelivered
  BY DEF PackInv
<1>2. QED
  BY <1>1, PackInit, PackNext, TypeCorrect, PTL DEF Spec

-----------------------------------------------------------------------------
(* Acknowledged means settled.  While the run is unsettled some message is *)
(* open: not acknowledged, and every handler that holds it will either     *)
(* settle the run or hand the message back.                                *)

Unsettled == {"pending", "running"}

Responsible(w) ==
  \/ pc[w] \in {"claimRead", "load", "progress", "agent", "markRead", "finRead", "nack"}
                 \cup UploadSteps
  \/ pc[w] \in {"claimCommit", "markCommit", "finCommit"} /\ saw[w] \in Unsettled

Open(m) ==
  /\ mstate[m] # "acked"
  /\ \A w \in Workers : pc[w] # "idle" /\ job[w] = m => Responsible(w)

SettleInv ==
  /\ status = "pending" =>
       /\ \A w \in Workers : pc[w] \in ClaimSteps \cup {"idle"}
       /\ \A m \in Msgs : mstate[m] # "acked"
  /\ \A w \in Workers :
       pc[w] = "claimCommit" /\ saw[w] = "pending" =>
         /\ mstate[job[w]] = "out"
         /\ \A v \in Workers \ {w} : pc[v] # "idle" => job[v] # job[w]
  /\ status \in Unsettled => \E m \in Msgs : Open(m)

LEMMA SettleInit == Init => SettleInv
BY SomeMessage DEF Init, SettleInv, Open, Unsettled

\* A handler that read the row as pending is alone with its message.
LEMMA LoneClaim ==
  ASSUME Faults = {}, ClaimIsQuick, TypeInv, DeliveryInv, ExecInv, SettleInv, [Next]_vars
  PROVE  \A w \in Workers :
           pc'[w] = "claimCommit" /\ saw'[w] = "pending" =>
             /\ mstate'[job'[w]] = "out"
             /\ \A v \in Workers \ {w} : pc'[v] # "idle" => job'[v] # job'[w]
<1> DEFINE Lone == \A w \in Workers :
                     pc[w] = "claimCommit" /\ saw[w] = "pending" =>
                       /\ mstate[job[w]] = "out"
                       /\ \A v \in Workers \ {w} : pc[v] # "idle" => job[v] # job[w]
<1>0. Lone
  BY DEF SettleInv
<1>1. ASSUME NEW w \in Workers, ClaimRead(w) PROVE Lone'
  <2>1. /\ UNCHANGED <<mstate, tries, job, att, status>> /\ pc[w] = "claimRead"
        /\ pc'[w] = "claimCommit" /\ saw'[w] = status
        /\ \A v \in Workers \ {w} : pc'[v] = pc[v] /\ saw'[v] = saw[v]
    BY <1>1 DEF ClaimRead, Read, Goto, store, queue, local, TypeInv, TypeOK
  <2>2. ASSUME status = "pending"
        PROVE  /\ mstate[job[w]] = "out"
               /\ \A v \in Workers \ {w} : pc[v] # "idle" => job[v] # job[w]
    <3>1. mstate[job[w]] # "acked"
      BY <2>2 DEF SettleInv, TypeInv, TypeOK
    <3>2. mstate[job[w]] \in {"out", "acked"}
      BY <2>1 DEF DeliveryInv, ClaimSteps
    <3>3. \A v \in Workers \ {w} : pc[v] # "idle" => pc[v] \in ClaimSteps
      BY <2>2 DEF SettleInv
    <3>4. \A v \in Workers \ {w} : pc[v] # "idle" => job[v] # job[w]
      BY <2>1, <3>3 DEF DeliveryInv, ClaimSteps
    <3>5. QED
      BY <3>1, <3>2, <3>4
  <2>3. QED
    BY <1>0, <2>1, <2>2
<1>2. ASSUME NEW w \in Workers, Work(w), ~ClaimRead(w) PROVE Lone'
  <2>1. Moves(w)
    BY <1>2, WorkMoves
  <2>2. pc'[w] # "claimCommit"
    BY <1>2 DEF Work, ClaimFault, ClaimNoop, ClaimCommit, ClaimCommitFault, RefuseCard,
       FailedAttempt, LoadBrief, Progress, AgentOk, AgentFails, MarkRead, Read,
       MarkFault, MarkCommit, AfterMark, MarkRaised, MarkCommitFault, FailCard, Upload,
       UploadSteps, NextUpload, SkipPdf, UploadFails, FinRead, FinCommit, FinFault, Fail,
       DoneCard, Goto, Begin, TypeInv, TypeOK
  <2>3. \A v \in Workers \ {w} : saw'[v] = saw[v]
    BY <1>2 DEF Work, ClaimFault, ClaimNoop, ClaimCommit, ClaimCommitFault, RefuseCard,
       LoadBrief, Progress, AgentOk, AgentFails, MarkRead, Read, MarkFault, MarkCommit,
       MarkCommitFault, FailCard, Upload, SkipPdf, UploadFails, FinRead, FinCommit,
       FinFault, DoneCard, TypeInv, TypeOK
  <2>4. QED
    BY <1>0, <2>1, <2>2, <2>3 DEF Moves
<1>3. ASSUME NEW w \in Workers, Ack(w) \/ Nack(w) \/ Crash(w) PROVE Lone'
  <2>1. /\ pc[w] # "idle" /\ pc'[w] = "idle"
        /\ \A v \in Workers \ {w} : pc'[v] = pc[v] /\ job'[v] = job[v] /\ saw'[v] = saw[v]
        /\ \A n \in Msgs : n # job[w] => mstate'[n] = mstate[n]
    BY <1>3, ParamAssumption DEF Ack, Nack, Crash, Return, Leave, Begin, Goto, TypeInv, TypeOK
  <2>2. \A v \in Workers : job[v] \in Msgs
    BY DEF TypeInv, TypeOK
  <2>3. QED
    BY <1>0, <2>1, <2>2
<1>4. ASSUME NEW w \in Workers, AckDeadline(w) PROVE Lone'
  <2>1. /\ pc[w] \in RedeliverAt /\ UNCHANGED <<pc, job, saw>>
        /\ mstate' = [mstate EXCEPT ![job[w]] = "queued"]
    BY <1>4 DEF AckDeadline, local
  <2>2. pc[w] \notin {"idle", "claimCommit"}
    BY <2>1, ClaimIsQuick, ParamAssumption DEF ClaimIsQuick, ClaimSteps
  <2>3. QED
    BY <1>0, <2>1, <2>2 DEF TypeInv, TypeOK
<1>5. ASSUME NEW w \in Workers, NEW m \in Msgs, Deliver(w, m) PROVE Lone'
  <2>1. /\ pc'[w] = "claimRead" /\ job'[w] = m /\ mstate[m] = "queued" /\ saw' = saw
        /\ \A v \in Workers \ {w} : pc'[v] = pc[v] /\ job'[v] = job[v]
        /\ mstate' = [mstate EXCEPT ![m] = "out"]
    BY <1>5 DEF Deliver, Begin, Goto, TypeInv, TypeOK
  <2>2. /\ mstate'[m] = "out"
        /\ \A n \in Msgs \ {m} : mstate'[n] = mstate[n]
        /\ \A v \in Workers : job[v] \in Msgs
    BY <2>1 DEF TypeInv, TypeOK
  <2>3. \A v \in Workers \ {w} :
          pc[v] = "claimCommit" /\ saw[v] = "pending" => job[v] # m
    BY <1>0, <2>1
  <2>4. QED
    BY <1>0, <2>1, <2>2, <2>3
<1>6. ASSUME NEW m \in Msgs, DeadLetter(m) PROVE Lone'
  BY <1>0, <1>6 DEF DeadLetter, local, TypeInv, TypeOK
<1>7. CASE Vanish \/ UNCHANGED vars
  BY <1>0, <1>7 DEF Vanish, vars, local, queue
<1>8. QED
  BY <1>1, <1>2, <1>3, <1>4, <1>5, <1>6, <1>7 DEF Next, Handle

\* While the row is pending no handler is past its claim.
LEMMA PendingMeansUnclaimed ==
  ASSUME Faults = {}, TypeInv, ExecInv, SettleInv, [Next]_vars, status' = "pending"
  PROVE  /\ \A w \in Workers : pc'[w] \in ClaimSteps \cup {"idle"}
         /\ \A m \in Msgs : mstate'[m] # "acked"
<1>1. status = "pending"
  BY NeverPendingAgain
<1>2. /\ \A w \in Workers : pc[w] \in ClaimSteps \cup {"idle"}
      /\ \A m \in Msgs : mstate[m] # "acked"
      /\ \A w \in Workers : pc[w] = "claimCommit" => saw[w] = "pending"
  BY <1>1 DEF SettleInv, ExecInv
<1>3. ASSUME NEW w \in Workers, Work(w)
      PROVE  pc'[w] \in ClaimSteps /\ mstate' = mstate
             /\ \A v \in Workers \ {w} : pc'[v] = pc[v]
  <2>1. ClaimRead(w) \/ ClaimFault(w) \/ ClaimNoop(w) \/ ClaimCommit(w) \/ ClaimCommitFault(w)
    BY <1>2, <1>3 DEF Work, RefuseCard, LoadBrief, Progress, AgentOk, AgentFails,
       MarkRead, Read, MarkFault, MarkCommit, MarkCommitFault, FailCard, Upload, UploadSteps,
       SkipPdf, UploadFails, FinRead, FinCommit, FinFault, DoneCard, ClaimSteps
  <2>2. ClaimRead(w)
    BY <1>1, <1>2, <2>1 DEF ClaimFault, ClaimNoop, ClaimCommit, ClaimCommitFault, Write,
       ClaimTarget, Terminal
  <2>3. QED
    BY <2>2 DEF ClaimRead, Read, Goto, queue, ClaimSteps, TypeInv, TypeOK
<1>4. ASSUME NEW w \in Workers, Ack(w) \/ Nack(w) \/ Crash(w)
      PROVE  /\ pc'[w] = "idle" /\ \A v \in Workers \ {w} : pc'[v] = pc[v]
             /\ \A m \in Msgs : mstate'[m] # "acked"
  <2>1. pc[w] # "ack"
    BY <1>2 DEF ClaimSteps
  <2>2. Nack(w) \/ Crash(w)
    BY <1>4, <2>1 DEF Ack
  <2>3. \A m \in Msgs : mstate'[m] \in {mstate[m], "queued"}
    BY <2>2 DEF Nack, Crash, Return, TypeInv, TypeOK
  <2>4. pc'[w] = "idle" /\ \A v \in Workers \ {w} : pc'[v] = pc[v]
    BY <2>2 DEF Nack, Crash, Return, Leave, Begin, Goto, TypeInv, TypeOK
  <2>5. QED
    BY <1>2, <2>3, <2>4
<1>5. ASSUME NEW w \in Workers, NEW m \in Msgs, Deliver(w, m)
      PROVE  /\ pc'[w] \in ClaimSteps /\ \A v \in Workers \ {w} : pc'[v] = pc[v]
             /\ \A n \in Msgs : mstate'[n] # "acked"
  BY <1>2, <1>5 DEF Deliver, Begin, Goto, ClaimSteps, TypeInv, TypeOK
<1>6. ASSUME \/ \E w \in Workers : AckDeadline(w)
             \/ \E m \in Msgs : DeadLetter(m)
             \/ Vanish \/ UNCHANGED vars
      PROVE  pc' = pc /\ \A m \in Msgs : mstate'[m] # "acked"
  BY <1>2, <1>6 DEF AckDeadline, DeadLetter, Vanish, vars, queue, TypeInv, TypeOK
<1>7. QED
  BY <1>2, <1>3, <1>4, <1>5, <1>6 DEF Next, Handle

\* A handler that answers for an unsettled run settles it or stays in charge.
LEMMA StaysResponsible ==
  ASSUME Faults = {}, TypeInv, NEW w \in Workers, Work(w), status \in Unsettled,
         Responsible(w)
  PROVE  status' \notin Unsettled \/ Responsible(w)'
<1>1. CASE ClaimRead(w) \/ MarkRead(w) \/ FinRead(w)
  BY <1>1 DEF ClaimRead, MarkRead, FinRead, Read, Goto, Responsible, store,
     TypeInv, TypeOK
<1>2. CASE ClaimCommit(w)
  BY <1>2 DEF ClaimCommit, Write, ClaimTarget, Refuses, Begin, Goto, Responsible,
     Unsettled, TypeInv, TypeOK
<1>3. CASE MarkCommit(w) \/ FinCommit(w)
  BY <1>3 DEF MarkCommit, FinCommit, Finalise, Markable, Write, Responsible, Unsettled,
     Terminal, UploadSteps
<1>4. CASE LoadBrief(w) \/ Progress(w) \/ AgentOk(w) \/ AgentFails(w)
  BY <1>4 DEF LoadBrief, Progress, AgentOk, AgentFails, Fail, Begin, Goto, Responsible,
     UploadSteps, TypeInv, TypeOK
<1>5. CASE Upload(w) \/ SkipPdf(w) \/ UploadFails(w)
  BY <1>5, UploadNames DEF Upload, SkipPdf, UploadFails, Fail, Begin, Goto, Responsible,
     UploadSteps, TypeInv, TypeOK
<1>6. CASE \/ ClaimFault(w) \/ ClaimNoop(w) \/ ClaimCommitFault(w) \/ RefuseCard(w)
           \/ MarkFault(w) \/ MarkCommitFault(w) \/ FailCard(w) \/ FinFault(w)
           \/ DoneCard(w)
  BY <1>6 DEF ClaimFault, ClaimNoop, ClaimCommitFault, RefuseCard, MarkFault,
     MarkCommitFault, FailCard, FinFault, DoneCard, Responsible, Unsettled, UploadSteps,
     Terminal
<1>7. QED
  BY <1>1, <1>2, <1>3, <1>4, <1>5, <1>6 DEF Work

\* Only the commit of a claim takes a settled row back to running.
LEMMA OnlyClaimUnsettles ==
  ASSUME TypeInv, [Next]_vars, status \notin Unsettled, status' \in Unsettled
  PROVE  \E w \in Workers : ClaimCommit(w) \/ ClaimCommitFault(w)
<1>1. ASSUME NEW w \in Workers, Work(w), ~ClaimCommit(w), ~ClaimCommitFault(w)
      PROVE  FALSE
  BY <1>1 DEF Work, ClaimRead, Read, ClaimFault, ClaimNoop, RefuseCard, LoadBrief,
     Progress, AgentOk, AgentFails, MarkRead, MarkFault, MarkCommit, MarkCommitFault,
     FailCard, Upload, SkipPdf, UploadFails, FinRead, FinCommit, FinFault, DoneCard,
     store, Write, Finalise, Unsettled
<1>2. QED
  BY <1>1 DEF Next, Handle, Ack, Nack, Crash, Return, AckDeadline, Deliver, DeadLetter,
     Vanish, vars, store, Unsettled

LEMMA StaysOpen ==
  ASSUME Faults = {}, TypeInv, DeliveryInv, SettleInv, [Next]_vars,
         status \in Unsettled, status' \in Unsettled, NEW m \in Msgs, Open(m)
  PROVE  Open(m)'
<1>1. ASSUME NEW w \in Workers, Work(w) PROVE Open(m)'
  <2>1. Moves(w)
    BY <1>1, WorkMoves
  <2>2. \A v \in Workers \ {w} : saw'[v] = saw[v]
    BY <1>1 DEF Work, ClaimRead, ClaimFault, ClaimNoop, ClaimCommit, ClaimCommitFault,
       RefuseCard, LoadBrief, Progress, AgentOk, AgentFails, MarkRead, Read, MarkFault,
       MarkCommit, MarkCommitFault, FailCard, Upload, SkipPdf, UploadFails, FinRead,
       FinCommit, FinFault, DoneCard, TypeInv, TypeOK
  <2>3. job[w] = m => Responsible(w)'
    BY <1>1, <2>1, StaysResponsible DEF Moves, Open
  <2>4. QED
    BY <2>1, <2>2, <2>3 DEF Moves, Open, Responsible
<1>2. ASSUME NEW w \in Workers, Ack(w) \/ Nack(w) \/ Crash(w) PROVE Open(m)'
  <2>1. /\ pc'[w] = "idle"
        /\ \A v \in Workers \ {w} : pc'[v] = pc[v] /\ job'[v] = job[v] /\ saw'[v] = saw[v]
    BY <1>2 DEF Ack, Nack, Crash, Return, Leave, Begin, Goto, TypeInv, TypeOK
  <2>2. mstate'[m] # "acked"
    <3>1. CASE Ack(w)
      <4>1. job[w] # m
        BY <3>1 DEF Ack, Open, Responsible, UploadSteps
      <4>2. QED
        BY <3>1, <4>1 DEF Ack, Open, TypeInv, TypeOK
    <3>2. CASE Nack(w) \/ Crash(w)
      BY <3>2 DEF Nack, Crash, Return, Open, TypeInv, TypeOK
    <3>3. QED
      BY <1>2, <3>1, <3>2
  <2>3. QED
    BY <2>1, <2>2 DEF Open, Responsible
<1>3. ASSUME NEW w \in Workers, NEW n \in Msgs, Deliver(w, n) PROVE Open(m)'
  <2>1. /\ pc'[w] = "claimRead" /\ saw' = saw
        /\ \A v \in Workers \ {w} : pc'[v] = pc[v] /\ job'[v] = job[v]
        /\ mstate'[m] # "acked"
    BY <1>3 DEF Deliver, Begin, Goto, Open, TypeInv, TypeOK
  <2>2. QED
    BY <2>1 DEF Open, Responsible
<1>4. ASSUME \/ \E w \in Workers : AckDeadline(w)
             \/ \E n \in Msgs : DeadLetter(n)
             \/ Vanish \/ UNCHANGED vars
      PROVE  Open(m)'
  <2>1. UNCHANGED <<pc, job, saw>> /\ mstate'[m] # "acked"
    BY <1>4 DEF AckDeadline, DeadLetter, Vanish, vars, local, queue, Open, TypeInv, TypeOK
  <2>2. QED
    BY <2>1 DEF Open, Responsible
<1>5. QED
  BY <1>1, <1>2, <1>3, <1>4 DEF Next, Handle

LEMMA SettleNext ==
  ASSUME Faults = {}, ClaimIsQuick
  PROVE  TypeInv /\ DeliveryInv /\ ExecInv /\ SettleInv /\ [Next]_vars => SettleInv'
<1> SUFFICES ASSUME TypeInv, DeliveryInv, ExecInv, SettleInv, [Next]_vars
             PROVE  SettleInv'
  OBVIOUS
<1>1. ASSUME status' \in Unsettled PROVE \E m \in Msgs : Open(m)'
  <2>1. CASE status \in Unsettled
    BY <1>1, <2>1, StaysOpen DEF SettleInv
  <2>2. CASE status \notin Unsettled
    <3>1. PICK w \in Workers : ClaimCommit(w) \/ ClaimCommitFault(w)
      BY <1>1, <2>2, OnlyClaimUnsettles
    <3>2. /\ ClaimCommit(w) /\ saw[w] = "pending" /\ ~Refuses(w)
      BY <1>1, <2>2, <3>1 DEF ClaimCommit, ClaimCommitFault, Write, ClaimTarget, Refuses,
         Unsettled
    <3>3. /\ pc[w] = "claimCommit" /\ pc'[w] = "load" /\ UNCHANGED <<mstate, job>>
          /\ \A v \in Workers \ {w} : pc'[v] = pc[v]
      BY <3>2 DEF ClaimCommit, Begin, Goto, queue, local, TypeInv, TypeOK
    <3>4. /\ mstate[job[w]] = "out"
          /\ \A v \in Workers \ {w} : pc[v] # "idle" => job[v] # job[w]
      BY <3>2, <3>3 DEF SettleInv
    <3>5. job[w] \in Msgs
      BY DEF TypeInv, TypeOK
    <3>6. PICK m \in Msgs : m = job[w]
      BY <3>5
    <3>7. Open(m)'
      BY <3>3, <3>4, <3>6 DEF Open, Responsible
    <3>8. QED
      BY <3>6, <3>7
  <2>3. QED
    BY <2>1, <2>2
<1>2. QED
  BY <1>1, LoneClaim, PendingMeansUnclaimed DEF SettleInv

\* With a healthy database, a run whose deliveries are all acknowledged is
\* settled: no sequence of crashes, redeliveries and racing messages strands it.
THEOREM AckedMeansSettled ==
  ASSUME Faults = {}, ClaimIsQuick PROVE Spec => []AckedRunIsSettled
<1>1. TypeInv /\ DeliveryInv /\ ExecInv /\ SettleInv /\ [Next]_vars => SettleInv'
  BY SettleNext
<1>2. TypeInv /\ SettleInv => AckedRunIsSettled
  BY StatusNames DEF SettleInv, Open, Unsettled, AckedRunIsSettled, Terminal,
     TypeInv, TypeOK
<1>3. TypeInv /\ DeliveryInv /\ ExecInv /\ [Next]_vars => ExecInv'
  BY ExecNext
<1>4. Spec => []DeliveryInv
  BY DeliverySafe, ClaimIsQuick
<1>5. QED
  BY <1>1, <1>2, <1>3, <1>4, ExecInit, SettleInit, TypeCorrect, PTL DEF Spec

-----------------------------------------------------------------------------
(* RunLifecycle implements RunContract when one message is published and   *)
(* its executions do not overlap, whatever crashes and database faults     *)
(* happen.                                                                 *)

\* One message, delivered again only after a crash, a 500, or an ack deadline that
\* passes while the answer is on its way.
OneAtATime == (\A m, n \in Msgs : m = n) /\ RedeliverAt \subseteq {"ack", "nack"}

\* A handler without a delivery, or with nothing left to do but to answer.
Resting == {"idle", "ack", "nack"}

\* One handler is at work, on the newest delivery.  What its open session has read is
\* what the row holds, and a handler past its claim finds the row where it left it.
SoloInv ==
  /\ \A w, v \in Workers : pc[w] \notin Resting /\ pc[v] \notin Resting => w = v
  /\ \A w \in Workers :
       pc[w] \notin Resting => mstate[job[w]] # "queued" /\ att[w] = tries[job[w]]
  /\ \A w \in Workers : pc[w] # "idle" => att[w] <= tries[job[w]]
  /\ \A w, v \in Workers :
       pc[w] # "idle" /\ pc[v] # "idle" /\ job[w] = job[v] /\ att[w] = att[v] => w = v
  /\ \A w \in Workers :
       pc[w] \in {"claimCommit", "markCommit", "finCommit"} => status \in {saw[w], "absent"}
  /\ \A w \in Workers :
       /\ pc[w] \in {"load", "progress", "agent"} \cup UploadSteps =>
            status \in {"running", "absent"}
       /\ pc[w] \in FinSteps => status \in {"running", "succeeded", "absent"}
       /\ pc[w] \in MarkSteps => status # "pending"
  /\ rows["md"] > 0 /\ rows["json"] > 0 => status = "succeeded"

LEMMA SoloInit == Init => SoloInv /\ Contract!Init
BY DEF Init, SoloInv, Resting, Contract!Init, ClaimSteps, UploadSteps, FinSteps, MarkSteps,
       Kinds

Package == rows["md"] > 0 /\ rows["json"] > 0

\* A step of the contract, or none.
Step == [Contract!Next]_<<status, Package>>

LEMMA WorkIsNoRest ==
  ASSUME NEW w \in Workers, Work(w)
  PROVE  pc[w] \notin Resting
BY DEF Resting, Work, ClaimRead, Read, ClaimFault, ClaimNoop, ClaimCommit, ClaimCommitFault,
       RefuseCard, LoadBrief, Progress, AgentOk, AgentFails, MarkRead, MarkFault, MarkCommit,
       MarkCommitFault, FailCard, Upload, SkipPdf, UploadFails, FinRead, FinCommit, FinFault,
       DoneCard, ClaimSteps, UploadSteps, FinSteps, MarkSteps

\* What a step of handler w leaves alone while the others rest.
LEMMA SoloFrame ==
  ASSUME TypeInv, SoloInv, NEW w \in Workers, Work(w),
         pc'[w] \in {"claimCommit", "markCommit", "finCommit"} =>
           status' \in {saw'[w], "absent"},
         pc'[w] \in {"load", "progress", "agent"} \cup UploadSteps =>
           status' \in {"running", "absent"},
         pc'[w] \in FinSteps => status' \in {"running", "succeeded", "absent"},
         pc'[w] \in MarkSteps => status' # "pending",
         rows'["md"] > 0 /\ rows'["json"] > 0 => status' = "succeeded"
  PROVE  SoloInv'
<1>1. Moves(w)
  BY WorkMoves
<1>2. pc[w] \notin Resting
  BY WorkIsNoRest
<1>3. \A v \in Workers \ {w} : pc[v] \in Resting /\ pc'[v] = pc[v]
  BY <1>1, <1>2 DEF Moves, SoloInv
<1>4. QED
  BY <1>1, <1>2, <1>3
  DEF Moves, SoloInv, Resting, ClaimSteps, UploadSteps, FinSteps, MarkSteps

\* Statements that leave the row and its artifacts alone.
LEMMA SoloQuiet ==
  ASSUME TypeInv, SoloInv, NEW w \in Workers, Work(w), UNCHANGED <<status, rows>>
  PROVE  SoloInv' /\ Step
<1>1. SoloInv'
  <2>0. /\ rows'["md"] > 0 /\ rows'["json"] > 0 => status' = "succeeded"
        /\ pc \in [Workers -> Steps]
    BY DEF SoloInv, TypeInv, TypeOK
  <2>1. CASE ClaimRead(w) \/ MarkRead(w) \/ FinRead(w)
    <3>1. /\ saw'[w] = status
          /\ \/ pc[w] = "claimRead" /\ pc'[w] = "claimCommit"
             \/ pc[w] = "markRead" /\ pc'[w] = "markCommit"
             \/ pc[w] = "finRead" /\ pc'[w] = "finCommit"
      BY <2>1 DEF ClaimRead, MarkRead, FinRead, Read, Goto, TypeInv, TypeOK
    <3>2. QED
      BY <2>0, <3>1, SoloFrame DEF SoloInv, UploadSteps, FinSteps, MarkSteps
  <2>2. CASE ClaimFault(w) \/ ClaimNoop(w) \/ ClaimCommitFault(w) \/ RefuseCard(w)
    <3>1. pc'[w] \in {"claimRead", "nack", "ack"}
      BY <2>0, <2>2 DEF ClaimFault, ClaimNoop, ClaimCommitFault, RefuseCard,
         FailedAttempt, Begin, Goto
    <3>2. QED
      BY <2>0, <3>1, SoloFrame DEF UploadSteps, FinSteps, MarkSteps
  <2>3. CASE ClaimCommit(w)
    <3>1. /\ pc[w] = "claimCommit" /\ pc'[w] \in {"refuseCard", "load"}
          /\ pc'[w] = "load" => ~Refuses(w)
          /\ Write(w, ClaimTarget(w)) /\ saw[w] \in {"pending", "running"}
      BY <2>0, <2>3 DEF ClaimCommit, Begin, Goto
    <3>2. status \in {saw[w], "absent"}
      BY <3>1 DEF SoloInv
    <3>3. pc'[w] = "load" => status' \in {"running", "absent"}
      BY <3>1, <3>2 DEF Write, ClaimTarget, Refuses
    <3>4. QED
      BY <2>0, <3>1, <3>3, SoloFrame DEF UploadSteps, FinSteps, MarkSteps
  <2>4. CASE LoadBrief(w) \/ Progress(w) \/ AgentOk(w) \/ AgentFails(w)
    <3>1. /\ pc[w] \in {"load", "progress", "agent"}
          /\ pc'[w] \in {"markRead", "progress", "agent", "uploadMd", "nack"}
      BY <2>0, <2>4 DEF LoadBrief, Progress, AgentOk, AgentFails, Fail, Begin, Goto
    <3>2. status \in {"running", "absent"}
      BY <3>1 DEF SoloInv
    <3>3. QED
      BY <2>0, <3>1, <3>2, SoloFrame DEF UploadSteps, FinSteps, MarkSteps
  <2>5. CASE MarkFault(w) \/ MarkCommit(w) \/ MarkCommitFault(w) \/ FailCard(w)
    <3>1. /\ pc'[w] \in {"markRead", "failCard", "ack", "nack"}
          /\ pc'[w] = "markRead" => pc[w] \in MarkSteps
      BY <2>0, <2>5 DEF MarkFault, MarkCommit, MarkCommitFault, MarkRaised, AfterMark,
         FailCard, FailedAttempt, Begin, Goto, MarkSteps
    <3>2. QED
      BY <2>0, <3>1, SoloFrame DEF SoloInv, UploadSteps, FinSteps, MarkSteps
  <2>6. CASE Upload(w) \/ SkipPdf(w) \/ UploadFails(w)
    <3>1. /\ pc[w] \in UploadSteps
          /\ pc'[w] \in {"uploadJson", "uploadPdf", "finRead", "markRead"}
      BY <2>0, <2>6 DEF Upload, SkipPdf, UploadFails, Fail, Begin, Goto, UploadSteps,
         NextUpload
    <3>2. status \in {"running", "absent"}
      BY <3>1 DEF SoloInv
    <3>3. QED
      BY <2>0, <3>1, <3>2, SoloFrame DEF UploadSteps, FinSteps, MarkSteps
  <2>7. CASE FinCommit(w) \/ FinFault(w) \/ DoneCard(w)
    <3>1. /\ pc'[w] \in {"doneCard", "finRead", "markRead", "ack", "nack"}
          /\ pc'[w] \in {"finRead", "markRead"} => pc[w] \in FinSteps
      BY <2>0, <2>7 DEF FinCommit, FinFault, DoneCard, Fail, Begin, Goto, FinSteps
    <3>2. pc[w] \in FinSteps => status \in {"running", "succeeded", "absent"}
      BY DEF SoloInv
    <3>3. QED
      BY <2>0, <3>1, <3>2, SoloFrame DEF UploadSteps, FinSteps, MarkSteps
  <2>8. QED
    BY <2>1, <2>2, <2>3, <2>4, <2>5, <2>6, <2>7 DEF Work
<1>2. QED
  BY <1>1 DEF Step, Package

\* The claim starts the run, or fails one it finds running.
LEMMA SoloClaim ==
  ASSUME TypeInv, SoloInv, NEW w \in Workers, ClaimCommit(w) \/ ClaimCommitFault(w),
         status' # status
  PROVE  SoloInv' /\ Step
<1>1. /\ pc[w] = "claimCommit" /\ saw[w] = status /\ rows' = rows
      /\ status' = ClaimTarget(w) /\ saw[w] \in {"pending", "running"}
      /\ pc'[w] \in {"claimRead", "nack", "refuseCard", "load"}
      /\ pc'[w] = "load" => ~Refuses(w)
  BY DEF ClaimCommit, ClaimCommitFault, FailedAttempt, Write, Begin, Goto, SoloInv,
     TypeInv, TypeOK
<1>2. Work(w)
  BY DEF Work
<1>3. rows["md"] > 0 /\ rows["json"] > 0 => FALSE
  BY <1>1 DEF SoloInv
<1>4. SoloInv'
  BY <1>1, <1>2, <1>3, SoloFrame DEF ClaimTarget, UploadSteps, FinSteps, MarkSteps
<1>5. Step
  BY <1>1 DEF Step, Package, ClaimTarget, Refuses, Contract!Next, Contract!Start,
     Contract!Fail
<1>6. QED
  BY <1>4, <1>5

\* _mark_failed fails a running run.
LEMMA SoloMark ==
  ASSUME TypeInv, SoloInv, NEW w \in Workers, MarkCommit(w) \/ MarkCommitFault(w),
         status' # status
  PROVE  SoloInv' /\ Step
<1>1. /\ pc[w] = "markCommit" /\ saw[w] = status /\ rows' = rows
      /\ status' = "failed" /\ saw[w] \notin Terminal \cup {"absent"}
      /\ pc'[w] \in {"markRead", "nack", "ack", "failCard"}
  BY DEF MarkCommit, MarkCommitFault, Markable, MarkRaised, AfterMark, FailedAttempt, Write,
     Begin, Goto, SoloInv, TypeInv, TypeOK
<1>2. status = "running"
  BY <1>1, StatusNames DEF SoloInv, MarkSteps, Terminal, TypeInv, TypeOK
<1>3. Work(w)
  BY DEF Work
<1>4. rows["md"] > 0 /\ rows["json"] > 0 => FALSE
  BY <1>2 DEF SoloInv
<1>5. SoloInv'
  BY <1>1, <1>3, <1>4, SoloFrame DEF UploadSteps, FinSteps, MarkSteps
<1>6. Step
  BY <1>1, <1>2 DEF Step, Package, Contract!Next, Contract!Fail
<1>7. QED
  BY <1>5, <1>6

\* _finalise_db delivers the package and the verdict together.
LEMMA SoloFinalise ==
  ASSUME TypeInv, PackInv, SoloInv, NEW w \in Workers, FinCommit(w) \/ FinFault(w),
         Finalise(w), status # "absent"
  PROVE  SoloInv' /\ Step
<1>1. /\ pc[w] = "finCommit" /\ saw[w] = status /\ status \in {"running", "succeeded"}
      /\ pc'[w] \in {"doneCard", "finRead", "markRead"} /\ status' = "succeeded"
  BY DEF FinCommit, FinFault, Fail, Finalise, Write, Begin, Goto, SoloInv, FinSteps,
     TypeInv, TypeOK
<1>2. Package'
  BY <1>1, FinaliseDelivers DEF Package, FinSteps
<1>3. status = "succeeded" => Package
  BY DEF PackInv, SucceededIsDelivered, Package
<1>4. Work(w)
  BY DEF Work
<1>5. SoloInv'
  BY <1>1, <1>4, SoloFrame DEF UploadSteps, FinSteps, MarkSteps
<1>6. CASE status = "running"
  BY <1>1, <1>2, <1>5, <1>6 DEF Step, Package, Contract!Next, Contract!Succeed
<1>7. CASE status = "succeeded"
  BY <1>1, <1>2, <1>3, <1>5, <1>7 DEF Step, Package
<1>8. QED
  BY <1>1, <1>6, <1>7

LEMMA SoloWork ==
  ASSUME TypeInv, PackInv, SoloInv, NEW w \in Workers, Work(w)
  PROVE  SoloInv' /\ Step
<1>1. CASE UNCHANGED <<status, rows>>
  BY <1>1, SoloQuiet
<1>2. CASE ~UNCHANGED <<status, rows>>
  <2>1. \/ ClaimCommit(w) \/ ClaimCommitFault(w) \/ MarkCommit(w) \/ MarkCommitFault(w)
        \/ FinCommit(w) \/ FinFault(w)
    BY <1>2 DEF Work, ClaimRead, Read, ClaimFault, ClaimNoop, RefuseCard, LoadBrief,
       Progress, AgentOk, AgentFails, MarkRead, MarkFault, FailCard, Upload, SkipPdf,
       UploadFails, FinRead, DoneCard, store
  <2>2. CASE ClaimCommit(w) \/ ClaimCommitFault(w) \/ MarkCommit(w) \/ MarkCommitFault(w)
    <3>1. rows' = rows
      BY <2>2 DEF ClaimCommit, ClaimCommitFault, MarkCommit, MarkCommitFault
    <3>2. QED
      BY <1>2, <2>2, <3>1, SoloClaim, SoloMark
  <2>3. CASE FinCommit(w) \/ FinFault(w)
    <3>1. Finalise(w) /\ status # "absent"
      BY <1>2, <2>3 DEF FinCommit, FinFault
    <3>2. QED
      BY <2>3, <3>1, SoloFinalise
  <2>4. QED
    BY <2>1, <2>2, <2>3
<1>3. QED
  BY <1>1, <1>2

LEMMA SoloNext ==
  ASSUME OneAtATime
  PROVE  TypeInv /\ PackInv /\ SoloInv /\ [Next]_vars => SoloInv' /\ Step
<1> SUFFICES ASSUME TypeInv, PackInv, SoloInv, [Next]_vars PROVE SoloInv' /\ Step
  OBVIOUS
<1>1. ASSUME NEW w \in Workers, Work(w) PROVE SoloInv' /\ Step
  BY <1>1, SoloWork
<1>2. ASSUME NEW w \in Workers, Ack(w) \/ Nack(w) \/ Crash(w) PROVE SoloInv' /\ Step
  <2>1. /\ pc[w] # "idle" /\ pc'[w] = "idle" /\ UNCHANGED <<status, rows, tries>>
        /\ \A v \in Workers \ {w} :
             pc'[v] = pc[v] /\ job'[v] = job[v] /\ att'[v] = att[v] /\ saw'[v] = saw[v]
    BY <1>2, ParamAssumption DEF Ack, Nack, Crash, Return, Leave, Begin, Goto, store, TypeInv, TypeOK
  <2>2. \A m \in Msgs : mstate'[m] = "queued" =>
          mstate[m] = "queued" \/ (m = job[w] /\ Newest(w))
    BY <1>2 DEF Ack, Nack, Crash, Return, TypeInv, TypeOK
  <2>3. \A v \in Workers \ {w} : pc[v] \notin Resting => ~Newest(w)
    BY <2>1, OneAtATime DEF OneAtATime, SoloInv, Resting, Newest, TypeInv, TypeOK
  <2>4. \A v \in Workers \ {w} : pc[v] \notin Resting => mstate'[job[v]] # "queued"
    BY <2>2, <2>3 DEF SoloInv, TypeInv, TypeOK
  <2>5. QED
    BY <2>1, <2>4
    DEF SoloInv, Step, Package, Resting, UploadSteps, FinSteps, MarkSteps
<1>3. ASSUME NEW w \in Workers, NEW m \in Msgs, Deliver(w, m) PROVE SoloInv' /\ Step
  <2>1. /\ mstate[m] = "queued" /\ mstate' = [mstate EXCEPT ![m] = "out"]
        /\ pc'[w] = "claimRead" /\ job'[w] = m /\ UNCHANGED <<status, rows, saw>>
        /\ pc[w] = "idle" /\ tries' = [tries EXCEPT ![m] = @ + 1] /\ att'[w] = tries[m] + 1
        /\ \A v \in Workers \ {w} : pc'[v] = pc[v] /\ job'[v] = job[v] /\ att'[v] = att[v]
    BY <1>3 DEF Deliver, Begin, Goto, store, TypeInv, TypeOK
  <2>2. \A v \in Workers : pc[v] \in Resting /\ job[v] = m
    BY <2>1, OneAtATime DEF OneAtATime, SoloInv, TypeInv, TypeOK
  <2>3. mstate'[m] = "out" /\ tries[m] \in Nat /\ tries'[m] = tries[m] + 1
    BY <2>1 DEF TypeInv, TypeOK
  <2>4. \A v \in Workers \ {w} : pc[v] # "idle" => att[v] <= tries[m] /\ att[v] \in Nat
    BY <2>2 DEF SoloInv, TypeInv, TypeOK
  <2>5. QED
    BY <2>1, <2>2, <2>3, <2>4
    DEF SoloInv, Step, Package, Resting, UploadSteps, FinSteps, MarkSteps
<1>4. ASSUME NEW w \in Workers, AckDeadline(w) PROVE SoloInv' /\ Step
  <2>1. /\ pc[w] \in Resting /\ pc[w] # "idle" /\ Newest(w)
        /\ UNCHANGED <<status, rows, pc, job, att, tries, saw>>
    BY <1>4, OneAtATime DEF AckDeadline, OneAtATime, Resting, store, local
  <2>2. \A v \in Workers : pc[v] \in Resting
    BY <2>1, OneAtATime DEF OneAtATime, SoloInv, Resting, Newest, TypeInv, TypeOK
  <2>3. QED
    BY <2>1, <2>2
    DEF SoloInv, Step, Package, Resting, UploadSteps, FinSteps, MarkSteps
<1>5. ASSUME NEW m \in Msgs, DeadLetter(m) PROVE SoloInv' /\ Step
  BY <1>5 DEF DeadLetter, store, local, SoloInv, Step, Package, TypeInv, TypeOK
<1>6. CASE Vanish
  <2>1. /\ status' = "absent" /\ ~(rows'["md"] > 0 /\ rows'["json"] > 0)
        /\ UNCHANGED <<pc, job, mstate, saw, tries, att>>
    BY <1>6 DEF Vanish, Kinds, queue, local
  <2>2. SoloInv'
    BY <2>1 DEF SoloInv, Resting
  <2>3. Step
    BY <2>1 DEF Step, Package, Contract!Next, Contract!Delete
  <2>4. QED
    BY <2>2, <2>3
<1>7. CASE UNCHANGED vars
  BY <1>7 DEF vars, store, queue, local, SoloInv, Step, Package
<1>8. QED
  BY <1>1, <1>2, <1>3, <1>4, <1>5, <1>6, <1>7 DEF Next, Handle

\* For one message whose executions do not overlap, a run is started once, reaches
\* one final verdict, and "succeeded" comes together with the package, through every
\* crash, lost reply, failed attempt and 500.
THEOREM ImplementsContract == ASSUME OneAtATime PROVE Spec => KeepsContract
<1>1. TypeInv /\ PackInv /\ SoloInv /\ [Next]_vars => SoloInv' /\ Step
  BY SoloNext, OneAtATime
<1>2. Init => SoloInv /\ Contract!Init
  BY SoloInit
<1>3. Step => [Contract!Next]_<<status, rows["md"] > 0 /\ rows["json"] > 0>>
  BY DEF Step, Package
<1>4. Spec => []PackInv
  BY PackInit, PackNext, TypeCorrect, PTL DEF Spec
<1>5. QED
  BY <1>1, <1>2, <1>3, <1>4, TypeCorrect, PTL DEF Spec, KeepsContract, Contract!Spec
=============================================================================
