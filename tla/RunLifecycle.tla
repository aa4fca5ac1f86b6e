---------------------------- MODULE RunLifecycle ----------------------------
(***************************************************************************)
(* One TESSAR run as the orchestrator executes it: the Pub/Sub push        *)
(* subscription delivers the run's messages to request handlers (app.py),  *)
(* each handler executes runner.run, and every handler reads and writes    *)
(* the same Postgres row in separate transactions, uploads the package to  *)
(* Cloud Storage and appends to the event log.                             *)
(*                                                                         *)
(* Runs share nothing, so one run is modelled.  Handlers crash, database   *)
(* attempts fail before or after their commit, and the subscription        *)
(* delivers again after a crash, after a 500 and when the ack deadline     *)
(* runs out under a live handler.                                          *)
(***************************************************************************)
EXTENDS Naturals, Sequences, FiniteSets

CONSTANTS
  Msgs,         \* Pub/Sub messages published for the run, one per publish
  Workers,      \* request handlers: Cloud Run instances, concurrency 1
  MaxDelivery,  \* max_delivery_attempts of the subscription
  MaxAttempts,  \* max_attempts of with_db_retry
  Pipeline,     \* the dispatch blocks of runner.run, in order
  Unguarded,    \* the blocks with no "except Exception"
  Faults,       \* database faults, a subset of {"before", "after"}
  RedeliverAt,  \* handler steps at which the ack deadline can run out
  CrashAt,      \* handler steps at which it can be killed
  MayVanish,    \* the row may be deleted (cascade from the user)
  RedisUp,      \* the Redis stream takes every publish
  RowCap        \* artifact rows of one kind are counted up to RowCap

Terminal == {"succeeded", "failed", "refunded"}
Status == {"pending", "running"} \cup Terminal \cup {"absent"}
Kinds == {"md", "json", "pdf"}
Cards == {"failed", "done"}

ClaimSteps == {"claimRead", "claimCommit"}
MarkSteps == {"markRead", "markCommit"}
FinSteps == {"finRead", "finCommit"}
UploadSteps == {"uploadMd", "uploadJson", "uploadPdf"}
RunSteps == {"load", "progress", "agent"} \cup UploadSteps \cup FinSteps
Steps == {"idle", "refuseCard", "failCard", "doneCard", "ack", "nack"}
           \cup ClaimSteps \cup MarkSteps \cup RunSteps

ASSUME ParamAssumption ==
  /\ MaxDelivery \in Nat \ {0}
  /\ MaxAttempts \in Nat \ {0}
  /\ RowCap \in Nat \ {0}
  /\ Pipeline \in Seq(STRING) /\ Len(Pipeline) > 0
  /\ Faults \subseteq {"before", "after"}
  /\ RedeliverAt \subseteq Steps \ {"idle"}
  /\ CrashAt \subseteq Steps \ {"idle"} /\ MayVanish \in BOOLEAN
  /\ RedisUp \in BOOLEAN

ASSUME SomeMessage == Msgs # {}

VARIABLES
  status,    \* runs.status of the row, or "absent"
  blobs,     \* kinds uploaded to Cloud Storage under runs/{id}/
  rows,      \* run_artifacts rows of the run, counted per kind
  log,       \* cards in run_events (durable); progress events are left out
  live,      \* cards in the Redis stream
  mstate,    \* message: "queued", "out", "acked" or "dead"
  tries,     \* deliveries of the message so far
  spent,     \* executions of the pipeline begun on behalf of the message
  pc,        \* handler: what it does next
  job,       \* handler: the message it holds
  att,       \* handler: delivery_attempt in its envelope
  try,       \* handler: attempt number inside with_db_retry
  saw,       \* handler: the status its open session has read
  stage,     \* handler: index into Pipeline
  how,       \* handler: who is failing the run
  pdf        \* handler: it has uploaded the PDF

store == <<status, blobs, rows>>
events == <<log, live>>
queue == <<mstate, tries>>
local == <<job, att, stage, how, pdf>>
vars == <<store, events, queue, spent, pc, try, saw, local>>

(***************************************************************************)
(* Initially enqueueRun has published the messages of a pending run.       *)
(***************************************************************************)
Init ==
  /\ status = "pending" /\ blobs = {} /\ rows = [k \in Kinds |-> 0]
  /\ log = {} /\ live = {}
  /\ mstate = [m \in Msgs |-> "queued"]
  /\ tries = [m \in Msgs |-> 0]
  /\ spent = [m \in Msgs |-> 0]
  /\ pc = [w \in Workers |-> "idle"]
  /\ job \in [Workers -> Msgs] /\ \A w \in Workers : job[w] = CHOOSE m \in Msgs : TRUE
  /\ att = [w \in Workers |-> 1]
  /\ try = [w \in Workers |-> 1]
  /\ saw = [w \in Workers |-> "pending"]
  /\ stage = [w \in Workers |-> 1]
  /\ how = [w \in Workers |-> "none"]
  /\ pdf = [w \in Workers |-> FALSE]

-----------------------------------------------------------------------------
(* Helpers of a handler.                                                   *)

Goto(w, l) == pc' = [pc EXCEPT ![w] = l]
\* A new with_db_retry call, at its first attempt.
Begin(w, l) == Goto(w, l) /\ try' = [try EXCEPT ![w] = 1]

\* Slip: one attempt too many.
FailedAttemptSlip(w, first, raised) ==
  \/ /\ try[w] <= MaxAttempts
     /\ Goto(w, first)
     /\ try' = [try EXCEPT ![w] = @ + 1]
  \/ try[w] > MaxAttempts /\ Begin(w, raised)

\* An attempt raised: with_db_retry starts over at "first" or, after the
\* last attempt, re-raises to "raised".
FailedAttempt(w, first, raised) ==
  \/ /\ try[w] < MaxAttempts
     /\ Goto(w, first)
     /\ try' = [try EXCEPT ![w] = @ + 1]
  \/ try[w] = MaxAttempts /\ Begin(w, raised)

\* The session reads the row.
Read(w, at, next) ==
  /\ pc[w] = at
  /\ saw' = [saw EXCEPT ![w] = status]
  /\ Goto(w, next)
  /\ UNCHANGED <<store, events, queue, spent, try, local>>

\* UPDATE runs SET status = s: the session flushes only an attribute that
\* differs from the value it loaded, and a deleted row matches nothing.
Write(w, s) ==
  status' = IF status = "absent" \/ saw[w] = s THEN status ELSE s

\* with_db_retry around one INSERT into run_events, then the Redis publish
\* that swallows its own errors.  The INSERT of a deleted run raises.
Persisted(c) ==
  /\ status # "absent"
  /\ log' = log \cup {c}
  /\ live' = live \cup {c} \/ (~RedisUp /\ live' = live)
EmitRaised(c) ==
  /\ Faults # {} \/ status = "absent"
  /\ \/ log' = log
     \/ "after" \in Faults /\ status # "absent" /\ log' = log \cup {c}
  /\ live' = live
-----------------------------------------------------------------------------
(* The Pub/Sub push subscription.                                          *)

\* The newest delivery of its message is the one handler w serves.
Newest(w) == mstate[job[w]] = "out" /\ att[w] = tries[job[w]]

\* POST /pubsub/push with deliveryAttempt; the handler calls run_job.
Deliver(w, m) ==
  /\ pc[w] = "idle"
  /\ mstate[m] = "queued" /\ tries[m] < MaxDelivery
  /\ mstate' = [mstate EXCEPT ![m] = "out"]
  /\ tries' = [tries EXCEPT ![m] = @ + 1]
  /\ job' = [job EXCEPT ![w] = m]
  /\ att' = [att EXCEPT ![w] = tries[m] + 1]
  /\ Begin(w, "claimRead")
  /\ UNCHANGED <<store, events, spent, saw, stage, how, pdf>>

\* The message has used up its deliveries.
DeadLetter(m) ==
  /\ mstate[m] = "queued" /\ tries[m] = MaxDelivery
  /\ mstate' = [mstate EXCEPT ![m] = "dead"]
  /\ UNCHANGED <<store, events, tries, spent, pc, try, saw, local>>

\* ack_deadline_seconds passes while the handler is still working.
AckDeadline(w) ==
  /\ pc[w] \in RedeliverAt
  /\ Newest(w)
  /\ mstate' = [mstate EXCEPT ![job[w]] = "queued"]
  /\ UNCHANGED <<store, events, tries, spent, pc, try, saw, local>>

\* The handler is done: its locals are gone.
Leave(w) ==
  /\ Begin(w, "idle")
  /\ job' = [job EXCEPT ![w] = CHOOSE m \in Msgs : TRUE]
  /\ att' = [att EXCEPT ![w] = 1]
  /\ saw' = [saw EXCEPT ![w] = "pending"]
  /\ stage' = [stage EXCEPT ![w] = 1]
  /\ how' = [how EXCEPT ![w] = "none"]
  /\ pdf' = [pdf EXCEPT ![w] = FALSE]

\* 204: the message is acknowledged.  An ack that comes after a redelivery
\* is honoured or ignored.
Ack(w) ==
  /\ pc[w] = "ack"
  /\ \/ mstate[job[w]] # "dead" /\ mstate' = [mstate EXCEPT ![job[w]] = "acked"]
     \/ ~Newest(w) /\ mstate' = mstate
  /\ Leave(w)
  /\ UNCHANGED <<store, events, tries, spent>>

\* A 500 or a lost handler returns the delivery to the subscription.
Return(w) ==
  /\ mstate' = IF Newest(w) THEN [mstate EXCEPT ![job[w]] = "queued"] ELSE mstate
  /\ Leave(w)
  /\ UNCHANGED <<store, events, tries, spent>>

\* HTTPException(500, "run_failed").
Nack(w) == pc[w] = "nack" /\ Return(w)

\* The instance is killed (out of memory, deploy).
Crash(w) == pc[w] \in CrashAt /\ Return(w)

\* The row is deleted; its events and artifacts go with it.
Vanish ==
  /\ MayVanish /\ status # "absent"
  /\ status' = "absent" /\ rows' = [k \in Kinds |-> 0] /\ log' = {}
  /\ UNCHANGED <<blobs, live, queue, spent, pc, try, saw, local>>

-----------------------------------------------------------------------------
(* _claim and its three refusals.                                          *)

ClaimRead(w) == Read(w, "claimRead", "claimCommit")

ClaimFault(w) ==
  /\ pc[w] = "claimRead" /\ "before" \in Faults
  /\ FailedAttempt(w, "claimRead", "nack")
  /\ UNCHANGED <<store, events, queue, spent, saw, local>>

\* not_found and already_<status> return at once.
ClaimNoop(w) ==
  /\ pc[w] = "claimCommit" /\ saw[w] \in Terminal \cup {"absent"}
  /\ Goto(w, "ack")
  /\ UNCHANGED <<store, events, queue, spent, try, saw, local>>

\* Slips: the first redelivery is let through; the refusal leaves the row as it is.
RefusesLate(w) == saw[w] = "running" /\ att[w] > 2
ClaimTargetKept(w) == "running"

\* What the session writes: a running row on a redelivery is failed.
Refuses(w) == saw[w] = "running" /\ att[w] > 1
ClaimTarget(w) == IF Refuses(w) THEN "failed" ELSE "running"

ClaimCommit(w) ==
  /\ pc[w] = "claimCommit" /\ saw[w] \in {"pending", "running"}
  /\ Write(w, ClaimTarget(w))
  /\ IF Refuses(w)
       THEN Begin(w, "refuseCard") /\ spent' = spent
       ELSE Begin(w, "load") /\ spent' = [spent EXCEPT ![job[w]] = @ + 1]
  /\ UNCHANGED <<blobs, rows, events, queue, saw, local>>

\* The commit fails, or is applied and its reply is lost.
ClaimCommitFault(w) ==
  /\ pc[w] = "claimCommit" /\ saw[w] \in {"pending", "running"}
  /\ \/ "before" \in Faults /\ status' = status
     \/ "after" \in Faults /\ Write(w, ClaimTarget(w))
  /\ FailedAttempt(w, "claimRead", "nack")
  /\ UNCHANGED <<blobs, rows, events, queue, spent, saw, local>>

\* Best-effort card of the crash-recovery refusal, then a plain return.
RefuseCard(w) ==
  /\ pc[w] = "refuseCard"
  /\ Persisted("failed") \/ EmitRaised("failed")
  /\ Goto(w, "ack")
  /\ UNCHANGED <<store, queue, spent, try, saw, local>>
-----------------------------------------------------------------------------
(* _load_brief and the dispatch blocks.                                    *)

Fail(w, h) == Begin(w, "markRead") /\ how' = [how EXCEPT ![w] = h]

LoadBrief(w) ==
  /\ pc[w] = "load"
  /\ IF status = "absent"
       THEN Fail(w, "missing")
       ELSE Fail(w, "funnel") \/ (Begin(w, "progress") /\ how' = how)
  /\ UNCHANGED <<store, events, queue, spent, saw, job, att, stage, pdf>>

\* The started / metric / completed events around a block: an _emit that
\* raises is not caught.
Progress(w) ==
  /\ pc[w] = "progress"
  /\ \/ /\ status # "absent"
        /\ Goto(w, IF stage[w] <= Len(Pipeline) THEN "agent" ELSE "uploadMd")
     \/ (Faults # {} \/ status = "absent") /\ Goto(w, "nack")
  /\ UNCHANGED <<store, events, queue, spent, try, saw, local>>

\* The block returns.
AgentOk(w) ==
  /\ pc[w] = "agent"
  /\ stage' = [stage EXCEPT ![w] = @ + 1]
  /\ Goto(w, "progress")
  /\ UNCHANGED <<store, events, queue, spent, try, saw, job, att, how, pdf>>

\* Slip: the exception of an unguarded block is swallowed.
AgentFailsSwallowed(w) ==
  /\ pc[w] = "agent"
  /\ IF Pipeline[stage[w]] \in Unguarded
       THEN Goto(w, "ack") /\ UNCHANGED <<try, how>>
       ELSE Fail(w, "specific") \/ Fail(w, "funnel")
  /\ UNCHANGED <<store, events, queue, spent, saw, job, att, stage, pdf>>

\* The agent's own *Error: _mark_failed and _emit are called unwrapped.
\* Any other exception goes to handle_agent_failure, which wraps both; out
\* of an unguarded block it leaves run() and becomes a 500.
AgentFails(w) ==
  /\ pc[w] = "agent"
  /\ IF Pipeline[stage[w]] \in Unguarded
       THEN Goto(w, "nack") /\ UNCHANGED <<try, how>>
       ELSE Fail(w, "specific") \/ Fail(w, "funnel")
  /\ UNCHANGED <<store, events, queue, spent, saw, job, att, stage, pdf>>
-----------------------------------------------------------------------------
(* _mark_failed and the failure card.                                      *)

\* Where the failing path continues after _mark_failed: handle_agent_failure
\* goes on when it raised, the other callers do not catch.
AfterMark(w) == IF how[w] = "missing" THEN "ack" ELSE "failCard"
MarkRaised(w) == IF how[w] = "funnel" THEN "failCard" ELSE "nack"

MarkRead(w) == Read(w, "markRead", "markCommit")

MarkFault(w) ==
  /\ pc[w] = "markRead" /\ "before" \in Faults
  /\ FailedAttempt(w, "markRead", MarkRaised(w))
  /\ UNCHANGED <<store, events, queue, spent, saw, local>>

\* Slip: the succeeded row is not protected.
MarkableSucceeded(w) == saw[w] \notin {"failed", "refunded", "absent"}

\* Only a row read as neither failed, refunded nor succeeded is written.
Markable(w) == saw[w] \notin Terminal \cup {"absent"}

MarkCommit(w) ==
  /\ pc[w] = "markCommit"
  /\ IF Markable(w) THEN Write(w, "failed") ELSE status' = status
  /\ Begin(w, AfterMark(w))
  /\ UNCHANGED <<blobs, rows, events, queue, spent, saw, local>>

MarkCommitFault(w) ==
  /\ pc[w] = "markCommit" /\ Markable(w)
  /\ \/ "before" \in Faults /\ status' = status
     \/ "after" \in Faults /\ Write(w, "failed")
  /\ FailedAttempt(w, "markRead", MarkRaised(w))
  /\ UNCHANGED <<blobs, rows, events, queue, spent, saw, local>>

FailCard(w) ==
  /\ pc[w] = "failCard"
  /\ \/ Persisted("failed") /\ Goto(w, "ack")
     \/ EmitRaised("failed") /\ Goto(w, IF how[w] = "funnel" THEN "ack" ELSE "nack")
  /\ UNCHANGED <<store, queue, spent, try, saw, local>>
-----------------------------------------------------------------------------
(* Finalisation: uploads, _finalise_db, the done event.                    *)

NextUpload == [uploadMd |-> "uploadJson", uploadJson |-> "uploadPdf",
               uploadPdf |-> "finRead"]
KindOf == [uploadMd |-> "md", uploadJson |-> "json", uploadPdf |-> "pdf"]

Upload(w) ==
  /\ pc[w] \in UploadSteps
  /\ blobs' = blobs \cup {KindOf[pc[w]]}
  /\ pdf' = [pdf EXCEPT ![w] = pc[w] = "uploadPdf"]
  /\ Begin(w, NextUpload[pc[w]])
  /\ UNCHANGED <<status, rows, events, queue, spent, saw, job, att, stage, how>>

\* _render_pdf returns None: no PDF.
SkipPdf(w) ==
  /\ pc[w] = "uploadPdf"
  /\ Begin(w, "finRead")
  /\ UNCHANGED <<store, events, queue, spent, saw, local>>

\* Slip: a failed upload is taken for done.
UploadFailsIgnored(w) ==
  /\ pc[w] \in UploadSteps
  /\ Begin(w, NextUpload[pc[w]])
  /\ UNCHANGED <<store, events, queue, spent, saw, local>>

UploadFails(w) ==
  /\ pc[w] \in UploadSteps
  /\ Fail(w, "funnel")
  /\ UNCHANGED <<store, events, queue, spent, saw, job, att, stage, pdf>>

FinRead(w) == Read(w, "finRead", "finCommit")

\* The transaction inserts the artifact rows and sets the status whatever
\* it was.
Packed(w) == {"md", "json"} \cup (IF pdf[w] THEN {"pdf"} ELSE {})
Finalise(w) ==
  /\ rows' = [k \in Kinds |-> IF k \in Packed(w) /\ rows[k] < RowCap
                                THEN rows[k] + 1 ELSE rows[k]]
  /\ Write(w, "succeeded")

FinCommit(w) ==
  /\ pc[w] = "finCommit" /\ status # "absent"
  /\ Finalise(w)
  /\ Begin(w, "doneCard")
  /\ UNCHANGED <<blobs, events, queue, spent, saw, local>>

\* Slip: the last failed attempt is taken for done.
FinFaultSwallowed(w) ==
  /\ pc[w] = "finCommit"
  /\ \/ ("before" \in Faults \/ status = "absent") /\ UNCHANGED <<status, rows>>
     \/ "after" \in Faults /\ status # "absent" /\ Finalise(w)
  /\ FailedAttempt(w, "finRead", "doneCard")
  /\ UNCHANGED <<blobs, events, queue, spent, saw, local>>

\* An attempt of _finalise_db raises; the inserts for a deleted run always do.
\* The last one is caught and funnelled.
FinFault(w) ==
  /\ pc[w] = "finCommit"
  /\ \/ ("before" \in Faults \/ status = "absent") /\ UNCHANGED <<status, rows>>
     \/ "after" \in Faults /\ status # "absent" /\ Finalise(w)
  /\ \/ /\ try[w] < MaxAttempts
        /\ Goto(w, "finRead") /\ try' = [try EXCEPT ![w] = @ + 1] /\ how' = how
     \/ try[w] = MaxAttempts /\ Fail(w, "funnel")
  /\ UNCHANGED <<blobs, events, queue, spent, saw, job, att, stage, pdf>>

\* Slip: the run ends without its done event.
DoneCardSkipped(w) ==
  /\ pc[w] = "doneCard"
  /\ Goto(w, "ack")
  /\ UNCHANGED <<store, events, queue, spent, try, saw, local>>

DoneCard(w) ==
  /\ pc[w] = "doneCard"
  /\ \/ Persisted("done") /\ Goto(w, "ack")
     \/ EmitRaised("done") /\ Goto(w, "nack")
  /\ UNCHANGED <<store, queue, spent, try, saw, local>>
-----------------------------------------------------------------------------
\* One statement of runner.run after another.
Work(w) ==
  \/ ClaimRead(w) \/ ClaimFault(w) \/ ClaimNoop(w) \/ ClaimCommit(w)
  \/ ClaimCommitFault(w) \/ RefuseCard(w)
  \/ LoadBrief(w) \/ Progress(w) \/ AgentOk(w) \/ AgentFails(w)
  \/ MarkRead(w) \/ MarkFault(w) \/ MarkCommit(w) \/ MarkCommitFault(w)
  \/ FailCard(w)
  \/ Upload(w) \/ SkipPdf(w) \/ UploadFails(w)
  \/ FinRead(w) \/ FinCommit(w) \/ FinFault(w) \/ DoneCard(w)

\* What a handler does on its own: the work, and its answer.
Handle(w) == Work(w) \/ Ack(w) \/ Nack(w)

Next ==
  \/ \E w \in Workers : Handle(w) \/ Crash(w) \/ AckDeadline(w)
  \/ \E w \in Workers, m \in Msgs : Deliver(w, m)
  \/ \E m \in Msgs : DeadLetter(m)
  \/ Vanish

Spec == Init /\ [][Next]_vars

\* A handler keeps running until it answers or is killed, and Pub/Sub keeps
\* delivering what is not acknowledged.
Fairness ==
  /\ \A w \in Workers : WF_vars(Handle(w))
  /\ WF_vars(\E w \in Workers, m \in Msgs : Deliver(w, m))
  /\ \A m \in Msgs : WF_vars(DeadLetter(m))

FairSpec == Spec /\ Fairness
-----------------------------------------------------------------------------
(* Properties.                                                             *)

\* The state has the shape of the tables, the subscription and the locals.
TypeOK ==
  /\ status \in Status /\ blobs \subseteq Kinds /\ rows \in [Kinds -> 0..RowCap]
  /\ log \subseteq Cards /\ live \subseteq Cards
  /\ mstate \in [Msgs -> {"queued", "out", "acked", "dead"}]
  /\ tries \in [Msgs -> 0..MaxDelivery]
  /\ spent \in [Msgs -> Nat]
  /\ pc \in [Workers -> Steps]
  /\ job \in [Workers -> Msgs]
  /\ att \in [Workers -> 1..MaxDelivery]
  /\ try \in [Workers -> 1..MaxAttempts]
  /\ saw \in [Workers -> Status]
  /\ stage \in [Workers -> 1..(Len(Pipeline) + 1)]
  /\ how \in [Workers -> {"none", "funnel", "specific", "missing"}]
  /\ pdf \in [Workers -> BOOLEAN]

\* A succeeded run has its package: both files are in Cloud Storage and in
\* run_artifacts, and no artifact row points at a file that is not there.
SucceededIsDelivered ==
  /\ status = "succeeded" => rows["md"] > 0 /\ rows["json"] > 0
  /\ \A k \in Kinds : rows[k] > 0 => k \in blobs

\* The done event, which makes the page show the package, is never in the
\* durable log of a run without a package.
DoneIsDelivered == "done" \in log => rows["md"] > 0 /\ rows["json"] > 0

\* However often Pub/Sub delivers a message, the pipeline runs at most once
\* on its behalf: a redelivery never spends the LLM budget again.
OneExecutionPerMessage == \A m \in Msgs : spent[m] <= 1

\* Once every delivery is acknowledged no handler is left to move the run, so
\* it is settled by then: the push handler never answers 204 for a run that
\* stays pending or running.
AckedRunIsSettled ==
  (\A m \in Msgs : mstate[m] = "acked") => status \in Terminal \cup {"absent"}

\* A run is executed once, whatever is published for it.
OneExecution == \A m, n \in Msgs : spent[m] > 0 /\ spent[n] > 0 => m = n

\* For one message whose executions do not overlap, a run keeps the contract of RunContract:
\* started once, one final verdict, and the package together with "succeeded".
Contract == INSTANCE RunContract WITH
  package <- rows["md"] > 0 /\ rows["json"] > 0
KeepsContract == Contract!Spec

\* Every run is settled in the end, unless its messages are dead-lettered.
EventuallySettled ==
  <>[](status \in Terminal \cup {"absent"} \/ \E m \in Msgs : mstate[m] = "dead")
=============================================================================
