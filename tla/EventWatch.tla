----------------------------- MODULE EventWatch -----------------------------
(***************************************************************************)
(* The live page of one run: the request handlers that execute the run     *)
(* append events to a Redis stream, GET /api/runs/[id]/events replays and   *)
(* tails it as server-sent events, and /run/[id] reduces what arrives and   *)
(* fetches the row when it is done.                                         *)
(*                                                                         *)
(* An event is <<kind, id>>, where the page builds the id from the payload, *)
(* so handlers that overlap publish the same one.  The stream is never      *)
(* trimmed: its cap is 10,000 entries and a run emits about 50.  Postgres   *)
(* is up; RunLifecycle has the worker with its faults.                      *)
(***************************************************************************)
EXTENDS Naturals, Sequences

CONSTANTS
  Handlers,    \* executions of runner.run for the run, by retries or two messages
  Events,      \* progress events a handler publishes, one after another
  Quiet,       \* those that never enter the feed: metric and retrieval events
  MaxFaults    \* handlers killed, events Redis does not take, connections cut and
               \* reads that fail, requests answered with an error, and reloads

ASSUME BoundsAssumption == Events \in Nat /\ Quiet \subseteq 1..Events /\ MaxFaults \in Nat

VARIABLES
  status,    \* runs.status
  stored,    \* the run has its artifact rows
  pc,        \* handler: what it does next
  saw,       \* handler: the status its open session has read
  step,      \* handler: progress events it has published
  gaveUp,    \* history: a handler of the run has failed or refused it
  stream,    \* Redis: the events, by position
  conn,      \* the request: "closed", "opened", "tail", "ended" or "refused"
  seen,      \* the request: the status read before the replay
  cursor,    \* the request: the last position forwarded
  wire,      \* positions on their way to the browser
  feed,      \* page: the events in its feed
  done,      \* page: state.done
  failed,    \* page: state.failedPhase is set
  fetch,     \* page: its fetch of the row
  reply,     \* page: the status in the answer, and whether artifacts came with it
  links,     \* page: it has the package's links
  faults

row == <<status, stored>>
handler == <<pc, saw, step, gaveUp>>
request == <<conn, seen, cursor>>
page == <<feed, done, failed, fetch, reply, links>>
reader == <<request, wire, page>>
worker == <<row, handler, stream>>
vars == <<worker, reader, faults>>

Final == {"succeeded", "failed"}
Status == {"pending", "running"} \cup Final
Nothing == <<"pending", FALSE>>

Kinds == {"phase", "quiet", "failed", "done"}
Entries == Kinds \X (0..(Events + 1))
KindAt(i) == stream[i][1]
Has(kind) == \E i \in DOMAIN stream : KindAt(i) = kind

Init ==
  /\ status = "pending" /\ stored = FALSE /\ stream = <<>>
  /\ pc = [w \in Handlers |-> "idle"] /\ saw = [w \in Handlers |-> "pending"]
  /\ step = [w \in Handlers |-> 0] /\ gaveUp = FALSE
  /\ conn = "closed" /\ seen = "pending" /\ cursor = 0 /\ wire = <<>>
  /\ feed = <<>> /\ done = FALSE /\ failed = FALSE
  /\ fetch = "asked" /\ reply = Nothing /\ links = FALSE
  /\ faults = 0

\* One of the faults that the bound allows.
Fault == faults < MaxFaults /\ faults' = faults + 1
-----------------------------------------------------------------------------
(* The handlers of runner.run.  A transaction is a SELECT and a COMMIT, and *)
(* another handler may write in between.                                    *)

HandlerSteps == {"idle", "claim", "work", "mark", "finalise",
                 "refuseCard", "failCard", "doneCard", "over"}

Goto(w, l) == pc' = [pc EXCEPT ![w] = l]
\* A session opens and reads the row; after its commit it is closed.
Read(w) == saw' = [saw EXCEPT ![w] = status]
Forget(w) == saw' = [saw EXCEPT ![w] = "pending"]
Leave(w) ==
  /\ Goto(w, "over") /\ Forget(w)
  /\ step' = [step EXCEPT ![w] = 0]

ClaimRead(w) ==
  /\ pc[w] = "idle"
  /\ \/ status \in Final /\ Leave(w)
     \/ status \notin Final /\ Goto(w, "claim") /\ Read(w) /\ step' = step
  /\ UNCHANGED <<row, gaveUp, stream, faults, reader>>

\* A redelivery refuses a running run; the first delivery of another message
\* executes it.  Only a status that differs from the one read is written.
ClaimCommit(w) ==
  /\ pc[w] = "claim"
  /\ \/ /\ saw[w] = "running"
        /\ status' = "failed" /\ gaveUp' = TRUE /\ Goto(w, "refuseCard")
     \/ /\ status' = IF saw[w] = "running" THEN status ELSE "running"
        /\ gaveUp' = gaveUp /\ Goto(w, "work")
  /\ Forget(w)
  /\ UNCHANGED <<stored, step, stream, faults, reader>>

\* A publish that Redis does not take is logged and forgotten.
Publish(e) ==
  \/ stream' = Append(stream, e) /\ faults' = faults
  \/ Fault /\ stream' = stream

Progress(w) ==
  /\ pc[w] = "work" /\ step[w] < Events
  /\ step' = [step EXCEPT ![w] = @ + 1]
  /\ Publish(<<IF step[w] + 1 \in Quiet THEN "quiet" ELSE "phase", step[w] + 1>>)
  /\ UNCHANGED <<row, pc, saw, gaveUp, reader>>

\* A phase raises: _mark_failed.
MarkRead(w) ==
  /\ pc[w] = "work"
  /\ Read(w) /\ Goto(w, "mark")
  /\ UNCHANGED <<row, step, gaveUp, stream, faults, reader>>

MarkCommit(w) ==
  /\ pc[w] = "mark"
  /\ status' = IF saw[w] \in Final THEN status ELSE "failed"
  /\ gaveUp' = TRUE /\ Goto(w, "failCard") /\ Forget(w)
  /\ UNCHANGED <<stored, step, stream, faults, reader>>

\* The package is uploaded: _finalise_db.
FinRead(w) ==
  /\ pc[w] = "work" /\ step[w] = Events
  /\ Read(w) /\ Goto(w, "finalise")
  /\ UNCHANGED <<row, step, gaveUp, stream, faults, reader>>

\* Slip: the artifact rows are written after the status, and the commit in
\* between is not seen.
FinCommitBare(w) ==
  /\ pc[w] = "finalise"
  /\ status' = (IF saw[w] = "succeeded" THEN status ELSE "succeeded") /\ stored' = stored
  /\ Goto(w, "doneCard") /\ Forget(w)
  /\ UNCHANGED <<step, gaveUp, stream, faults, reader>>

FinCommit(w) ==
  /\ pc[w] = "finalise"
  /\ status' = (IF saw[w] = "succeeded" THEN status ELSE "succeeded") /\ stored' = TRUE
  /\ Goto(w, "doneCard") /\ Forget(w)
  /\ UNCHANGED <<step, gaveUp, stream, faults, reader>>

\* The card of the verdict.  A failed phase has its own id.
Card(w) ==
  CASE pc[w] = "refuseCard" -> <<"failed", 0>>
    [] pc[w] = "failCard" -> <<"failed", step[w] + 1>>
    [] OTHER -> <<"done", 0>>

EmitCard(w) ==
  /\ pc[w] \in {"refuseCard", "failCard", "doneCard"}
  /\ Publish(Card(w)) /\ Leave(w)
  /\ UNCHANGED <<row, gaveUp, reader>>

\* The instance goes, at any step.
Kill(w) ==
  /\ pc[w] \notin {"idle", "over"} /\ Fault /\ Leave(w)
  /\ UNCHANGED <<row, gaveUp, stream, reader>>

Handle(w) ==
  ClaimRead(w) \/ ClaimCommit(w) \/ Progress(w) \/ MarkRead(w) \/ MarkCommit(w)
  \/ FinRead(w) \/ FinCommit(w) \/ EmitCard(w)
-----------------------------------------------------------------------------
(* GET /api/runs/[id]/events.                                              *)

\* EventSource connects, and again whenever a connection ends.
Connect ==
  /\ conn = "closed"
  /\ conn' = "opened" /\ seen' = status /\ cursor' = 0
  /\ UNCHANGED <<worker, wire, page, faults>>

\* An answer other than 200: EventSource gives up.
Refuse ==
  /\ conn = "closed" /\ Fault
  /\ conn' = "refused"
  /\ UNCHANGED <<worker, seen, cursor, wire, page>>

\* Slip: only what is appended from now on is sent.
ReplayNone ==
  /\ conn = "opened"
  /\ cursor' = Len(stream) /\ wire' = wire
  /\ conn' = IF Has("done") \/ seen \in Final THEN "ended" ELSE "tail"
  /\ seen' = "pending"
  /\ UNCHANGED <<worker, page, faults>>

\* XRANGE - +, then close if the run is over.  A failing XRANGE replays
\* nothing and leaves the cursor at the beginning.
Replay ==
  /\ conn = "opened"
  /\ \/ /\ cursor' = Len(stream)
        /\ wire' = wire \o [i \in 1..Len(stream) |-> i]
        /\ conn' = IF Has("done") \/ seen \in Final THEN "ended" ELSE "tail"
        /\ faults' = faults
     \/ /\ Fault
        /\ conn' = IF seen \in Final THEN "ended" ELSE "tail"
        /\ UNCHANGED <<cursor, wire>>
  /\ seen' = "pending"
  /\ UNCHANGED <<worker, page>>

\* Slip: XREAD from "$", what comes after the call.
ForwardNew ==
  /\ conn = "tail" /\ cursor < Len(stream)
  /\ cursor' = Len(stream) /\ wire' = Append(wire, Len(stream))
  /\ conn' = IF KindAt(Len(stream)) = "done" THEN "ended" ELSE "tail"
  /\ UNCHANGED <<worker, seen, page, faults>>

\* XREAD BLOCK from the cursor.
Forward ==
  /\ conn = "tail" /\ cursor < Len(stream)
  /\ cursor' = cursor + 1 /\ wire' = Append(wire, cursor + 1)
  /\ conn' = IF KindAt(cursor + 1) = "done" THEN "ended" ELSE "tail"
  /\ UNCHANGED <<worker, seen, page, faults>>

\* XREAD fails: the response ends.
TailFails ==
  /\ conn = "tail" /\ Fault
  /\ conn' = "ended"
  /\ UNCHANGED <<worker, seen, cursor, wire, page>>

\* The browser has read the whole response.
Close ==
  /\ conn = "ended" /\ wire = <<>>
  /\ conn' = "closed" /\ cursor' = 0
  /\ UNCHANGED <<worker, seen, wire, page, faults>>

\* The network or the instance goes, with what was on its way.
Cut ==
  /\ conn \in {"opened", "tail", "ended"} /\ Fault
  /\ conn' = "closed" /\ seen' = "pending" /\ cursor' = 0 /\ wire' = <<>>
  /\ UNCHANGED <<worker, page>>
-----------------------------------------------------------------------------
(* The page.                                                               *)

\* Slip: the effect depends on the run alone.
RefetchNever(over, failing) == UNCHANGED <<fetch, reply>>

\* The effect drops the answer it was waiting for and fetches again.
Ask == fetch' = "asked" /\ reply' = Nothing

\* It runs again when state.done or state.failedPhase changes.
Refetch(over, failing) ==
  IF over # done \/ failing # failed THEN Ask ELSE UNCHANGED <<fetch, reply>>

Show(over, failing) == done' = over /\ failed' = failing

\* Phases, sources and decisions enter the feed; "done", metrics and what has no
\* listener do not.
Feedable(e) == e[1] \in {"phase", "failed"}

\* Slip: events are appended as they come.
KnownNever(e) == FALSE

\* The feed has an event with the id.
Known(e) == \E k \in DOMAIN feed : feed[k] = e

\* reduce: an event whose id is known changes nothing.  A second failure may name
\* another phase.
Receive ==
  /\ wire # <<>> /\ wire' = Tail(wire)
  /\ LET e == stream[Head(wire)]
         fresh == Feedable(e) /\ ~Known(e)
         over == done \/ e[1] = "done" \/ (fresh /\ e[1] = "failed")
         failing == failed \/ (fresh /\ e[1] = "failed")
     IN  /\ feed' = IF fresh THEN Append(feed, e) ELSE feed
         /\ Show(over, failing)
         /\ Refetch(over, failing) \/ (fresh /\ e[1] = "failed" /\ Ask)
  /\ UNCHANGED <<worker, request, links, faults>>

\* GET /api/runs/[id] reads the row with its artifacts.
FetchRead ==
  /\ fetch = "asked"
  /\ fetch' = "replied" /\ reply' = row
  /\ UNCHANGED <<worker, request, wire, feed, done, failed, links, faults>>

\* An error is ignored, and nothing fetches again.
FetchFails ==
  /\ fetch = "asked" /\ Fault
  /\ fetch' = "lost"
  /\ UNCHANGED <<worker, request, wire, feed, done, failed, reply, links>>

ReplyFailed == reply[1] = "failed"

\* The answer may carry a verdict the stream did not bring; the links are
\* those of the artifacts, whatever the status says.
FetchApply ==
  /\ fetch = "replied"
  /\ LET over == done \/ reply[1] = "succeeded" \/ ReplyFailed
         failing == failed \/ ReplyFailed
     IN  /\ Show(over, failing)
         /\ fetch' = IF over # done \/ failing # failed THEN "asked" ELSE "idle"
  /\ reply' = Nothing
  /\ links' = reply[2]
  /\ UNCHANGED <<worker, request, wire, feed, faults>>

\* Slip: the page that goes does not close its EventSource.
ReloadUnclosed ==
  /\ Fault
  /\ conn' = "closed" /\ seen' = "pending" /\ cursor' = 0 /\ wire' = wire
  /\ feed' = <<>> /\ done' = FALSE /\ failed' = FALSE
  /\ fetch' = "asked" /\ reply' = Nothing /\ links' = FALSE
  /\ UNCHANGED worker

\* A hard refresh: the page starts over.
Reload ==
  /\ Fault
  /\ conn' = "closed" /\ seen' = "pending" /\ cursor' = 0 /\ wire' = <<>>
  /\ feed' = <<>> /\ done' = FALSE /\ failed' = FALSE
  /\ fetch' = "asked" /\ reply' = Nothing /\ links' = FALSE
  /\ UNCHANGED worker
-----------------------------------------------------------------------------
Next ==
  \/ \E w \in Handlers : Handle(w) \/ Kill(w)
  \/ Connect \/ Refuse \/ Replay \/ Forward \/ TailFails \/ Close \/ Cut
  \/ Receive \/ FetchRead \/ FetchFails \/ FetchApply \/ Reload

\* The route and the browser go on, and answers arrive; nothing has to fail, to
\* be cut or to be reloaded, and the handlers need not go on.
Fairness ==
  /\ WF_vars(Connect) /\ WF_vars(Replay) /\ WF_vars(Forward) /\ WF_vars(Close)
  /\ WF_vars(Receive) /\ WF_vars(FetchRead) /\ WF_vars(FetchApply)

Spec == Init /\ [][Next]_vars
FairSpec == Spec /\ Fairness
-----------------------------------------------------------------------------
(* Properties.                                                             *)

Positions == 1..Len(stream)

\* The shape of the state: what is on its way are positions of the stream, and
\* nothing is on its way on a connection that is closed.
TypeOK ==
  /\ status \in Status /\ stored \in BOOLEAN /\ gaveUp \in BOOLEAN
  /\ pc \in [Handlers -> HandlerSteps] /\ saw \in [Handlers -> Status]
  /\ step \in [Handlers -> 0..Events]
  /\ stream \in Seq(Entries)
  /\ conn \in {"closed", "opened", "tail", "ended", "refused"}
  /\ seen \in Status /\ cursor \in 0..Len(stream)
  /\ wire \in Seq(Positions) /\ feed \in Seq(Entries)
  /\ conn \in {"closed", "refused"} => wire = <<>>
  /\ done \in BOOLEAN /\ failed \in BOOLEAN /\ links \in BOOLEAN
  /\ fetch \in {"asked", "replied", "idle", "lost"}
  /\ reply \in Status \X BOOLEAN
  /\ faults \in 0..MaxFaults

\* What the first n events of the stream have for the feed.
ShownUpTo(n) == {stream[i] : i \in {j \in 1..n : Feedable(stream[j])}}

\* Through cuts, failing reads, reconnections and replays, and events that
\* overlapping handlers publish twice, the feed shows what the stream has for it, each
\* id once and in the order of its first event: before an entry it has what the
\* stream has before that event, neither less nor more.
FeedIsPrefix ==
  \A k \in DOMAIN feed : \E i \in Positions :
    /\ feed[k] = stream[i] /\ Feedable(feed[k])
    /\ feed[k] \notin ShownUpTo(i - 1)
    /\ {feed[j] : j \in 1..(k - 1)} = ShownUpTo(i - 1)

\* The hand-over from XRANGE to XREAD loses nothing: a page whose request tails
\* the stream and has nothing on its way shows all that was read so far.
TailCatchesUp ==
  conn = "tail" /\ wire = <<>> => \A e \in ShownUpTo(cursor) : Known(e)

\* Whatever overlapping handlers write over each other, the page says "your package
\* is ready" and links to it only when the run has its package, and shows a failure
\* only of a run that a handler has given up.
ShownIsRow ==
  /\ done /\ ~failed => stored
  /\ links => stored
  /\ failed => done /\ gaveUp

\* A card in the stream reaches the page, whatever was cut, unless the browser
\* was refused a connection and gave up.
CardReachesPage ==
  /\ Has("done") ~> (done \/ conn = "refused")
  /\ Has("failed") ~> (failed \/ conn = "refused")

\* A page that fetches a settled row shows that the run is over, also when the card
\* was lost with its handler or by Redis; and a page that says its package is ready
\* comes to link to it.  Both unless a fetch was answered with an error.
RowReachesPage ==
  /\ status \in Final /\ fetch = "asked" ~> done \/ fetch = "lost" \/ status \notin Final
  /\ done /\ ~failed ~> links \/ failed \/ fetch = "lost"
=============================================================================
