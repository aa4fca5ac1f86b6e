# TESSAR: a TLA+ verification project

TESSAR sells an architecture package for a brief. A buyer posts a brief, pays
through Stripe Checkout, and an orchestrator on Cloud Run spends an LLM budget
for 8 to 15 minutes to research, decide, cost and write the package, while the
buyer watches the run's event stream, and then reads the package in the browser. This directory holds TLA+ models of that
program, TLC runs over small instances of them, and TLAPS proofs. Every
definition is a translation of code under `src/`; `PROJECT.json` ("map") names
the lines.

## 1. Inventory

| Component | State it keeps | Operations | Interacts with | What makes it hard | What makes it correct |
|---|---|---|---|---|---|
| Run execution (`apps/orchestrator/tessar/runner.py`, `app.py`, `reliability.py`, `db/models.py`) | the row `runs` (status), `run_artifacts`, `run_events`, files in Cloud Storage | `pubsub_push`, `run` (`_claim`, ten dispatch blocks, `_finalise_db`), `_mark_failed`, `_emit`, `handle_agent_failure`, `with_db_retry` | Pub/Sub (deliveries, acks), Postgres (one transaction per helper), Redis, LLM router | crashes, redelivery after the ack deadline, two messages for one run, a commit whose reply is lost, a step of the failure path failing | one execution, one final verdict, success only with its package, acknowledged means settled |
| Checkout and payment (`apps/web/app/api/checkout`, `api/runs`, `api/stripe/webhook`, `lib/runs`) | `runs.payment_status`, session id, payment intent | create run, open or reuse a session, mark paid / failed / refunded, enqueue | Stripe (sessions, at-least-once unordered events), Pub/Sub (publish) | read-then-write handlers that interleave, retried and reordered events, publish failing after the row was written | no run before the money, no money without a run, one payment page at a time |
| Event stream and page (`api/runs/[id]/events`, `api/runs/[id]`, `lib/redis.ts`, `app/run/[id]/run-watch.tsx`, `redis_bus.py`) | Redis stream of the run, cursor of a request, the page's reducer state | `GET` (replay, tail, close), `reduce`, the fetch of the row | runner `_emit`, Postgres status, the browser's EventSource reconnect | status read before the replay, hand-over from XRANGE to XREAD, lost and repeated events, verdicts of two handlers, a stale answer | no gap in the feed, each id once, the page announces only what the run has, a card reaches it |
| LLM router and budget (`llm/router.py`, `llm/budget.py`, `llm/cache.py`, `agents/research_worker.py`) | spend so far, prompt cache, four executor threads | `generate`, `precheck`, `charge`, `_call_with_timeout`, cache get and set, `research_all` | providers, agents (four research workers at once) | check and charge are two critical sections, abandoned calls keep threads, fallback after a timeout | bounded overspending, every question ends |
| Agents (`agents/*.py`) | none across calls; each hands its output on | generate, parse, admissibility check, ask again, raise | router, runner, the agents before | four checks written apart, attempts that end in different ways | an inadmissible answer never passes, the attempts end |
| Packager (`agents/packager.py`) | citation index, sources | intern URLs, number citations, render | all agents' outputs, uploads | it trusts checks made elsewhere | every citation resolves, and to its own page |
| Retrieval (`retrieval/hybrid.py`, `bm25.py`) | in-memory index | BM25, reciprocal rank fusion | knowledge base, agents | ranking of ties | fusion agrees with its definition |
| Design studio (`components/decide/decide-studio.tsx`, `lib/mocks/sample-packages.ts`) | swaps, three scale knobs, lens and mode, selection, open walk-through, path, asides | swap, reset (three of them), move a knob, open a lens, jump, select, type | none: the canned design of the page | cards, arrows, bill and inspector are computed apart from the choice, some from the swapped design and some from the original | bill and diagram agree, links open, the inspector is not blank |
| Package reader (`components/decide/decide-viewer.tsx` and the charts, `components/package/`, `lib/package-synthesis.ts`) | open section, focus, order of the cards, theme, each diagram's picture and jobs | go to a section, page, cite, click a box, sort, toggle the theme, render | the run's package, mermaid in the browser | the same sums and orders written out three or four times; renders that end after the theme changed or the section was left | sections agree with each other, a picture has the page's theme, every block settles |
| Legal consent (`lib/legal-consent.ts`, `api/legal`, `components/legal/terms-consent-banner.tsx`) | `TermsAcceptance` rows, `latestTermsVersion`, `termsVersionAtRun`, the banner | record at first sign-in, at checkout, by the banner; read | a deployment of new terms, the script of an old tab | three writers, versions that change between reading and writing | the pointer is the newest row, the log goes back only while two revisions serve, no banner says too much |
| Artifact download (`api/runs/[id]/artifact/[kind]`, `lib/storage.ts`) | none | read | Cloud Storage, the rows | buttons computed when the page was loaded | a button that is shown has its file |
| Sign-in and pages (`auth.ts`, `auth.config.ts`, `middleware.ts`, `app/dashboard`, `app/brief`, `app/checkout`, `components/shell`) | the cookie, the page, the fetched list, what was typed, the request under way | visit, sign in and out, list, filter, click, type, send, answer | the rows, consent, Stripe | everything was fetched once and the rows go on; sessions end; answers are lost | what a page offers still works |
| Evaluation gate (`evals/`) | baseline scores | score, compare | CI | boundary comparisons | |
| Static pages, illustrations, providers' HTTP code, Terraform, fixtures | none of their own | layout, I/O, configuration | | no control to check | |

The components meet at five places: `enqueueRun` publishes what `pubsub_push`
receives; the runner's cards are what the stream and the page show; the runner's
research block is the router's fan-out; the row is read and written by all; and the package
that the packager assembles is what the reader computes its sections from.

## 2. Plan

In order of importance; the first column says what exists.

| | Module | Composes | Question |
|---|---|---|---|
| done | `RunContract` | | what a run promises |
| done | `RunLifecycle`, `RunAnnounced`, `MCRunLifecycle`, `MCRunAnnounced` | Pub/Sub, handlers, the row, storage, the cards | does every run reach one verdict with its package, once |
| done | `RunLifecycleProofs` | | the same for every instance, and the refinement |
| done | `Payment`, `MCPayment`, `PaymentProofs` | Stripe's events, web handlers, the row, the topic | is every paid run dispatched, no unpaid one |
| done | `EventWatch`, `MCEventWatch`, `EventWatchProofs` | the runner's cards, the SSE route, the page | does the page show what the run has come to |
| done | `LlmBudget`, `MCLlmBudget`, `LlmBudgetProofs` | router, budget, cache, executor, concurrent workers | how far can a run overspend, does it end |
| done | `AgentGraph`, `MCAgentGraph`, `AgentGraphProofs` | the ten stages, the packager | does what the agents accept make a package |
| done | `DecideStudio`, `StudioSample`, `MCDecideStudio`, `DecideStudioProofs`, `FiniteSums` | diagram, bill, inspector, eight lenses | do the parts of a changed design agree |
| done | `PackageReader` | six sections, charts, diagrams | do the sections of a package agree, are its pictures current |
| done | `Site`, `MCSite`, `SiteProofs` | pages, consent, rows, `PackageReader` | does what a page offers still work |
| next | a composition of `Payment` and `RunLifecycle` | the topic | one payment, at most one execution |
| next | an abstract ledger for `LlmBudget`, an abstract feed for `EventWatch` | | refinements, and proofs of them |
| later | rank fusion, evaluation gate | | algorithms against reference definitions |

## 3. RunLifecycle

One run; runs share nothing. `Msgs` are the messages published for it,
`Workers` the request handlers (Cloud Run instances with concurrency 1).

* The row: `status` (`runs.status`, or `"absent"` once deleted), `rows` (the
  `run_artifacts` rows, counted per kind), `blobs` (the files uploaded).
* Events: `log` is `run_events`, `live` the Redis stream. Only the two cards
  that carry a verdict are kept, `"failed"` (a `phase` event with status
  `failed`) and `"done"`. Progress events change no control except by raising,
  which `Progress` models.
* The subscription: `mstate`, `tries`. A message is queued, out, acked or dead.
  It is delivered again after a 500, a crash or the ack deadline, and is
  dead-lettered after `MaxDelivery` deliveries.
* A handler: `pc` and its locals. One step is one database round trip, one
  upload or one agent call. A `with_db_retry` transaction is two steps, the
  SELECT and the COMMIT, because another handler may write between them; SQLAlchemy
  flushes only an attribute whose value changed from the one it loaded, which is
  `Write`.

| Code | Actions |
|---|---|
| `app.py pubsub_push` | `Deliver`, `Ack` (204), `Nack` (500) |
| `runner.run._claim` | `ClaimRead`, `ClaimCommit`, `ClaimNoop`, `RefuseCard`, and `ClaimFault`, `ClaimCommitFault` for an attempt that raises |
| `_load_brief`, dispatch blocks | `LoadBrief`, `Progress`, `AgentOk`, `AgentFails` |
| `handle_agent_failure`, `_mark_failed` | `MarkRead`, `MarkCommit`, `MarkFault`, `MarkCommitFault`, `FailCard` |
| uploads, `_finalise_db`, done event | `Upload`, `SkipPdf`, `UploadFails`, `FinRead`, `FinCommit`, `FinFault`, `DoneCard` |
| the platform | `Crash`, `AckDeadline`, `DeadLetter`, `Vanish` |

A database fault is `"before"` (the attempt raised and nothing was applied) or
`"after"` (the commit was applied and its reply was lost). `how` says who is
failing the run, because `handle_agent_failure` wraps `_mark_failed` and `_emit`
while the agent-specific handlers and the missing-brief path do not.

| Run | Instance | Shows |
|---|---|---|
| `RunSingle` | 1 message, 2 handlers, 5 deliveries, 3 attempts, all faults, crashes everywhere, an ack deadline that passes before the answer, deletion, Redis failing | the types, the package, and the refinement of `RunContract` |
| `RunLive` | 2 messages, 2 handlers, 2 deliveries, fair handlers, crashes at every step, redelivery while executing; healthy database and Redis | one execution per message, acknowledged means settled, the run settles, its verdict is announced unless a kill takes the card with it |
| `DupPublish` | violation, section 12 | |

Two messages and two handlers are enough for every race: an invariant relates
at most two handlers, and a third delivery of a message only repeats a claim on
a row that is no longer pending. `MaxDelivery` and `MaxAttempts` are the real 5
and 3 in `RunSingle`; `RunLive` uses two deliveries, the first and a redelivery,
and runs over one dispatch block: a block changes nothing but `stage`.
`RowCap` caps the
counted artifact rows at 2; properties only ask whether there is one.
`RedeliverAt` and `CrashAt` name the steps where the ack deadline or a kill may
strike. A kill between the commit of a verdict and its card loses the card for good: the
redelivery finds a settled row and emits nothing. `RunAnnounced` adds the history `unsaid` of such
cards to `RunLifecycle`, and `VerdictIsAnnounced` says that nothing else loses a card: not a kill at another
step, a redelivery, a refusal or a second handler. It is the specification of `RunLive`.

Fairness: `Handle(w)` is weakly fair, because an event loop goes on with a
handler until it answers and LLM and database calls have timeouts. `Deliver` and
`DeadLetter` are, because Pub/Sub redelivers what is not acknowledged. Crashes,
the ack deadline, faults and deletions are not fair; they may happen or not.

## 4. Payment

One run's paywall. Stripe, the browser and Pub/Sub are modelled from how the
handlers use them (external in the map).

* The row: `pay`, `status` (only pending or not), `stamped`, `stored` (session
  id), `intent` (payment intent, named by its session).
* Stripe: `sess`, `money`, `key` (what it remembers for the idempotency key),
  `inbox` (events without a 200 yet) and `answered` (events it may repeat).
* A caller (`Hooks`, `Buyers`, and `Creator`, the request that inserted the row):
  `pc`, and the locals `again`, `held`, `kind`. Each prisma, Stripe or Pub/Sub call
  is one step, so that callers interleave between a read and the write it leads to.

| Code | Actions |
|---|---|
| `webhook/route.ts POST` | `Receive` (finds the run), `MarkPaid`, `MarkFailed`, `MarkRefunded`, `Answer` |
| `enqueue.ts`, `pubsub.ts` | `Enqueue` (reads the row), `Publish` |
| `checkout/route.ts POST` | `Checkout`, `Retrieve`, `Create`, `Store`, `Bypass` |
| `runs/route.ts POST` | `Init`, and `Bypass` without billing |
| Stripe | `PaySession`, `Settle`, `Expire`, `Refund`, `ForgetKey` |
| the platform | `Drop` (a call throws or dies), `Claim` (the orchestrator) |

`ForgetKey` asks that the remembered session is no longer open and no call is under
way: a key lives 24 hours, a session 30 minutes and a call seconds. With the key in
use, Stripe answers an identical request with the session it remembers and another
one with an error; `expires_at` is in the request and has a resolution of a second.

| Run | Instance | Shows |
|---|---|---|
| `PaySerial` | 2 sessions, 1 webhook execution, 2 checkouts, a failing call, a repeated event | nothing runs unpaid, the intent kept is a paid one, one open session |
| `PayLive` | 2 sessions, 2 overlapping webhook executions, a failing call after the one of the creation, a repeated event | a paid run is undone only by a refund or by another session's failure that was received before the payment; money taken and kept leads to a dispatched run unless the row ends as failed or refunded |
| `RefundUndone` | violation, section 12 | |

Two sessions are what a second payment, or the late failure of a first one, needs. With them, two
overlapping webhook executions and a checkout under way the instance is too large, so each run
has one of the two. `PayLive` starts from `Init`, where the creation runs on a revision without billing, and from `LateInit`:
the creation has died, the buyer left the first session (it expired, or its delayed payment is processing) and has
paid in the second by a delayed method, so that every event of a success and of a failure is still to come. TLC reaches both of its
states from `Init` in an instance with a buyer. The theorems say what `PaySerial` checks, and `PaidUndone`, for any number of
sessions and executions.

`PaidIsDispatched` excepts a row that ends as failed or refunded, because without the exception TLC refutes it:
the expiry of the first session is received while the run is pending; the second session's event marks the run
paid and its publish fails; the retry finds the run paid; the first handler marks it failed; `enqueueRun` reads that and reports it, the
redelivery path ignores the report (`route.ts:99-104`) and answers 200, and nobody dispatches the run (section 12).

`Unbilled` names the executions on a revision where `BILLING_ENABLED` is off: none in `PaySerial`, the creation in
`PayLive`. `PublishCap` bounds a counter of which properties ask only whether it
is positive.

Fairness: a request runs until it answers; Stripe retries an event that has not
been answered (weak fairness of its `Receive`).
Buyers, refunds and failures are not fair.

## 5. EventWatch

One page watching one run that several handlers may execute at once (a redelivery, or a second message).

* A handler (`Handlers`): `pc`, `saw` (the status its open session has read) and `step`. A transaction is
  a SELECT and a COMMIT, as in `RunLifecycle`, so that a handler which read `running` may write failed over the
  success of another. Postgres is up here; `RunLifecycle` has its faults. `gaveUp` is the history
  that some handler has failed or refused the run.
* The row: `status`, and `stored` (the artifact rows, written in the transaction of the success).
* The stream: `stream`, entries <<kind, id>>. The id stands for what `reduce` builds from the payload (`phase-...-t`,
  `source-...`, `decision-...`), so overlapping handlers publish the same ones; a failure card has the id of the agent that
  failed. `Publish` may lose an event, since `redis_bus.publish` logs and goes on.
* The request: `conn`, `seen` (the status read before the replay), `cursor`, and `wire`, the
  positions on their way.
* The page: `feed`, `done`, `failed`, `links`, and the fetch of the row
  (`fetch`, `reply`), which runs on mount and again when `done` or `failedPhase` changes. `reduce` drops an
  event whose id the feed has (`Known`) and keeps metrics and "done" out of the feed (`Feedable`); the hello event of a connection
  has no effect on any of this and is left out.

| Code | Actions |
|---|---|
| `runner.run._claim` | `ClaimRead`, `ClaimCommit` |
| `_emit` of progress, `_mark_failed`, `_finalise_db`, the cards | `Progress`, `MarkRead`, `MarkCommit`, `FinRead`, `FinCommit`, `EmitCard` |
| `events/route.ts GET`, `redis.ts` | `Connect`, `Refuse`, `Replay`, `Forward`, `TailFails` |
| `run-watch.tsx` | `Receive` (`reduce`), `FetchRead` (with `api/runs/[id]`), `FetchFails`, `FetchApply`, `Close` |
| platform, network and browser | `Kill`, `Cut`, `Reload` |

`WatchPage` checks two handlers, one progress event of each, and any two faults: a kill, an event that Redis loses, a cut,
a read that fails, a request answered with an error, a reload. Two handlers give every overwriting of a verdict and every repeated
id; with a progress event and a card of each the stream has up to four entries, of which the feed skips "done"; two faults combine, for
instance, a lost card with a cut, or a failing replay with a reload. A run with two events, one of them a metric (`Quiet`), has 2.9 million
states and fits only without the liveness properties; the invariants hold there too, and the theorems cover it.
The stream is never trimmed: its cap is 10,000 entries and a run emits about fifty.

`FeedIsPrefix` says what deduplication by id can promise: the feed has each id once, and before an entry it has what the stream has
for it before the first event with that id. `ShownIsRow` does not say that a page which shows "done" has a row that is `succeeded`,
because a stale handler may overwrite that row (section 12); it says that the package is there.

Fairness: the browser connects, the route replays and
forwards, the page receives and its fetch is answered. Handlers and faults
are not fair. `CardReachesPage` excepts a page that was refused a connection, because
EventSource gives up then, and `RowReachesPage` a fetch that failed, because nothing fetches
again. `RowReachesPage` starts from a page that still has to fetch: one whose fetch was answered before the verdict and whose
card was lost waits for ever.

## 6. LlmBudget

The research block of one run: `research_all` starts a thread per question, at most
`Concurrency` at a time, and each calls one router.

* A thread: `pc`, `try` (first or second `generate`), `prov` (place in the chain), `usage`.
* The executor: `waiting`, `active`, `orphans` (calls running that nobody waits for).
* `spent`, `cached`; `billed` and `leaks` count what the providers bill and how many
  calls were left uncharged.

| Code | Actions |
|---|---|
| `research_all`, `research_one` | `Begin` (the semaphore), `Search`, `Parse` |
| `LlmRouter.generate` | `Lookup`, `Check` (`precheck`), `Transient`, `BreakOff`, `Charge` |
| `_call_with_timeout`, `ThreadPoolExecutor` | `Start`, `Return`, `TimeOut`, `OrphanEnds` |

Money is counted in units; an answer costs at most `Estimate[p] + Excess`, because `max_tokens`
bounds the completion while the prompt is estimated at four characters a token. An
answer carries its usage. The token cap is a second cap of the same shape; the model
lets `Check` and `Charge` raise whenever the token cap would, so what holds does not
depend on it.

`Fanout` checks three questions, two at a time, on two threads and two providers,
the first dearer; `Concurrency` and `Threads` stand for the real four and four, and three
questions are one more than run at once. The cap of 2 is such that the first two calls
pass the check together and their charges reach the bound exactly.

Fairness: threads go on, deadlines expire, a free thread takes the next call. A
provider need never return: `Return`, `Transient` and `OrphanEnds` are not fair, and
`EveryQuestionEnds` rests on the deadline.

## 7. AgentGraph

The run's stages in their order, from the brief to the assembled package. Seven of them ask a
model for JSON. What a model answers is a parameter, `Answers`, and `Schema` says what the parse
guarantees of it; texts are left out.

* The graph: `at`, `try` (the attempt), `got` (the outputs of the stages passed) and `outcome`.
* The packager: `entity` and `citation` (the place of its walk), `cite_map`, `sources`, and `cites`,
  the number each entity shows in the package.

| Code | Actions and operators |
|---|---|
| the seven agents | `Answer` (an answer that parses), `Malformed` (one that does not), `Truncated`, and `Raise` for what escapes |
| `_admissibility_errors` of synthesizer, architect, cost estimator, risk writer | `Grounded`, `ArchitectureAdmissible` (by rule), `CostAdmissible`, `RisksAdmissible` |
| `research_all`, `HybridRetriever.retrieve` | `Research`, `Retrieve` |
| `packager.package` | `Register` (with `Intern`), `Assemble`, `Overlong` |

An answer is checked against `Evidence`: the records retrieved in this run and the questions that
were answered. Two agents ask again with more tokens after a truncation and give up at the second;
from the others a truncation escapes. `Overlong` is the package's own validation, which has
limits that the agents' schemas do not have. `RunLifecycle` sees all of this as blocks that
return, raise their own error or raise another.

`PackageRun` checks two records, two questions of which any may fail, a finding on the page of
a record, and a good answer of each agent varied in a field or two: every rule of every check is
broken by some answer, and so is every pair of a citation and a missing piece of evidence.
Larger answers repeat rules that quantify over their items. `RubricIsMet` compares with
`adr0006_completeness` of `evals/rubric/checks.py`, which is written apart from the agents; its cap of six phases
is excepted (section 12).

Fairness: the thread of the run goes on, and a call to a model ends by its deadline.

## 8. DecideStudio

The design studio holds what the reader chose (`overrides`, the knobs `users`, `rps`, `gb`, `lens`,
`mode`, `selection`, `narrativeOpen`, `path`, and the asides) and computes everything else on each
render. The design is a parameter; `StudioSample` is the canned one of the page.

| Code | Actions and operators |
|---|---|
| `setOverride`, `resetOverride`, `resetTweaks`, the popover and the inspector | `PickOption`, `PopoverReset`, `InspectorReset`, `ResetTweaks` |
| `effectiveNodes`, `effectiveEdges`, `effectiveBom`, `computeLineCost` | `Live`, `LiveEdges`, `BillLines`, `LineCost`, `Bill` |
| the eight lenses, the overview and the story | `OpenLens`, `NextLens`, `SetMode`, `JumpLens`, `JumpToDecision`, `LensLinks`, `CostPanel` |
| canvas, walk-through, sequence lens | `ClickEntry`, `Clear`, `PointAtStep`, `ToggleNarrative`, `ChoosePath` |
| the inspector | `Resolves`, `Inspected`, `Entry` |
| knobs, brief rail, tour | `MoveKnob`, `ToggleBrief`, `TypeBrief`, `SwitchSample`, `DismissTour` |

Costs are in thousandths of a dollar and rounded down. The constraints of an organisation are in the
code with no control that turns one on, so the set is empty. `Studio` checks the whole canned design:
two components are swapped, the one that can be swapped out and another; a knob is at 1 or 10, the ends
between which a cost is linear; entries of every kind are selected; and at most two things differ from the
start at a time (`MaxChanges`; a dismissed tour counts as two), since an agreement relates a swap and a knob or two swaps. No liveness:
nothing happens unless the reader acts.

## 9. PackageReader and Site

`PackageReader` is the viewer of a finished package. Its sections (`Verdict`, `Numbers`, `Risks`,
`Decisions`, `Audit`, `SystemDesign`) are operators on the package, one per component of the code, each with
the sums and orders that this component computes for itself (`baselineCost` and `sumBaseline`,
`topRisk` and `sortRisks`, `headlinePicks` and `topStackPicks`). Its actions are the reader's
(`GoTo`, `Pager`, `FollowCite`, `ClickBox`, `SortBy`, `ToggleTheme`) and the diagrams': `Rerun` is React
leaving an effect and running it again, `ImportEnds` and `RenderEnds` the two awaits of
`mermaid-block.tsx`, whose shared flag and flag per run are both kept. Mermaid's configuration
is one for the page (`config`), and a render is drawn with the theme it asked for or the one set last.

`Site` is one reader in one tab, over the rows of the runs.

| Code | Actions and operators |
|---|---|
| `middleware.ts`, `auth.config.ts`, `app-shell.tsx`, the server pages of a run | `Visit`, `Load`, `LandsOn`, `Mount` |
| `auth.ts`, `user-menu.tsx` | `SignIn`, `SignInRefused`, `SignOut`, `SessionExpires` |
| `legal-consent.ts`, `api/legal`, the banner, the checkout's stamp | `recordConsent`, `BannerLoads`, `Accept`, `AcceptEnds`, `Consent` |
| `dashboard/page.tsx`, `GET /api/runs` | `ListArrives`, `SetFilter`, `ClickCard`, `mapStatus` |
| `brief/page.tsx`, `POST /api/runs` | `Type`, `Send`, `PostRuns`, `BriefAnswered`, `RequestFails` |
| `checkout/page.tsx`, `POST /api/checkout` | `Send`, `PostCheckout`, `CheckoutAnswered`, `StripePaid`, `StripeCanceled` |
| the orchestrator, a rollout | `WorkerStarts`, `WorkerEnds`, `Deploy`, `Retire` |
| `artifact/[kind]/route.ts`, the buttons | `Download`, `Buttons` |

A request is a step when it is sent, one when the server answers and one when the answer arrives, so
that sessions end, rows go on and deployments come in between. The payment itself is one step here; its
detail is `Payment`, the worker's is `RunLifecycle`. Rows are not deleted. `TERMS_VERSION` is compiled into a revision. In a
rollout the old and the new revision (`serving`) both answer, and each records its own version, until `Retire`; one rollout ends before the next
begins, because `.github/workflows/main.yml:7-9` runs one deployment at a time.

The run `Site` has one run of the reader's and one of somebody else's; a rich package with ties of
every order and more rows than a chart shows, and a poor one with the least that is accepted; one diagram,
since diagrams share nothing but `config`, standing for the three of a package; two versions of the terms, the second
deployed with billing turned on; two acceptances, which is what an old and a new one take. It
checks the trail of consent (`ConsentTrail`), what pages offer (`LinksLeadOn`), that the sections of a
package agree (`SectionsAgree`), and the diagrams (`DiagramFollowsTheme`, `DiagramsSettle`). `ConsentTrail` lets the version on record
go back only in a rollout, between the two versions that serve, and promises a reader whose acceptance was saved the terms of the page or newer ones, or
else those of the other revision.

A cost line scales by its base, users, requests and storage, each to a power that `cost.py` lets be any number from 0 to 5. `Exponents` are
those in use, `Power[k][e]` is k to the e at the scales of the page, 1, 10 and 100, in a fixed-point unit (`Unit`), and `Times` multiplies and rounds down, as
floating point rounds. The run has the exponents 0, a half, 1 and one and a half in hundredths. All that is assumed of powers is `PowersGrow`:
1 at scale 1, and no less at a higher scale, since no exponent is negative. The theme "system" is what it resolves to.

Fairness: effects run and the browser fetches and renders in the end, per diagram. The reader and the
server are not fair; `DiagramsSettle` asks that the theme is left alone, as every change starts again.

## 10. Proofs

No proof assumes a bound on the number of messages, handlers, sessions, events or questions.

`RunLifecycleProofs`:

* `TypesHold`, from the inductive `TypeInv` (the types, and a handler in a block
  has a block).
* `SuccessIsDelivered` and `DoneMeansDelivered`. Neither is inductive: a handler
  that has passed its uploads must be known to have uploaded. `PackInv` adds
  what each handler has uploaded at each step; `_finalise_db` then delivers both
  rows with the status. No assumption about messages, faults or timing.
* `ExecutesOnce`, assuming `ClaimIsQuick`: the ack deadline (600 s) does not run
  out inside the claim. `DeliveryInv` says a message out for delivery has one
  newest handler and a claiming handler is it; `ExecInv` says a message has been
  executed only if the row left `pending` and its delivery count is spent, so
  the next claim of that message has `delivery_attempt > 1` and refuses.
* `AckedMeansSettled`, assuming `ClaimIsQuick` and `Faults = {}`: `SettleInv`
  says that an unsettled row always has a responsible message, one that is
  queued or whose handler is past its claim.

* `ImplementsContract`: for one message whose executions do not overlap (`OneAtATime`: it
  is delivered again after a crash, a 500, or an ack deadline that passes while the answer is
  on its way), `RunLifecycle` implements `RunContract` under the refinement mapping
  `package <- rows["md"] > 0 /\ rows["json"] > 0`. `SoloInv` says that one handler is at
  work, on the newest delivery, and that what its open session has read is what the row holds.

`PaymentProofs`: `TypeCorrect`; `OneSession`, from `SessionInv` (an open session is the one
the idempotency key remembers); `PaidBeforeRun` and `IntentWasPaid`, from `PayInv`, which says
where money must have been taken: behind a paid event in flight, behind each handler
that carries one, and behind the intent of the row. `OnlyAnotherUndoes`, for overlapping executions
and with billing or without, adds `FailInv`: behind a failure in flight and behind each handler that carries one is a session that
ended without money, for good, and whoever is about to mark the run failed found it not paid.

`EventWatchProofs`: `TypeCorrect`; `FeedHasNoGap` and `HandOver`, from `FeedInv`: the positions on the wire are consecutive
and end at the request's cursor, and while a request lives the page has all that the stream has for it before them. So an event that the page
does not know, at the head of the wire, is the first of its id, and nothing from beyond it is shown (`FreshIsFirst`).
`PageShowsRow`, from `RowInv`: the package is stored before the row, a card or an answer says success, and a handler has given up
before they say failure, whichever handler wrote last.

`LlmBudgetProofs`: `TypeCorrect` (with: a caller's place in the executor is its own); `SpendingBounded`.
The bound says nothing of calls in flight, and is not inductive. With k of them, `SpendInv` says that
either there is room for k of the dearest calls, or for k - 1 of them and the
one that was let past the check last. A charge of that one leads back to the first case; the
semaphore gives k <= `Concurrency`. `BillBounded` is about what the providers bill: `BillInv` says that this is what
was spent, what was answered and not yet charged, and for each call given up or broken off that has ended at most a dearest price. A sum over
questions is the size of a set there: `Owed` has one unit <<question, n>> for each n up to the question's
answer, so that adding to a sum is adding to a set. With no call given up, `LedgerExact`: spent and
billed are the same, but for answers on their way to the charge.

`AgentGraphProofs`: `TypeCorrect`, `NeverUnresolved`, `NumbersNameSources` and `RubricMet`, from one invariant.
`Outputs` says that what a stage has produced passed its check, against evidence that no later stage
changes. `Numbered` says that a number stands for the page of its citation and no page has two;
`Covering` that the entities behind the walk have their first citation registered. The last
theorem needs `Schema`, which is assumed of the answers, for the kinds of sequence diagrams.

`DecideStudioProofs`: for every design that meets `DesignAssumption` (the first option of a component
keeps it, the roadmap names decisions that exist, a step starts at a component), `OnlyFullResetReturns` and
`InspectorShowsSelection`. `SelectionInv` says that a selection opens an entry or is a component of the
design that is swapped; what a lens links to opens, and a reset only brings cards and lines back. `TypeCorrect`, when 1 is a position of the
knobs; and `LinksLead`, when in addition the data name what exists (`DesignNamesWhatExists`: sources, components, severities,
phases, lifelines, which the types of `decide-studio.tsx` and the canned design give), from `SelectionInv`.
`BillIsOfDiagram`, when the design has a bill (`DesignHasBill`: finitely many lines, no negative price, and one line
that no component owns and that costs something, as the canned design's egress does): from the knobs being positive, whatever
was swapped.

`FiniteSums` has the lemmas about sums it needs. What a recursive definition computes is proved there without the
library's induction theorems, whose operator parameter the provers cannot instantiate: a set of
subsets stands for the predicate, and of the subsets that are not in it one with the fewest elements is refuted
(`SubsetInduction`). A sum is the size of a set of pairs, `f[x]` of them for each x (`Amount`); `MapThenSumSet`
expands to a function chosen for the recursion it satisfies, and there is exactly one, the amount (`SumIsAmount`). `SharesAddUp` is
about percentages that are each rounded down.

`SiteProofs`: `ConsentOnRecord`, for any number of versions and rollouts, from `ConsentInv` (no row is newer than the newest revision, nor is the script
of the tab, a banner that is hidden or saved is of an accepted version, and whoever serves is the newest revision or the one before); `OffersHold`, from `LinksInv` (a run that has succeeded has
its package, a run and a package stay, and a card was true of them once); `NoStalePicture`, from
`DiagramInv`: in a block that has noticed the theme, the picture and the job that may still report are
of that theme, and so is mermaid's configuration once such a job waits to be drawn. `TypeCorrect`, when any
version is deployed, from `SiteInv`: a run that left `pending` is paid for, so that what is on its way to Stripe, or waived, has no
package yet (`RowsInv`, `FormInv`); hence the package that is open stays the one of the run on the page
(`OpenInv`), and of the jobs of a diagram one at most may report (`OneJob`).

`SectionsTellTheSame`: the sections of a package agree, for any packages that are as `PackagesHold` says. This is an
assumption on the constant `Packages`, which TLC evaluates for the two it has; it is what `_admissibility_errors` of the architect, the
numbering of the packager and the schemas let through: levels of the schemas, edges and phases of nodes there are,
citations that name sources, a rationale of a requirement, and any exponents, whole or not, of which `PowersGrow` holds. Two
lemmas about a stable sort carry the lists: the positions of n entries are a permutation of 1..n
(`SortedLists`), and an entry is no further down than the number of those whose key is not above its own (`PositionBound`).
`Outranks` compares two orders of the same list, the headline's and the verdict's. For the costs, every sum of the source
is an `Amount` (`BomSums`), and the table, the bar by kind and the rows with their rest regroup it (`AmountMoves`, `AmountOfClasses`,
`AmountOfUnion` in `FiniteSums`). The solver knows no law of powers; a line costs its base at scale 1 and no less at a higher one by
`PowersGrow`, because rounding down keeps an order (`TimesGrows`, `TimesUnit`).

Of the runs' properties, only the liveness properties are model-checked alone.

## 11. Not modelled

Time (deadlines are actions), Sentry and log lines, `duration` fields, the contents of progress
events, the OIDC check in front of the push handler, prices in dollars, cache keys and
expiry, per-phase status and clock of the run page, the details form of the brief, the steps of a magic link,
the receipts of the account and billing pages, positions, wording and animation of the studio, the tabs
of `PackageView` that no page uses, and several readers or tabs at once. Whole components that are left
out are listed in section 1 and in `PROJECT.json`.
A model may stop: a run settles, a page is given up, every question ends.
`CHECK_DEADLOCK FALSE` says so; the liveness runs check that it is not too early.

## 12. Findings

Each is a run that TLC refutes; `PROJECT.json` quotes the sentence it refutes.

* `DupPublish`: a second message for a running run is executed, not rejected.
* `RefundUndone`: a repeated completed event turns a refunded run back into a paid one.
* `HungCalls`: as many hung calls as the executor has threads, and the fallback call is
  never started.

The models show more, without a run of their own. They were met while choosing
the instances and explain them.

* A claim whose reply was lost refuses itself on a redelivery, and an exception out of the unguarded
  research block ends as crash recovery; both settle the run.
* A handler killed between the commit of a verdict and its card leaves a settled run whose card nobody emits
  (`runner.py:1240`, `RunAnnounced`); an open page learns the verdict only by fetching the row.
* With Postgres down the failure card does not reach the stream, and the message may be
  acknowledged with the row still running. `RunLive` has no faults for this reason.
* When the ack deadline of 600 s passes while the handler is alive, the redelivery fails a run that is still being
  executed; ADR-0013:87-89 says that a redelivery means a crash.
* A final commit whose reply is lost shows a failure card for a run that succeeded.
* `enqueueRun` may publish twice, and after a worker has claimed the run. A delayed payment still processing when the
  key is forgotten lets the buyer pay a second session. Two webhook executions at once
  can overwrite paid with failed; if the publish of the paid event has failed by then, its retry answers 200 and a paid run
  is never dispatched, contrary to `webhook/route.ts:17-18` (section 4). A stamp that fails leaves a paid run without its terms version.
* A handler that has read `running` may write failed over the success of another (`runner.py:1302-1312`): the page that got the
  "done" event shows the package, and the row says failed. `run-watch.tsx:103-105` says that the row is failed when the failure event
  arrives; a success may have been written in between, and the page keeps the failure.
* A card that Redis loses is never learned by an open page that has had its answer; a refused EventSource gives up
  while the page says that it reconnects; only a "done" event or the browser ends a tail, so the
  stream of a failed run is tailed on.
* A charge over the cap loses the answer, where the comment at `router.py:192-194` says that it is returned;
  `gather` does not cancel the other questions of an aborted run; an invalid answer is cached
  before it is parsed.
* The architect accepts up to eight phases (its schema's limit) where its checklist, the comment at `architect.py:313`
  and the rubric ask for three to six, and asks for a failure mode only of a node whose `failure_domain` is not empty.
  `packager.py:11` says that knowledge-base sources are numbered first; they are numbered in the order of the walk.
  `runner.py:587-592` says that the whole knowledge base comes back below `top_k`; records that neither arm
  scores are dropped. Nothing keeps the ids of questions or of nodes apart.
* The texts of three alternatives, or of an assumption, can be longer than `RunPackage` allows although every agent
  accepted them, and the run fails at its last step.
* No page leads to `/checkout`: the brief goes to `/run/{id}` (`brief/page.tsx:280`), where
  `checkout/page.tsx:21-23` says that the brief sends its reader there and `checkout/route.ts:114-115` that turning
  the flag back on is enough. With billing on, a submitted run stays pending, and a run started from the brief never
  gets its `termsVersionAtRun` (ADR-0011:32,79). A consent that fails after the stamp is not tried again.
* A lost answer to `POST /api/runs` starts a second run; a publish that fails leaves a paid run that nobody publishes again.
* While two revisions serve different terms, an old one can record its version after the new one did, and `latestTermsVersion` goes
  back. A reader who accepts the new terms in the banner may be recorded with the old ones; the banner comes back on the next load, where
  `api/legal/accept/route.ts:5-6` says that it stops appearing. A tab with an old script shows the banner to a reader who has accepted the new terms.
* A failed fetch of the dashboard shows "First run"; a brief that meets an ended session is lost; "Retry brief"
  of a failed run opens a blank brief.
* The headline (five picks) and the stack (four) may differ between equals; "driver" at ten times
  the scale is the dearest line at the present one; a citation in the System design section leads to the audit
  whatever its number; the needle "nat" of the missing-items check matches inside words.
* The studio's risk cell "(high x high) is empty - by design" (`decide-studio.tsx:4030`, `5324`) is drawn from axes that run from high to
  low; the tooltip "Fixed cost regardless of traffic" (3816) covers lines that have a cost per knob; the text of d-cost
  gives other sums than the bill; the comment at 350-361 says that everything reads the swapped design, while the blast radius, the walk-through and the
  story read the original; the constraints of 1617-1621 cannot be turned on; a component that
  was swapped out returns only with everything else (`RemovedReturnsByFullReset`).
