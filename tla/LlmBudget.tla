----------------------------- MODULE LlmBudget -----------------------------
(***************************************************************************)
(* The research fan-out of one run: a thread per question, a semaphore,    *)
(* one router with its budget, cache, fallback chain and executor.         *)
(*                                                                         *)
(* What a thread does between two locks, or between a lock and the         *)
(* executor, is one step.  Money is counted in units.  max_tokens bounds   *)
(* the completion, but the prompt is estimated at four characters a token, *)
(* so that an answer may cost more than its estimate.                      *)
(***************************************************************************)
EXTENDS Naturals, Sequences, FiniteSets

CONSTANTS
  Questions,    \* questions of the research plan
  Concurrency,  \* the semaphore of research_all
  Threads,      \* threads of the router's executor
  Providers,    \* the fallback chain is 1..Providers
  Estimate,     \* what a call is estimated to cost, by provider
  Excess,       \* what an answer may cost beyond its estimate
  Dearest,      \* no answer costs more
  Cap,          \* llm_cap_usd_per_run
  Cached,       \* answers of earlier runs: pairs of a question and a try
  Orphan        \* a call whose caller has given up

ASSUME ConstantsAssumption ==
  /\ IsFiniteSet(Questions) /\ Orphan \notin Questions
  /\ Concurrency \in Nat \ {0} /\ Threads \in Nat \ {0} /\ Providers \in Nat \ {0}
  /\ Estimate \in [1..Providers -> Nat \ {0}] /\ Excess \in Nat /\ Cap \in Nat \ {0}
  /\ Dearest \in Nat /\ \A p \in 1..Providers : Estimate[p] + Excess <= Dearest
  /\ Cached \subseteq Questions \X {1, 2}

VARIABLES
  pc,        \* where the thread of a question is
  try,       \* its first or second generate
  prov,      \* the provider it is at
  usage,     \* what its answer cost
  waiting,   \* executor: calls submitted and not started, first come first
  active,    \* executor: questions whose call is running
  orphans,   \* executor: calls running that nobody waits for
  spent,     \* budget: what was charged
  cached,    \* answers in the cache
  billed,    \* what the providers bill
  leaks      \* calls given up or broken off, whose cost nobody charges

local == <<pc, try, prov, usage>>
executor == <<waiting, active, orphans>>
bill == <<billed, leaks>>
vars == <<local, executor, spent, cached, bill>>

InFlight == {q \in Questions : pc[q] \in {"call", "charge"}}
Ended == {"answered", "raised"}
Working == {q \in Questions : pc[q] \notin Ended \cup {"idle"}}
Queued == {waiting[i] : i \in DOMAIN waiting}

Init ==
  /\ pc = [q \in Questions |-> "idle"]
  /\ try = [q \in Questions |-> 1] /\ prov = [q \in Questions |-> 1]
  /\ usage = [q \in Questions |-> 0]
  /\ waiting = <<>> /\ active = {} /\ orphans = 0
  /\ spent = 0 /\ cached = Cached /\ billed = 0 /\ leaks = 0

Price(p) == Estimate[p] + Excess
Goto(q, l) == pc' = [pc EXCEPT ![q] = l]
-----------------------------------------------------------------------------
(* research_all and research_one.                                          *)

\* The semaphore: also after another question has raised, since gather does
\* not cancel what it has scheduled.
Begin(q) ==
  /\ pc[q] = "idle" /\ Cardinality(Working) < Concurrency
  /\ Goto(q, "search")
  /\ UNCHANGED <<try, prov, usage, executor, spent, cached, bill>>

\* No hits, or an error of the search, is the answer to the question.
Search(q) ==
  /\ pc[q] = "search"
  /\ \E l \in {"lookup", "answered"} : Goto(q, l)
  /\ UNCHANGED <<try, prov, usage, executor, spent, cached, bill>>

\* A valid finding, or after two tries a structured error; or the second try.
Parse(q) ==
  /\ pc[q] = "parse"
  /\ \/ Goto(q, "answered") /\ try' = try
     \/ try[q] = 1 /\ try' = [try EXCEPT ![q] = 2] /\ Goto(q, "lookup")
  /\ UNCHANGED <<prov, usage, executor, spent, cached, bill>>
-----------------------------------------------------------------------------
(* LlmRouter.generate.                                                     *)

\* A hit is free and is not prechecked.
Lookup(q) ==
  /\ pc[q] = "lookup"
  /\ prov' = [prov EXCEPT ![q] = 1]
  /\ Goto(q, IF <<q, try[q]>> \in cached THEN "parse" ELSE "check")
  /\ UNCHANGED <<try, usage, executor, spent, cached, bill>>

\* Slip: the estimate is not counted.
OverBudgetSpent(q) == spent > Cap

\* Slip: what was spent is not counted.
OverBudgetAlone(q) == Estimate[prov[q]] > Cap

\* precheck.
OverBudget(q) == spent + Estimate[prov[q]] > Cap

\* A call that cannot be afforded raises, also one the token cap forbids;
\* another is submitted.
Check(q) ==
  /\ pc[q] = "check"
  /\ \/ Goto(q, "raised") /\ waiting' = waiting
     \/ /\ ~OverBudget(q)
        /\ Goto(q, "call") /\ waiting' = Append(waiting, q)
  /\ UNCHANGED <<try, prov, usage, active, orphans, spent, cached, bill>>

\* Slip: the chain is left one provider too late.
FallBackBeyond(q) ==
  /\ prov' = [prov EXCEPT ![q] = prov[q] + 1] /\ Goto(q, "check")

\* The next provider of the chain, or AllProvidersFailed.
FallBack(q) ==
  \/ /\ prov[q] < Providers
     /\ prov' = [prov EXCEPT ![q] = prov[q] + 1] /\ Goto(q, "check")
  \/ prov[q] = Providers /\ Goto(q, "raised") /\ prov' = prov

\* The provider answers.
Return(q) ==
  /\ pc[q] = "call" /\ q \in active
  /\ \E cost \in 1..Price(prov[q]) :
       usage' = [usage EXCEPT ![q] = cost] /\ billed' = billed + cost
  /\ active' = active \ {q} /\ Goto(q, "charge")
  /\ UNCHANGED <<try, prov, waiting, orphans, spent, cached, leaks>>

\* TransientProviderError.
Transient(q) ==
  /\ pc[q] = "call" /\ q \in active
  /\ active' = active \ {q} /\ FallBack(q)
  /\ UNCHANGED <<try, usage, waiting, orphans, spent, cached, bill>>

\* Any other exception leaves generate; a truncated answer was billed.
BreakOff(q) ==
  /\ pc[q] = "call" /\ q \in active
  /\ \E cost \in 1..Price(prov[q]) : billed' = billed + cost
  /\ leaks' = leaks + 1
  /\ active' = active \ {q} /\ Goto(q, "raised")
  /\ UNCHANGED <<try, prov, usage, waiting, orphans, spent, cached>>

\* Slip: the result is awaited without a deadline.
TimeOutNever(q) == FALSE /\ UNCHANGED vars

\* The deadline of 60 s or more, which runs from the submission, so that a call
\* may also spend it waiting while every thread is taken.  The call stays where
\* it is: nothing takes it out of the executor.
TimeOut(q) ==
  /\ pc[q] = "call"
  /\ \/ /\ q \in active
        /\ active' = active \ {q} /\ orphans' = orphans + 1 /\ waiting' = waiting
     \/ /\ q \in Queued /\ Cardinality(active) + orphans = Threads
        /\ waiting' = [i \in DOMAIN waiting |-> IF waiting[i] = q THEN Orphan ELSE waiting[i]]
        /\ UNCHANGED <<active, orphans>>
  /\ leaks' = leaks + 1
  /\ FallBack(q)
  /\ UNCHANGED <<try, usage, spent, cached, billed>>

\* charge: over a cap it raises, and the answer is lost with it.
Charge(q) ==
  /\ pc[q] = "charge"
  /\ spent' = spent + usage[q] /\ usage' = [usage EXCEPT ![q] = 0]
  /\ \/ Goto(q, "raised") /\ cached' = cached
     \/ /\ spent' <= Cap
        /\ Goto(q, "parse") /\ cached' = cached \cup {<<q, try[q]>>}
  /\ UNCHANGED <<try, prov, executor, bill>>
-----------------------------------------------------------------------------
(* The executor: ThreadPoolExecutor(max_workers=4).                        *)

Start ==
  /\ waiting # <<>> /\ Cardinality(active) + orphans < Threads
  /\ IF Head(waiting) = Orphan THEN orphans' = orphans + 1 /\ active' = active
     ELSE active' = active \cup {Head(waiting)} /\ orphans' = orphans
  /\ waiting' = Tail(waiting)
  /\ UNCHANGED <<local, spent, cached, bill>>

\* An abandoned call comes to its end, if ever; nobody charges it.
OrphanEnds ==
  /\ orphans > 0 /\ orphans' = orphans - 1
  /\ \E cost \in 1..Dearest : billed' = billed + cost
  /\ UNCHANGED <<local, waiting, active, spent, cached, leaks>>
-----------------------------------------------------------------------------
Step(q) ==
  \/ Begin(q) \/ Search(q) \/ Parse(q) \/ Lookup(q) \/ Check(q)
  \/ Return(q) \/ Transient(q) \/ BreakOff(q) \/ TimeOut(q) \/ Charge(q)

Next == (\E q \in Questions : Step(q)) \/ Start \/ OrphanEnds

Spec == Init /\ [][Next]_vars

\* A thread goes on and a deadline expires; a free thread takes the next call.
\* A call that hangs never ends.
Fairness ==
  /\ \A q \in Questions :
       /\ WF_vars(Begin(q)) /\ WF_vars(Search(q)) /\ WF_vars(Parse(q)) /\ WF_vars(Lookup(q))
       /\ WF_vars(Check(q)) /\ WF_vars(Charge(q)) /\ WF_vars(TimeOut(q))
  /\ WF_vars(Start)

FairSpec == Spec /\ Fairness
-----------------------------------------------------------------------------
(* Properties.                                                             *)

\* The shape of the state, and a call is with the executor exactly while its
\* caller waits for it.
TypeOK ==
  /\ pc \in [Questions ->
       {"idle", "search", "lookup", "check", "call", "charge", "parse"} \cup Ended]
  /\ try \in [Questions -> 1..2] /\ prov \in [Questions -> 1..Providers]
  /\ usage \in [Questions -> 0..Dearest]
  /\ waiting \in Seq(Questions \cup {Orphan}) /\ active \subseteq Questions
  /\ orphans \in 0..Threads /\ Cardinality(active) + orphans <= Threads
  /\ spent \in Nat /\ billed \in Nat /\ leaks \in Nat
  /\ cached \subseteq Questions \X {1, 2}
  /\ {q \in Questions : pc[q] = "call"} = active \cup (Queued \ {Orphan})

\* Threads check and charge under two different locks, so a run can pass its
\* cap; it does so by the calls that were let past the check together with the last one.
SpendIsBounded == spent <= Cap + Excess + (Concurrency - 1) * Dearest

\* What the providers bill exceeds that only by calls nobody waited for.
BillIsBounded == billed <= Cap + Excess + (Concurrency - 1 + leaks) * Dearest

\* Every question comes to an outcome, though calls hang and fill the executor.
EveryQuestionEnds == \A q \in Questions : <>(pc[q] \in Ended)

\* Stated by router.py:90-95: a call that hangs does not keep the next provider
\* of the chain from being called.
FallbackIsCalled ==
  \A q \in Questions : pc[q] = "call" /\ prov[q] > 1 ~> q \in active
=============================================================================
