--------------------------- MODULE LlmBudgetProofs ---------------------------
(***************************************************************************)
(* Proofs about LlmBudget for any questions, concurrency, executor,        *)
(* fallback chain, prices and cap.                                         *)
(***************************************************************************)
EXTENDS LlmBudget, FiniteSetTheorems, TLAPS

Stations == {"idle", "search", "lookup", "check", "call", "charge", "parse"} \cup Ended

\* The locals of the threads; an answer costs at most its provider's price.
LocalTyped ==
  /\ pc \in [Questions -> Stations]
  /\ try \in [Questions -> 1..2] /\ prov \in [Questions -> 1..Providers]
  /\ usage \in [Questions -> 0..Dearest]
  /\ \A q \in Questions : pc[q] = "charge" => usage[q] <= Price(prov[q])

CountsTyped ==
  /\ spent \in Nat /\ billed \in Nat /\ leaks \in Nat
  /\ cached \subseteq Questions \X {1, 2}

Calling == {q \in Questions : pc[q] = "call"}
\* A caller's place in the executor is its own.
Distinct ==
  /\ active \cap Queued = {}
  /\ \A i, j \in DOMAIN waiting : waiting[i] = waiting[j] /\ waiting[i] # Orphan => i = j
ExecTyped ==
  /\ waiting \in Seq(Questions \cup {Orphan}) /\ active \subseteq Questions
  /\ orphans \in 0..Threads /\ Cardinality(active) + orphans <= Threads
  /\ Calling = active \cup (Queued \ {Orphan})
  /\ Distinct

TypeInv == LocalTyped /\ CountsTyped /\ ExecTyped

LEMMA TypeParts == TypeInv => TypeOK
  BY DEF TypeInv, LocalTyped, CountsTyped, ExecTyped, Calling, TypeOK, Stations
-----------------------------------------------------------------------------
(* The locals.                                                             *)

LEMMA Numbers ==
  /\ Cap \in Nat /\ Excess \in Nat /\ Dearest \in Nat
  /\ Threads \in Nat /\ Concurrency \in Nat \ {0}
  BY ConstantsAssumption

LEMMA PriceTyped == ASSUME LocalTyped, NEW q \in Questions
                    PROVE  Price(prov[q]) \in 1..Dearest
  BY ConstantsAssumption DEF LocalTyped, Price

\* A thread that goes on anywhere but to the charge.
LEMMA GotoTyped ==
  ASSUME LocalTyped, NEW q \in Questions, NEW l \in Stations \ {"charge"}, Goto(q, l),
         UNCHANGED usage, try' \in [Questions -> 1..2],
         prov' \in [Questions -> 1..Providers],
         \A r \in Questions \ {q} : prov'[r] = prov[r]
  PROVE  LocalTyped'
<1>1. /\ pc' \in [Questions -> Stations] /\ pc'[q] = l
      /\ \A r \in Questions \ {q} : pc'[r] = pc[r]
  BY DEF LocalTyped, Goto
<1>2. SUFFICES ASSUME NEW r \in Questions, pc'[r] = "charge"
               PROVE  usage'[r] <= Price(prov'[r])
  BY <1>1 DEF LocalTyped
<1>3. r # q
  BY <1>1, <1>2
<1>4. QED
  BY <1>1, <1>2, <1>3 DEF LocalTyped

\* The next provider of the chain, or the end of it.
LEMMA FallBackTyped ==
  ASSUME LocalTyped, NEW q \in Questions, FallBack(q), UNCHANGED <<try, usage>>
  PROVE  /\ LocalTyped'
         /\ \E l \in {"check", "raised"} : Goto(q, l)
         /\ \A r \in Questions \ {q} : prov'[r] = prov[r]
<1>0. prov[q] \in 1..Providers /\ Providers \in Nat
  BY ConstantsAssumption DEF LocalTyped
<1>1. CASE prov[q] < Providers /\ prov' = [prov EXCEPT ![q] = prov[q] + 1] /\ Goto(q, "check")
  <2>1. prov[q] + 1 \in 1..Providers
    BY <1>0, <1>1
  <2>2. /\ prov' \in [Questions -> 1..Providers]
        /\ \A r \in Questions \ {q} : prov'[r] = prov[r]
    BY <1>1, <2>1 DEF LocalTyped
  <2>3. LocalTyped'
    BY <1>1, <2>2, GotoTyped DEF Stations, LocalTyped
  <2>4. QED
    BY <1>1, <2>2, <2>3
<1>2. CASE prov[q] = Providers /\ Goto(q, "raised") /\ prov' = prov
  <2>1. LocalTyped'
    BY <1>2, GotoTyped DEF Stations, Ended, LocalTyped
  <2>2. QED
    BY <1>2, <2>1
<1>3. QED
  BY <1>1, <1>2 DEF FallBack

LEMMA LocalInit == Init => LocalTyped
  BY ConstantsAssumption DEF Init, LocalTyped, Stations

LEMMA LocalStep == LocalTyped /\ [Next]_vars => LocalTyped'
<1> SUFFICES ASSUME LocalTyped, [Next]_vars PROVE LocalTyped'
  OBVIOUS
<1>1. CASE UNCHANGED local
  BY <1>1 DEF local, LocalTyped
<1>2. CASE Start \/ OrphanEnds \/ UNCHANGED vars
  BY <1>1, <1>2 DEF Start, OrphanEnds, vars
<1>3. ASSUME NEW q \in Questions, Step(q) PROVE LocalTyped'
  <2>1. CASE Begin(q)
    BY <2>1, GotoTyped DEF Begin, Stations, LocalTyped
  <2>2. CASE Search(q)
    <3>1. PICK l \in {"lookup", "answered"} : Goto(q, l)
      BY <2>2 DEF Search
    <3>2. l \in Stations \ {"charge"}
      BY DEF Stations, Ended
    <3>3. QED
      BY <2>2, <3>1, <3>2, GotoTyped DEF Search, LocalTyped
  <2>3. CASE Parse(q)
    <3>1. CASE Goto(q, "answered") /\ try' = try
      BY <2>3, <3>1, GotoTyped DEF Parse, Stations, Ended, LocalTyped
    <3>2. CASE try' = [try EXCEPT ![q] = 2] /\ Goto(q, "lookup")
      BY <2>3, <3>2, GotoTyped DEF Parse, Stations, LocalTyped
    <3>3. QED
      BY <2>3, <3>1, <3>2 DEF Parse
  <2>4. CASE Lookup(q)
    <3>1. PICK l \in {"parse", "check"} : Goto(q, l)
      BY <2>4 DEF Lookup
    <3>2. l \in Stations \ {"charge"} /\ 1 \in 1..Providers
      BY ConstantsAssumption DEF Stations
    <3>3. /\ prov' \in [Questions -> 1..Providers]
          /\ \A r \in Questions \ {q} : prov'[r] = prov[r]
      BY <2>4, <3>2 DEF Lookup, LocalTyped
    <3>4. QED
      BY <2>4, <3>1, <3>2, <3>3, GotoTyped DEF Lookup, LocalTyped
  <2>5. CASE Check(q)
    <3>1. PICK l \in {"raised", "call"} : Goto(q, l)
      BY <2>5 DEF Check
    <3>2. l \in Stations \ {"charge"}
      BY DEF Stations, Ended
    <3>3. QED
      BY <2>5, <3>1, <3>2, GotoTyped DEF Check, LocalTyped
  <2>6. CASE Return(q)
    <3>1. PICK cost \in 1..Price(prov[q]) : usage' = [usage EXCEPT ![q] = cost]
      BY <2>6 DEF Return
    <3>2. cost \in 0..Dearest /\ cost <= Price(prov[q])
      BY <3>1, PriceTyped, ConstantsAssumption
    <3>3. /\ usage' \in [Questions -> 0..Dearest] /\ usage'[q] = cost
          /\ \A r \in Questions \ {q} : usage'[r] = usage[r]
      BY <3>1, <3>2 DEF LocalTyped
    <3>4. /\ pc' \in [Questions -> Stations]
          /\ \A r \in Questions \ {q} : pc'[r] = pc[r]
      BY <2>6 DEF Return, Goto, LocalTyped, Stations
    <3>5. UNCHANGED <<try, prov>>
      BY <2>6 DEF Return
    <3>6. QED
      BY <3>2, <3>3, <3>4, <3>5 DEF LocalTyped
  <2>7. CASE Transient(q)
    BY <2>7, FallBackTyped DEF Transient
  <2>8. CASE BreakOff(q)
    BY <2>8, GotoTyped DEF BreakOff, Stations, Ended, LocalTyped
  <2>9. CASE TimeOut(q)
    BY <2>9, FallBackTyped DEF TimeOut
  <2>10. CASE Charge(q)
    <3>1. /\ usage' \in [Questions -> 0..Dearest]
          /\ \A r \in Questions \ {q} : usage'[r] = usage[r]
      BY <2>10, ConstantsAssumption DEF Charge, LocalTyped
    <3>2. /\ pc' \in [Questions -> Stations] /\ pc'[q] # "charge"
          /\ \A r \in Questions \ {q} : pc'[r] = pc[r]
      BY <2>10 DEF Charge, Goto, LocalTyped, Stations, Ended
    <3>3. UNCHANGED <<try, prov>>
      BY <2>10 DEF Charge
    <3>4. QED
      BY <3>1, <3>2, <3>3 DEF LocalTyped
  <2>11. QED
    BY <1>3, <2>1, <2>2, <2>3, <2>4, <2>5, <2>6, <2>7, <2>8, <2>9, <2>10 DEF Step
<1>4. QED
  BY <1>2, <1>3 DEF Next
-----------------------------------------------------------------------------
(* The counts.                                                             *)

LEMMA CountsStep == LocalTyped /\ CountsTyped /\ [Next]_vars => CountsTyped'
<1> SUFFICES ASSUME LocalTyped, CountsTyped, [Next]_vars PROVE CountsTyped'
  OBVIOUS
<1>1. CASE UNCHANGED <<spent, cached, bill>>
  BY <1>1 DEF CountsTyped, bill
<1>2. CASE Start \/ UNCHANGED vars
  BY <1>1, <1>2 DEF Start, vars
<1>3. CASE OrphanEnds
  BY <1>3, ConstantsAssumption DEF OrphanEnds, CountsTyped
<1>4. ASSUME NEW q \in Questions, Step(q) PROVE CountsTyped'
  <2>1. CASE Begin(q) \/ Search(q) \/ Parse(q) \/ Lookup(q) \/ Check(q) \/ Transient(q)
    BY <2>1, <1>1 DEF Begin, Search, Parse, Lookup, Check, Transient
  <2>2. CASE Return(q) \/ BreakOff(q) \/ TimeOut(q)
    BY <2>2, PriceTyped DEF Return, BreakOff, TimeOut, CountsTyped
  <2>3. CASE Charge(q)
    <3>1. usage[q] \in Nat /\ try[q] \in {1, 2}
      BY ConstantsAssumption DEF LocalTyped
    <3>2. QED
      BY <2>3, <3>1 DEF Charge, CountsTyped, bill
  <2>4. QED
    BY <1>4, <2>1, <2>2, <2>3 DEF Step
<1>5. QED
  BY <1>2, <1>3, <1>4 DEF Next
-----------------------------------------------------------------------------
(* The spending of a run is bounded.                                       *)

\* A thread holds the semaphore from its search to its outcome.
SemaphoreInv == Cardinality(Working) <= Concurrency

Limit == Cap + Excess + (Concurrency - 1) * Dearest

\* Either every call in flight may still cost the dearest price, or all but the
\* one that was let past the check last.  SpendIsBounded says nothing of the calls
\* in flight, and so is not inductive.
SpendInv ==
  \/ spent + Cardinality(InFlight) * Dearest <= Limit
  \/ \E q \in InFlight :
       spent + (Cardinality(InFlight) - 1) * Dearest + Price(prov[q]) <= Limit

LEMMA SetsFinite ==
  /\ IsFiniteSet(Working) /\ IsFiniteSet(InFlight)
  /\ Cardinality(Working) \in Nat /\ Cardinality(InFlight) \in Nat
<1>1. Working \in SUBSET Questions /\ InFlight \in SUBSET Questions
  BY DEF Working, InFlight
<1>2. QED
  BY <1>1, ConstantsAssumption, FS_Subset, FS_CardinalityType

LEMMA InFlightWorks == Cardinality(InFlight) <= Cardinality(Working)
<1>1. InFlight \in SUBSET Working
  BY DEF InFlight, Working, Ended
<1>2. QED
  BY <1>1, SetsFinite, FS_Subset

LEMMA Monotone ==
  ASSUME NEW a \in Nat, NEW b \in Nat, a <= b
  PROVE  a * Dearest <= b * Dearest
  BY ConstantsAssumption

LEMMA Distributes ==
  ASSUME NEW a \in Int PROVE (a + 1) * Dearest = a * Dearest + Dearest /\ a * Dearest \in Int
  BY ConstantsAssumption

\* A thread comes and goes.
LEMMA MoveCounts ==
  ASSUME LocalTyped, NEW q \in Questions, NEW l \in Stations, Goto(q, l)
  PROVE  /\ Working' = IF l \in Ended \cup {"idle"} THEN Working \ {q} ELSE Working \cup {q}
         /\ InFlight' = IF l \in {"call", "charge"} THEN InFlight \cup {q} ELSE InFlight \ {q}
  BY DEF Goto, LocalTyped, Working, InFlight, Ended

LEMMA SemaphoreStep == LocalTyped /\ SemaphoreInv /\ [Next]_vars => SemaphoreInv'
<1> SUFFICES ASSUME LocalTyped, SemaphoreInv, [Next]_vars PROVE SemaphoreInv'
  OBVIOUS
<1>1. CASE UNCHANGED pc
  BY <1>1 DEF SemaphoreInv, Working
<1>2. CASE Start \/ OrphanEnds \/ UNCHANGED vars
  BY <1>1, <1>2 DEF Start, OrphanEnds, vars, local
<1>3. ASSUME NEW q \in Questions, Step(q) PROVE SemaphoreInv'
  <2>1. CASE Begin(q)
    <3>1. Working' = Working \cup {q} /\ Cardinality(Working) < Concurrency
      BY <2>1, MoveCounts DEF Begin, Stations, Ended
    <3>2. q \notin Working
      BY <2>1 DEF Begin, Working
    <3>3. Cardinality(Working \cup {q}) = Cardinality(Working) + 1
      BY <3>2, SetsFinite, FS_AddElement, Zenon
    <3>4. QED
      BY <3>1, <3>3, SetsFinite, ConstantsAssumption DEF SemaphoreInv
  <2>2. CASE ~Begin(q)
    <3>1. \E l \in Stations : Goto(q, l) /\ pc[q] \notin Ended \cup {"idle"}
      BY <1>3, <2>2, FallBackTyped
      DEF Step, Search, Parse, Lookup, Check, Return, Transient, BreakOff, TimeOut, Charge, Stations, Ended
    <3>2. Working' \in SUBSET Working
      BY <3>1, MoveCounts DEF Working
    <3>3. Cardinality(Working') <= Cardinality(Working) /\ Cardinality(Working') \in Nat
      BY <3>2, SetsFinite, FS_Subset, FS_CardinalityType
    <3>4. QED
      BY <3>3, SetsFinite, ConstantsAssumption DEF SemaphoreInv
  <2>3. QED
    BY <2>1, <2>2
<1>4. QED
  BY <1>2, <1>3 DEF Next

\* A call ends: charged for at most its price, or not at all.
LEMMA LeaveFlight ==
  ASSUME LocalTyped, spent \in Nat, spent' \in Nat, SpendInv, NEW q \in InFlight,
         InFlight' = InFlight \ {q}, spent' <= spent + Price(prov[q]),
         \A r \in InFlight \ {q} : prov'[r] = prov[r]
  PROVE  SpendInv'
<1> DEFINE k == Cardinality(InFlight)
           D == Dearest
           room == (k - 2) * Dearest
<1>1. k \in Nat \ {0} /\ Cardinality(InFlight)' = k - 1
  <2>1. k \in Nat /\ IsFiniteSet(InFlight) /\ InFlight # {}
    BY SetsFinite
  <2>2. Cardinality(InFlight \ {q}) = k - 1
    BY <2>1, FS_RemoveElement, Zenon
  <2>3. k # 0
    BY <2>1, FS_EmptySet, Zenon
  <2>4. QED
    BY <2>1, <2>2, <2>3
<1>2. /\ k * Dearest = room + 2 * Dearest /\ (k - 1) * Dearest = room + Dearest
      /\ room \in Int /\ Dearest \in Nat
  <2>1. k - 2 \in Int /\ k - 1 \in Int /\ k - 2 + 1 = k - 1 /\ k - 1 + 1 = k
    BY <1>1
  <2>2. room \in Int /\ (k - 1) * Dearest = room + Dearest
    BY <2>1, Distributes
  <2>3. k * Dearest = (k - 1) * Dearest + Dearest
    BY <2>1, Distributes
  <2>4. QED
    BY <2>2, <2>3, ConstantsAssumption
<1>3. Limit \in Int /\ Limit' = Limit
  <2>1. (Concurrency - 1) * Dearest \in Int
    BY ConstantsAssumption, Distributes
  <2>2. QED
    BY <2>1, ConstantsAssumption DEF Limit
<1>4. \A r \in InFlight : Price(prov[r]) \in 1..Dearest
  BY PriceTyped DEF InFlight
<1> HIDE DEF room, k
<1>5. CASE spent + k * Dearest <= Limit
  <2>1. spent' + (k - 1) * Dearest <= Limit
    BY <1>2, <1>3, <1>4, <1>5
  <2>2. QED
    BY <2>1, <1>1, <1>3 DEF SpendInv
<1>6. ASSUME NEW r \in InFlight, spent + (k - 1) * Dearest + Price(prov[r]) <= Limit
      PROVE  SpendInv'
  <2>1. CASE r = q
    <3>1. spent' + (k - 1) * Dearest <= Limit
      BY <2>1, <1>2, <1>3, <1>4, <1>6
    <3>2. QED
      BY <3>1, <1>1, <1>3 DEF SpendInv
  <2>2. CASE r # q
    <3>1. spent' + room + Price(prov[r]) <= Limit
      BY <1>2, <1>3, <1>4, <1>6
    <3>2. r \in InFlight' /\ prov'[r] = prov[r] /\ (k - 1) - 1 = k - 2
      BY <2>2, <1>1
    <3>3. spent' + (Cardinality(InFlight)' - 1) * Dearest + Price(prov'[r]) <= Limit'
      BY <3>1, <3>2, <1>1, <1>3 DEF room
    <3>4. QED
      BY <3>2, <3>3 DEF SpendInv
  <2>3. QED
    BY <2>1, <2>2
<1>7. QED
  BY <1>5, <1>6 DEF SpendInv, k

\* A call that can be afforded joins at most Concurrency - 1 others.
LEMMA JoinFlight ==
  ASSUME LocalTyped, spent \in Nat, SemaphoreInv', NEW q \in Questions \ InFlight,
         InFlight' = InFlight \cup {q}, ~OverBudget(q), UNCHANGED <<prov, spent>>
  PROVE  SpendInv'
<1> DEFINE k == Cardinality(InFlight)
<1>1. k \in Nat /\ Cardinality(InFlight)' = k + 1
  <2>1. k \in Nat /\ IsFiniteSet(InFlight)
    BY SetsFinite
  <2>2. Cardinality(InFlight \cup {q}) = k + 1
    BY <2>1, FS_AddElement, Zenon
  <2>3. QED
    BY <2>1, <2>2
<1>2. k <= Concurrency - 1 /\ Concurrency - 1 \in Nat
  <2>1. (Cardinality(InFlight) <= Cardinality(Working))'
    <3>1. InFlight' \in SUBSET Working' /\ Working' \in SUBSET Questions
      BY DEF InFlight, Working, Ended
    <3>2. QED
      BY <3>1, ConstantsAssumption, FS_Subset
  <2>2. Cardinality(Working)' \in Nat
    <3>1. Working' \in SUBSET Questions
      BY DEF Working
    <3>2. QED
      BY <3>1, ConstantsAssumption, FS_Subset, FS_CardinalityType
  <2>3. QED
    BY <2>1, <2>2, <1>1, ConstantsAssumption DEF SemaphoreInv
<1>3. k * Dearest <= (Concurrency - 1) * Dearest
  BY <1>1, <1>2, Monotone
<1>4. spent + Price(prov[q]) <= Cap + Excess /\ Price(prov[q]) \in Nat
  <2>1. Price(prov[q]) = Estimate[prov[q]] + Excess /\ Estimate[prov[q]] \in Nat
    BY ConstantsAssumption DEF Price, LocalTyped
  <2>2. spent + Estimate[prov[q]] <= Cap
    BY <2>1, ConstantsAssumption DEF OverBudget
  <2>3. QED
    BY <2>1, <2>2, Numbers
<1>5. k * Dearest \in Int /\ (Concurrency - 1) * Dearest \in Int /\ Cap + Excess \in Nat
  BY <1>1, <1>2, Distributes, ConstantsAssumption
<1> HIDE DEF k
<1>6. spent + k * Dearest + Price(prov[q]) <= Limit
  BY <1>3, <1>4, <1>5 DEF Limit
<1>7. spent' + (Cardinality(InFlight)' - 1) * Dearest + Price(prov'[q]) <= Limit'
  <2>1. k + 1 - 1 = k
    BY <1>1
  <2>2. QED
    BY <1>1, <1>6, <2>1 DEF Limit
<1>8. QED
  BY <1>7 DEF SpendInv

LEMMA SameFlight ==
  ASSUME SpendInv, InFlight' = InFlight, spent' = spent,
         \A r \in InFlight : prov'[r] = prov[r]
  PROVE  SpendInv'
  BY DEF SpendInv, Limit

LEMMA SpendInit == Init => SemaphoreInv /\ SpendInv
<1> SUFFICES ASSUME Init PROVE SemaphoreInv /\ SpendInv
  OBVIOUS
<1>1. Working = {} /\ InFlight = {}
  BY DEF Init, Working, InFlight, Ended
<1>2. Cardinality(Working) = 0 /\ Cardinality(InFlight) = 0
  BY <1>1, FS_EmptySet
<1>3. (Concurrency - 1) * Dearest \in Nat /\ 0 * Dearest = 0
  BY ConstantsAssumption
<1>4. spent + Cardinality(InFlight) * Dearest <= Limit
  <2>1. Limit \in Nat
    <3>1. Cap \in Nat /\ Excess \in Nat
      BY ConstantsAssumption
    <3>2. QED
      BY <1>3, <3>1 DEF Limit
  <2>2. spent + Cardinality(InFlight) * Dearest = 0
    BY <1>2, <1>3 DEF Init
  <2>3. QED
    BY <2>1, <2>2
<1>5. QED
  BY <1>2, <1>4, ConstantsAssumption DEF SemaphoreInv, SpendInv

LEMMA SpendStep ==
  LocalTyped /\ CountsTyped /\ SemaphoreInv /\ SpendInv /\ [Next]_vars => SpendInv'
<1> SUFFICES ASSUME LocalTyped, CountsTyped, SemaphoreInv, SpendInv, [Next]_vars
             PROVE  SpendInv'
  OBVIOUS
<1>1. CASE Start \/ OrphanEnds \/ UNCHANGED vars
  <2>1. UNCHANGED <<pc, prov, spent>>
    BY <1>1 DEF Start, OrphanEnds, vars, local
  <2>2. QED
    BY <2>1, SameFlight DEF InFlight
<1>2. ASSUME NEW q \in Questions, Step(q) PROVE SpendInv'
  <2>1. CASE Begin(q) \/ Search(q) \/ Parse(q) \/ Lookup(q)
    <3>1. \E l \in Stations \ {"call", "charge"} : Goto(q, l)
      BY <2>1 DEF Begin, Search, Parse, Lookup, Stations, Ended
    <3>2. q \notin InFlight
      BY <2>1 DEF Begin, Search, Parse, Lookup, InFlight
    <3>3. InFlight' = InFlight
      BY <3>1, <3>2, MoveCounts
    <3>4. spent' = spent /\ \A r \in Questions \ {q} : prov'[r] = prov[r]
      BY <2>1 DEF Begin, Search, Parse, Lookup, LocalTyped
    <3>5. \A r \in InFlight : prov'[r] = prov[r]
      BY <3>2, <3>4 DEF InFlight
    <3>6. QED
      BY <3>3, <3>4, <3>5, SameFlight
  <2>2. CASE Check(q)
    <3>1. UNCHANGED <<prov, spent>> /\ q \notin InFlight
      BY <2>2 DEF Check, InFlight
    <3>2. CASE Goto(q, "raised")
      <4>1. InFlight' = InFlight
        BY <3>1, <3>2, MoveCounts DEF Stations, Ended
      <4>2. QED
        BY <3>1, <4>1, SameFlight
    <3>3. CASE ~OverBudget(q) /\ Goto(q, "call")
      <4>1. InFlight' = InFlight \cup {q}
        BY <3>3, MoveCounts DEF Stations
      <4>2. SemaphoreInv'
        BY SemaphoreStep
      <4>3. QED
        BY <3>1, <3>3, <4>1, <4>2, JoinFlight DEF CountsTyped
    <3>4. QED
      BY <2>2, <3>2, <3>3 DEF Check
  <2>3. CASE Return(q)
    <3>1. q \in InFlight /\ Goto(q, "charge") /\ UNCHANGED <<prov, spent>>
      BY <2>3 DEF Return, InFlight
    <3>2. InFlight' = InFlight
      BY <3>1, MoveCounts DEF Stations
    <3>3. QED
      BY <3>1, <3>2, SameFlight
  <2>4. CASE Transient(q) \/ BreakOff(q) \/ TimeOut(q)
    <3>1. q \in InFlight /\ spent' = spent
      BY <2>4 DEF Transient, BreakOff, TimeOut, InFlight
    <3>2. /\ \E l \in {"check", "raised"} : Goto(q, l)
          /\ \A r \in Questions \ {q} : prov'[r] = prov[r]
      BY <2>4, FallBackTyped DEF Transient, BreakOff, TimeOut
    <3>3. InFlight' = InFlight \ {q}
      BY <3>2, MoveCounts DEF Stations, Ended
    <3>4. Price(prov[q]) \in Nat
      BY PriceTyped, ConstantsAssumption
    <3>5. QED
      BY <3>1, <3>2, <3>3, <3>4, LeaveFlight DEF CountsTyped, InFlight
  <2>5. CASE Charge(q)
    <3>1. q \in InFlight /\ UNCHANGED prov
      BY <2>5 DEF Charge, InFlight
    <3>2. \E l \in {"raised", "parse"} : Goto(q, l)
      BY <2>5 DEF Charge
    <3>3. InFlight' = InFlight \ {q}
      BY <3>2, MoveCounts DEF Stations, Ended
    <3>4. /\ usage[q] \in Nat /\ Price(prov[q]) \in Nat /\ usage[q] <= Price(prov[q])
          /\ spent' = spent + usage[q]
      <4>1. usage[q] \in Nat /\ usage[q] <= Price(prov[q])
        BY <2>5, Numbers DEF Charge, LocalTyped
      <4>2. Price(prov[q]) \in Nat
        BY PriceTyped, Numbers
      <4>3. QED
        BY <2>5, <4>1, <4>2 DEF Charge
    <3>5. spent' \in Nat /\ spent' <= spent + Price(prov[q])
      BY <3>4 DEF CountsTyped
    <3>6. QED
      BY <3>1, <3>3, <3>5, LeaveFlight DEF CountsTyped
  <2>6. QED
    BY <1>2, <2>1, <2>2, <2>3, <2>4, <2>5 DEF Step
<1>3. QED
  BY <1>1, <1>2 DEF Next

LEMMA SpendBounds ==
  LocalTyped /\ CountsTyped /\ SpendInv => SpendIsBounded
<1> SUFFICES ASSUME LocalTyped, CountsTyped, SpendInv PROVE SpendIsBounded
  OBVIOUS
<1> DEFINE k == Cardinality(InFlight)
<1>1. k \in Nat /\ Limit \in Int
  <2>1. (Concurrency - 1) * Dearest \in Int
    BY ConstantsAssumption, Distributes
  <2>2. QED
    BY <2>1, SetsFinite, ConstantsAssumption DEF Limit
<1>2. CASE spent + k * Dearest <= Limit
  <2>1. k * Dearest \in Nat
    BY <1>1, ConstantsAssumption
  <2>2. QED
    BY <1>1, <1>2, <2>1 DEF SpendIsBounded, Limit, CountsTyped
<1>3. ASSUME NEW q \in InFlight, spent + (k - 1) * Dearest + Price(prov[q]) <= Limit
      PROVE  SpendIsBounded
  <2>1. k # 0
    BY <1>3, SetsFinite, FS_EmptySet, Zenon
  <2>2. k - 1 \in Nat
    BY <2>1, <1>1
  <2>3. (k - 1) * Dearest \in Nat /\ Price(prov[q]) \in Nat
    BY <2>2, PriceTyped, ConstantsAssumption DEF InFlight
  <2>4. QED
    BY <1>1, <1>3, <2>3 DEF SpendIsBounded, Limit, CountsTyped
<1>4. QED
  BY <1>2, <1>3 DEF SpendInv

\* For any number of questions, any concurrency, chain and prices, and whatever
\* fails, hangs or times out, a run spends at most its cap, what
\* one answer may cost beyond its estimate, and the dearest price of all concurrent
\* calls but one (BudgetTracker.precheck and charge).
THEOREM SpendingBounded == Spec => []SpendIsBounded
<1> DEFINE Inv == LocalTyped /\ CountsTyped /\ SemaphoreInv /\ SpendInv
<1>1. Init => CountsTyped
  BY ConstantsAssumption DEF Init, CountsTyped
<1>2. Init => Inv
  BY <1>1, LocalInit, SpendInit
<1>3. Inv /\ [Next]_vars => Inv'
  BY LocalStep, CountsStep, SemaphoreStep, SpendStep
<1>4. Inv => SpendIsBounded
  BY SpendBounds
<1>5. QED
  BY <1>2, <1>3, <1>4, PTL DEF Spec
-----------------------------------------------------------------------------
(* The executor.                                                           *)

Calls == Questions \cup {Orphan}

LEMMA QueueTyped ==
  ASSUME waiting \in Seq(Calls)
  PROVE  Queued \subseteq Calls /\ DOMAIN waiting = 1..Len(waiting) /\ Len(waiting) \in Nat
  BY DEF Queued

\* A call is submitted.
LEMMA Submitted ==
  ASSUME ExecTyped, NEW q \in Questions \ (active \cup Queued), waiting' = Append(waiting, q),
         UNCHANGED active
  PROVE  /\ waiting' \in Seq(Calls) /\ Distinct'
         /\ Queued' = Queued \cup {q}
<1>1. waiting \in Seq(Calls) /\ q \in Calls /\ DOMAIN waiting = 1..Len(waiting) /\ Len(waiting) \in Nat
  BY QueueTyped DEF ExecTyped, Calls
<1>2. /\ waiting' \in Seq(Calls) /\ DOMAIN waiting' = 1..(Len(waiting) + 1)
      /\ waiting'[Len(waiting) + 1] = q
      /\ \A i \in DOMAIN waiting : waiting'[i] = waiting[i]
  BY <1>1
<1>3. Queued' = Queued \cup {q}
  <2>1. \A i \in DOMAIN waiting' : i \in DOMAIN waiting \/ i = Len(waiting) + 1
    BY <1>1, <1>2
  <2>2. Len(waiting) + 1 \in DOMAIN waiting' /\ DOMAIN waiting \subseteq DOMAIN waiting'
    BY <1>1, <1>2
  <2>3. QED
    BY <1>2, <2>1, <2>2 DEF Queued
<1>4. active' \cap Queued' = {}
  BY <1>3 DEF ExecTyped, Distinct
<1>5. ASSUME NEW i \in DOMAIN waiting', NEW j \in DOMAIN waiting',
             waiting'[i] = waiting'[j], waiting'[i] # Orphan
      PROVE  i = j
  <2>1. CASE i \in DOMAIN waiting /\ j \in DOMAIN waiting
    BY <1>2, <1>5, <2>1 DEF ExecTyped, Distinct
  <2>2. CASE i = Len(waiting) + 1 /\ j = Len(waiting) + 1
    BY <2>2
  <2>3. CASE i \in DOMAIN waiting /\ j = Len(waiting) + 1
    BY <1>2, <1>5, <2>3 DEF Queued
  <2>4. CASE j \in DOMAIN waiting /\ i = Len(waiting) + 1
    BY <1>2, <1>5, <2>4 DEF Queued
  <2>5. QED
    BY <1>1, <1>2, <2>1, <2>2, <2>3, <2>4
<1>6. QED
  BY <1>2, <1>3, <1>4, <1>5 DEF Distinct

\* The first call leaves the queue.
LEMMA Started ==
  ASSUME ExecTyped, waiting # <<>>, waiting' = Tail(waiting)
  PROVE  /\ waiting' \in Seq(Calls) /\ Head(waiting) \in Queued \cap Calls
         /\ Queued' \subseteq Queued /\ Queued \subseteq Queued' \cup {Head(waiting)}
         /\ Head(waiting) # Orphan => Head(waiting) \notin Queued'
         /\ \A i, j \in DOMAIN waiting' :
              waiting'[i] = waiting'[j] /\ waiting'[i] # Orphan => i = j
<1>1. waiting \in Seq(Calls) /\ DOMAIN waiting = 1..Len(waiting) /\ Len(waiting) \in Nat \ {0}
  BY QueueTyped DEF ExecTyped, Calls
<1>2. /\ waiting' \in Seq(Calls) /\ DOMAIN waiting' = 1..(Len(waiting) - 1)
      /\ \A i \in DOMAIN waiting' : waiting'[i] = waiting[i + 1]
      /\ Head(waiting) = waiting[1]
  BY <1>1
<1>3. /\ 1 \in DOMAIN waiting
      /\ \A i \in DOMAIN waiting' : i + 1 \in DOMAIN waiting \ {1} /\ i \in Nat
      /\ \A i \in DOMAIN waiting : i = 1 \/ (i - 1 \in DOMAIN waiting' /\ (i - 1) + 1 = i)
  BY <1>1, <1>2
<1>4. Head(waiting) \in Queued \cap Calls
  BY <1>1, <1>2, <1>3 DEF Queued
<1>5. Queued' \subseteq Queued
  BY <1>2, <1>3 DEF Queued
<1>6. Queued \subseteq Queued' \cup {Head(waiting)}
  <2>1. SUFFICES ASSUME NEW i \in DOMAIN waiting, i # 1 PROVE waiting[i] \in Queued'
    BY <1>2 DEF Queued
  <2>2. i - 1 \in DOMAIN waiting' /\ waiting'[i - 1] = waiting[i]
    BY <1>2, <1>3, <2>1
  <2>3. QED
    BY <2>2 DEF Queued
<1>7. Head(waiting) # Orphan => Head(waiting) \notin Queued'
  <2>1. SUFFICES ASSUME NEW i \in DOMAIN waiting', waiting'[i] = waiting[1], waiting[1] # Orphan
                 PROVE  FALSE
    BY <1>2 DEF Queued
  <2>2. waiting[i + 1] = waiting[1] /\ i + 1 \in DOMAIN waiting /\ i + 1 # 1
    BY <1>2, <1>3, <2>1
  <2>3. QED
    BY <1>3, <2>1, <2>2 DEF ExecTyped, Distinct
<1>8. ASSUME NEW i \in DOMAIN waiting', NEW j \in DOMAIN waiting',
             waiting'[i] = waiting'[j], waiting'[i] # Orphan
      PROVE  i = j
  <2>1. /\ waiting[i + 1] = waiting[j + 1] /\ waiting[i + 1] # Orphan
        /\ i + 1 \in DOMAIN waiting /\ j + 1 \in DOMAIN waiting
    BY <1>2, <1>3, <1>8
  <2>2. i + 1 = j + 1
    BY <2>1 DEF ExecTyped, Distinct
  <2>3. QED
    BY <1>3, <2>2
<1>9. QED
  BY <1>2, <1>4, <1>5, <1>6, <1>7, <1>8

\* A waiting call is given up where it is.
LEMMA GivenUp ==
  ASSUME ExecTyped, NEW q \in Queued \cap Questions, UNCHANGED active,
         waiting' = [i \in DOMAIN waiting |-> IF waiting[i] = q THEN Orphan ELSE waiting[i]]
  PROVE  /\ waiting' \in Seq(Calls) /\ Distinct'
         /\ Queued' \ {Orphan} = Queued \ {q, Orphan}
<1>1. waiting \in Seq(Calls) /\ DOMAIN waiting = 1..Len(waiting) /\ Len(waiting) \in Nat
  BY QueueTyped DEF ExecTyped, Calls
<1>2. waiting' \in Seq(Calls) /\ DOMAIN waiting' = DOMAIN waiting
  <2>1. waiting' \in [1..Len(waiting) -> Calls]
    BY <1>1 DEF Calls
  <2>2. QED
    BY <1>1, <2>1
<1>3. \A i \in DOMAIN waiting :
        IF waiting[i] = q THEN waiting'[i] = Orphan ELSE waiting'[i] = waiting[i]
  OBVIOUS
<1>4. Queued' \ {Orphan} = Queued \ {q, Orphan}
  BY <1>2, <1>3 DEF Queued
<1>5. Orphan \notin active /\ Orphan # q
  BY ConstantsAssumption DEF ExecTyped
<1>6. active' \cap Queued' = {}
  BY <1>4, <1>5 DEF ExecTyped, Distinct
<1>7. \A i, j \in DOMAIN waiting' :
        waiting'[i] = waiting'[j] /\ waiting'[i] # Orphan => i = j
  BY <1>2, <1>3 DEF ExecTyped, Distinct
<1>8. QED
  BY <1>2, <1>4, <1>6, <1>7 DEF Distinct

LEMMA MoveCalling ==
  ASSUME LocalTyped, NEW q \in Questions, NEW l \in Stations, Goto(q, l)
  PROVE  Calling' = IF l = "call" THEN Calling \cup {q} ELSE Calling \ {q}
  BY DEF Goto, LocalTyped, Calling

LEMMA ActiveCounts ==
  ASSUME ExecTyped PROVE IsFiniteSet(active) /\ Cardinality(active) \in Nat
<1>1. active \in SUBSET Questions
  BY DEF ExecTyped
<1>2. QED
  BY <1>1, ConstantsAssumption, FS_Subset, FS_CardinalityType

LEMMA ActiveLoses ==
  ASSUME ExecTyped, NEW q \in active
  PROVE  Cardinality(active \ {q}) = Cardinality(active) - 1 /\ Cardinality(active) # 0
<1>1. IsFiniteSet(active) /\ active # {}
  BY ActiveCounts
<1>2. Cardinality(active \ {q}) = Cardinality(active) - 1
  BY <1>1, FS_RemoveElement, Zenon
<1>3. Cardinality(active) # 0
  BY <1>1, FS_EmptySet, Zenon
<1>4. QED
  BY <1>2, <1>3

\* The thread of q is not with the executor, before and after.
LEMMA ElsewhereKeeps ==
  ASSUME LocalTyped, ExecTyped, NEW q \in Questions, pc[q] # "call",
         NEW l \in Stations \ {"call"}, Goto(q, l), UNCHANGED executor
  PROVE  ExecTyped'
<1>1. Calling' = Calling
  BY MoveCalling DEF Calling
<1>2. QED
  BY <1>1 DEF ExecTyped, Distinct, Queued, executor

\* A running call ends, or is given up and goes on running.
LEMMA ActiveEnds ==
  ASSUME LocalTyped, ExecTyped, NEW q \in active, NEW l \in Stations \ {"call"}, Goto(q, l),
         active' = active \ {q}, waiting' = waiting,
         orphans' = orphans \/ orphans' = orphans + 1
  PROVE  ExecTyped'
<1>1. q \in Questions /\ q # Orphan
  BY ConstantsAssumption DEF ExecTyped
<1>2. Calling' = Calling \ {q}
  BY <1>1, MoveCalling
<1>3. Queued' = Queued /\ q \notin Queued
  BY DEF Queued, ExecTyped, Distinct
<1>4. Calling' = active' \cup (Queued' \ {Orphan}) /\ Distinct'
  BY <1>1, <1>2, <1>3 DEF ExecTyped, Distinct
<1>5. /\ Cardinality(active)' = Cardinality(active) - 1
      /\ Cardinality(active) \in Nat \ {0}
  BY ActiveLoses, ActiveCounts
<1>6. orphans' \in 0..Threads /\ Cardinality(active)' + orphans' <= Threads
  BY <1>5, Numbers DEF ExecTyped
<1>7. QED
  BY <1>4, <1>6 DEF ExecTyped

LEMMA StartTyped == ASSUME ExecTyped, Start PROVE ExecTyped'
<1> DEFINE h == Head(waiting)
<1>1. /\ waiting' \in Seq(Calls) /\ h \in Queued \cap Calls
      /\ Queued' \subseteq Queued /\ Queued \subseteq Queued' \cup {h}
      /\ h # Orphan => h \notin Queued'
      /\ \A i, j \in DOMAIN waiting' :
           waiting'[i] = waiting'[j] /\ waiting'[i] # Orphan => i = j
  BY Started DEF Start
<1>2. Calling' = Calling
  BY DEF Start, local, Calling
<1>3. orphans \in Nat /\ Cardinality(active) \in Nat /\ IsFiniteSet(active)
  BY ActiveCounts, ConstantsAssumption DEF ExecTyped
<1>4. Cardinality(active) + orphans < Threads
  BY DEF Start
<1> HIDE DEF h
<1>5. CASE h = Orphan
  <2>1. orphans' = orphans + 1 /\ active' = active
    BY <1>5 DEF Start, h
  <2>2. orphans' \in 0..Threads /\ Cardinality(active') + orphans' <= Threads
    BY <2>1, <1>3, <1>4, ConstantsAssumption
  <2>3. Calling' = active' \cup (Queued' \ {Orphan}) /\ Distinct'
    BY <1>1, <1>2, <1>5, <2>1 DEF ExecTyped, Distinct
  <2>4. QED
    BY <1>1, <2>1, <2>2, <2>3 DEF ExecTyped, Calls
<1>6. CASE h # Orphan
  <2>1. orphans' = orphans /\ active' = active \cup {h}
    BY <1>6 DEF Start, h
  <2>2. h \in Questions /\ h \notin active
    BY <1>1, <1>6 DEF Calls, ExecTyped, Distinct
  <2>3. Cardinality(active \cup {h}) = Cardinality(active) + 1
    BY <1>3, <2>2, FS_AddElement, Zenon
  <2>4. orphans' \in 0..Threads /\ Cardinality(active') + orphans' <= Threads
    BY <2>1, <2>3, <1>3, <1>4, ConstantsAssumption
  <2>5. Calling' = active' \cup (Queued' \ {Orphan})
    BY <1>1, <1>2, <1>6, <2>1, <2>2 DEF ExecTyped, Distinct
  <2>6. Distinct'
    BY <1>1, <1>6, <2>1 DEF ExecTyped, Distinct
  <2>7. QED
    BY <1>1, <2>1, <2>2, <2>4, <2>5, <2>6 DEF ExecTyped, Calls
<1>7. QED
  BY <1>5, <1>6

LEMMA TimeOutTyped ==
  ASSUME LocalTyped, ExecTyped, NEW q \in Questions, TimeOut(q) PROVE ExecTyped'
<1>1. PICK l \in {"check", "raised"} : Goto(q, l)
  BY FallBackTyped DEF TimeOut
<1>2. l \in Stations \ {"call"}
  BY DEF Stations, Ended
<1>3. CASE q \in active /\ active' = active \ {q} /\ orphans' = orphans + 1 /\ waiting' = waiting
  BY <1>1, <1>2, <1>3, ActiveEnds
<1>4. CASE /\ q \in Queued /\ UNCHANGED <<active, orphans>>
           /\ waiting' = [i \in DOMAIN waiting |-> IF waiting[i] = q THEN Orphan ELSE waiting[i]]
  <2>1. /\ waiting' \in Seq(Calls) /\ Distinct'
        /\ Queued' \ {Orphan} = Queued \ {q, Orphan}
    BY <1>4, GivenUp
  <2>2. Calling' = Calling \ {q} /\ q \notin active /\ q # Orphan
    BY <1>1, <1>2, <1>4, MoveCalling, ConstantsAssumption DEF ExecTyped, Distinct
  <2>3. Calling' = active' \cup (Queued' \ {Orphan})
    BY <2>1, <2>2, <1>4 DEF ExecTyped
  <2>4. QED
    BY <1>4, <2>1, <2>3 DEF ExecTyped, Calls
<1>5. QED
  BY <1>3, <1>4 DEF TimeOut

LEMMA CheckTyped ==
  ASSUME LocalTyped, ExecTyped, NEW q \in Questions, Check(q) PROVE ExecTyped'
<1>1. pc[q] = "check" /\ UNCHANGED <<active, orphans>>
  BY DEF Check
<1>2. CASE Goto(q, "raised") /\ waiting' = waiting
  BY <1>1, <1>2, ElsewhereKeeps DEF executor, Stations, Ended
<1>3. CASE Goto(q, "call") /\ waiting' = Append(waiting, q)
  <2>1. q \notin active \cup Queued /\ q # Orphan
    BY <1>1, ConstantsAssumption DEF ExecTyped, Calling
  <2>2. /\ waiting' \in Seq(Calls) /\ Distinct' /\ Queued' = Queued \cup {q}
    BY <1>1, <1>3, <2>1, Submitted
  <2>3. Calling' = Calling \cup {q}
    BY <1>3, MoveCalling DEF Stations
  <2>4. Calling' = active' \cup (Queued' \ {Orphan})
    BY <1>1, <2>1, <2>2, <2>3 DEF ExecTyped
  <2>5. QED
    BY <1>1, <2>2, <2>4 DEF ExecTyped, Calls
<1>4. QED
  BY <1>2, <1>3 DEF Check

LEMMA ExecStep == LocalTyped /\ ExecTyped /\ [Next]_vars => ExecTyped'
<1> SUFFICES ASSUME LocalTyped, ExecTyped, [Next]_vars PROVE ExecTyped'
  OBVIOUS
<1>1. CASE UNCHANGED vars
  BY <1>1 DEF vars, local, executor, ExecTyped, Distinct, Queued, Calling
<1>2. CASE OrphanEnds
  <2>1. UNCHANGED <<local, waiting, active>> /\ orphans' \in 0..Threads /\ orphans' <= orphans
    BY <1>2, ConstantsAssumption DEF OrphanEnds, ExecTyped
  <2>2. Cardinality(active) + orphans' <= Threads
    BY <2>1, ActiveCounts, ConstantsAssumption DEF ExecTyped
  <2>3. QED
    BY <2>1, <2>2 DEF local, ExecTyped, Distinct, Queued, Calling
<1>3. ASSUME NEW q \in Questions, Step(q) PROVE ExecTyped'
  <2>1. CASE Begin(q) \/ Search(q) \/ Parse(q) \/ Lookup(q) \/ Charge(q)
    <3>1. pc[q] # "call" /\ UNCHANGED executor
      BY <2>1 DEF Begin, Search, Parse, Lookup, Charge
    <3>2. \E l \in Stations \ {"call"} : Goto(q, l)
      BY <2>1 DEF Begin, Search, Parse, Lookup, Charge, Stations, Ended
    <3>3. QED
      BY <3>1, <3>2, ElsewhereKeeps
  <2>2. CASE Return(q) \/ Transient(q) \/ BreakOff(q)
    <3>1. q \in active /\ active' = active \ {q} /\ waiting' = waiting /\ orphans' = orphans
      BY <2>2 DEF Return, Transient, BreakOff
    <3>2. \E l \in Stations \ {"call"} : Goto(q, l)
      BY <2>2, FallBackTyped DEF Return, Transient, BreakOff, Stations, Ended
    <3>3. QED
      BY <3>1, <3>2, ActiveEnds
  <2>3. QED
    BY <1>3, <2>1, <2>2, CheckTyped, TimeOutTyped DEF Step
<1>4. QED
  BY <1>1, <1>2, <1>3, StartTyped DEF Next

LEMMA TypeInit == Init => TypeInv
<1>1. Init => CountsTyped
  BY ConstantsAssumption DEF Init, CountsTyped
<1>2. Init => ExecTyped
  <2> SUFFICES ASSUME Init PROVE ExecTyped
    OBVIOUS
  <2>2. Calling = {}
    BY DEF Init, Calling
  <2>3. waiting = <<>> /\ active = {} /\ orphans = 0
    BY DEF Init
  <2>4. Len(waiting) = 0 /\ DOMAIN waiting = {}
    BY <2>3
  <2>5. Queued = {}
    BY <2>4 DEF Queued
  <2>6. Cardinality(active) = 0
    BY <2>3, FS_EmptySet
  <2>7. waiting \in Seq(Questions \cup {Orphan}) /\ orphans \in 0..Threads
    BY <2>3, ConstantsAssumption
  <2>8. Cardinality(active) + orphans <= Threads
    BY <2>3, <2>6, ConstantsAssumption
  <2>9. QED
    BY <2>2, <2>3, <2>4, <2>5, <2>7, <2>8 DEF ExecTyped, Distinct
<1>3. QED
  BY <1>1, <1>2, LocalInit DEF TypeInv

LEMMA TypeStep == TypeInv /\ [Next]_vars => TypeInv'
  BY LocalStep, CountsStep, ExecStep DEF TypeInv

\* For every instance the threads, the executor and the money keep their shape:
\* a caller that waits has its own place in the queue or a thread, and calls
\* given up never take more threads than there are (LlmRouter._call_with_timeout).
THEOREM TypeCorrect == Spec => []TypeOK
  BY TypeInit, TypeStep, TypeParts, PTL DEF Spec
-----------------------------------------------------------------------------
(* What the providers bill.                                                *)

\* The answers that have not been charged yet, unit by unit: their number is the
\* sum of what they cost.
Owed == {u \in Questions \X (1..Dearest) : u[2] <= usage[u[1]]}

\* Calls given up that have not come to their end: queued, or on a thread.
Abandoned == {i \in DOMAIN waiting : waiting[i] = Orphan}
Unended == orphans + Cardinality(Abandoned)

\* A unit billed was charged, is owed, or belongs to a call that was given up and
\* has ended.  BillIsBounded says neither what is owed nor what can still end.
UsageInv == \A q \in Questions : usage[q] # 0 => pc[q] = "charge"
BillInv ==
  /\ Unended <= leaks
  /\ spent + Cardinality(Owed) <= billed
  /\ billed <= spent + Cardinality(Owed) + (leaks - Unended) * Dearest

Units(q, n) == {q} \X (1..n)

LEMMA UnitsCount ==
  ASSUME NEW q, NEW n \in Nat
  PROVE  IsFiniteSet(Units(q, n)) /\ Cardinality(Units(q, n)) = n
<1>1. IsFiniteSet({q}) /\ Cardinality({q}) = 1
  BY FS_Singleton
<1>2. IsFiniteSet(1..n) /\ Cardinality(1..n) = n
  BY FS_Interval
<1>3. /\ IsFiniteSet({q} \X (1..n))
      /\ Cardinality({q} \X (1..n)) = Cardinality({q}) * Cardinality(1..n)
  BY <1>1, <1>2, FS_Product, Zenon
<1>4. QED
  BY <1>1, <1>2, <1>3 DEF Units

LEMMA OwedFinite == IsFiniteSet(Owed) /\ Cardinality(Owed) \in Nat
<1>1. IsFiniteSet(Questions) /\ IsFiniteSet(1..Dearest)
  BY ConstantsAssumption, FS_Interval
<1>2. IsFiniteSet(Questions \X (1..Dearest))
  BY <1>1, FS_Product
<1>3. Owed \in SUBSET (Questions \X (1..Dearest))
  BY DEF Owed
<1>4. QED
  BY <1>2, <1>3, FS_Subset, FS_CardinalityType

\* An answer comes.
LEMMA OwedGrows ==
  ASSUME LocalTyped, NEW q \in Questions, usage[q] = 0, NEW n \in 1..Dearest,
         usage' = [usage EXCEPT ![q] = n]
  PROVE  Cardinality(Owed)' = Cardinality(Owed) + n
<1>1. Dearest \in Nat /\ \A r \in Questions : usage[r] \in 0..Dearest
  BY Numbers DEF LocalTyped
<1>2. usage'[q] = n /\ \A r \in Questions \ {q} : usage'[r] = usage[r]
  BY DEF LocalTyped
<1>3. Owed' = Owed \cup Units(q, n)
  <2>1. ASSUME NEW u \in Questions \X (1..Dearest)
        PROVE  u \in Owed' <=> u \in Owed \cup Units(q, n)
    <3>1. CASE u[1] = q
      <4>1. u[2] \in 1..Dearest /\ u = <<q, u[2]>>
        BY <3>1
      <4>2. u \in Owed' <=> u[2] <= n
        BY <1>2, <3>1 DEF Owed
      <4>3. u \notin Owed
        BY <1>1, <3>1, <4>1 DEF Owed
      <4>4. u \in Units(q, n) <=> u[2] <= n
        BY <1>1, <4>1 DEF Units
      <4>5. QED
        BY <4>2, <4>3, <4>4
    <3>2. CASE u[1] # q
      <4>1. u \notin Units(q, n)
        BY <3>2 DEF Units
      <4>2. u[1] \in Questions \ {q}
        BY <3>2
      <4>3. QED
        BY <1>2, <4>1, <4>2 DEF Owed
    <3>3. QED
      BY <3>1, <3>2
  <2>2. Units(q, n) \subseteq Questions \X (1..Dearest)
    BY <1>1 DEF Units
  <2>3. Owed \subseteq Questions \X (1..Dearest) /\ Owed' \subseteq Questions \X (1..Dearest)
    BY DEF Owed
  <2>4. QED
    BY <2>1, <2>2, <2>3
<1>4. Owed \cap Units(q, n) = {}
  BY <1>1 DEF Owed, Units
<1>5. n \in Nat
  BY <1>1
<1>6. /\ Cardinality(Owed \cup Units(q, n))
          = Cardinality(Owed) + Cardinality(Units(q, n)) - Cardinality(Owed \cap Units(q, n))
  BY <1>5, OwedFinite, UnitsCount, FS_Union
<1>7. Cardinality(Owed \cap Units(q, n)) = 0
  BY <1>4, FS_EmptySet
<1>8. QED
  BY <1>3, <1>5, <1>6, <1>7, OwedFinite, UnitsCount

\* An answer is charged.
LEMMA OwedShrinks ==
  ASSUME LocalTyped, NEW q \in Questions, usage' = [usage EXCEPT ![q] = 0]
  PROVE  Cardinality(Owed)' = Cardinality(Owed) - usage[q]
<1> DEFINE n == usage[q]
<1>1. Dearest \in Nat /\ n \in 0..Dearest /\ n \in Nat
  BY Numbers DEF LocalTyped
<1>2. usage'[q] = 0 /\ \A r \in Questions \ {q} : usage'[r] = usage[r]
  BY DEF LocalTyped
<1>3. Owed' = Owed \ Units(q, n) /\ Units(q, n) \subseteq Owed
  <2>1. ASSUME NEW u \in Questions \X (1..Dearest)
        PROVE  /\ u \in Owed' <=> u \in Owed \ Units(q, n)
               /\ u \in Units(q, n) => u \in Owed
    <3>1. CASE u[1] = q
      <4>1. u[2] \in 1..Dearest /\ u = <<q, u[2]>>
        BY <3>1
      <4>2. u \notin Owed'
        BY <1>1, <1>2, <3>1, <4>1 DEF Owed
      <4>3. u \in Owed <=> u[2] <= n
        BY <3>1 DEF Owed
      <4>4. u \in Units(q, n) <=> u[2] <= n
        BY <1>1, <4>1 DEF Units
      <4>5. QED
        BY <4>2, <4>3, <4>4
    <3>2. CASE u[1] # q
      <4>1. u \notin Units(q, n)
        BY <3>2 DEF Units
      <4>2. u[1] \in Questions \ {q}
        BY <3>2
      <4>3. QED
        BY <1>2, <4>1, <4>2 DEF Owed
    <3>3. QED
      BY <3>1, <3>2
  <2>2. Units(q, n) \subseteq Questions \X (1..Dearest)
    BY <1>1 DEF Units
  <2>3. Owed \subseteq Questions \X (1..Dearest) /\ Owed' \subseteq Questions \X (1..Dearest)
    BY DEF Owed
  <2>4. QED
    BY <2>1, <2>2, <2>3
<1>4. Cardinality(Owed \ Units(q, n)) = Cardinality(Owed) - Cardinality(Owed \cap Units(q, n))
  BY OwedFinite, FS_Difference
<1>5. Owed \cap Units(q, n) = Units(q, n)
  BY <1>3
<1>6. QED
  BY <1>1, <1>3, <1>4, <1>5, UnitsCount

LEMMA AbandonedFinite ==
  ASSUME ExecTyped
  PROVE  IsFiniteSet(Abandoned) /\ Cardinality(Abandoned) \in Nat /\ Unended \in Nat
<1>1. DOMAIN waiting = 1..Len(waiting) /\ Len(waiting) \in Nat
  BY QueueTyped DEF ExecTyped, Calls
<1>2. IsFiniteSet(1..Len(waiting)) /\ Abandoned \in SUBSET (1..Len(waiting))
  BY <1>1, FS_Interval DEF Abandoned
<1>3. IsFiniteSet(Abandoned) /\ Cardinality(Abandoned) \in Nat
  BY <1>2, FS_Subset, FS_CardinalityType
<1>4. orphans \in Nat
  BY Numbers DEF ExecTyped
<1>5. QED
  BY <1>3, <1>4 DEF Unended

\* A call with a caller is submitted.
LEMMA AbandonedSubmit ==
  ASSUME ExecTyped, NEW q \in Questions, waiting' = Append(waiting, q)
  PROVE  Abandoned' = Abandoned
<1>1. waiting \in Seq(Calls) /\ DOMAIN waiting = 1..Len(waiting) /\ Len(waiting) \in Nat
  BY QueueTyped DEF ExecTyped, Calls
<1>2. /\ DOMAIN waiting' = 1..(Len(waiting) + 1) /\ waiting'[Len(waiting) + 1] = q
      /\ \A i \in DOMAIN waiting : waiting'[i] = waiting[i]
  BY <1>1 DEF Calls
<1>3. q # Orphan
  BY ConstantsAssumption
<1>4. \A i \in DOMAIN waiting' : i \in DOMAIN waiting \/ i = Len(waiting) + 1
  BY <1>1, <1>2
<1>5. DOMAIN waiting \subseteq DOMAIN waiting'
  BY <1>1, <1>2
<1>6. QED
  BY <1>2, <1>3, <1>4, <1>5 DEF Abandoned

\* The queue moves up: a place is one less than it was.
LEMMA AbandonedStart ==
  ASSUME ExecTyped, waiting # <<>>, waiting' = Tail(waiting)
  PROVE  Cardinality(Abandoned)' =
           Cardinality(Abandoned) - (IF Head(waiting) = Orphan THEN 1 ELSE 0)
<1>1. waiting \in Seq(Calls) /\ DOMAIN waiting = 1..Len(waiting) /\ Len(waiting) \in Nat \ {0}
  BY QueueTyped DEF ExecTyped, Calls
<1>2. /\ DOMAIN waiting' = 1..(Len(waiting) - 1) /\ Head(waiting) = waiting[1]
      /\ \A i \in DOMAIN waiting' : waiting'[i] = waiting[i + 1]
  BY <1>1
<1>3. /\ \A i \in DOMAIN waiting' : i + 1 \in DOMAIN waiting \ {1} /\ (i + 1) - 1 = i
      /\ \A i \in DOMAIN waiting \ {1} : i - 1 \in DOMAIN waiting' /\ (i - 1) + 1 = i
  BY <1>1, <1>2
<1> DEFINE A == Abandoned \ {1}
           B == Abandoned'
           f == [i \in A |-> i - 1]
<1>4. \A i \in A : i - 1 \in B /\ (i - 1) + 1 = i
  <2>1. ASSUME NEW i \in A PROVE i - 1 \in B /\ (i - 1) + 1 = i
    <3>1. i \in DOMAIN waiting \ {1} /\ waiting[i] = Orphan
      BY DEF Abandoned
    <3>2. i - 1 \in DOMAIN waiting' /\ (i - 1) + 1 = i
      BY <1>3, <3>1
    <3>3. waiting'[i - 1] = Orphan
      BY <1>2, <3>1, <3>2
    <3>4. QED
      BY <3>2, <3>3 DEF Abandoned
  <2>2. QED
    BY <2>1
<1>5. \A i \in B : i + 1 \in A /\ (i + 1) - 1 = i
  <2>1. ASSUME NEW i \in B PROVE i + 1 \in A /\ (i + 1) - 1 = i
    <3>1. i \in DOMAIN waiting' /\ waiting'[i] = Orphan
      BY DEF Abandoned
    <3>2. i + 1 \in DOMAIN waiting \ {1} /\ (i + 1) - 1 = i
      BY <1>3, <3>1
    <3>3. waiting[i + 1] = Orphan
      BY <1>2, <3>1
    <3>4. QED
      BY <3>2, <3>3 DEF Abandoned
  <2>2. QED
    BY <2>1
<1>6. IsFiniteSet(Abandoned)
  BY AbandonedFinite
<1>7. IsFiniteSet(A) /\ Cardinality(A) = IF 1 \in Abandoned THEN Cardinality(Abandoned) - 1 ELSE Cardinality(Abandoned)
  BY <1>6, FS_RemoveElement, Zenon
<1>8. 1 \in Abandoned <=> Head(waiting) = Orphan
  BY <1>1, <1>2 DEF Abandoned
<1> HIDE DEF A, B
<1>9. f \in [A -> B] /\ (\A i, j \in A : f[i] = f[j] => i = j) /\ \A b \in B : \E a \in A : f[a] = b
  <2>1. \A i, j \in A : f[i] = f[j] => i = j
    <3>1. ASSUME NEW i \in A, NEW j \in A, f[i] = f[j] PROVE i = j
      <4>1. i - 1 = j - 1
        BY <3>1
      <4>2. (i - 1) + 1 = (j - 1) + 1
        BY <4>1
      <4>3. QED
        BY <4>2, <1>4
    <3>2. QED
      BY <3>1
  <2>2. \A b \in B : \E a \in A : f[a] = b
    <3>1. ASSUME NEW b \in B PROVE \E a \in A : f[a] = b
      <4>1. b + 1 \in A /\ f[b + 1] = b
        BY <1>5
      <4>2. QED
        BY <4>1
    <3>2. QED
      BY <3>1
  <2>3. QED
    BY <1>4, <2>1, <2>2
<1>10. ExistsBijection(A, B)
  BY <1>9 DEF ExistsBijection, Bijection, Injection, Surjection, IsInjective
<1>11. Cardinality(B) = Cardinality(A)
  BY <1>7, <1>10, FS_Bijection
<1>12. Cardinality(Abandoned) \in Nat
  BY AbandonedFinite
<1>13. Cardinality(Abandoned)' = Cardinality(B)
  BY DEF B
<1>14. QED
  BY <1>7, <1>8, <1>11, <1>12, <1>13

\* The one place of a waiting call is given up.
LEMMA AbandonedGivenUp ==
  ASSUME ExecTyped, NEW q \in Queued \cap Questions,
         waiting' = [i \in DOMAIN waiting |-> IF waiting[i] = q THEN Orphan ELSE waiting[i]]
  PROVE  Cardinality(Abandoned)' = Cardinality(Abandoned) + 1
<1>1. q # Orphan
  BY ConstantsAssumption
<1>2. PICK i \in DOMAIN waiting : waiting[i] = q
  BY DEF Queued
<1>3. \A j \in DOMAIN waiting : waiting[j] = q => j = i
  BY <1>1, <1>2 DEF ExecTyped, Distinct
<1>4. /\ DOMAIN waiting' = DOMAIN waiting
      /\ \A j \in DOMAIN waiting : waiting'[j] = IF j = i THEN Orphan ELSE waiting[j]
  BY <1>2, <1>3
<1>5. Abandoned' = Abandoned \cup {i} /\ i \notin Abandoned
  BY <1>1, <1>2, <1>4 DEF Abandoned
<1>6. Cardinality(Abandoned \cup {i}) = Cardinality(Abandoned) + 1
  BY <1>5, AbandonedFinite, FS_AddElement, Zenon
<1>7. QED
  BY <1>5, <1>6

\* What was billed beyond what is charged or owed is at most a dearest price for
\* each call given up that has ended: the arithmetic of a step.
LEMMA BillMoves ==
  ASSUME NEW b \in Nat, NEW s \in Nat, NEW o \in Nat, NEW l \in Nat,
         NEW more \in Nat, NEW ended \in {0, 1},
         b <= s + o + l * Dearest, more <= ended * Dearest
  PROVE  b + more <= s + o + (l + ended) * Dearest
<1>1. (l + 1) * Dearest = l * Dearest + Dearest /\ l * Dearest \in Nat /\ Dearest \in Nat
  BY Distributes, ConstantsAssumption
<1>2. CASE ended = 0
  <2>1. more = 0 /\ l + ended = l
    BY <1>1, <1>2
  <2>2. QED
    BY <2>1
<1>3. CASE ended = 1
  <2>1. more <= Dearest
    BY <1>1, <1>3
  <2>2. b + more <= s + o + (l * Dearest + Dearest)
    BY <1>1, <2>1
  <2>3. QED
    BY <1>1, <1>3, <2>2
<1>4. QED
  BY <1>2, <1>3

LEMMA UsageStep == LocalTyped /\ UsageInv /\ [Next]_vars => UsageInv'
<1> SUFFICES ASSUME LocalTyped, UsageInv, [Next]_vars PROVE UsageInv'
  OBVIOUS
<1>1. CASE UNCHANGED <<pc, usage>>
  BY <1>1 DEF UsageInv
<1>2. CASE Start \/ OrphanEnds \/ UNCHANGED vars
  BY <1>1, <1>2 DEF Start, OrphanEnds, vars, local
<1>3. ASSUME NEW q \in Questions, Step(q) PROVE UsageInv'
  <2>1. \A r \in Questions \ {q} : pc'[r] = pc[r] /\ usage'[r] = usage[r]
    BY <1>3, FallBackTyped
    DEF Step, Begin, Search, Parse, Lookup, Check, Return, Transient, BreakOff, TimeOut, Charge,
        Goto, LocalTyped
  <2>2. CASE Return(q)
    <3>1. pc'[q] = "charge"
      BY <2>2 DEF Return, Goto, LocalTyped
    <3>2. QED
      BY <2>1, <3>1 DEF UsageInv
  <2>3. CASE Charge(q)
    <3>1. usage'[q] = 0
      BY <2>3 DEF Charge, LocalTyped
    <3>2. QED
      BY <2>1, <3>1 DEF UsageInv
  <2>4. CASE ~Return(q) /\ ~Charge(q)
    <3>1. pc[q] # "charge" /\ usage' = usage
      BY <1>3, <2>4
      DEF Step, Begin, Search, Parse, Lookup, Check, Transient, BreakOff, TimeOut
    <3>2. QED
      BY <2>1, <3>1 DEF UsageInv
  <2>5. QED
    BY <2>2, <2>3, <2>4
<1>4. QED
  BY <1>2, <1>3 DEF Next

LEMMA BillStep ==
  TypeInv /\ UsageInv /\ BillInv /\ [Next]_vars => BillInv'
<1> SUFFICES ASSUME TypeInv, UsageInv, BillInv, [Next]_vars PROVE BillInv'
  OBVIOUS
<1> USE DEF TypeInv
<1>0. /\ spent \in Nat /\ billed \in Nat /\ leaks \in Nat /\ orphans \in Nat
      /\ Cardinality(Owed) \in Nat /\ Cardinality(Abandoned) \in Nat
      /\ Unended = orphans + Cardinality(Abandoned) /\ leaks - Unended \in Nat
      /\ spent + Cardinality(Owed) <= billed
      /\ billed <= spent + Cardinality(Owed) + (leaks - Unended) * Dearest
      /\ (leaks - Unended) * Dearest \in Nat
  <2>1. spent \in Nat /\ billed \in Nat /\ leaks \in Nat /\ orphans \in Nat /\ Unended \in Nat
    BY Numbers, AbandonedFinite DEF CountsTyped, ExecTyped
  <2>2. leaks - Unended \in Nat
    BY <2>1 DEF BillInv
  <2>3. (leaks - Unended) * Dearest \in Nat
    BY <2>2, Numbers
  <2>4. QED
    BY <2>1, <2>2, <2>3, OwedFinite, AbandonedFinite DEF BillInv, Unended
\* Neither money nor the calls given up change.
<1>1. CASE UNCHANGED <<usage, waiting, orphans, spent, billed, leaks>>
  BY <1>1 DEF BillInv, Owed, Abandoned, Unended
<1>2. CASE OrphanEnds
  <2>1. PICK cost \in 1..Dearest : billed' = billed + cost
    BY <1>2 DEF OrphanEnds
  <2>2. /\ Owed' = Owed /\ Abandoned' = Abandoned /\ orphans' = orphans - 1 /\ orphans > 0
        /\ spent' = spent /\ leaks' = leaks
    BY <1>2 DEF OrphanEnds, local, Owed, Abandoned
  <2>3. /\ Unended' <= leaks' /\ leaks' - Unended' = (leaks - Unended) + 1
    BY <1>0, <2>2 DEF Unended
  <2>4. cost \in Nat /\ cost <= 1 * Dearest
    BY <2>1, Numbers
  <2>5. billed + cost <= spent + Cardinality(Owed) + ((leaks - Unended) + 1) * Dearest
    BY <1>0, <2>4, BillMoves
  <2>6. spent' + Cardinality(Owed)' <= billed'
    BY <1>0, <2>1, <2>2, <2>4
  <2>7. QED
    BY <2>1, <2>2, <2>3, <2>5, <2>6 DEF BillInv
<1>3. CASE Start
  <2>1. /\ Owed' = Owed /\ UNCHANGED <<spent, billed, leaks>>
        /\ waiting # <<>> /\ waiting' = Tail(waiting)
        /\ orphans' = orphans + (IF Head(waiting) = Orphan THEN 1 ELSE 0)
    BY <1>0, <1>3 DEF Start, local, bill, Owed
  <2>2. Cardinality(Abandoned)' =
          Cardinality(Abandoned) - (IF Head(waiting) = Orphan THEN 1 ELSE 0)
    BY <2>1, AbandonedStart
  <2>3. Unended' = Unended
    BY <1>0, <2>1, <2>2 DEF Unended
  <2>4. QED
    BY <2>1, <2>3 DEF BillInv
<1>4. ASSUME NEW q \in Questions, Step(q) PROVE BillInv'
  <2>1. CASE Begin(q) \/ Search(q) \/ Parse(q) \/ Lookup(q) \/ Transient(q)
    BY <1>1, <2>1 DEF Begin, Search, Parse, Lookup, Transient, executor, bill
  <2>2. CASE Check(q)
    <3>1. Owed' = Owed /\ UNCHANGED <<orphans, spent, billed, leaks>>
      BY <2>2 DEF Check, bill, Owed
    <3>2. Abandoned' = Abandoned
      BY <2>2, AbandonedSubmit DEF Check, Abandoned
    <3>3. QED
      BY <3>1, <3>2 DEF BillInv, Unended
  <2>3. CASE Return(q)
    <3>1. PICK cost \in 1..Price(prov[q]) :
            usage' = [usage EXCEPT ![q] = cost] /\ billed' = billed + cost
      BY <2>3 DEF Return
    <3>2. cost \in 1..Dearest /\ usage[q] = 0 /\ cost \in Nat
      BY <2>3, PriceTyped, Numbers DEF Return, UsageInv
    <3>3. Cardinality(Owed)' = Cardinality(Owed) + cost
      BY <3>1, <3>2, OwedGrows
    <3>4. Unended' = Unended /\ leaks' = leaks /\ spent' = spent
      BY <2>3 DEF Return, Unended, Abandoned
    <3>5. /\ billed' <= spent' + Cardinality(Owed)' + (leaks - Unended) * Dearest
          /\ spent' + Cardinality(Owed)' <= billed'
      BY <1>0, <3>1, <3>2, <3>3, <3>4
    <3>6. QED
      BY <3>4, <3>5 DEF BillInv
  <2>4. CASE BreakOff(q)
    <3>1. PICK cost \in 1..Price(prov[q]) : billed' = billed + cost
      BY <2>4 DEF BreakOff
    <3>2. cost \in Nat /\ cost <= 1 * Dearest
      BY PriceTyped, Numbers
    <3>3. Owed' = Owed /\ Unended' = Unended /\ leaks' = leaks + 1 /\ spent' = spent
      BY <2>4 DEF BreakOff, Owed, Unended, Abandoned
    <3>4. leaks' - Unended' = (leaks - Unended) + 1 /\ Unended' <= leaks'
      BY <1>0, <3>3
    <3>5. billed + cost <= spent + Cardinality(Owed) + ((leaks - Unended) + 1) * Dearest
      BY <1>0, <3>2, BillMoves
    <3>6. spent' + Cardinality(Owed)' <= billed'
      BY <1>0, <3>1, <3>2, <3>3
    <3>7. QED
      BY <3>1, <3>3, <3>4, <3>5, <3>6 DEF BillInv
  <2>5. CASE TimeOut(q)
    <3>1. Owed' = Owed /\ leaks' = leaks + 1 /\ UNCHANGED <<spent, billed>>
      BY <2>5 DEF TimeOut, Owed
    <3>2. Unended' = Unended + 1
      <4>1. CASE orphans' = orphans + 1 /\ waiting' = waiting
        BY <1>0, <4>1 DEF Unended, Abandoned
      <4>2. CASE /\ q \in Queued /\ UNCHANGED orphans
                 /\ waiting' = [i \in DOMAIN waiting |-> IF waiting[i] = q THEN Orphan ELSE waiting[i]]
        <5>1. Cardinality(Abandoned)' = Cardinality(Abandoned) + 1
          BY <4>2, AbandonedGivenUp
        <5>2. QED
          BY <1>0, <4>2, <5>1 DEF Unended
      <4>3. QED
        BY <2>5, <4>1, <4>2 DEF TimeOut
    <3>3. leaks' - Unended' = leaks - Unended /\ Unended' <= leaks'
      BY <1>0, <3>1, <3>2
    <3>4. QED
      BY <1>0, <3>1, <3>3 DEF BillInv
  <2>6. CASE Charge(q)
    <3>1. /\ usage' = [usage EXCEPT ![q] = 0] /\ spent' = spent + usage[q]
          /\ UNCHANGED <<waiting, orphans, billed, leaks>>
      BY <2>6 DEF Charge, executor, bill
    <3>2. Cardinality(Owed)' = Cardinality(Owed) - usage[q] /\ usage[q] \in Nat
      <4>1. Cardinality(Owed)' = Cardinality(Owed) - usage[q]
        BY <3>1, OwedShrinks
      <4>2. usage[q] \in Nat
        BY Numbers DEF LocalTyped
      <4>3. QED
        BY <4>1, <4>2
    <3>3. Unended' = Unended
      BY <3>1 DEF Unended, Abandoned
    <3>4. spent' + Cardinality(Owed)' = spent + Cardinality(Owed)
      BY <1>0, <3>1, <3>2
    <3>5. QED
      BY <1>0, <3>1, <3>3, <3>4 DEF BillInv
  <2>7. QED
    BY <1>4, <2>1, <2>2, <2>3, <2>4, <2>5, <2>6 DEF Step
<1>5. CASE UNCHANGED vars
  BY <1>1, <1>5 DEF vars, local, executor, bill
<1>6. QED
  BY <1>2, <1>3, <1>4, <1>5 DEF Next

\* Only calls in flight owe, and each at most its price.
LEMMA OwedInFlight ==
  ASSUME LocalTyped, UsageInv
  PROVE  /\ Cardinality(Owed) <= Cardinality(InFlight) * Dearest
         /\ \A q \in InFlight :
              Cardinality(Owed) <= (Cardinality(InFlight) - 1) * Dearest + Price(prov[q])
<1>1. Dearest \in Nat /\ IsFiniteSet(1..Dearest) /\ Cardinality(1..Dearest) = Dearest
  BY Numbers, FS_Interval
<1>2. IsFiniteSet(InFlight) /\ Cardinality(InFlight) \in Nat
  BY SetsFinite
<1>3. \A u \in Owed : /\ u = <<u[1], u[2]>> /\ u[1] \in InFlight /\ u[2] \in 1..Dearest
                      /\ u[2] <= Price(prov[u[1]])
  <2>1. SUFFICES ASSUME NEW u \in Owed
                 PROVE  /\ u = <<u[1], u[2]>> /\ u[1] \in InFlight /\ u[2] \in 1..Dearest
                        /\ u[2] <= Price(prov[u[1]])
    OBVIOUS
  <2>2. u = <<u[1], u[2]>> /\ u[1] \in Questions /\ u[2] \in 1..Dearest /\ u[2] <= usage[u[1]]
    BY DEF Owed
  <2>3. usage[u[1]] # 0 /\ usage[u[1]] \in Nat
    BY <1>1, <2>2 DEF LocalTyped
  <2>4. pc[u[1]] = "charge"
    BY <2>2, <2>3 DEF UsageInv
  <2>5. usage[u[1]] <= Price(prov[u[1]]) /\ Price(prov[u[1]]) \in Nat
    BY <1>1, <2>2, <2>4, PriceTyped DEF LocalTyped
  <2>6. u[2] <= Price(prov[u[1]])
    BY <2>2, <2>3, <2>5
  <2>7. QED
    BY <2>2, <2>4, <2>6 DEF InFlight
<1>4. Cardinality(Owed) <= Cardinality(InFlight) * Dearest
  <2>1. Owed \in SUBSET (InFlight \X (1..Dearest))
    BY <1>3
  <2>2. /\ IsFiniteSet(InFlight \X (1..Dearest))
        /\ Cardinality(InFlight \X (1..Dearest)) = Cardinality(InFlight) * Cardinality(1..Dearest)
    BY <1>1, <1>2, FS_Product, Zenon
  <2>3. Cardinality(Owed) <= Cardinality(InFlight \X (1..Dearest))
    BY <2>1, <2>2, FS_Subset, Zenon
  <2>4. QED
    BY <1>1, <2>2, <2>3
<1>5. ASSUME NEW q \in InFlight
      PROVE  Cardinality(Owed) <= (Cardinality(InFlight) - 1) * Dearest + Price(prov[q])
  <2> DEFINE Others == (InFlight \ {q}) \X (1..Dearest)
             Own == Units(q, Price(prov[q]))
  <2>1. Price(prov[q]) \in Nat
    BY <1>1, PriceTyped DEF InFlight
  <2>2. IsFiniteSet(InFlight \ {q}) /\ Cardinality(InFlight \ {q}) = Cardinality(InFlight) - 1
    BY <1>2, FS_RemoveElement, Zenon
  <2>3. /\ IsFiniteSet(Others)
        /\ Cardinality(Others) = Cardinality(InFlight \ {q}) * Cardinality(1..Dearest)
    BY <1>1, <2>2, FS_Product, Zenon
  <2>4. IsFiniteSet(Own) /\ Cardinality(Own) = Price(prov[q])
    BY <2>1, UnitsCount
  <2>5. Owed \in SUBSET (Others \cup Own)
    <3>1. ASSUME NEW u \in Owed PROVE u \in Others \cup Own
      <4>1. CASE u[1] = q
        <5>1. u = <<q, u[2]>> /\ u[2] \in 1..Price(prov[q])
          BY <1>1, <1>3, <2>1, <4>1
        <5>2. QED
          BY <5>1 DEF Units
      <4>2. CASE u[1] # q
        BY <1>3, <4>2
      <4>3. QED
        BY <4>1, <4>2
    <3>2. QED
      BY <3>1
  <2> HIDE DEF Others, Own
  <2>6. /\ IsFiniteSet(Others \cup Own)
        /\ Cardinality(Others \cup Own) = Cardinality(Others) + Cardinality(Own) - Cardinality(Others \cap Own)
    BY <2>3, <2>4, FS_Union, Zenon
  <2>7. Cardinality(Others \cap Own) \in Nat
    BY <2>3, FS_Intersection, FS_CardinalityType
  <2>8. Cardinality(Owed) <= Cardinality(Others \cup Own)
    BY <2>5, <2>6, FS_Subset, Zenon
  <2>9. Cardinality(Others) = (Cardinality(InFlight) - 1) * Dearest /\ Cardinality(Others) \in Nat
    BY <1>1, <2>2, <2>3, FS_CardinalityType
  <2>10. Cardinality(Owed) \in Nat
    BY OwedFinite
  <2>11. QED
    BY <2>1, <2>4, <2>6, <2>7, <2>8, <2>9, <2>10
<1>6. QED
  BY <1>4, <1>5

LEMMA BillBounds ==
  TypeInv /\ SpendInv /\ UsageInv /\ BillInv => BillIsBounded
<1> SUFFICES ASSUME TypeInv, SpendInv, UsageInv, BillInv PROVE BillIsBounded
  OBVIOUS
<1> USE DEF TypeInv
<1> DEFINE k == Cardinality(InFlight)
           o == Cardinality(Owed)
<1>1. k \in Nat /\ o \in Nat /\ spent \in Nat /\ billed \in Nat /\ leaks \in Nat /\ Unended \in Nat
  BY SetsFinite, OwedFinite, AbandonedFinite DEF CountsTyped
<1>2. Limit \in Int /\ (Concurrency - 1) * Dearest \in Int
  <2>1. (Concurrency - 1) * Dearest \in Int
    BY ConstantsAssumption, Distributes
  <2>2. QED
    BY <2>1, Numbers DEF Limit
<1>3. spent + o <= Limit
  <2>1. CASE spent + k * Dearest <= Limit
    <3>1. o <= k * Dearest /\ k * Dearest \in Int
      BY <1>1, OwedInFlight, Distributes
    <3>2. QED
      BY <1>1, <1>2, <2>1, <3>1
  <2>2. ASSUME NEW q \in InFlight, spent + (k - 1) * Dearest + Price(prov[q]) <= Limit
        PROVE  spent + o <= Limit
    <3>1. o <= (k - 1) * Dearest + Price(prov[q])
      BY OwedInFlight
    <3>2. (k - 1) * Dearest \in Int /\ Price(prov[q]) \in Nat
      BY <1>1, Distributes, PriceTyped, Numbers DEF InFlight
    <3>3. QED
      BY <1>1, <1>2, <2>2, <3>1, <3>2
  <2>3. QED
    BY <2>1, <2>2 DEF SpendInv
<1>4. leaks - Unended \in Nat /\ leaks - Unended <= leaks
  BY <1>1 DEF BillInv
<1>5. (leaks - Unended) * Dearest <= leaks * Dearest
  BY <1>1, <1>4, Monotone
<1>6. (leaks - Unended) * Dearest \in Int /\ leaks * Dearest \in Int
  BY <1>1, <1>4, Distributes
<1>7. billed <= Limit + leaks * Dearest
  BY <1>1, <1>2, <1>3, <1>5, <1>6 DEF BillInv
<1>8. (Concurrency - 1 + leaks) * Dearest = (Concurrency - 1) * Dearest + leaks * Dearest
  BY <1>1, Numbers
<1>9. QED
  BY <1>2, <1>6, <1>7, <1>8, Numbers DEF BillIsBounded, Limit

LEMMA BillInit == Init => UsageInv /\ BillInv
<1> SUFFICES ASSUME Init PROVE UsageInv /\ BillInv
  OBVIOUS
<1>1. waiting = <<>> /\ orphans = 0 /\ leaks = 0 /\ billed = 0 /\ spent = 0
      /\ \A q \in Questions : usage[q] = 0
  BY DEF Init
<1>2. Len(waiting) = 0 /\ DOMAIN waiting = {}
  BY <1>1
<1>3. Cardinality(Abandoned) = 0
  BY <1>2, FS_EmptySet DEF Abandoned
<1>4. Cardinality(Owed) = 0 /\ 0 * Dearest = 0
  <2>1. Owed = {}
    BY <1>1, Numbers DEF Owed
  <2>2. QED
    BY <2>1, FS_EmptySet, Numbers
<1>5. Unended = 0
  BY <1>1, <1>3 DEF Unended
<1>6. leaks - Unended = 0
  BY <1>1, <1>5
<1>7. QED
  BY <1>1, <1>4, <1>5, <1>6 DEF UsageInv, BillInv

LEMMA BillHolds ==
  Spec => [](TypeInv /\ SemaphoreInv /\ SpendInv /\ UsageInv /\ BillInv)
<1> DEFINE Inv == TypeInv /\ SemaphoreInv /\ SpendInv /\ UsageInv /\ BillInv
<1>1. Init => Inv
  BY TypeInit, SpendInit, BillInit
<1>2. Inv /\ [Next]_vars => Inv'
  <2>1. TypeInv => LocalTyped /\ CountsTyped
    BY DEF TypeInv
  <2>2. QED
    BY <2>1, TypeStep, SemaphoreStep, SpendStep, UsageStep, BillStep
<1>3. QED
  BY <1>1, <1>2, PTL DEF Spec

\* Whatever fails, hangs or times out, the providers bill a run at most what it may
\* spend and a dearest price for each call that was given up or broken off
\* (LlmRouter._call_with_timeout leaves the call to its thread; the charge of
\* generate sees only the answers that somebody waited for).
THEOREM BillBounded == Spec => []BillIsBounded
<1>1. TypeInv /\ SemaphoreInv /\ SpendInv /\ UsageInv /\ BillInv => BillIsBounded
  BY BillBounds
<1>2. QED
  BY <1>1, BillHolds, PTL

\* What a caller has got and not charged.
Uncharged == \E q \in Questions : pc[q] = "charge"

\* While no call was given up or broken off, the budget has charged exactly what
\* the providers billed, but for the answers on their way to the charge: nothing
\* is charged twice and no answer is forgotten.
LedgerIsExact == leaks = 0 /\ ~Uncharged => spent = billed

\* The budget loses track of money only through calls given up (BudgetTracker.charge
\* after LlmRouter._call_with_timeout).
THEOREM LedgerExact == Spec => []LedgerIsExact
<1>1. TypeInv /\ UsageInv /\ BillInv => LedgerIsExact
  <2> SUFFICES ASSUME TypeInv, UsageInv, BillInv, leaks = 0, ~Uncharged PROVE spent = billed
    BY DEF LedgerIsExact
  <2>1. spent \in Nat /\ billed \in Nat /\ Unended \in Nat
    BY AbandonedFinite DEF TypeInv, CountsTyped
  <2>2. Owed = {}
    <3>1. ASSUME NEW u \in Owed PROVE FALSE
      <4>1. u[1] \in Questions /\ u[2] \in 1..Dearest /\ u[2] <= usage[u[1]]
        BY DEF Owed
      <4>2. usage[u[1]] = 0
        BY <4>1 DEF UsageInv, Uncharged
      <4>3. QED
        BY <4>1, <4>2, Numbers
    <3>2. QED
      BY <3>1
  <2>3. Cardinality(Owed) = 0
    BY <2>2, FS_EmptySet
  <2>4. leaks - Unended = 0 /\ 0 * Dearest = 0
    BY <2>1, Numbers DEF BillInv
  <2>5. QED
    BY <2>1, <2>3, <2>4 DEF BillInv
<1>2. QED
  BY <1>1, BillHolds, PTL
=============================================================================
