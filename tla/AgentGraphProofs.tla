-------------------------- MODULE AgentGraphProofs --------------------------
(***************************************************************************)
(* Proofs about AgentGraph for any knowledge base, questions, pages and    *)
(* answers: what the four checks let through the packager can number.      *)
(***************************************************************************)
EXTENDS AgentGraph, TLAPS

\* The stages passed are those before the one the run is at.
Passed == {Graph[i] : i \in 1..(at - 1)}
Progress ==
  /\ at \in 1..Len(Graph) /\ try \in 1..3
  /\ outcome \in {"running", "rejected", "raised", "unresolved", "done"}
  /\ DOMAIN got = Passed

LEMMA Names ==
  /\ Len(Graph) = 10 /\ DOMAIN Graph = 1..10
  /\ \A i, j \in 1..10 : Graph[i] = Graph[j] => i = j
  /\ Graph[3] = "research_planner" /\ Graph[4] = "research_workers" /\ Graph[5] = "retrieval"
  /\ Graph[2] = "requirements_extractor" /\ Graph[6] = "synthesizer" /\ Graph[7] = "architect"
  /\ Graph[8] = "cost_estimator" /\ Graph[9] = "risk_writer" /\ Graph[10] = "packager"
  BY DEF Graph

\* A stage is passed once, and after those before it.
LEMMA InOrder ==
  ASSUME Progress
  PROVE  /\ Graph[at] \notin DOMAIN got
         /\ \A i \in 1..10 : Graph[i] \in DOMAIN got <=> i < at
  BY Names DEF Progress, Passed

LEMMA ProduceSteps ==
  ASSUME Progress, NEW v, Produce(v), Graph[at] # "packager"
  PROVE  /\ Progress' /\ at' = at + 1 /\ at < 10
         /\ \A s \in DOMAIN got : s # Graph[at] /\ s \in DOMAIN got' /\ got'[s] = got[s]
         /\ got'[Graph[at]] = v
<1>1. at < 10 /\ at' = at + 1 /\ try' = 1 /\ outcome' = outcome
  BY Names DEF Progress, Produce
<1>2. DOMAIN got' = Passed'
  <2>1. DOMAIN got' = Passed \cup {Graph[at]}
    BY DEF Progress, Produce
  <2>2. Passed' = {Graph[i] : i \in 1..at}
    BY <1>1, Names DEF Passed, Progress
  <2>3. 1..at = 1..(at - 1) \cup {at}
    BY <1>1 DEF Progress
  <2> QED BY <2>1, <2>2, <2>3 DEF Passed
<1>3. Progress'
  BY <1>1, <1>2, Names DEF Progress
<1>4. /\ \A s \in DOMAIN got : s # Graph[at] /\ s \in DOMAIN got' /\ got'[s] = got[s]
      /\ got'[Graph[at]] = v
  BY InOrder DEF Produce
<1> QED BY <1>1, <1>3, <1>4

LEMMA RejectSteps == ASSUME Progress, Reject
                     PROVE  Progress' /\ UNCHANGED <<at, got, walk>>
                            /\ outcome' \in {outcome, "rejected"}
  BY DEF Progress, Passed, Reject, Tries
-----------------------------------------------------------------------------
(* What the stages have produced.                                          *)

PlanSound == "research_planner" \in DOMAIN got => got["research_planner"] \subseteq Questions
FindingsSound == "research_workers" \in DOMAIN got => got["research_workers"] \subseteq Questions
RecordsSound == "retrieval" \in DOMAIN got => got["retrieval"] \subseteq Corpus
DecisionsSound ==
  "synthesizer" \in DOMAIN got => Decisions \in Seq(Decision) /\ Grounded(Decisions)
DesignSound ==
  "architect" \in DOMAIN got =>
    Architecture \in Answers["architect"] /\ ArchitectureAdmissible(Architecture)
CostSound ==
  "cost_estimator" \in DOMAIN got =>
    /\ got["cost_estimator"] \in Answers["cost_estimator"]
    /\ Grounded(got["cost_estimator"].lines)
RisksSound ==
  "risk_writer" \in DOMAIN got => got["risk_writer"] \in Seq(Risk) /\ Grounded(got["risk_writer"])
Outputs ==
  /\ PlanSound /\ FindingsSound /\ RecordsSound
  /\ DecisionsSound /\ DesignSound /\ CostSound /\ RisksSound

\* What an agent was checked against does not change afterwards.
LEMMA EvidenceStays ==
  ASSUME Evidence' = Evidence, Requirements' = Requirements, NEW a
  PROVE  /\ Grounded(a) => Grounded(a)'
         /\ ArchitectureAdmissible(a) => ArchitectureAdmissible(a)'
  BY DEF Grounded, ArchitectureAdmissible, TopologyHolds, SequencesHold, ContractsHold,
         RationalesHold, FailureModesHold, PhasesHold, IdsOf, Fragile, Covered

LEMMA ProduceKeeps ==
  ASSUME Progress, Outputs, NEW v, Produce(v), Graph[at] # "packager",
         Graph[at] = "research_planner" => v \subseteq Questions,
         Graph[at] = "research_workers" => v \subseteq Questions,
         Graph[at] = "retrieval" => v \subseteq Corpus,
         Graph[at] = "synthesizer" => v \in Seq(Decision) /\ Grounded(v),
         Graph[at] = "architect" => v \in Answers["architect"] /\ ArchitectureAdmissible(v),
         Graph[at] = "cost_estimator" => v \in Answers["cost_estimator"] /\ Grounded(v.lines),
         Graph[at] = "risk_writer" => v \in Seq(Risk) /\ Grounded(v)
  PROVE  Outputs'
<1>1. \A s \in DOMAIN got' : IF s = Graph[at] THEN got'[s] = v
                                              ELSE s \in DOMAIN got /\ got'[s] = got[s]
  BY DEF Produce
<1>2. at \in 6..9 => Evidence' = Evidence /\ Requirements' = Requirements
  <2>1. SUFFICES ASSUME at \in 6..9
                 PROVE  /\ got'["research_workers"] = got["research_workers"]
                        /\ got'["retrieval"] = got["retrieval"]
                        /\ got'["requirements_extractor"] = got["requirements_extractor"]
    BY DEF Evidence, Requirements, Supplied, Answered
  <2>2. {"research_workers", "retrieval", "requirements_extractor"} \subseteq DOMAIN got
    BY <2>1, InOrder, Names DEF Progress
  <2> QED BY <2>2, ProduceSteps
<1>3. \A s \in {"synthesizer", "architect", "cost_estimator", "risk_writer"} :
        s \in DOMAIN got' => at \in 6..9
  <2>1. at \in 1..9 /\ Progress' /\ at' = at + 1
    BY ProduceSteps, Names DEF Progress
  <2>2. \A i \in 1..10 : Graph[i] \in DOMAIN got' => i < at + 1
    BY <2>1, Names DEF Progress, Passed
  <2> QED BY <2>1, <2>2, Names
<1>4. PlanSound' /\ FindingsSound' /\ RecordsSound'
  BY <1>1 DEF Outputs, PlanSound, FindingsSound, RecordsSound
<1>5. DecisionsSound'
  BY <1>1, <1>2, <1>3, EvidenceStays DEF Outputs, DecisionsSound, Decisions, Grounded
<1>6. DesignSound'
  BY <1>1, <1>2, <1>3, EvidenceStays DEF Outputs, DesignSound, Architecture
<1>7. CostSound'
  BY <1>1, <1>2, <1>3, EvidenceStays DEF Outputs, CostSound, Grounded
<1>8. RisksSound'
  BY <1>1, <1>2, <1>3, EvidenceStays DEF Outputs, RisksSound, Grounded
<1> QED BY <1>4, <1>5, <1>6, <1>7, <1>8 DEF Outputs
-----------------------------------------------------------------------------
(* What the packager walks.                                                *)

Item == Decision \cup Node \cup Line \cup Risk \cup Contract \cup Rationale \cup FailureMode

LEMMA ItemCites == ASSUME NEW x \in Item
                   PROVE  x.cites \in Seq(Citation) /\ x.cites # <<>> /\ 1 \in DOMAIN x.cites
<1>1. x.cites \in Cites
  BY DEF Item, Decision, Node, Line, Risk, Contract, Rationale, FailureMode
<1> QED BY <1>1 DEF Cites

LEMMA Wider == ASSUME NEW S, NEW T, S \subseteq T, NEW s \in Seq(S)
               PROVE  s \in Seq(T)
  OBVIOUS

LEMMA Joined ==
  ASSUME NEW s \in Seq(Item), NEW t \in Seq(Item), Grounded(s), Grounded(t)
  PROVE  s \o t \in Seq(Item) /\ Grounded(s \o t)
<1>1. s \o t \in Seq(Item)
  OBVIOUS
<1>2. \A i \in DOMAIN (s \o t) :
        \/ i \in DOMAIN s /\ (s \o t)[i] = s[i]
        \/ i - Len(s) \in DOMAIN t /\ (s \o t)[i] = t[i - Len(s)]
  OBVIOUS
<1> QED BY <1>1, <1>2 DEF Grounded

LEMMA EntitiesSound ==
  ASSUME Progress, Outputs, Graph[at] = "packager"
  PROVE  Entities \in Seq(Item) /\ Grounded(Entities) /\ Evidence \subseteq Known
<1>1. \A i \in 1..9 : Graph[i] \in DOMAIN got
  BY InOrder, Names DEF Progress
<1>2. Evidence \subseteq Known
  BY <1>1, Names DEF Outputs, FindingsSound, RecordsSound, Evidence, Known, Answered, Supplied
<1>3. Decisions \in Seq(Item) /\ Grounded(Decisions)
  <2>1. Decisions \in Seq(Decision) /\ Grounded(Decisions)
    BY <1>1, Names DEF Outputs, DecisionsSound
  <2>2. Decision \subseteq Item
    BY DEF Item
  <2> QED BY <2>1, <2>2, Wider
<1>4. got["risk_writer"] \in Seq(Item) /\ Grounded(got["risk_writer"])
  <2>1. got["risk_writer"] \in Seq(Risk) /\ Grounded(got["risk_writer"])
    BY <1>1, Names DEF Outputs, RisksSound
  <2>2. Risk \subseteq Item
    BY DEF Item
  <2> QED BY <2>1, <2>2, Wider
<1>5. got["cost_estimator"].lines \in Seq(Item) /\ Grounded(got["cost_estimator"].lines)
  <2>1. got["cost_estimator"].lines \in Seq(Line) /\ Grounded(got["cost_estimator"].lines)
    BY <1>1, Names, ConstantsAssumption DEF Outputs, CostSound, Schema
  <2>2. Line \subseteq Item
    BY DEF Item
  <2> QED BY <2>1, <2>2, Wider
<1>6. Architecture \in Answers["architect"] /\ ArchitectureAdmissible(Architecture)
  BY <1>1, Names DEF Outputs, DesignSound
<1>7. Architecture.nodes \in Seq(Item) /\ Grounded(Architecture.nodes)
  <2>1. Architecture.nodes \in Seq(Node) /\ Grounded(Architecture.nodes)
    BY <1>6, ConstantsAssumption DEF Schema, ArchitectureAdmissible
  <2>2. Node \subseteq Item
    BY DEF Item
  <2> QED BY <2>1, <2>2, Wider
<1>8. Architecture.contracts \in Seq(Item) /\ Grounded(Architecture.contracts)
  <2>1. Architecture.contracts \in Seq(Contract) /\ Grounded(Architecture.contracts)
    BY <1>6, ConstantsAssumption DEF Schema, ArchitectureAdmissible, ContractsHold
  <2>2. Contract \subseteq Item
    BY DEF Item
  <2> QED BY <2>1, <2>2, Wider
<1>9. Architecture.rationales \in Seq(Item) /\ Grounded(Architecture.rationales)
  <2>1. Architecture.rationales \in Seq(Rationale) /\ Grounded(Architecture.rationales)
    BY <1>6, ConstantsAssumption DEF Schema, ArchitectureAdmissible, RationalesHold
  <2>2. Rationale \subseteq Item
    BY DEF Item
  <2> QED BY <2>1, <2>2, Wider
<1>10. Architecture.failure_modes \in Seq(Item) /\ Grounded(Architecture.failure_modes)
  <2>1. Architecture.failure_modes \in Seq(FailureMode) /\ Grounded(Architecture.failure_modes)
    BY <1>6, ConstantsAssumption DEF Schema, ArchitectureAdmissible, FailureModesHold
  <2>2. FailureMode \subseteq Item
    BY DEF Item
  <2> QED BY <2>1, <2>2, Wider
<1> DEFINE s2 == Decisions \o Architecture.nodes
           s3 == s2 \o got["cost_estimator"].lines
           s4 == s3 \o got["risk_writer"]
           s5 == s4 \o Architecture.contracts
           s6 == s5 \o Architecture.rationales
<1>11. s2 \in Seq(Item) /\ Grounded(s2)
  BY <1>3, <1>7, Joined
<1>12. s3 \in Seq(Item) /\ Grounded(s3)
  <2> HIDE DEF s2
  <2> QED BY <1>11, <1>5, Joined
<1>13. s4 \in Seq(Item) /\ Grounded(s4)
  <2> HIDE DEF s3
  <2> QED BY <1>12, <1>4, Joined
<1>14. s5 \in Seq(Item) /\ Grounded(s5)
  <2> HIDE DEF s4
  <2> QED BY <1>13, <1>8, Joined
<1>15. s6 \in Seq(Item) /\ Grounded(s6)
  <2> HIDE DEF s5
  <2> QED BY <1>14, <1>9, Joined
<1>16. Entities = s6 \o Architecture.failure_modes
  BY DEF Entities
<1> QED
  <2> HIDE DEF s6
  <2> QED BY <1>2, <1>10, <1>15, <1>16, Joined
-----------------------------------------------------------------------------
(* The walk: a number stands for the page of its citation, and a page has  *)
(* one number; every entity behind the walk has its first citation         *)
(* registered.                                                             *)

Pages == {Url[c] : c \in Known}

Numbered ==
  /\ sources \in Seq(Pages) /\ DOMAIN cite_map \subseteq Known
  /\ \A c \in DOMAIN cite_map :
       cite_map[c] \in 1..Len(sources) /\ sources[cite_map[c]] = Url[c]
  /\ \A m, n \in DOMAIN sources : sources[m] = sources[n] => m = n

Place ==
  /\ entity \in Nat \ {0} /\ citation \in Nat \ {0}
  /\ Graph[at] # "packager" => entity = 1 /\ citation = 1 /\ outcome # "done"

Behind(i) == i \in Nat \ {0} /\ (i < entity \/ (i = entity /\ citation > 1))
Covering ==
  Graph[at] = "packager" =>
    /\ entity \in DOMAIN Entities => citation = 1 \/ citation \in DOMAIN Entities[entity].cites
    /\ \A i \in DOMAIN Entities : Behind(i) => Entities[i].cites[1] \in DOMAIN cite_map

\* What the finished package shows.
Shown ==
  outcome = "done" =>
    \A i \in DOMAIN Entities :
      cites[i] \in DOMAIN sources /\ sources[cites[i]] = Url[Entities[i].cites[1]]

Inv ==
  /\ Progress /\ Outputs /\ Numbered /\ Place /\ Covering /\ Shown
  /\ outcome # "unresolved"

LEMMA InternKeeps ==
  ASSUME Numbered, NEW c \in Known, Intern(c)
  PROVE  Numbered' /\ DOMAIN cite_map' = DOMAIN cite_map \cup {c}
<1>1. Url[c] \in Pages
  BY DEF Pages
<1>2. CASE \E n \in DOMAIN sources : sources[n] = Url[c] /\ Put(c, n) /\ sources' = sources
  <2>1. PICK n \in DOMAIN sources : sources[n] = Url[c] /\ Put(c, n) /\ sources' = sources
    BY <1>2
  <2>2. DOMAIN cite_map' = DOMAIN cite_map \cup {c}
    BY <2>1 DEF Put
  <2>3. \A d \in DOMAIN cite_map' : cite_map'[d] = IF d = c THEN n ELSE cite_map[d]
    BY <2>1 DEF Put
  <2> QED BY <2>1, <2>2, <2>3 DEF Numbered
<1>3. CASE /\ \A n \in DOMAIN sources : sources[n] # Url[c]
           /\ Put(c, Len(sources) + 1) /\ sources' = Append(sources, Url[c])
  <2>1. DOMAIN cite_map' = DOMAIN cite_map \cup {c}
    BY <1>3 DEF Put
  <2>2. \A d \in DOMAIN cite_map' :
          cite_map'[d] = IF d = c THEN Len(sources) + 1 ELSE cite_map[d]
    BY <1>3 DEF Put
  <2>3. /\ sources' \in Seq(Pages) /\ Len(sources') = Len(sources) + 1
        /\ sources'[Len(sources) + 1] = Url[c]
        /\ \A n \in 1..Len(sources) : sources'[n] = sources[n]
    BY <1>1, <1>3 DEF Numbered
  <2>4. \A m, n \in DOMAIN sources' : sources'[m] = sources'[n] => m = n
    BY <1>3, <2>3 DEF Numbered
  <2>5. \A d \in DOMAIN cite_map' :
          cite_map'[d] \in 1..Len(sources') /\ sources'[cite_map'[d]] = Url[d]
    BY <2>1, <2>2, <2>3 DEF Numbered
  <2> QED BY <2>1, <2>3, <2>4, <2>5 DEF Numbered
<1> QED BY <1>2, <1>3 DEF Intern

LEMMA RegisterKeeps == ASSUME Inv, Register PROVE Inv'
<1> DEFINE list == Entities[entity].cites
           c == list[citation]
<1>1. /\ Graph[at] = "packager" /\ outcome = "running" /\ entity \in DOMAIN Entities
      /\ Entities \in Seq(Item) /\ Grounded(Entities) /\ Evidence \subseteq Known
  <2>1. Graph[at] = "packager" /\ outcome = "running" /\ entity <= Len(Entities)
    BY DEF Register, Packing, Running
  <2>2. Entities \in Seq(Item) /\ Grounded(Entities) /\ Evidence \subseteq Known
    BY <2>1, EntitiesSound DEF Inv
  <2> QED BY <2>1, <2>2 DEF Inv, Place
<1>2. list \in Seq(Citation) /\ 1 \in DOMAIN list /\ citation \in DOMAIN list
  BY <1>1, ItemCites DEF Inv, Covering
<1>3. c \in Evidence /\ c \in Known
  BY <1>1, <1>2 DEF Grounded
<1> HIDE DEF c
<1>4. /\ IF c \in DOMAIN cite_map THEN UNCHANGED <<cite_map, sources>> ELSE Intern(c)
      /\ Advance(list) /\ UNCHANGED <<at, try, got, outcome, cites>>
  BY <1>3 DEF Register, c
<1>5. Numbered' /\ DOMAIN cite_map' = DOMAIN cite_map \cup {c}
  <2>1. CASE c \in DOMAIN cite_map
    BY <1>4, <2>1 DEF Inv, Numbered
  <2>2. CASE c \notin DOMAIN cite_map
    BY <1>3, <1>4, <2>2, InternKeeps DEF Inv
  <2> QED BY <2>1, <2>2
<1>6. UNCHANGED <<Entities, Evidence, Requirements>>
  BY <1>4 DEF Entities, Evidence, Requirements, Decisions, Architecture, Answered, Supplied
<1>7. Progress' /\ Outputs'
  <2>1. Progress'
    BY <1>4 DEF Inv, Progress, Passed
  <2>2. Outputs'
    BY <1>4, <1>6, EvidenceStays
       DEF Inv, Outputs, PlanSound, FindingsSound, RecordsSound, DecisionsSound, DesignSound,
           CostSound, RisksSound, Decisions, Architecture, Grounded
  <2> QED BY <2>1, <2>2
<1>8. Place'
  BY <1>1, <1>4 DEF Inv, Place, Advance
<1>9. Covering'
  <2>1. CASE citation < Len(list)
    <3>1. citation' = citation + 1 /\ entity' = entity
      BY <1>4, <2>1 DEF Advance
    <3>2. citation' \in DOMAIN Entities'[entity'].cites
      BY <1>2, <1>6, <2>1, <3>1
    <3>3. ASSUME NEW i \in DOMAIN Entities, Behind(i)'
          PROVE  Entities[i].cites[1] \in DOMAIN cite_map'
      <4>1. CASE Behind(i)
        BY <1>1, <1>5, <4>1 DEF Inv, Covering
      <4>2. CASE ~Behind(i)
        <5>1. i = entity /\ citation = 1
          BY <3>1, <3>3, <4>2 DEF Behind, Inv, Place
        <5> QED BY <1>5, <5>1 DEF c
      <4> QED BY <4>1, <4>2
    <3> QED BY <1>6, <3>2, <3>3 DEF Covering
  <2>2. CASE ~(citation < Len(list))
    <3>1. citation' = 1 /\ entity' = entity + 1
      BY <1>4, <2>2 DEF Advance
    <3>2. ASSUME NEW i \in DOMAIN Entities, Behind(i)'
          PROVE  Entities[i].cites[1] \in DOMAIN cite_map'
      <4>1. CASE Behind(i)
        BY <1>1, <1>5, <4>1 DEF Inv, Covering
      <4>2. CASE ~Behind(i)
        <5>1. i = entity /\ citation = 1
          BY <1>1, <3>1, <3>2, <4>2 DEF Behind, Inv, Place
        <5> QED BY <1>5, <5>1 DEF c
      <4> QED BY <4>1, <4>2
    <3> QED BY <1>6, <3>1, <3>2 DEF Covering
  <2> QED BY <2>1, <2>2
<1>10. Shown' /\ outcome' # "unresolved"
  BY <1>1, <1>4 DEF Shown
<1> QED BY <1>5, <1>7, <1>8, <1>9, <1>10 DEF Inv

\* A first citation that is registered is the one shown.
LEMMA FirstIsShown ==
  ASSUME NEW list \in Seq(Citation), 1 \in DOMAIN list, list[1] \in DOMAIN cite_map
  PROVE  1 \in Mapped(list) /\ FirstCite(list) = list[1]
<1>1. 1 \in Mapped(list) /\ \A k \in Mapped(list) : k \in Nat /\ 1 <= k
  BY DEF Mapped
<1>2. (CHOOSE j \in Mapped(list) : \A k \in Mapped(list) : j <= k) = 1
  BY <1>1
<1> QED BY <1>1, <1>2 DEF FirstCite

LEMMA AssembleKeeps == ASSUME Inv, Assemble PROVE Inv'
<1>1. Graph[at] = "packager" /\ outcome = "running" /\ entity > Len(Entities)
  BY DEF Assemble, Packing, Running
<1>2. Entities \in Seq(Item)
  BY <1>1, EntitiesSound DEF Inv
<1>3. UNCHANGED <<at, try, got, entity, citation, cite_map, sources>>
  BY DEF Assemble
<1>4. UNCHANGED <<Entities, Evidence, Requirements>>
  BY <1>3 DEF Entities, Evidence, Requirements, Decisions, Architecture, Answered, Supplied
<1>5. ASSUME NEW i \in DOMAIN Entities
      PROVE  /\ Mapped(Entities[i].cites) # {}
             /\ FirstCite(Entities[i].cites) = Entities[i].cites[1]
             /\ Entities[i].cites[1] \in DOMAIN cite_map
  <2>1. Entities[i].cites \in Seq(Citation) /\ 1 \in DOMAIN Entities[i].cites
    BY <1>2, ItemCites
  <2>2. Behind(i)
    BY <1>1, <1>2 DEF Behind, Inv, Place
  <2>3. Entities[i].cites[1] \in DOMAIN cite_map
    BY <1>1, <2>2 DEF Inv, Covering
  <2> QED BY <2>1, <2>3, FirstIsShown
<1>6. /\ outcome' = "done"
      /\ cites' = [i \in DOMAIN Entities |-> cite_map[FirstCite(Entities[i].cites)]]
  BY <1>5 DEF Assemble
<1>7. Numbered' /\ Place'
  BY <1>1, <1>3, <1>6 DEF Inv, Numbered, Place
<1>8. Covering'
  BY <1>3, <1>4 DEF Inv, Covering, Behind
<1>9. Shown'
  <2>1. ASSUME NEW i \in DOMAIN Entities
        PROVE  cites'[i] \in DOMAIN sources /\ sources[cites'[i]] = Url[Entities[i].cites[1]]
    <3>1. cites'[i] = cite_map[Entities[i].cites[1]] /\ Entities[i].cites[1] \in DOMAIN cite_map
      BY <1>5, <1>6
    <3> QED BY <3>1 DEF Inv, Numbered
  <2> QED BY <1>3, <1>4, <2>1 DEF Shown
<1>10. Progress' /\ Outputs'
  <2>1. Progress'
    BY <1>3, <1>6 DEF Inv, Progress, Passed
  <2>2. Outputs'
    BY <1>3, <1>4, EvidenceStays
       DEF Inv, Outputs, PlanSound, FindingsSound, RecordsSound, DecisionsSound, DesignSound,
           CostSound, RisksSound, Decisions, Architecture, Grounded
  <2> QED BY <2>1, <2>2
<1> QED BY <1>6, <1>7, <1>8, <1>9, <1>10 DEF Inv
-----------------------------------------------------------------------------
(* The stages before.                                                      *)

\* The walk has not begun.
LEMMA BeforeWalk ==
  ASSUME Inv, Progress', Outputs', Graph[at] # "packager", UNCHANGED walk,
         outcome' \in {"running", "rejected", "raised"}
  PROVE  Inv'
<1>1. entity' = 1 /\ citation' = 1 /\ UNCHANGED <<sources, cite_map>>
  BY DEF Inv, Place, walk
<1>2. Numbered' /\ Place' /\ Shown'
  BY <1>1 DEF Inv, Numbered, Place, Shown
<1>3. Covering'
  <2>1. \A i : ~Behind(i)'
    BY <1>1 DEF Behind
  <2> QED BY <1>1, <2>1 DEF Covering
<1> QED BY <1>2, <1>3 DEF Inv

\* An action that leaves the place and the outputs alone.
LEMMA OutcomeOnly ==
  ASSUME Inv, UNCHANGED <<at, got>>, Progress'
  PROVE  Outputs'
<1>1. UNCHANGED <<Evidence, Requirements>>
  BY DEF Evidence, Requirements, Answered, Supplied
<1> QED BY <1>1, EvidenceStays
        DEF Inv, Outputs, PlanSound, FindingsSound, RecordsSound, DecisionsSound, DesignSound,
            CostSound, RisksSound, Decisions, Architecture, Grounded

LEMMA ProduceInv ==
  ASSUME Inv, outcome = "running", Graph[at] # "packager", NEW v, Produce(v), Outputs'
  PROVE  Inv'
  BY ProduceSteps, BeforeWalk DEF Inv, Produce

LEMMA RejectInv ==
  ASSUME Inv, outcome = "running", Graph[at] # "packager", Reject
  PROVE  Inv'
  BY RejectSteps, OutcomeOnly, BeforeWalk DEF Inv

LEMMA AnswerKeeps == ASSUME Inv, Answer PROVE Inv'
<1>1. outcome = "running" /\ Graph[at] \in Asking
  BY DEF Answer, Running
<1>2. Graph[at] \notin {"research_workers", "retrieval", "packager"}
  BY <1>1 DEF Asking
<1>3. PICK v \in Answers[Graph[at]] : IF Admissible(v) THEN Produce(v) ELSE Reject
  BY DEF Answer
<1>4. CASE Admissible(v) /\ Produce(v)
  <2>1. Graph[at] = "research_planner" => v \subseteq Questions
    BY ConstantsAssumption DEF Schema
  <2>2. Graph[at] = "synthesizer" => v \in Seq(Decision) /\ Grounded(v)
    BY <1>4, ConstantsAssumption DEF Schema, Admissible
  <2>3. Graph[at] = "architect" => v \in Answers["architect"] /\ ArchitectureAdmissible(v)
    BY <1>4 DEF Admissible
  <2>4. Graph[at] = "cost_estimator" => v \in Answers["cost_estimator"] /\ Grounded(v.lines)
    BY <1>4 DEF Admissible, CostAdmissible
  <2>5. Graph[at] = "risk_writer" => v \in Seq(Risk) /\ Grounded(v)
    BY <1>4, ConstantsAssumption DEF Schema, Admissible, RisksAdmissible
  <2>6. Outputs'
    BY <1>2, <1>4, <2>1, <2>2, <2>3, <2>4, <2>5, ProduceKeeps DEF Inv
  <2> QED BY <1>1, <1>2, <1>4, <2>6, ProduceInv
<1>5. CASE ~Admissible(v) /\ Reject
  BY <1>1, <1>2, <1>5, RejectInv
<1> QED BY <1>3, <1>4, <1>5

LEMMA TruncatedKeeps == ASSUME Inv, Truncated PROVE Inv'
<1>1. /\ Graph[at] # "packager" /\ UNCHANGED <<at, got, walk>>
      /\ try' \in 1..3 /\ outcome' \in {"running", "rejected", "raised"}
  BY DEF Truncated, Running, Asking, Inv, Progress
<1>2. Progress'
  BY <1>1 DEF Inv, Progress, Passed
<1> QED BY <1>1, <1>2, OutcomeOnly, BeforeWalk

LEMMA ResearchKeeps == ASSUME Inv, Research PROVE Inv'
<1>1. outcome = "running" /\ Graph[at] = "research_workers"
  BY DEF Research, Running
<1>2. PICK answered \in SUBSET got["research_planner"] : Produce(answered)
  BY DEF Research
<1>3. answered \subseteq Questions
  <2>1. "research_planner" \in DOMAIN got
    BY <1>1, InOrder, Names DEF Inv, Progress
  <2> QED BY <2>1 DEF Inv, Outputs, PlanSound
<1>4. Outputs'
  BY <1>1, <1>2, <1>3, ProduceKeeps DEF Inv
<1> QED BY <1>1, <1>2, <1>4, ProduceInv

LEMMA RetrieveKeeps == ASSUME Inv, Retrieve PROVE Inv'
<1>1. outcome = "running" /\ Graph[at] = "retrieval"
  BY DEF Retrieve, Running
<1>2. PICK s \in SUBSET Corpus : Produce(s)
  BY DEF Retrieve
<1>3. Outputs'
  BY <1>1, <1>2, ProduceKeeps DEF Inv
<1> QED BY <1>1, <1>2, <1>3, ProduceInv

LEMMA RaiseKeeps == ASSUME Inv, Raise PROVE Inv'
<1>1. Graph[at] # "packager" /\ outcome' = "raised" /\ UNCHANGED <<at, try, got, walk>>
  BY DEF Raise
<1>2. Progress'
  BY <1>1 DEF Inv, Progress, Passed
<1> QED BY <1>1, <1>2, OutcomeOnly, BeforeWalk

LEMMA UnchangedKeeps ==
  ASSUME Inv, UNCHANGED <<at, try, got, walk>>, \/ outcome' = outcome
                                               \/ outcome' = "raised"
  PROVE  Inv'
<1>1. Progress'
  BY DEF Inv, Progress, Passed
<1>2. Entities' = Entities
  BY DEF Entities, Decisions, Architecture
<1>3. Numbered' /\ Place' /\ Covering' /\ Shown'
  BY <1>2 DEF Inv, Numbered, Place, Covering, Behind, Shown, walk
<1> QED BY <1>1, <1>3, OutcomeOnly DEF Inv
-----------------------------------------------------------------------------
(* The theorems.                                                           *)

LEMMA InitInv == Init => Inv
<1>1. ASSUME Init PROVE Progress /\ Outputs
  <2>1. at = 1 /\ try = 1 /\ DOMAIN got = {} /\ outcome = "running"
    BY <1>1 DEF Init
  <2>2. Passed = {}
    BY <2>1 DEF Passed
  <2>3. Progress
    BY <2>1, <2>2, Names DEF Progress
  <2>4. Outputs
    BY <2>1 DEF Outputs, PlanSound, FindingsSound, RecordsSound, DecisionsSound, DesignSound,
                CostSound, RisksSound
  <2> QED BY <2>3, <2>4
<1>2. ASSUME Init PROVE Numbered /\ Place /\ Covering /\ Shown /\ outcome # "unresolved"
  <2>1. \A i : ~Behind(i)
    BY <1>2 DEF Init, Behind
  <2>2. Graph[at] # "packager"
    BY <1>2, Names DEF Init
  <2>3. sources = <<>> /\ DOMAIN cite_map = {}
    BY <1>2 DEF Init
  <2>4. Numbered
    BY <2>3 DEF Numbered
  <2> QED BY <1>2, <2>1, <2>2, <2>4 DEF Init, Place, Covering, Shown
<1> QED BY <1>1, <1>2 DEF Inv

LEMMA NextInv == Inv /\ [Next]_vars => Inv'
<1> SUFFICES ASSUME Inv, [Next]_vars PROVE Inv'
  OBVIOUS
<1>1. CASE Answer     BY <1>1, AnswerKeeps
<1>2. CASE Malformed
  BY <1>2, RejectInv DEF Malformed, Running, Asking
<1>3. CASE Truncated  BY <1>3, TruncatedKeeps
<1>4. CASE Research   BY <1>4, ResearchKeeps
<1>5. CASE Retrieve   BY <1>5, RetrieveKeeps
<1>6. CASE Raise      BY <1>6, RaiseKeeps
<1>7. CASE Register   BY <1>7, RegisterKeeps
<1>8. CASE Assemble   BY <1>8, AssembleKeeps
<1>9. CASE Overlong   BY <1>9, UnchangedKeeps DEF Overlong
<1>10. CASE UNCHANGED vars
  BY <1>10, UnchangedKeeps DEF vars
<1> QED BY <1>1, <1>2, <1>3, <1>4, <1>5, <1>6, <1>7, <1>8, <1>9, <1>10 DEF Next

THEOREM Invariant == Spec => []Inv
  BY InitInv, NextInv, PTL DEF Spec

\* The state keeps its shape whatever the models answer (_build_sources, runner).
THEOREM TypeCorrect == Spec => []TypeOK
<1>1. Inv => TypeOK
  BY DEF Inv, Progress, Passed, Numbered, Place, Pages, TypeOK
<1> QED BY <1>1, Invariant, PTL

\* No citation that the agents let through is unknown to the packager
\* (PackagingError).
THEOREM NeverUnresolved == Spec => []PackagingNeverFails
<1>1. Inv => PackagingNeverFails
  BY DEF Inv, PackagingNeverFails
<1> QED BY <1>1, Invariant, PTL

\* Every number in a package is that of the page its agent cited first
\* (_intern_url, _first_cite).
THEOREM NumbersNameSources == Spec => []CitesNameTheirSource
<1>1. Inv => CitesNameTheirSource
  BY DEF Inv, Numbered, Shown, CitesNameTheirSource
<1> QED BY <1>1, Invariant, PTL

\* A finished package has what the rubric asks of its structure
\* (adr0006_completeness).
THEOREM RubricMet == Spec => []RubricIsMet
<1>1. ASSUME Inv, outcome = "done"
      PROVE  /\ Architecture \in Answers["architect"] /\ ArchitectureAdmissible(Architecture)
             /\ \A i \in DOMAIN Entities : cites[i] \in DOMAIN sources
  <2>1. Graph[at] = "packager"
    BY <1>1 DEF Inv, Place
  <2>2. "architect" \in DOMAIN got
    BY <1>1, <2>1, InOrder, Names DEF Inv, Progress
  <2> QED BY <1>1, <2>2 DEF Inv, Outputs, DesignSound, Shown
<1>2. ASSUME Inv, outcome = "done"
      PROVE  {Architecture.sequences[i].kind : i \in DOMAIN Architecture.sequences} = SequenceKinds
  BY <1>1, <1>2, ConstantsAssumption DEF Schema, ArchitectureAdmissible, SequencesHold
<1>3. Inv => RubricIsMet
  BY <1>1, <1>2
     DEF RubricIsMet, ArchitectureAdmissible, ContractsHold, RationalesHold, FailureModesHold,
         PhasesHold
<1> QED BY <1>3, Invariant, PTL
=============================================================================
