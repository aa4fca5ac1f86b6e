----------------------------- MODULE AgentGraph -----------------------------
(***************************************************************************)
(* The agent graph of one run, from the brief to the assembled package:    *)
(* seven agents ask an LLM for JSON, each checks the answer against what   *)
(* the agents before it produced and asks again when it is inadmissible,   *)
(* and the packager, which asks nobody, numbers the sources.               *)
(*                                                                         *)
(* An LLM may answer anything that its schema lets through: Answers is a   *)
(* parameter.  Texts are left out; an identifier is a string, and a list   *)
(* of the schema is a sequence where its order or its length matters and a *)
(* set elsewhere.                                                          *)
(***************************************************************************)
EXTENDS Naturals, Sequences, FiniteSets

CONSTANTS
  Corpus,     \* ids of the knowledge base
  TopK,       \* how many records the retriever supplies at most
  Questions,  \* ids a research plan may use
  Url,        \* first URL of a record or of a finding
  Baseline,   \* monthly cost of a record, 0 when it gives none
  Answers     \* by agent, the answers that parse

Graph ==
  <<"intake_normalizer", "requirements_extractor", "research_planner",
    "research_workers", "retrieval", "synthesizer", "architect",
    "cost_estimator", "risk_writer", "packager">>
Stages == {Graph[i] : i \in DOMAIN Graph}
Asking == Stages \ {"research_workers", "retrieval", "packager"}

\* DecisionCitation, and what one may refer to.
Citation == {"kb", "finding"} \X STRING
Known == ({"kb"} \X Corpus) \cup ({"finding"} \X Questions)

\* Whatever carries citations: the schemas ask for one at least.
Cites == Seq(Citation) \ {<<>>}
Decision == [component : STRING, cites : Cites]
Node == [id : STRING, failure_domain : SUBSET STRING, cites : Cites]
Contract == [edge : STRING \X STRING, cites : Cites]
Rationale == [node : STRING, requirement : STRING, cites : Cites]
FailureMode == [id : STRING, node : STRING, cites : Cites]
Line == [cost : Nat, cites : Cites]
Risk == [component : STRING, cites : Cites]
SequenceKinds == {"write", "read", "async"}

\* What the parse guarantees.
Schema ==
  /\ Answers["requirements_extractor"] \subseteq SUBSET STRING
  /\ Answers["research_planner"] \subseteq SUBSET Questions
  /\ Answers["synthesizer"] \subseteq Seq(Decision)
  /\ \A a \in Answers["architect"] :
       /\ a.nodes \in Seq(Node) /\ a.contracts \in Seq(Contract)
       /\ a.rationales \in Seq(Rationale) /\ a.failure_modes \in Seq(FailureMode)
       /\ \A i \in DOMAIN a.sequences : a.sequences[i].kind \in SequenceKinds
  /\ \A e \in Answers["cost_estimator"] : e.lines \in Seq(Line)
  /\ Answers["risk_writer"] \subseteq Seq(Risk)

ASSUME ConstantsAssumption ==
  /\ Corpus \subseteq STRING /\ Questions \subseteq STRING /\ TopK \in Nat \ {0}
  /\ DOMAIN Url = Known /\ Baseline \in [Corpus -> Nat]
  /\ DOMAIN Answers = Asking
  /\ Schema

VARIABLES
  at,        \* place in the graph
  try,       \* which answer the agent is waiting for
  got,       \* what the stages have produced
  outcome,   \* how the run stands
  entity,    \* packager: what it is registering,
  citation,  \* and which citation of it
  cite_map,  \* packager: the number of each citation registered
  sources,   \* packager: URLs by number
  cites      \* the package: the number each entity shows

walk == <<entity, citation, cite_map, sources, cites>>
vars == <<at, try, got, outcome, walk>>

Init ==
  /\ at = 1 /\ try = 1 /\ got = <<>> /\ outcome = "running"
  /\ entity = 1 /\ citation = 1 /\ cite_map = <<>> /\ sources = <<>> /\ cites = <<>>
-----------------------------------------------------------------------------
(* What the stages read of one another.                                    *)

Requirements == got["requirements_extractor"]
Answered == got["research_workers"]
Supplied == got["retrieval"]
Decisions == got["synthesizer"]
Architecture == got["architect"]

IdsOf(list) == {list[i].id : i \in DOMAIN list}

\* kb_ids and finding_ids: a question that failed is no evidence.
Evidence == ({"kb"} \X Supplied) \cup ({"finding"} \X Answered)

\* _check_cite for each item of a list.
Grounded(list) ==
  \A i \in DOMAIN list : \A j \in DOMAIN list[i].cites : list[i].cites[j] \in Evidence
-----------------------------------------------------------------------------
(* _admissibility_errors of the four agents that have one.                 *)

\* _component_id_index.
ComponentIds ==
  ({Decisions[i].component : i \in DOMAIN Decisions} \ {"null", ""})
    \cup IdsOf(Architecture.nodes)

TopologyHolds(a) ==
  LET ids == IdsOf(a.nodes) IN
  /\ \A e \in a.edges : e[1] \in ids /\ e[2] \in ids /\ e[1] # e[2]
  /\ \A f \in a.flows : f \subseteq ids
  /\ \A i \in DOMAIN a.nodes : a.nodes[i].failure_domain \subseteq ids \ {a.nodes[i].id}

SequencesHold(a) ==
  /\ SequenceKinds \subseteq {a.sequences[i].kind : i \in DOMAIN a.sequences}
  /\ \A i \in DOMAIN a.sequences : a.sequences[i].id = a.sequences[i].kind
  /\ Cardinality(IdsOf(a.sequences)) = Len(a.sequences)

ContractsHold(a) ==
  /\ a.contracts # <<>> /\ Grounded(a.contracts)
  /\ \A i \in DOMAIN a.contracts :
       LET e == a.contracts[i].edge IN e \in a.edges /\ {e[1], e[2]} \subseteq IdsOf(a.nodes)

RationalesHold(a) ==
  /\ a.rationales # <<>> /\ Grounded(a.rationales)
  /\ \A i \in DOMAIN a.rationales :
       /\ a.rationales[i].node \in IdsOf(a.nodes)
       /\ a.rationales[i].requirement \in Requirements

\* The nodes that others go down with.
Fragile(a) == {a.nodes[i].id : i \in {j \in DOMAIN a.nodes : a.nodes[j].failure_domain # {}}}
Covered(a) == {a.failure_modes[i].node : i \in DOMAIN a.failure_modes}

\* Slips: the failure modes are not asked for their sources; a fragile node
\* needs no failure mode.
FailureModesUncited(a) ==
  /\ Cardinality(IdsOf(a.failure_modes)) = Len(a.failure_modes)
  /\ Covered(a) \subseteq IdsOf(a.nodes) /\ Fragile(a) \subseteq Covered(a)
FailureModesMissing(a) ==
  /\ Cardinality(IdsOf(a.failure_modes)) = Len(a.failure_modes)
  /\ Covered(a) \subseteq IdsOf(a.nodes) /\ Grounded(a.failure_modes)

FailureModesHold(a) ==
  /\ Cardinality(IdsOf(a.failure_modes)) = Len(a.failure_modes)
  /\ Covered(a) \subseteq IdsOf(a.nodes) /\ Grounded(a.failure_modes)
  /\ Fragile(a) \subseteq Covered(a)

\* At least three phases; that there are six at most is left to the prompt.
PhasesHold(a) ==
  /\ Len(a.phases) >= 3
  /\ Cardinality(IdsOf(a.phases)) = Len(a.phases)
  /\ \A i \in DOMAIN a.phases : a.phases[i].nodes \subseteq IdsOf(a.nodes)

ArchitectureAdmissible(a) ==
  /\ Grounded(a.nodes) /\ TopologyHolds(a) /\ SequencesHold(a) /\ ContractsHold(a)
  /\ RationalesHold(a) /\ FailureModesHold(a) /\ PhasesHold(a)

\* A line that cites a record costs a quarter of its baseline to four times it.
InBand(line) ==
  LET base == Baseline[line.cites[1][2]] IN
  line.cites[1][1] = "kb" /\ base > 0 => base <= 4 * line.cost /\ line.cost <= 4 * base

CostAdmissible(e) ==
  /\ Grounded(e.lines) /\ \A i \in DOMAIN e.lines : InBand(e.lines[i])
  /\ e.baseline <= e.at_10x /\ e.at_10x <= e.at_100x

RisksAdmissible(r) ==
  /\ Grounded(r)
  /\ \A i \in DOMAIN r : r[i].component = "null" \/ r[i].component \in ComponentIds

Admissible(v) ==
  CASE Graph[at] = "synthesizer" -> Grounded(v)
    [] Graph[at] = "architect" -> ArchitectureAdmissible(v)
    [] Graph[at] = "cost_estimator" -> CostAdmissible(v)
    [] Graph[at] = "risk_writer" -> RisksAdmissible(v)
    [] OTHER -> TRUE
-----------------------------------------------------------------------------
(* The stages before the packager.                                         *)

Running == outcome = "running"

\* Slip: one answer too many.
TriesOneMore(s) == IF s = "architect" THEN 4 ELSE 2

\* How often an agent asks.
Tries(s) == IF s = "architect" THEN 3 ELSE 2

Produce(v) ==
  /\ got' = [s \in DOMAIN got \cup {Graph[at]} |-> IF s = Graph[at] THEN v ELSE got[s]]
  /\ at' = at + 1 /\ try' = 1
  /\ UNCHANGED <<outcome, walk>>

\* Slip: after the last answer the agent starts over.
RejectForever ==
  /\ try' = IF try < Tries(Graph[at]) THEN try + 1 ELSE 1
  /\ UNCHANGED <<at, got, outcome, walk>>

\* The agent asks again, or raises its own error.
Reject ==
  /\ IF try < Tries(Graph[at]) THEN try' = try + 1 /\ outcome' = outcome
                               ELSE try' = try /\ outcome' = "rejected"
  /\ UNCHANGED <<at, got, walk>>

\* An answer that parses.
Answer ==
  /\ Running /\ Graph[at] \in Asking
  /\ \E v \in Answers[Graph[at]] : IF Admissible(v) THEN Produce(v) ELSE Reject

\* An answer that is no JSON or not of the schema.
Malformed == Running /\ Graph[at] \in Asking /\ Reject

\* OutputTruncatedError: two agents ask once more with twice the tokens, from
\* the others it escapes.
Truncated ==
  /\ Running /\ Graph[at] \in Asking
  /\ IF Graph[at] \in {"synthesizer", "architect"}
       THEN IF try = 1 THEN try' = 2 /\ outcome' = outcome
                       ELSE try' = try /\ outcome' = "rejected"
       ELSE try' = try /\ outcome' = "raised"
  /\ UNCHANGED <<at, got, walk>>

\* research_all: a question is answered or ends as an error.
Research ==
  /\ Running /\ Graph[at] = "research_workers"
  /\ \E answered \in SUBSET got["research_planner"] : Produce(answered)

\* The best of the fused ranking, or the head of the corpus.
Retrieve ==
  /\ Running /\ Graph[at] = "retrieval"
  /\ \E s \in SUBSET Corpus :
       Cardinality(s) <= TopK /\ (Corpus # {} => s # {}) /\ Produce(s)

\* The budget, every provider or a loader fails.
Raise ==
  /\ Running /\ Graph[at] # "packager"
  /\ outcome' = "raised"
  /\ UNCHANGED <<at, try, got, walk>>
-----------------------------------------------------------------------------
(* package: it registers the citations of every entity and then looks up   *)
(* the number each entity shows.                                           *)

\* What _build_sources walks, in its order.
Entities ==
  Decisions \o Architecture.nodes \o got["cost_estimator"].lines \o got["risk_writer"]
    \o Architecture.contracts \o Architecture.rationales \o Architecture.failure_modes

Packing == Running /\ Graph[at] = "packager"

Put(c, n) == cite_map' = [d \in DOMAIN cite_map \cup {c} |-> IF d = c THEN n ELSE cite_map[d]]

\* Slip: a URL is listed again.
InternAlways(c) == Put(c, Len(sources) + 1) /\ sources' = Append(sources, Url[c])

\* _intern_url.
Intern(c) ==
  \/ \E n \in DOMAIN sources : sources[n] = Url[c] /\ Put(c, n) /\ sources' = sources
  \/ /\ \A n \in DOMAIN sources : sources[n] # Url[c]
     /\ Put(c, Len(sources) + 1) /\ sources' = Append(sources, Url[c])

Advance(list) ==
  IF citation < Len(list) THEN citation' = citation + 1 /\ entity' = entity
                          ELSE citation' = 1 /\ entity' = entity + 1

\* _register.
Register ==
  /\ Packing /\ entity <= Len(Entities)
  /\ LET list == Entities[entity].cites
         c == list[citation]
     IN IF c \in Evidence \cup DOMAIN cite_map
          THEN /\ IF c \in DOMAIN cite_map THEN UNCHANGED <<cite_map, sources>> ELSE Intern(c)
               /\ Advance(list) /\ UNCHANGED outcome
          ELSE outcome' = "unresolved" /\ UNCHANGED <<entity, citation, cite_map, sources>>
  /\ UNCHANGED <<at, try, got, cites>>

\* _first_cite of a list, or the only citation.
Mapped(list) == {j \in DOMAIN list : list[j] \in DOMAIN cite_map}
FirstCite(list) == list[CHOOSE j \in Mapped(list) : \A k \in Mapped(list) : j <= k]

Assemble ==
  /\ Packing /\ entity > Len(Entities)
  /\ IF \A i \in DOMAIN Entities : Mapped(Entities[i].cites) # {}
       THEN /\ cites' = [i \in DOMAIN Entities |-> cite_map[FirstCite(Entities[i].cites)]]
            /\ outcome' = "done"
       ELSE cites' = cites /\ outcome' = "unresolved"
  /\ UNCHANGED <<at, try, got, entity, citation, cite_map, sources>>

\* RunPackage does not validate: a text that an agent's schema allows, three
\* alternatives of 200 characters or an assumption, is too long for it.
Overlong ==
  /\ Packing /\ entity > Len(Entities)
  /\ outcome' = "raised"
  /\ UNCHANGED <<at, try, got, walk>>
-----------------------------------------------------------------------------
Next ==
  \/ Answer \/ Malformed \/ Truncated \/ Research \/ Retrieve \/ Raise
  \/ Register \/ Assemble \/ Overlong

Spec == Init /\ [][Next]_vars

\* The thread goes on, and every call to a model ends by its deadline.
FairSpec == Spec /\ WF_vars(Next)
-----------------------------------------------------------------------------
(* Properties.                                                             *)

\* The shape of the state; the packager's numbers are those of its sources.
TypeOK ==
  /\ at \in 1..Len(Graph) /\ try \in 1..3
  /\ outcome \in {"running", "rejected", "raised", "unresolved", "done"}
  /\ DOMAIN got = {Graph[i] : i \in 1..(at - 1)}
  /\ entity \in Nat \ {0} /\ citation \in Nat \ {0}
  /\ sources \in Seq({Url[c] : c \in Known})
  /\ DOMAIN cite_map \subseteq Known
  /\ \A c \in DOMAIN cite_map : cite_map[c] \in 1..Len(sources)

\* Stated by the docstring of PackagingError: what the four agents let through
\* is what the packager can resolve.
PackagingNeverFails == outcome # "unresolved"

\* A number in the package is the number of the page that its agent cited
\* first, and a page has one number.
CitesNameTheirSource ==
  /\ \A m, n \in DOMAIN sources : sources[m] = sources[n] => m = n
  /\ outcome = "done" =>
       \A i \in DOMAIN Entities :
         cites[i] \in DOMAIN sources /\ sources[cites[i]] = Url[Entities[i].cites[1]]

\* The structural checks of the evaluation rubric (adr0006_completeness) that an agent
\* enforces, and full marks for groundedness: what the agents accept is what the
\* rubric, written apart from them, asks of a package.
RubricIsMet ==
  outcome = "done" =>
    /\ {Architecture.sequences[i].kind : i \in DOMAIN Architecture.sequences} = SequenceKinds
    /\ Architecture.contracts # <<>>
    /\ \A i \in DOMAIN Architecture.contracts :
         Architecture.contracts[i].edge \in Architecture.edges
    /\ Architecture.rationales # <<>>
    /\ \A i \in DOMAIN Architecture.rationales :
         Architecture.rationales[i].requirement \in Requirements
    /\ Fragile(Architecture) \subseteq Covered(Architecture)
    /\ Len(Architecture.phases) >= 3
    /\ \A i \in DOMAIN Architecture.phases :
         Architecture.phases[i].nodes \subseteq IdsOf(Architecture.nodes)
    /\ \A i \in DOMAIN Entities : cites[i] \in DOMAIN sources

\* The graph comes to an end, whatever the models answer.
GraphEnds == <>(outcome # "running")
=============================================================================
