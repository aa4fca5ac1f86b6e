---------------------------- MODULE DecideStudio ----------------------------
(***************************************************************************)
(* The design studio (components/decide/decide-studio.tsx): a reader looks *)
(* at a design through eight lenses, swaps its components for others,      *)
(* moves three scale knobs, and follows links into an inspector.           *)
(*                                                                         *)
(* What is stored is the choice (overrides, knobs, lens, selection); the   *)
(* diagram, the bill and the inspector are computed from it on every       *)
(* render, some from the swapped design and some from the original one.    *)
(* The design is the DecideData the page supplies, here the constants.     *)
(***************************************************************************)
EXTENDS Integers, Sequences, FiniteSetsExt

CONSTANTS
  NODES, EDGES, DECISIONS, BOM_LINES, RISKS, ASSUMPTIONS, ROADMAP, SOURCES,
  COMPONENT_OPTIONS, ORG_CONSTRAINTS, ERROR_PATH, SAMPLE_PACKAGES,
  NoNode,         \* the nodeId of a line, a risk or a step that has none
  Scales,         \* the positions of a knob
  Swappable,      \* bound: the components the reader swaps
  Pointed,        \* bound: the selections the reader makes
  MaxChanges      \* bound: swaps, moved knobs and moved asides at a time

VARIABLES
  overrides,      \* component -> option, for the swapped ones
  users, rps, gb, \* the scale knobs
  lens, mode,     \* the open lens, and lens or story
  selection,      \* <<kind, id>>, or nothing
  narrativeOpen,  \* the architecture lens's walk-through
  path,           \* the path the sequence lens shows
  briefOpen, brief, sampleId, toured   \* asides

vars == <<overrides, users, rps, gb, lens, mode, selection, narrativeOpen, path,
          briefOpen, brief, sampleId, toured>>
design == <<overrides, users, rps, gb>>
screen == <<lens, mode, narrativeOpen, path>>
asides == <<briefOpen, brief, sampleId, toured>>

Nothing == <<>>
Items(list) == {list[i] : i \in DOMAIN list}
Ids(list) == {list[i].id : i \in DOMAIN list}
NodeIds == Ids(NODES)
Find(list, id) == list[CHOOSE i \in DOMAIN list : list[i].id = id]

LENSES == <<"architecture", "cost", "risks", "decisions", "sequence", "package",
            "assumptions", "roadmap">>
Lenses == {LENSES[i] : i \in DOMAIN LENSES}
LensIndex == CHOOSE i \in DOMAIN LENSES : LENSES[i] = lens

(***************************************************************************)
(* The design as the reader changed it.  BriefRail is handed               *)
(* toggleConstraint and renders no control for it, so no constraint is     *)
(* ever on; what constraints would do is kept for the day it does.         *)
(***************************************************************************)
constraints == {}

Enabled == {i \in DOMAIN ORG_CONSTRAINTS : ORG_CONSTRAINTS[i].id \in constraints}
Applying(n) == {i \in Enabled : n \in DOMAIN ORG_CONSTRAINTS[i].applies}

\* Of two constraints the later of the list decides, and a swap beats both.
EffectiveOverride(n) ==
  IF n \in DOMAIN overrides THEN overrides[n]
  ELSE IF Applying(n) = {} THEN NoNode
  ELSE LET last == CHOOSE i \in Applying(n) : \A j \in Applying(n) : j <= i
       IN ORG_CONSTRAINTS[last].applies[n]

\* In hundredths.
GlobalCostMul ==
  FoldSet(LAMBDA i, m : (m * ORG_CONSTRAINTS[i].globalCostMul) \div 100, 100, Enabled)

HasOptions(n) == n \in DOMAIN COMPONENT_OPTIONS
DefaultOption(n) == COMPONENT_OPTIONS[n][1]

OptionFor(n) ==
  LET chosen == EffectiveOverride(n) IN
  IF chosen \in Ids(COMPONENT_OPTIONS[n]) THEN Find(COMPONENT_OPTIONS[n], chosen)
                                          ELSE DefaultOption(n)

Swapped(n) == HasOptions(n) /\ OptionFor(n).id # DefaultOption(n).id

\* effectiveNodes, all of them visible as the run is done; and what a card names.
Live(n) == n \in NodeIds /\ ~(HasOptions(n) /\ OptionFor(n).remove)
LiveIds == {n \in NodeIds : Live(n)}
CardShows(n) == IF Swapped(n) THEN OptionFor(n).id ELSE n

LiveEdges == {i \in DOMAIN EDGES : Live(EDGES[i].from) /\ Live(EDGES[i].to)}

(***************************************************************************)
(* The bill.                                                               *)
(***************************************************************************)
BilledAlways(l) == TRUE
Billed(l) == l.nodeId = NoNode \/ Live(l.nodeId)
BillLines == {i \in DOMAIN BOM_LINES : Billed(BOM_LINES[i])}
LineShows(l) == IF l.nodeId # NoNode /\ Swapped(l.nodeId) THEN OptionFor(l.nodeId).id
                                                          ELSE l.nodeId

LineCost(l) ==
  LET base == l.base + l.per.users * (users - 1) + l.per.rps * (rps - 1)
                     + l.per.gb * (gb - 1)
      costMul == IF l.nodeId # NoNode /\ HasOptions(l.nodeId)
                   THEN OptionFor(l.nodeId).costMul ELSE 100
  IN (((base * costMul) \div 100) * GlobalCostMul) \div 100

Bill == [i \in BillLines |-> LineCost(BOM_LINES[i])]

CostOf(lines) == MapThenSumSet(LAMBDA i : LineCost(BOM_LINES[i]), lines)
Total == CostOf(BillLines)

(***************************************************************************)
(* The cost lens: the split of the total, in percent, and for each row its *)
(* share of the total and its bar, against the dearest row.  A run is      *)
(* sold for 49 dollars, 80 of them a month.                                *)
(***************************************************************************)
AtLeastOneDollar(x) == IF x < 1000 THEN 1000 ELSE x

FixedCost == CostOf({i \in BillLines : BOM_LINES[i].fixed})
VariableCost == CostOf({i \in BillLines : BOM_LINES[i].kind \in {"vendor", "compute"}})
DearestCost == Max({LineCost(BOM_LINES[i]) : i \in BillLines})

Panel(bill, total, fixed, variable, dearest) ==
  [total |-> total, fixed |-> fixed, variable |-> variable,
   margin |-> 100 - (variable * 100) \div (80 * 49000),
   fixedPct |-> (fixed * 100) \div AtLeastOneDollar(total),
   freePct |-> MapThenSumSet(LAMBDA i : BOM_LINES[i].freeTierPct * bill[i], DOMAIN bill)
                 \div AtLeastOneDollar(total),
   totalPct |-> [i \in DOMAIN bill |-> (bill[i] * 100) \div total],
   barPct |-> [i \in DOMAIN bill |-> (bill[i] * 100) \div dearest]]

CostPanel == Panel(Bill, Total, FixedCost, VariableCost, DearestCost)

(***************************************************************************)
(* The other lenses: what each one lists.                                  *)
(***************************************************************************)
FLOW_STEPS == << <<"user", "lb", "web">>, <<"web", "queue", "worker">>,
                 <<"worker", "redis", "web", "user">>, <<"worker", "vertex">>,
                 <<"worker", "db", "storage">>, <<"web", "stripe", "user">> >>

\* The chips of a step are looked up in the original design.
Chips == {n \in UNION {Items(FLOW_STEPS[i]) : i \in DOMAIN FLOW_STEPS} : n \in NodeIds}

Severities == {"high", "med", "low"}
RiskCell(l, i) == {r \in Items(RISKS) : r.likelihood = l /\ r.impact = i}
AssumptionGroups == {{a \in Items(ASSUMPTIONS) : a.category = c} :
                       c \in {a.category : a \in Items(ASSUMPTIONS)}}

ThreePhases == {"Day 1", "Week 1", "Month 1"}
ROADMAP_PHASES == {"Day 1", "Week 1", "Month 1", "Quarter 1"}
PhaseSteps(p) == {r \in Items(ROADMAP) : r.phase = p}

Lifelines == {"user", "lb", "web", "queue", "worker", "vertex"}
HappyMessages == << <<"user", "lb">>, <<"lb", "web">>, <<"web", "queue">>,
                    <<"queue", "worker">>, <<"worker", "vertex">>, <<"worker", "web">>,
                    <<"web", "user">>, <<"worker", "user">> >>
Messages ==
  IF path = "happy" THEN Items(HappyMessages) ELSE {<<m.from, m.to>> : m \in Items(ERROR_PATH)}

\* The sections of story mode, each with a button to its lens.
StoryLenses == {"assumptions", "architecture", "decisions", "cost", "risks", "roadmap", "package"}

Pick(kind, ids) == {<<kind, id>> : id \in ids}

\* The links of each lens, and of the overview when nothing is selected.
ArchitectureLinks == Pick("node", LiveIds) \cup (IF narrativeOpen THEN Pick("node", Chips) ELSE {})
CostLinks == Pick("bom", {BOM_LINES[i].id : i \in BillLines})
RiskLinks == Pick("risk", UNION {{r.id : r \in RiskCell(l, i)} : l, i \in Severities})
DecisionLinks == Pick("decision", Ids(DECISIONS))
AssumptionLinks == Pick("assumption", {a.id : a \in UNION AssumptionGroups})
RoadmapLinks == Pick("roadmap", UNION {{r.id : r \in PhaseSteps(p)} : p \in ROADMAP_PHASES})

LensLinks ==
  CASE lens = "architecture" -> ArchitectureLinks
    [] lens = "cost" -> CostLinks
    [] lens = "risks" -> RiskLinks
    [] lens = "decisions" -> DecisionLinks
    [] lens = "assumptions" -> AssumptionLinks
    [] lens = "roadmap" -> RoadmapLinks
    [] OTHER -> {}

OverviewLinks ==
  IF selection = Nothing THEN Pick("decision", Ids(DECISIONS)) \cup Pick("source", SOURCES) ELSE {}

(***************************************************************************)
(* The inspector: an entry of the selection's kind, when there is one.     *)
(***************************************************************************)
Entries(kind) ==
  CASE kind = "node" -> LiveIds
    [] kind = "decision" -> Ids(DECISIONS)
    [] kind = "bom" -> {BOM_LINES[i].id : i \in BillLines}
    [] kind = "risk" -> Ids(RISKS)
    [] kind = "source" -> SOURCES
    [] kind = "assumption" -> Ids(ASSUMPTIONS)
    [] kind = "roadmap" -> Ids(ROADMAP)

Resolves(sel) == sel[2] \in Entries(sel[1])
Inspected == IF selection # Nothing /\ Resolves(selection) THEN selection ELSE Nothing

\* What an open entry refers to: a footnote, other components, a decision.
Names(cites, nodes, decisions) == [cites |-> cites, nodes |-> nodes, decisions |-> decisions]

\* The blast radius is that of the original design.
NodeEntry(n) == Names({Find(NODES, n).cite}, Find(NODES, n).failureDomain, {})
DecisionEntry(id) == Names({Find(DECISIONS, id).cite}, {}, {})
BomEntry(id) == Names({Find(BOM_LINES, id).cite}, {}, {})
RiskEntry(id) == Names({Find(RISKS, id).cite}, {}, {})
SourceEntry(n) == Names({n}, {}, {})
RoadmapEntry(id) == Names({}, {}, {Find(ROADMAP, id).decisionId} \ {NoNode})
AssumptionEntry == Names({}, {}, {})

Entry ==
  LET id == Inspected[2] IN
  CASE Inspected[1] = "node" -> NodeEntry(id)
    [] Inspected[1] = "decision" -> DecisionEntry(id)
    [] Inspected[1] = "bom" -> BomEntry(id)
    [] Inspected[1] = "risk" -> RiskEntry(id)
    [] Inspected[1] = "source" -> SourceEntry(id)
    [] Inspected[1] = "roadmap" -> RoadmapEntry(id)
    [] Inspected[1] = "assumption" -> AssumptionEntry

\* What a design promises: the first option of a component keeps it, an entry of the
\* roadmap names a decision that exists, and a step starts at a component.
ASSUME DesignAssumption ==
  /\ \A n \in DOMAIN COMPONENT_OPTIONS :
        ~DefaultOption(n).remove /\ NoNode \notin Ids(COMPONENT_OPTIONS[n])
  /\ \A r \in Items(ROADMAP) : r.decisionId # NoNode => r.decisionId \in Ids(DECISIONS)
  /\ \A i \in DOMAIN FLOW_STEPS : FLOW_STEPS[i][1] \in NodeIds
-----------------------------------------------------------------------------
(***************************************************************************)
(* What the reader does.                                                   *)
(***************************************************************************)
\* A dismissed tour, which nothing else looks at, counts double.
Changes ==
  Cardinality(DOMAIN overrides) + Cardinality({i \in 1..3 : <<users, rps, gb>>[i] # 1})
    + (IF briefOpen THEN 0 ELSE 1) + (IF brief = "canned" THEN 0 ELSE 1) + 2 * Cardinality(toured)

\* The page may name a sample in its address.
Init ==
  /\ overrides = <<>>
  /\ users = 1 /\ rps = 1 /\ gb = 1
  /\ lens = "architecture" /\ mode = "lens"
  /\ selection = Nothing
  /\ narrativeOpen = FALSE /\ path = "happy"
  /\ briefOpen = TRUE /\ toured = {}
  /\ \/ brief = "canned" /\ sampleId = "saas"
     \/ /\ sampleId \in Items(SAMPLE_PACKAGES)
        /\ brief = sampleId

Without(n) == [m \in DOMAIN overrides \ {n} |-> overrides[m]]
With(n, o) == [m \in DOMAIN overrides \cup {n} |-> IF m = n THEN o ELSE overrides[m]]
SetOverrideAlways(n, o) == overrides' = With(n, o)
SetOverride(n, o) == overrides' = IF o = DefaultOption(n).id THEN Without(n) ELSE With(n, o)

\* A change of lens or mode unmounts the lens, and its local state with it.
Show(l, m) ==
  /\ lens' = l /\ mode' = m
  /\ narrativeOpen' = (IF l = lens /\ m = mode THEN narrativeOpen ELSE FALSE)
  /\ path' = IF l = lens /\ m = mode THEN path ELSE "happy"

\* The tabs of the header, which the story has too.
OpenLens(l) == Show(l, mode) /\ UNCHANGED <<design, selection, asides>>

NextLens ==
  /\ mode = "lens" /\ LensIndex < Len(LENSES)
  /\ Show(LENSES[LensIndex + 1], "lens")
  /\ UNCHANGED <<design, selection, asides>>

SetMode(m) == Show(lens, m) /\ UNCHANGED <<design, selection, asides>>

\* "open lens" of a section of the story.
JumpLens(l) ==
  mode = "story" /\ Show(l, "lens") /\ UNCHANGED <<design, selection, asides>>

JumpToStepId(r) ==
  /\ mode = "lens" /\ lens = "roadmap" /\ r.decisionId # NoNode
  /\ <<"decision", r.decisionId>> \in Pointed
  /\ Show("decisions", "lens")
  /\ selection' = <<"decision", r.id>>
  /\ UNCHANGED <<design, asides>>
JumpToDecision(r) ==
  /\ mode = "lens" /\ lens = "roadmap" /\ r.decisionId # NoNode
  /\ <<"decision", r.decisionId>> \in Pointed
  /\ Show("decisions", "lens")
  /\ selection' = <<"decision", r.decisionId>>
  /\ UNCHANGED <<design, asides>>

Select(sel) == selection' = sel /\ UNCHANGED <<design, screen, asides>>

\* A second click on what is selected clears the selection.
ClickEntry ==
  /\ mode = "lens"
  /\ \E sel \in Pointed \cap LensLinks : Select(IF selection = sel THEN Nothing ELSE sel)

ClickOverview == mode = "lens" /\ \E sel \in Pointed \cap OverviewLinks : Select(sel)

\* "Clear" of the inspector; the canvas and leaving a step of the walk-through do the same.
Clear == mode = "lens" /\ selection # Nothing /\ Select(Nothing)

\* The pointer over a step selects its first component, over a chip that of the chip.
PointAtStep(i) ==
  /\ mode = "lens" /\ lens = "architecture" /\ narrativeOpen
  /\ \E n \in {FLOW_STEPS[i][1]} \cup (Items(FLOW_STEPS[i]) \cap Chips) :
        <<"node", n>> \in Pointed /\ Select(<<"node", n>>)

ToggleNarrative ==
  /\ mode = "lens" /\ lens = "architecture"
  /\ narrativeOpen' = ~narrativeOpen
  /\ UNCHANGED <<design, selection, lens, mode, path, asides>>

ChoosePath(p) ==
  /\ mode = "lens" /\ lens = "sequence"
  /\ path' = p
  /\ UNCHANGED <<design, selection, lens, mode, narrativeOpen, asides>>

\* The popover of the selected card, which closes on a choice.
PopoverOfAbsent(n) ==
  /\ mode = "lens" /\ lens = "architecture" /\ selection = <<"node", n>>
  /\ HasOptions(n)
PopoverOpen(n) ==
  /\ mode = "lens" /\ lens = "architecture" /\ selection = <<"node", n>>
  /\ Live(n) /\ HasOptions(n)

PickOption(n, o) ==
  /\ PopoverOpen(n) /\ n \in Swappable
  /\ SetOverride(n, o)
  /\ selection' = Nothing
  /\ UNCHANGED <<users, rps, gb, screen, asides>>

PopoverReset(n) ==
  /\ PopoverOpen(n) /\ n \in DOMAIN overrides
  /\ overrides' = Without(n)
  /\ selection' = Nothing
  /\ UNCHANGED <<users, rps, gb, screen, asides>>

InspectorReset ==
  /\ mode = "lens" /\ Inspected # Nothing /\ Inspected[1] = "node"
  /\ HasOptions(Inspected[2]) /\ Inspected[2] \in DOMAIN overrides
  /\ overrides' = Without(Inspected[2])
  /\ UNCHANGED <<users, rps, gb, selection, screen, asides>>

\* "Reset" of the brief rail, shown while a component is swapped.
ResetTweaks ==
  /\ mode = "lens" /\ briefOpen /\ DOMAIN overrides # {}
  /\ overrides' = <<>>
  /\ UNCHANGED <<users, rps, gb, selection, screen, asides>>

MoveKnob ==
  /\ mode = "lens" /\ lens = "cost"
  /\ \E v \in Scales : \/ users' = v /\ UNCHANGED <<rps, gb>>
                       \/ rps' = v /\ UNCHANGED <<users, gb>>
                       \/ gb' = v /\ UNCHANGED <<users, rps>>
  /\ UNCHANGED <<overrides, selection, screen, asides>>

ToggleBrief ==
  /\ mode = "lens"
  /\ briefOpen' = ~briefOpen
  /\ UNCHANGED <<design, selection, screen, brief, sampleId, toured>>

TypeBrief ==
  /\ mode = "lens" /\ briefOpen
  /\ brief' = "typed"
  /\ UNCHANGED <<design, selection, screen, briefOpen, sampleId, toured>>

SwitchSample(id) ==
  /\ sampleId' = id /\ brief' = id
  /\ UNCHANGED <<design, selection, screen, briefOpen, toured>>

DismissTour ==
  /\ mode = "lens" /\ lens \notin toured
  /\ toured' = toured \cup {lens}
  /\ UNCHANGED <<design, selection, screen, briefOpen, brief, sampleId>>

Next ==
  \/ \E l \in Lenses : OpenLens(l)
  \/ NextLens
  \/ \E m \in {"lens", "story"} : SetMode(m)
  \/ \E l \in StoryLenses : JumpLens(l)
  \/ \E r \in Items(ROADMAP) : JumpToDecision(r)
  \/ ClickEntry
  \/ ClickOverview
  \/ Clear
  \/ \E i \in DOMAIN FLOW_STEPS : PointAtStep(i)
  \/ ToggleNarrative
  \/ \E p \in {"happy", "error"} : ChoosePath(p)
  \/ \E n \in DOMAIN COMPONENT_OPTIONS : \/ \E o \in Ids(COMPONENT_OPTIONS[n]) : PickOption(n, o)
                                         \/ PopoverReset(n)
  \/ InspectorReset
  \/ ResetTweaks
  \/ MoveKnob
  \/ ToggleBrief
  \/ TypeBrief
  \/ \E id \in Items(SAMPLE_PACKAGES) : SwitchSample(id)
  \/ DismissTour

Spec == Init /\ [][Next /\ Changes' <= MaxChanges]_vars
-----------------------------------------------------------------------------
TypeOK ==
  /\ DOMAIN overrides \subseteq DOMAIN COMPONENT_OPTIONS
  /\ \A n \in DOMAIN overrides : overrides[n] \in Ids(COMPONENT_OPTIONS[n]) \ {DefaultOption(n).id}
  /\ {users, rps, gb} \subseteq Scales
  /\ lens \in Lenses /\ mode \in {"lens", "story"}
  /\ selection = Nothing \/ selection \in Pointed
  /\ narrativeOpen \in BOOLEAN /\ path \in {"happy", "error"}
  /\ briefOpen \in BOOLEAN /\ toured \subseteq Lenses

AddsUp(panel, lines) ==
  /\ panel.fixed <= panel.total /\ panel.fixedPct \in 0..100 /\ panel.freePct \in 0..100
  /\ MapThenSumSet(LAMBDA i : panel.totalPct[i], lines) \in 100 - Cardinality(lines)..100
  /\ \A i \in lines : panel.barPct[i] \in panel.totalPct[i]..100

\* The bill has a line of a component exactly while the diagram has its card, and
\* the two call it by the same name, whatever was swapped, reset or removed; no
\* arrow is left without one of its cards.  The page computes cards, arrows and
\* bill from the swaps separately.  What the cost lens says of the bill adds up: the
\* fixed part is within the total, the shares are percentages that reach a hundred
\* but for rounding, and the longest bar is that of the dearest line.
BillFollowsDiagram ==
  LET lines == BillLines
      cards == LiveIds
  IN /\ \A i \in DOMAIN BOM_LINES : BOM_LINES[i].nodeId # NoNode =>
          /\ i \in lines <=> BOM_LINES[i].nodeId \in cards
          /\ i \in lines => LineShows(BOM_LINES[i]) = CardShows(BOM_LINES[i].nodeId)
     /\ \A i \in LiveEdges : {EDGES[i].from, EDGES[i].to} \subseteq cards
     /\ lens = "cost" => AddsUp(CostPanel, lines)

\* The inspector is only ever empty while something is selected when that is a
\* component the reader swapped out, pointed at in the walk-through.
BlankOnlyWhenSwappedOut ==
  selection # Nothing /\ Inspected = Nothing =>
    selection[1] = "node" /\ selection[2] \in DOMAIN overrides

\* Every link of the screen opens an entry, but for the chip of a component that
\* was swapped out; no entry of a lens is left without a link; and the footnote,
\* the decision and the components an open entry names exist.
LinksOpen ==
  /\ \A kind \in {"node", "decision", "bom", "risk", "source", "assumption", "roadmap"} :
       LET entries == Entries(kind) IN
       \A sel \in LensLinks \cup OverviewLinks :
         sel[1] = kind => sel[2] \in entries \/ (narrativeOpen /\ sel[2] \in DOMAIN overrides)
  /\ lens = "risks" => LensLinks = Pick("risk", Ids(RISKS))
  /\ lens = "assumptions" => LensLinks = Pick("assumption", Ids(ASSUMPTIONS))
  /\ lens = "roadmap" => LensLinks = Pick("roadmap", Ids(ROADMAP))
  /\ Inspected # Nothing => /\ Entry.cites \subseteq SOURCES
                            /\ Entry.nodes \subseteq NodeIds
                            /\ Entry.decisions \subseteq Ids(DECISIONS)
  /\ lens = "sequence" => \A m \in Messages : {m[1], m[2]} \subseteq Lifelines

\* A component that was swapped out comes back only with everything else the
\* reader changed: its card, its popover and its inspector are gone with it.
RemovedReturnsByFullReset ==
  [][\A n \in NodeIds : ~Live(n) /\ Live(n)' => DOMAIN overrides' = {}]_vars
=============================================================================
