------------------------- MODULE DecideStudioProofs -------------------------
(***************************************************************************)
(* Proofs about DecideStudio for every design that meets DesignAssumption, *)
(* whatever is swapped and selected, and in whatever order.                *)
(***************************************************************************)
EXTENDS DecideStudio, FiniteSums, TLAPS

-----------------------------------------------------------------------------
(* Swapping.                                                               *)

\* A swap decides of its own component alone whether it is there.
LEMMA OthersStay ==
  ASSUME NEW n, NEW m, m # n,
         overrides' = Without(n) \/ \E o : SetOverride(n, o)
  PROVE  Live(m)' <=> Live(m)
<1>1. (m \in DOMAIN overrides' <=> m \in DOMAIN overrides)
      /\ (m \in DOMAIN overrides => overrides'[m] = overrides[m])
  BY DEF Without, With, SetOverride
<1>2. QED
  BY <1>1 DEF Live, OptionFor, EffectiveOverride, Applying, Enabled, constraints

LEMMA SameSwaps ==
  ASSUME UNCHANGED overrides
  PROVE  \A n : Live(n)' <=> Live(n)
BY DEF Live, OptionFor, EffectiveOverride, Applying, Enabled, constraints

\* A component that is not swapped is there.
LEMMA UnswappedIsLive ==
  ASSUME NEW n \in NodeIds, n \notin DOMAIN overrides
  PROVE  Live(n)
<1>1. HasOptions(n) => OptionFor(n) = DefaultOption(n)
  BY DesignAssumption DEF OptionFor, EffectiveOverride, Applying, Enabled, constraints, HasOptions
<1>2. QED
  BY <1>1, DesignAssumption DEF Live, HasOptions

LEMMA ResetIsLive ==
  ASSUME NEW n \in NodeIds, n \notin DOMAIN overrides'
  PROVE  Live(n)'
<1>1. (HasOptions(n) => OptionFor(n) = DefaultOption(n))'
  BY DesignAssumption DEF OptionFor, EffectiveOverride, Applying, Enabled, constraints, HasOptions,
                          DefaultOption, Ids
<1>2. QED
  BY <1>1, DesignAssumption DEF Live, HasOptions, DefaultOption, NodeIds, Ids

\* The inspector shows a component while it is there.
LEMMA InspectedNode ==
  ASSUME Inspected # Nothing, Inspected[1] = "node"
  PROVE  selection = Inspected /\ Live(Inspected[2])
BY DEF Inspected, Resolves, Entries, LiveIds

\* A component that was swapped out is gone from the diagram, the bill and every link to
\* it, so nothing that acts on one component can bring it back: only the reset of all.
THEOREM OnlyFullResetReturns == Spec => RemovedReturnsByFullReset
<1>1. ASSUME [Next]_vars, NEW n \in NodeIds, ~Live(n), Live(n)'
      PROVE  DOMAIN overrides' = {}
  <2>1. CASE UNCHANGED overrides
    BY <1>1, <2>1, SameSwaps
  <2>2. CASE \E m, o : PickOption(m, o)
    BY <1>1, <2>2, OthersStay DEF PickOption, PopoverOpen
  <2>3. CASE \E m : PopoverReset(m)
    BY <1>1, <2>3, OthersStay DEF PopoverReset, PopoverOpen
  <2>4. CASE InspectorReset
    BY <1>1, <2>4, OthersStay, InspectedNode DEF InspectorReset
  <2>5. CASE ResetTweaks
    BY <2>5 DEF ResetTweaks
  <2>6. QED
    <3>1. CASE (\E l : OpenLens(l) \/ JumpLens(l)) \/ NextLens \/ (\E m : SetMode(m))
               \/ (\E r : JumpToDecision(r))
      BY <3>1, <2>1 DEF OpenLens, JumpLens, NextLens, SetMode, JumpToDecision, design
    <3>2. CASE ClickEntry \/ ClickOverview \/ Clear \/ (\E i : PointAtStep(i))
      BY <3>2, <2>1 DEF ClickEntry, ClickOverview, Clear, PointAtStep, Select, design
    <3>3. CASE ToggleNarrative \/ (\E p : ChoosePath(p)) \/ ToggleBrief \/ TypeBrief
               \/ (\E id : SwitchSample(id)) \/ DismissTour \/ MoveKnob
      BY <3>3, <2>1 DEF ToggleNarrative, ChoosePath, ToggleBrief, TypeBrief, SwitchSample,
                        DismissTour, MoveKnob, design
    <3>4. CASE UNCHANGED vars
      BY <3>4, <2>1 DEF vars
    <3>5. QED
      BY <1>1, <2>2, <2>3, <2>4, <2>5, <3>1, <3>2, <3>3, <3>4 DEF Next
<1>2. [Next]_vars =>
        [\A n \in NodeIds : ~Live(n) /\ Live(n)' => DOMAIN overrides' = {}]_vars
  BY <1>1
<1>3. QED
  BY <1>2, PTL DEF Spec, RemovedReturnsByFullReset

-----------------------------------------------------------------------------
(* Selecting.                                                              *)

\* A selection that opens no entry is a component that was swapped out.
Opens(sel) ==
  /\ sel[1] \in {"node", "decision", "bom", "risk", "source", "assumption", "roadmap"}
  /\ \/ Resolves(sel)
     \/ sel[1] = "node" /\ sel[2] \in NodeIds \cap DOMAIN overrides

SelectionInv == selection # Nothing => Opens(selection)

\* A chip of the walk-through, and the first component of a step.
LEMMA NodeOpens ==
  ASSUME NEW n \in NodeIds
  PROVE  Opens(<<"node", n>>)
<1>1. CASE n \in DOMAIN overrides
  BY <1>1 DEF Opens
<1>2. CASE n \notin DOMAIN overrides
  BY <1>2, UnswappedIsLive DEF Opens, Resolves, Entries, LiveIds
<1>3. QED
  BY <1>1, <1>2

LEMMA LinkOpens ==
  ASSUME NEW sel \in LensLinks \cup OverviewLinks
  PROVE  Opens(sel)
<1>1. CASE sel \in ArchitectureLinks
  <2>1. PICK n : sel = <<"node", n>> /\ (n \in LiveIds \/ n \in Chips)
    BY <1>1 DEF ArchitectureLinks, Pick
  <2>2. n \in NodeIds
    BY <2>1 DEF LiveIds, Chips
  <2>3. QED
    BY <2>1, <2>2, NodeOpens
<1>2. CASE sel \in CostLinks
  BY <1>2 DEF CostLinks, Pick, Opens, Resolves, Entries
<1>3. CASE sel \in RiskLinks
  <2>1. PICK id \in UNION {{r.id : r \in RiskCell(l, i)} : l, i \in Severities} : sel = <<"risk", id>>
    BY <1>3 DEF RiskLinks, Pick
  <2>2. \A l, i : {r.id : r \in RiskCell(l, i)} \subseteq Ids(RISKS)
    BY DEF RiskCell, Items, Ids
  <2>3. id \in Ids(RISKS)
    BY <2>2
  <2>4. QED
    BY <2>1, <2>3 DEF Opens, Resolves, Entries
<1>4. CASE sel \in DecisionLinks
  BY <1>4 DEF DecisionLinks, Pick, Opens, Resolves, Entries
<1>5. CASE sel \in AssumptionLinks
  <2>1. PICK a \in UNION AssumptionGroups : sel = <<"assumption", a.id>>
    BY <1>5 DEF AssumptionLinks, Pick
  <2>2. a.id \in Ids(ASSUMPTIONS)
    BY <2>1 DEF AssumptionGroups, Items, Ids
  <2>3. QED
    BY <2>1, <2>2 DEF Opens, Resolves, Entries
<1>6. CASE sel \in RoadmapLinks
  <2>1. PICK id \in UNION {{r.id : r \in PhaseSteps(p)} : p \in ROADMAP_PHASES} :
          sel = <<"roadmap", id>>
    BY <1>6 DEF RoadmapLinks, Pick
  <2>2. \A p : {r.id : r \in PhaseSteps(p)} \subseteq Ids(ROADMAP)
    BY DEF PhaseSteps, Items, Ids
  <2>3. id \in Ids(ROADMAP)
    BY <2>2
  <2>4. QED
    BY <2>1, <2>3 DEF Opens, Resolves, Entries
<1>7. CASE sel \in OverviewLinks
  BY <1>7 DEF OverviewLinks, Pick, Opens, Resolves, Entries
<1>8. QED
  BY <1>1, <1>2, <1>3, <1>4, <1>5, <1>6, <1>7 DEF LensLinks

\* What opens still opens when no component goes, but for the component that comes back.
LEMMA OpensStays ==
  ASSUME NEW sel, Opens(sel), \A n : Live(n) => Live(n)',
         sel[1] = "node" /\ sel[2] \in NodeIds => Live(sel[2])' \/ sel[2] \in DOMAIN overrides'
  PROVE  Opens(sel)'
<1>1. CASE sel[1] = "node"
  <2>1. sel[2] \in NodeIds
    BY <1>1 DEF Opens, Resolves, Entries, LiveIds
  <2>2. QED
    BY <1>1, <2>1 DEF Opens, Resolves, Entries, LiveIds
<1>2. CASE sel[1] = "bom"
  <2>1. BillLines \subseteq BillLines'
    BY DEF BillLines, Billed
  <2>2. QED
    BY <1>2, <2>1 DEF Opens, Resolves, Entries
<1>3. CASE sel[1] \notin {"node", "bom"}
  BY <1>3 DEF Opens, Resolves, Entries
<1>4. QED
  BY <1>1, <1>2, <1>3

LEMMA SelectionStep == SelectionInv /\ [Next]_vars => SelectionInv'
<1> SUFFICES ASSUME SelectionInv, [Next]_vars PROVE SelectionInv'
  OBVIOUS
<1>1. ASSUME UNCHANGED overrides, NEW sel, Opens(sel) PROVE Opens(sel)'
  <2>1. sel[1] = "node" /\ sel[2] \in NodeIds => Live(sel[2])' \/ sel[2] \in DOMAIN overrides'
    BY <1>1, SameSwaps DEF Opens, Resolves, Entries, LiveIds
  <2>2. QED
    BY <1>1, <2>1, SameSwaps, OpensStays
<1>2. CASE UNCHANGED <<overrides, selection>>
  BY <1>1, <1>2 DEF SelectionInv
<1>3. CASE selection' = Nothing
  BY <1>3 DEF SelectionInv
<1>4. CASE UNCHANGED overrides /\ \E sel : Opens(sel) /\ selection' = sel
  BY <1>1, <1>4 DEF SelectionInv
<1>5. CASE \E r \in Items(ROADMAP) : JumpToDecision(r)
  <2>1. PICK r \in Items(ROADMAP) : JumpToDecision(r)
    BY <1>5
  <2>2. r.decisionId \in Ids(DECISIONS)
    BY <2>1, DesignAssumption DEF JumpToDecision
  <2>3. Opens(<<"decision", r.decisionId>>)
    BY <2>2 DEF Opens, Resolves, Entries
  <2>4. QED
    BY <2>1, <2>3, <1>4 DEF JumpToDecision, design
<1>6. CASE ClickEntry \/ ClickOverview \/ Clear
  <2>1. UNCHANGED overrides
    BY <1>6 DEF ClickEntry, ClickOverview, Clear, Select, design
  <2>2. selection' = Nothing \/ \E sel \in LensLinks \cup OverviewLinks : selection' = sel
    BY <1>6 DEF ClickEntry, ClickOverview, Clear, Select
  <2>3. QED
    BY <2>1, <2>2, <1>3, <1>4, LinkOpens
<1>7. CASE \E i \in DOMAIN FLOW_STEPS : PointAtStep(i)
  <2>1. PICK i \in DOMAIN FLOW_STEPS : PointAtStep(i)
    BY <1>7
  <2>2. PICK n \in {FLOW_STEPS[i][1]} \cup (Items(FLOW_STEPS[i]) \cap Chips) :
          Select(<<"node", n>>)
    BY <2>1 DEF PointAtStep
  <2>3. n \in NodeIds
    BY DesignAssumption DEF Chips
  <2>4. QED
    BY <2>2, <2>3, NodeOpens, <1>4 DEF Select, design
<1>8. CASE \E n, o : PickOption(n, o)
  BY <1>8, <1>3 DEF PickOption
<1>9. CASE \E n : PopoverReset(n)
  BY <1>9, <1>3 DEF PopoverReset
<1>10. CASE InspectorReset
  <2>1. PICK n : /\ n = selection[2] /\ selection[1] = "node" /\ Live(n)
                 /\ overrides' = Without(n) /\ selection' = selection
    BY <1>10, InspectedNode DEF InspectorReset
  <2>2. n \in NodeIds /\ n \notin DOMAIN overrides'
    BY <2>1 DEF Live, Without
  <2>3. Live(n)'
    BY <2>2, ResetIsLive
  <2>4. QED
    BY <2>1, <2>2, <2>3 DEF SelectionInv, Opens, Resolves, Entries, LiveIds, NodeIds, Ids
<1>11. CASE ResetTweaks
  <2>1. overrides' = <<>> /\ selection' = selection
    BY <1>11 DEF ResetTweaks
  <2>2. DOMAIN overrides' = {}
    BY <2>1
  <2>3. \A n \in NodeIds : Live(n)'
    BY <2>2, ResetIsLive
  <2>4. \A n : Live(n) => Live(n)'
    BY <2>3 DEF Live
  <2>5. ASSUME selection # Nothing PROVE Opens(selection)'
    BY <2>1, <2>3, <2>4, <2>5, OpensStays DEF SelectionInv
  <2>6. QED
    BY <2>1, <2>5 DEF SelectionInv
<1>12. QED
  <2>1. CASE (\E l : OpenLens(l) \/ JumpLens(l)) \/ NextLens \/ (\E m : SetMode(m))
    BY <2>1, <1>2 DEF OpenLens, JumpLens, NextLens, SetMode, design
  <2>2. CASE ToggleNarrative \/ (\E p : ChoosePath(p)) \/ ToggleBrief \/ TypeBrief
             \/ (\E id : SwitchSample(id)) \/ DismissTour \/ MoveKnob
    BY <2>2, <1>2 DEF ToggleNarrative, ChoosePath, ToggleBrief, TypeBrief, SwitchSample,
                      DismissTour, MoveKnob, design
  <2>3. QED
    BY <1>2, <1>5, <1>6, <1>7, <1>8, <1>9, <1>10, <1>11, <2>1, <2>2 DEF Next, vars

\* The selection outlives the lens it was made in, the swaps made since and their reset;
\* the inspector is still never blank, but for a component that was swapped out.
THEOREM InspectorShowsSelection == Spec => []BlankOnlyWhenSwappedOut
<1>1. Init => SelectionInv
  BY DEF Init, SelectionInv
<1>2. SelectionInv => BlankOnlyWhenSwappedOut
  BY DEF SelectionInv, Opens, Inspected, BlankOnlyWhenSwappedOut
<1>3. QED
  BY <1>1, <1>2, SelectionStep, PTL DEF Spec

-----------------------------------------------------------------------------
(* The types.                                                              *)

\* A swap and its undoing leave options of their components.
SwapsOK ==
  /\ DOMAIN overrides \subseteq DOMAIN COMPONENT_OPTIONS
  /\ \A n \in DOMAIN overrides : overrides[n] \in Ids(COMPONENT_OPTIONS[n]) \ {DefaultOption(n).id}

LEMMA WithoutKeepsSwaps ==
  ASSUME SwapsOK, NEW n, overrides' = Without(n)
  PROVE  SwapsOK'
<1>1. /\ DOMAIN overrides' = DOMAIN overrides \ {n}
      /\ \A m \in DOMAIN overrides' : overrides'[m] = overrides[m]
  BY DEF Without
<1>2. QED
  BY <1>1 DEF SwapsOK, Ids, DefaultOption

LEMMA WithKeepsSwaps ==
  ASSUME SwapsOK, NEW n \in DOMAIN COMPONENT_OPTIONS,
         NEW o \in Ids(COMPONENT_OPTIONS[n]) \ {DefaultOption(n).id}, overrides' = With(n, o)
  PROVE  SwapsOK'
<1>1. /\ DOMAIN overrides' = DOMAIN overrides \cup {n} /\ overrides'[n] = o
      /\ \A m \in DOMAIN overrides \ {n} : overrides'[m] = overrides[m]
  BY DEF With
<1>2. QED
  BY <1>1 DEF SwapsOK, Ids, DefaultOption

LEMMA SwapsStep == SwapsOK /\ [Next]_vars => SwapsOK'
<1> SUFFICES ASSUME SwapsOK, [Next]_vars PROVE SwapsOK'
  OBVIOUS
<1>1. CASE UNCHANGED overrides
  BY <1>1 DEF SwapsOK, Ids, DefaultOption
<1>2. ASSUME NEW n \in DOMAIN COMPONENT_OPTIONS, NEW o \in Ids(COMPONENT_OPTIONS[n]), PickOption(n, o)
      PROVE  SwapsOK'
  <2>1. SetOverride(n, o)
    BY <1>2 DEF PickOption
  <2>2. CASE o = DefaultOption(n).id
    BY <2>1, <2>2, WithoutKeepsSwaps DEF SetOverride
  <2>3. CASE o # DefaultOption(n).id
    BY <2>1, <2>3, WithKeepsSwaps DEF SetOverride
  <2>4. QED
    BY <2>2, <2>3
<1>3. CASE (\E n : PopoverReset(n)) \/ InspectorReset
  BY <1>3, WithoutKeepsSwaps DEF PopoverReset, InspectorReset
<1>4. CASE ResetTweaks
  <2>1. overrides' = <<>>
    BY <1>4 DEF ResetTweaks
  <2>2. DOMAIN overrides' = {}
    BY <2>1
  <2>3. QED
    BY <2>2 DEF SwapsOK
<1>5. QED
  <2>1. CASE (\E l : OpenLens(l) \/ JumpLens(l)) \/ NextLens \/ (\E m : SetMode(m))
             \/ (\E r : JumpToDecision(r))
    BY <2>1, <1>1 DEF OpenLens, JumpLens, NextLens, SetMode, JumpToDecision, design
  <2>2. CASE ClickEntry \/ ClickOverview \/ Clear \/ (\E i : PointAtStep(i))
    BY <2>2, <1>1 DEF ClickEntry, ClickOverview, Clear, PointAtStep, Select, design
  <2>3. CASE ToggleNarrative \/ (\E p : ChoosePath(p)) \/ ToggleBrief \/ TypeBrief
             \/ (\E id : SwitchSample(id)) \/ DismissTour \/ MoveKnob
    BY <2>3, <1>1 DEF ToggleNarrative, ChoosePath, ToggleBrief, TypeBrief, SwitchSample,
                      DismissTour, MoveKnob, design
  <2>4. CASE UNCHANGED vars
    BY <2>4, <1>1 DEF vars
  <2>5. QED
    BY <1>2, <1>3, <1>4, <2>1, <2>2, <2>3, <2>4 DEF Next

\* What is on the screen.
ScreenOK ==
  /\ {users, rps, gb} \subseteq Scales
  /\ lens \in Lenses /\ mode \in {"lens", "story"}
  /\ selection = Nothing \/ selection \in Pointed
  /\ narrativeOpen \in BOOLEAN /\ path \in {"happy", "error"}
  /\ briefOpen \in BOOLEAN /\ toured \subseteq Lenses

LEMMA LensNames ==
  /\ {"architecture", "decisions"} \cup StoryLenses \subseteq Lenses
  /\ lens \in Lenses /\ LensIndex < Len(LENSES) => LENSES[LensIndex + 1] \in Lenses
<1>1. DOMAIN LENSES = 1..8 /\ Len(LENSES) = 8
  BY DEF LENSES
<1>2. /\ LENSES[1] = "architecture" /\ LENSES[2] = "cost" /\ LENSES[3] = "risks"
      /\ LENSES[4] = "decisions" /\ LENSES[6] = "package" /\ LENSES[7] = "assumptions"
      /\ LENSES[8] = "roadmap"
  BY DEF LENSES
<1>3. {"architecture", "decisions"} \cup StoryLenses \subseteq Lenses
  BY <1>1, <1>2 DEF StoryLenses, Lenses
<1>4. lens \in Lenses => LensIndex \in DOMAIN LENSES
  BY DEF LensIndex, Lenses
<1>5. QED
  BY <1>1, <1>3, <1>4 DEF Lenses

LEMMA ShowKeepsScreen ==
  ASSUME ScreenOK, NEW l \in Lenses, NEW m \in {"lens", "story"}, Show(l, m),
         UNCHANGED <<design, selection, asides>>
  PROVE  ScreenOK'
BY DEF Show, ScreenOK, design, asides

LEMMA SelectKeepsScreen ==
  ASSUME ScreenOK, NEW sel, sel = Nothing \/ sel \in Pointed, Select(sel)
  PROVE  ScreenOK'
BY DEF Select, ScreenOK, design, screen, asides

LEMMA ScreenStep == ScreenOK /\ [Next]_vars => ScreenOK'
<1> SUFFICES ASSUME ScreenOK, [Next]_vars PROVE ScreenOK'
  OBVIOUS
<1>1. CASE (\E l \in Lenses : OpenLens(l)) \/ (\E l \in StoryLenses : JumpLens(l))
           \/ (\E m \in {"lens", "story"} : SetMode(m))
  <2>1. \E l \in Lenses, m \in {"lens", "story"} : Show(l, m)
    BY <1>1, LensNames DEF OpenLens, JumpLens, SetMode, ScreenOK
  <2>2. UNCHANGED <<design, selection, asides>>
    BY <1>1 DEF OpenLens, JumpLens, SetMode
  <2>3. QED
    BY <2>1, <2>2, ShowKeepsScreen
<1>2. CASE NextLens
  <2>1. LENSES[LensIndex + 1] \in Lenses
    BY <1>2, LensNames DEF NextLens, ScreenOK
  <2>2. QED
    BY <1>2, <2>1, ShowKeepsScreen DEF NextLens
<1>3. CASE \E r : JumpToDecision(r)
  <2>1. PICK r : JumpToDecision(r)
    BY <1>3
  <2>2. Show("decisions", "lens") /\ selection' \in Pointed /\ UNCHANGED <<design, asides>>
    BY <2>1 DEF JumpToDecision
  <2>3. "decisions" \in Lenses
    BY LensNames
  <2>4. QED
    BY <2>2, <2>3 DEF Show, ScreenOK, design, asides
<1>4. CASE ClickEntry \/ ClickOverview \/ Clear \/ (\E i : PointAtStep(i))
  BY <1>4, SelectKeepsScreen DEF ClickEntry, ClickOverview, Clear, PointAtStep
<1>5. CASE ToggleNarrative \/ (\E p \in {"happy", "error"} : ChoosePath(p)) \/ MoveKnob
  BY <1>5 DEF ToggleNarrative, ChoosePath, MoveKnob, ScreenOK, design, screen, asides
<1>6. CASE (\E n, o : PickOption(n, o)) \/ (\E n : PopoverReset(n)) \/ InspectorReset \/ ResetTweaks
  BY <1>6 DEF PickOption, PopoverReset, InspectorReset, ResetTweaks, ScreenOK, screen, asides
<1>7. CASE ToggleBrief \/ TypeBrief \/ (\E id : SwitchSample(id)) \/ DismissTour
  BY <1>7 DEF ToggleBrief, TypeBrief, SwitchSample, DismissTour, ScreenOK, design, screen
<1>8. CASE UNCHANGED vars
  BY <1>8 DEF vars, ScreenOK
<1>9. QED
  BY <1>1, <1>2, <1>3, <1>4, <1>5, <1>6, <1>7, <1>8 DEF Next

\* For every design: a swap is always of a component that has options, and for one of them
\* other than the first, so "swapped" and "has an entry in overrides" are the same; and the
\* knobs, the lens and the selection are ones the page offers.
THEOREM TypeCorrect ==
  ASSUME 1 \in Scales
  PROVE  Spec => []TypeOK
<1>1. Init => SwapsOK /\ ScreenOK
  <2>1. SUFFICES ASSUME Init PROVE SwapsOK /\ ScreenOK
    OBVIOUS
  <2>2. overrides = <<>>
    BY <2>1 DEF Init
  <2>3. DOMAIN overrides = {}
    BY <2>2
  <2>4. SwapsOK
    BY <2>3 DEF SwapsOK
  <2>5. ScreenOK
    BY <2>1, LensNames DEF Init, ScreenOK
  <2>6. QED
    BY <2>4, <2>5
<1>2. SwapsOK /\ ScreenOK => TypeOK
  BY DEF SwapsOK, ScreenOK, TypeOK
<1>3. QED
  BY <1>1, <1>2, SwapsStep, ScreenStep, PTL DEF Spec

-----------------------------------------------------------------------------
(* Following links.                                                        *)

\* What the data of a design names is there: sources, components, the severities of the
\* heat map, the phases of the roadmap and the lifelines of the sequence.
DesignNamesWhatExists ==
  /\ \A list \in {NODES, DECISIONS, BOM_LINES, RISKS} : \A e \in Items(list) : e.cite \in SOURCES
  /\ \A n \in Items(NODES) : n.failureDomain \subseteq NodeIds
  /\ \A r \in Items(RISKS) : r.likelihood \in Severities /\ r.impact \in Severities
  /\ \A r \in Items(ROADMAP) : r.phase \in ROADMAP_PHASES
  /\ \A m \in Items(ERROR_PATH) : m.from \in Lifelines /\ m.to \in Lifelines

\* A link that opens nothing is a chip of the walk-through.
LEMMA LinkResolves ==
  ASSUME NEW sel \in LensLinks \cup OverviewLinks
  PROVE  Resolves(sel) \/ (narrativeOpen /\ sel[2] \in DOMAIN overrides)
<1>1. Opens(sel)
  BY LinkOpens
<1>2. sel[1] = "node" => sel \in ArchitectureLinks
  BY DEF LensLinks, OverviewLinks, CostLinks, RiskLinks, DecisionLinks, AssumptionLinks,
         RoadmapLinks, Pick
<1>3. sel \in ArchitectureLinks => sel[1] = "node" /\ (sel[2] \in LiveIds \/ narrativeOpen)
  BY DEF ArchitectureLinks, Pick
<1>4. sel[1] = "node" /\ sel[2] \in LiveIds => Resolves(sel)
  BY DEF Resolves, Entries
<1>5. QED
  BY <1>1, <1>2, <1>3, <1>4 DEF Opens

AllRisks == UNION {{r.id : r \in RiskCell(l, i)} : l, i \in Severities}

\* Each of the lenses that group their entries lists every one of them.
LEMMA LensListsAll ==
  ASSUME DesignNamesWhatExists
  PROVE  /\ lens = "risks" => LensLinks = Pick("risk", Ids(RISKS))
         /\ lens = "assumptions" => LensLinks = Pick("assumption", Ids(ASSUMPTIONS))
         /\ lens = "roadmap" => LensLinks = Pick("roadmap", Ids(ROADMAP))
<1>1. AllRisks = Ids(RISKS)
  <2>1. Ids(RISKS) = {r.id : r \in Items(RISKS)}
    BY DEF Ids, Items
  <2>2. \A l, i : {r.id : r \in RiskCell(l, i)} \subseteq Ids(RISKS)
    BY <2>1 DEF RiskCell
  <2>3. \A id \in AllRisks : id \in Ids(RISKS)
    BY <2>2 DEF AllRisks
  <2>4. ASSUME NEW l \in Severities, NEW i \in Severities
        PROVE  {r.id : r \in RiskCell(l, i)} \subseteq AllRisks
    <3> DEFINE T == {r.id : r \in RiskCell(l, i)}
    <3>1. T \in {{r.id : r \in RiskCell(a, b)} : a, b \in Severities}
      OBVIOUS
    <3> HIDE DEF T
    <3>2. T \subseteq AllRisks
      BY <3>1 DEF AllRisks
    <3>3. QED
      BY <3>2 DEF T
  <2>5. \A r \in Items(RISKS) : r.id \in AllRisks
    BY <2>4 DEF RiskCell, DesignNamesWhatExists
  <2>6. QED
    BY <2>1, <2>3, <2>5
<1>2. {a.id : a \in UNION AssumptionGroups} = Ids(ASSUMPTIONS)
  <2>1. UNION AssumptionGroups = Items(ASSUMPTIONS)
    BY DEF AssumptionGroups
  <2>2. QED
    BY <2>1 DEF Ids, Items
<1>3. UNION {{r.id : r \in PhaseSteps(p)} : p \in ROADMAP_PHASES} = Ids(ROADMAP)
  <2>1. ASSUME NEW r \in Items(ROADMAP) PROVE \E p \in ROADMAP_PHASES : r \in PhaseSteps(p)
    BY <2>1 DEF PhaseSteps, DesignNamesWhatExists
  <2>2. Ids(ROADMAP) = {r.id : r \in Items(ROADMAP)}
    BY DEF Ids, Items
  <2>3. \A p : PhaseSteps(p) \subseteq Items(ROADMAP)
    BY DEF PhaseSteps
  <2>4. QED
    BY <2>1, <2>2, <2>3
<1>4. lens = "risks" => LensLinks = RiskLinks
  BY DEF LensLinks
<1>5. lens = "assumptions" => LensLinks = AssumptionLinks
  BY DEF LensLinks
<1>6. lens = "roadmap" => LensLinks = RoadmapLinks
  BY DEF LensLinks
<1>7. /\ RiskLinks = Pick("risk", Ids(RISKS)) /\ AssumptionLinks = Pick("assumption", Ids(ASSUMPTIONS))
      /\ RoadmapLinks = Pick("roadmap", Ids(ROADMAP))
  <2>1. RiskLinks = Pick("risk", Ids(RISKS))
    <3>1. RiskLinks = Pick("risk", AllRisks)
      <4>1. \A sel \in RiskLinks : sel \in Pick("risk", AllRisks)
        BY DEF RiskLinks, AllRisks, Pick
      <4>2. \A sel \in Pick("risk", AllRisks) : sel \in RiskLinks
        BY DEF RiskLinks, AllRisks, Pick
      <4>3. QED
        BY <4>1, <4>2
    <3>2. QED
      BY <1>1, <3>1
  <2>2. AssumptionLinks = Pick("assumption", Ids(ASSUMPTIONS))
    BY <1>2, Zenon DEF AssumptionLinks
  <2>3. RoadmapLinks = Pick("roadmap", Ids(ROADMAP))
    BY <1>3, Zenon DEF RoadmapLinks
  <2>4. QED
    BY <2>1, <2>2, <2>3
<1>8. QED
  BY <1>4, <1>5, <1>6, <1>7

\* An entry that is looked up by an id of its list is of the list.
LEMMA FindFinds ==
  ASSUME NEW list, NEW id \in Ids(list)
  PROVE  Find(list, id) \in Items(list)
<1>1. \E i \in DOMAIN list : list[i].id = id
  BY DEF Ids
<1>2. QED
  BY <1>1 DEF Find, Items

LEMMA EntryNamesWhatExists ==
  ASSUME DesignNamesWhatExists, SelectionInv, Inspected # Nothing
  PROVE  /\ Entry.cites \subseteq SOURCES /\ Entry.nodes \subseteq NodeIds
         /\ Entry.decisions \subseteq Ids(DECISIONS)
<1>1. /\ Inspected = selection /\ Resolves(selection)
      /\ selection[1] \in {"node", "decision", "bom", "risk", "source", "assumption", "roadmap"}
  BY DEF Inspected, SelectionInv, Opens
<1> DEFINE kind == selection[1]
           id == selection[2]
<1>2. CASE kind = "node"
  <2>1. Entry = NodeEntry(id)
    BY <1>1, <1>2 DEF Entry
  <2>2. Find(NODES, id) \in Items(NODES)
    BY <1>1, <1>2, FindFinds DEF Resolves, Entries, LiveIds, NodeIds
  <2>3. QED
    BY <2>1, <2>2 DEF NodeEntry, Names, DesignNamesWhatExists
<1>3. CASE kind = "decision"
  <2>1. Entry = DecisionEntry(id)
    BY <1>1, <1>3 DEF Entry
  <2>2. Find(DECISIONS, id) \in Items(DECISIONS)
    BY <1>1, <1>3, FindFinds DEF Resolves, Entries
  <2>3. QED
    BY <2>1, <2>2 DEF DecisionEntry, Names, DesignNamesWhatExists
<1>4. CASE kind = "bom"
  <2>1. Entry = BomEntry(id)
    BY <1>1, <1>4 DEF Entry
  <2>2. id \in Ids(BOM_LINES)
    BY <1>1, <1>4 DEF Resolves, Entries, BillLines, Ids
  <2>3. Find(BOM_LINES, id) \in Items(BOM_LINES)
    BY <2>2, FindFinds
  <2>4. QED
    BY <2>1, <2>3 DEF BomEntry, Names, DesignNamesWhatExists
<1>5. CASE kind = "risk"
  <2>1. Entry = RiskEntry(id)
    BY <1>1, <1>5 DEF Entry
  <2>2. Find(RISKS, id) \in Items(RISKS)
    BY <1>1, <1>5, FindFinds DEF Resolves, Entries
  <2>3. QED
    BY <2>1, <2>2 DEF RiskEntry, Names, DesignNamesWhatExists
<1>6. CASE kind = "source"
  <2>1. Entry = SourceEntry(id) /\ id \in SOURCES
    BY <1>1, <1>6 DEF Entry, Resolves, Entries
  <2>2. QED
    BY <2>1 DEF SourceEntry, Names
<1>7. CASE kind = "assumption"
  <2>1. Entry = AssumptionEntry
    BY <1>1, <1>7 DEF Entry
  <2>2. QED
    BY <2>1 DEF AssumptionEntry, Names
<1>8. CASE kind = "roadmap"
  <2>1. Entry = RoadmapEntry(id)
    BY <1>1, <1>8 DEF Entry
  <2>2. Find(ROADMAP, id) \in Items(ROADMAP)
    BY <1>1, <1>8, FindFinds DEF Resolves, Entries
  <2>3. QED
    BY <2>1, <2>2, DesignAssumption DEF RoadmapEntry, Names
<1>9. QED
  BY <1>1, <1>2, <1>3, <1>4, <1>5, <1>6, <1>7, <1>8

LEMMA MessagesHaveLifelines ==
  ASSUME DesignNamesWhatExists
  PROVE  \A m \in Messages : {m[1], m[2]} \subseteq Lifelines
<1>1. \A m \in Items(HappyMessages) : m[1] \in Lifelines /\ m[2] \in Lifelines
  <2>1. DOMAIN HappyMessages = 1..8
    BY DEF HappyMessages
  <2>2. \A i \in 1..8 : HappyMessages[i][1] \in Lifelines /\ HappyMessages[i][2] \in Lifelines
    BY DEF HappyMessages, Lifelines
  <2>3. QED
    BY <2>1, <2>2 DEF Items
<1>2. \A m \in {<<e.from, e.to>> : e \in Items(ERROR_PATH)} : m[1] \in Lifelines /\ m[2] \in Lifelines
  BY DEF DesignNamesWhatExists
<1>3. QED
  BY <1>1, <1>2 DEF Messages

\* For every design whose data names what exists: however it was swapped, whatever lens is
\* open and whatever is selected from before, a link of the screen opens an entry unless it
\* is the chip of a component that was swapped out, the lenses that group their entries
\* leave none out, and what an open entry refers to is there.
THEOREM LinksLead ==
  ASSUME DesignNamesWhatExists
  PROVE  Spec => []LinksOpen
<1>1. Init => SelectionInv
  BY DEF Init, SelectionInv
<1>2. SelectionInv => LinksOpen
  <2>1. SUFFICES ASSUME SelectionInv PROVE LinksOpen
    OBVIOUS
  <2>2. \A sel \in LensLinks \cup OverviewLinks :
          sel[2] \in Entries(sel[1]) \/ (narrativeOpen /\ sel[2] \in DOMAIN overrides)
    BY LinkResolves DEF Resolves
  <2>3. QED
    BY <2>1, <2>2, LensListsAll, EntryNamesWhatExists, MessagesHaveLifelines DEF LinksOpen
<1>3. QED
  BY <1>1, <1>2, SelectionStep, PTL DEF Spec

-----------------------------------------------------------------------------
(* The bill.                                                               *)

\* What the data of a design has for the bill: finitely many lines, what they cost no less
\* than nothing, and one that is of no component and costs something at the least scale.
DesignHasBill ==
  /\ Scales \subseteq Nat \ {0}
  /\ IsFiniteSet(DOMAIN BOM_LINES)
  /\ \A l \in Items(BOM_LINES) :
       /\ l.base \in Nat /\ l.freeTierPct \in 0..100
       /\ l.per.users \in Nat /\ l.per.rps \in Nat /\ l.per.gb \in Nat
  /\ \A n \in DOMAIN COMPONENT_OPTIONS :
       /\ 1 \in DOMAIN COMPONENT_OPTIONS[n]
       /\ \A o \in Items(COMPONENT_OPTIONS[n]) : o.costMul \in Nat
  /\ \E l \in Items(BOM_LINES) : l.nodeId = NoNode /\ l.base > 0

\* With no constraint on, nothing costs extra.
LEMMA NoConstraintNoSurcharge == GlobalCostMul = 100
<1>1. Enabled = {}
  BY DEF Enabled, constraints
<1> DEFINE IsFold(g) ==
      g = [s \in SUBSET {} |->
             IF s = {} THEN 100
             ELSE (g[s \ {CHOOSE x \in s : TRUE}]
                     * ORG_CONSTRAINTS[CHOOSE x \in s : TRUE].globalCostMul) \div 100]
    h == CHOOSE g : IsFold(g)
<1>2. IsFold([s \in SUBSET {} |-> 100])
  OBVIOUS
<1>3. IsFold(h)
  BY <1>2
<1>4. h[{}] = 100
  BY <1>3
<1>5. FoldSet(LAMBDA i, m : (m * ORG_CONSTRAINTS[i].globalCostMul) \div 100, 100, {}) = h[{}]
  BY DEF FoldSet, MapThenFoldSet
<1>6. QED
  BY <1>1, <1>4, <1>5 DEF GlobalCostMul

LEMMA KnobsCount ==
  ASSUME DesignHasBill, ScreenOK
  PROVE  users - 1 \in Nat /\ rps - 1 \in Nat /\ gb - 1 \in Nat
<1>1. users \in Nat \ {0} /\ rps \in Nat \ {0} /\ gb \in Nat \ {0}
  BY DEF DesignHasBill, ScreenOK
<1>2. QED
  BY <1>1

\* The option of a component is one of its list.
LEMMA OptionIsListed ==
  ASSUME DesignHasBill, NEW n, HasOptions(n)
  PROVE  OptionFor(n) \in Items(COMPONENT_OPTIONS[n])
<1> DEFINE list == COMPONENT_OPTIONS[n]
<1>1. DefaultOption(n) \in Items(list)
  BY DEF DesignHasBill, HasOptions, DefaultOption, Items
<1>2. \A id \in Ids(list) : Find(list, id) \in Items(list)
  BY FindFinds
<1>3. QED
  BY <1>1, <1>2 DEF OptionFor

\* No line costs less than nothing, or, of no component, less than its base.
LEMMA LineCosts ==
  ASSUME DesignHasBill, ScreenOK, NEW i \in DOMAIN BOM_LINES
  PROVE  /\ LineCost(BOM_LINES[i]) \in Nat
         /\ BOM_LINES[i].nodeId = NoNode => BOM_LINES[i].base <= LineCost(BOM_LINES[i])
<1> DEFINE l == BOM_LINES[i]
           more == l.per.users * (users - 1) + l.per.rps * (rps - 1) + l.per.gb * (gb - 1)
           mul == IF l.nodeId # NoNode /\ HasOptions(l.nodeId) THEN OptionFor(l.nodeId).costMul
                                                               ELSE 100
<1>1. l \in Items(BOM_LINES)
  BY DEF Items
<1>2. l.base \in Nat /\ l.per.users \in Nat /\ l.per.rps \in Nat /\ l.per.gb \in Nat
  BY <1>1 DEF DesignHasBill
<1>3. mul \in Nat
  BY OptionIsListed DEF DesignHasBill, HasOptions
<1>4. more \in Nat
  <2>1. users - 1 \in Nat /\ rps - 1 \in Nat /\ gb - 1 \in Nat
    BY KnobsCount
  <2>2. \A a, b \in Nat : a * b \in Nat
    OBVIOUS
  <2>3. l.per.users * (users - 1) \in Nat /\ l.per.rps * (rps - 1) \in Nat
        /\ l.per.gb * (gb - 1) \in Nat
    BY <1>2, <2>1, <2>2
  <2>4. QED
    BY <2>3
<1>5. LineCost(l) = ((((l.base + more) * mul) \div 100) * 100) \div 100
  <2>1. l.base + l.per.users * (users - 1) + l.per.rps * (rps - 1) + l.per.gb * (gb - 1)
          = l.base + more
    <3>1. users - 1 \in Nat /\ rps - 1 \in Nat /\ gb - 1 \in Nat
      BY KnobsCount
    <3>2. \A a, b, c, d \in Int : a + b + c + d = a + (b + c + d)
      OBVIOUS
    <3>3. \A a, b \in Nat : a * b \in Int
      OBVIOUS
    <3>4. l.per.users * (users - 1) \in Int /\ l.per.rps * (rps - 1) \in Int
          /\ l.per.gb * (gb - 1) \in Int /\ l.base \in Int
      BY <1>2, <3>1, <3>3
    <3>5. QED
      BY <3>2, <3>4
  <2>2. QED
    BY <2>1, NoConstraintNoSurcharge DEF LineCost
<1>6. l.nodeId = NoNode => mul = 100
  OBVIOUS
<1> HIDE DEF l, more, mul
<1>7. (l.base + more) * mul \in Nat
  BY <1>2, <1>3, <1>4
<1>8. LineCost(l) = ((l.base + more) * mul) \div 100
  BY <1>5, <1>7
<1>9. LineCost(l) \in Nat
  BY <1>7, <1>8, Quotient
<1>10. mul = 100 => LineCost(l) = l.base + more
  BY <1>2, <1>4, <1>8
<1>11. QED
  BY <1>2, <1>4, <1>6, <1>9, <1>10 DEF l

\* What a set of lines costs is the amount of the bill in it.
LEMMA CostIsAmount ==
  ASSUME DesignHasBill, ScreenOK, NEW A \in SUBSET BillLines
  PROVE  CostOf(A) = Amount(Bill, A)
<1>1. IsFiniteSet(A)
  BY FS_Subset DEF DesignHasBill, BillLines
<1>2. \A i \in A : Bill[i] = LineCost(BOM_LINES[i]) /\ Bill[i] \in Nat
  BY LineCosts DEF Bill, BillLines
<1> DEFINE Folds(g) ==
      g = [s \in SUBSET A |->
             IF s = {} THEN 0
             ELSE LineCost(BOM_LINES[CHOOSE x \in s : TRUE]) + g[s \ {CHOOSE x \in s : TRUE}]]
<1>3. CostOf(A) = (CHOOSE g : Folds(g))[A]
  BY DEF CostOf, MapThenSumSet, MapThenFoldSet
<1>4. ASSUME NEW g PROVE Folds(g) <=> Sums(g, Bill, A)
  <2>1. \A s \in SUBSET A : s # {} => LineCost(BOM_LINES[Some(s)]) = Bill[Some(s)]
    BY <1>2 DEF Some
  <2>2. QED
    BY <2>1 DEF Sums, Some
<1>5. (CHOOSE g : Folds(g)) = (CHOOSE g : Sums(g, Bill, A))
  BY <1>4
<1>6. Amount(Bill, A) = (CHOOSE g : Sums(g, Bill, A))[A]
  BY <1>1, <1>2, SumIsAmount
<1>7. QED
  BY <1>3, <1>5, <1>6

\* What of the bill is free, in hundredths.
FreeOf(bill) == [i \in DOMAIN bill |-> BOM_LINES[i].freeTierPct * bill[i]]

LEMMA FreeIsAmount ==
  ASSUME DesignHasBill, ScreenOK
  PROVE  /\ \A i \in BillLines : FreeOf(Bill)[i] \in Nat /\ FreeOf(Bill)[i] <= 100 * Bill[i]
         /\ MapThenSumSet(LAMBDA i : BOM_LINES[i].freeTierPct * Bill[i], DOMAIN Bill)
              = Amount(FreeOf(Bill), BillLines)
<1> DEFINE A == BillLines
           f == FreeOf(Bill)
<1>1. IsFiniteSet(A) /\ DOMAIN Bill = A
  BY FS_Subset DEF DesignHasBill, BillLines, Bill
<1>2. ASSUME NEW i \in A
      PROVE  /\ f[i] = BOM_LINES[i].freeTierPct * Bill[i]
             /\ f[i] \in Nat /\ f[i] <= 100 * Bill[i]
  <2>1. Bill[i] \in Nat /\ BOM_LINES[i].freeTierPct \in 0..100
    BY LineCosts DEF Bill, BillLines, DesignHasBill, Items
  <2>2. \A a \in 0..100, b \in Nat : a * b \in Nat /\ a * b <= 100 * b
    OBVIOUS
  <2>3. f[i] = BOM_LINES[i].freeTierPct * Bill[i]
    BY <1>1 DEF FreeOf
  <2>4. QED
    BY <2>1, <2>2, <2>3
<1> DEFINE Folds(g) ==
      g = [s \in SUBSET A |->
             IF s = {} THEN 0
             ELSE BOM_LINES[CHOOSE x \in s : TRUE].freeTierPct * Bill[CHOOSE x \in s : TRUE]
                    + g[s \ {CHOOSE x \in s : TRUE}]]
<1>3. MapThenSumSet(LAMBDA i : BOM_LINES[i].freeTierPct * Bill[i], A) = (CHOOSE g : Folds(g))[A]
  BY DEF MapThenSumSet, MapThenFoldSet
<1>4. ASSUME NEW g PROVE Folds(g) <=> Sums(g, f, A)
  <2>1. \A s \in SUBSET A :
          s # {} => BOM_LINES[Some(s)].freeTierPct * Bill[Some(s)] = f[Some(s)]
    BY <1>2 DEF Some
  <2>2. QED
    BY <2>1 DEF Sums, Some
<1>5. (CHOOSE g : Folds(g)) = (CHOOSE g : Sums(g, f, A))
  BY <1>4
<1>6. Amount(f, A) = (CHOOSE g : Sums(g, f, A))[A]
  BY <1>1, <1>2, SumIsAmount
<1>7. QED
  BY <1>1, <1>2, <1>3, <1>5, <1>6

\* The bill costs something, and so does its dearest line.
LEMMA DearestLine ==
  ASSUME DesignHasBill, ScreenOK
  PROVE  /\ DearestCost \in Nat /\ 0 < DearestCost /\ DearestCost <= Amount(Bill, BillLines)
         /\ \A i \in BillLines : Bill[i] <= DearestCost
<1> DEFINE Costs == {LineCost(BOM_LINES[i]) : i \in BillLines}
<1>1. IsFiniteSet(BillLines) /\ \A i \in BillLines : Bill[i] \in Nat
  BY LineCosts, FS_Subset DEF Bill, BillLines, DesignHasBill
<1>2. PICK i \in BillLines : Bill[i] > 0
  <2>1. PICK i \in DOMAIN BOM_LINES : BOM_LINES[i].nodeId = NoNode /\ BOM_LINES[i].base > 0
    BY DEF DesignHasBill, Items
  <2>2. i \in BillLines
    BY <2>1 DEF BillLines, Billed
  <2>3. LineCost(BOM_LINES[i]) \in Nat /\ BOM_LINES[i].base <= LineCost(BOM_LINES[i])
    BY <2>1, LineCosts
  <2>4. BOM_LINES[i].base \in Nat
    BY DEF DesignHasBill, Items
  <2>5. Bill[i] = LineCost(BOM_LINES[i])
    BY <2>2 DEF Bill
  <2>6. QED
    BY <2>1, <2>2, <2>3, <2>4, <2>5
<1>3. PICK most \in BillLines : \A j \in BillLines : Bill[j] <= Bill[most]
  BY <1>1, <1>2, MostExists
<1>4. Costs = {Bill[j] : j \in BillLines}
  BY DEF Bill
<1>5. DearestCost \in Costs /\ \A x \in Costs : DearestCost >= x
  <2>1. \E x \in Costs : \A y \in Costs : x >= y
    BY <1>1, <1>3, <1>4
  <2>2. DearestCost = CHOOSE x \in Costs : \A y \in Costs : x >= y
    BY DEF DearestCost, Max
  <2> HIDE DEF Costs
  <2>3. QED
    BY <2>1, <2>2
<1>6. PICK d \in BillLines : DearestCost = Bill[d]
  BY <1>4, <1>5
<1>7. \A j \in BillLines : Bill[j] <= DearestCost
  BY <1>1, <1>4, <1>5, <1>6
<1>8. Bill[d] <= Amount(Bill, BillLines)
  BY <1>1, AmountGrows
<1>9. QED
  BY <1>1, <1>2, <1>6, <1>7, <1>8

\* What the panel says of the bill adds up.
LEMMA PanelAddsUp ==
  ASSUME DesignHasBill, ScreenOK
  PROVE  AddsUp(CostPanel, BillLines)
<1> DEFINE T == Amount(Bill, BillLines)
           D == DearestCost
           fixed == {i \in BillLines : BOM_LINES[i].fixed}
           share == [i \in BillLines |-> (Bill[i] * 100) \div T]
           bar == [i \in BillLines |-> (Bill[i] * 100) \div D]
<1>1. IsFiniteSet(BillLines) /\ DOMAIN Bill = BillLines /\ \A i \in BillLines : Bill[i] \in Nat
  BY LineCosts, FS_Subset DEF Bill, BillLines, DesignHasBill
<1>2. T \in Nat /\ D \in Nat /\ 0 < D /\ D <= T /\ \A i \in BillLines : Bill[i] <= D
  <2>1. T \in Nat
    BY <1>1, AmountLaws
  <2>2. QED
    BY <2>1, DearestLine
<1>3. Total = T /\ FixedCost = Amount(Bill, fixed)
  BY CostIsAmount DEF Total, FixedCost
<1>4. Amount(Bill, fixed) \in Nat /\ Amount(Bill, fixed) <= T
  BY <1>1, AmountLaws, AmountGrows
<1> HIDE DEF D
<1>5. /\ CostPanel.total = T /\ CostPanel.fixed = Amount(Bill, fixed)
      /\ CostPanel.fixedPct = (Amount(Bill, fixed) * 100) \div AtLeastOneDollar(T)
      /\ CostPanel.freePct = Amount(FreeOf(Bill), BillLines) \div AtLeastOneDollar(T)
      /\ CostPanel.totalPct = share /\ CostPanel.barPct = bar
  <2> DEFINE free == MapThenSumSet(LAMBDA i : BOM_LINES[i].freeTierPct * Bill[i], DOMAIN Bill)
  <2>1. CostPanel.freePct = free \div AtLeastOneDollar(Total)
    BY DEF CostPanel, Panel, MapThenSumSet, MapThenFoldSet
  <2>2. free = Amount(FreeOf(Bill), BillLines)
    BY FreeIsAmount
  <2> HIDE DEF free
  <2>3. CostPanel.freePct = Amount(FreeOf(Bill), BillLines) \div AtLeastOneDollar(T)
    BY <1>3, <2>1, <2>2
  <2>4. /\ CostPanel.total = T /\ CostPanel.fixed = Amount(Bill, fixed)
        /\ CostPanel.fixedPct = (Amount(Bill, fixed) * 100) \div AtLeastOneDollar(T)
        /\ CostPanel.totalPct = share /\ CostPanel.barPct = bar
    BY <1>1, <1>3 DEF CostPanel, Panel, D, MapThenSumSet, MapThenFoldSet
  <2>5. QED
    BY <2>3, <2>4
<1>6. AtLeastOneDollar(T) \in Nat /\ T <= AtLeastOneDollar(T) /\ 0 < AtLeastOneDollar(T)
  BY <1>2 DEF AtLeastOneDollar
<1>7. ASSUME NEW a \in Nat, NEW b \in Nat, b > 0, a <= 100 * b PROVE a \div b \in 0..100
  <2>1. a \div b \in Nat /\ b * (a \div b) <= a
    BY <1>7, Quotient
  <2>2. b * (a \div b) <= b * 100
    BY <1>7, <2>1
  <2>3. QED
    BY <1>7, <2>1, <2>2
<1>8. CostPanel.fixedPct \in 0..100
  <2>1. Amount(Bill, fixed) * 100 \in Nat
        /\ Amount(Bill, fixed) * 100 <= 100 * AtLeastOneDollar(T)
    BY <1>2, <1>4, <1>6
  <2>2. QED
    BY <1>5, <1>6, <1>7, <2>1
<1>9. CostPanel.freePct \in 0..100
  <2>1. Amount(FreeOf(Bill), BillLines) \in Nat
    BY <1>1, AmountLaws, FreeIsAmount
  <2>2. Amount(FreeOf(Bill), BillLines) <= 100 * T
    BY <1>1, AmountScales, FreeIsAmount
  <2>3. Amount(FreeOf(Bill), BillLines) <= 100 * AtLeastOneDollar(T)
    BY <1>2, <1>6, <2>1, <2>2
  <2>4. QED
    BY <1>5, <1>6, <1>7, <2>1, <2>3
<1>10. MapThenSumSet(LAMBDA i : CostPanel.totalPct[i], BillLines)
         \in 100 - Cardinality(BillLines)..100
  <2>1. \A i \in BillLines : share[i] = (Bill[i] * 100) \div T /\ share[i] \in Nat
    <3>1. \A i \in BillLines : Bill[i] * 100 \in Nat
      BY <1>1
    <3>2. QED
      BY <1>2, <3>1, Quotient
  <2> HIDE DEF share
  <2>2. Amount(share, BillLines) \in 100 - Cardinality(BillLines)..100
    BY <1>1, <1>2, <2>1, SharesAddUp
  <2> DEFINE pct == CostPanel.totalPct
  <2>3. pct = share
    BY <1>5
  <2> HIDE DEF pct
  <2>4. MapThenSumSet(LAMBDA i : pct[i], BillLines) = Amount(pct, BillLines)
    <3>1. Amount(pct, BillLines) = (CHOOSE h : Sums(h, pct, BillLines))[BillLines]
      BY <1>1, <2>1, <2>3, SumIsAmount
    <3>2. MapThenSumSet(LAMBDA i : pct[i], BillLines)
            = (CHOOSE h : Sums(h, pct, BillLines))[BillLines]
      BY DEF MapThenSumSet, MapThenFoldSet, Sums, Some
    <3>3. QED
      BY <3>1, <3>2
  <2>5. QED
    BY <2>2, <2>3, <2>4 DEF pct
<1>11. ASSUME NEW i \in BillLines PROVE CostPanel.barPct[i] \in CostPanel.totalPct[i]..100
  <2>1. Bill[i] * 100 \in Nat /\ Bill[i] * 100 <= 100 * D
    BY <1>1, <1>2
  <2>2. /\ CostPanel.barPct[i] = (Bill[i] * 100) \div D
        /\ CostPanel.totalPct[i] = (Bill[i] * 100) \div T
    BY <1>5
  <2>3. (Bill[i] * 100) \div D \in 0..100
    BY <1>2, <1>7, <2>1
  <2>4. (Bill[i] * 100) \div T <= (Bill[i] * 100) \div D
    <3> DEFINE x == (Bill[i] * 100) \div T
               y == (Bill[i] * 100) \div D
    <3>1. x \in Nat /\ T * x <= Bill[i] * 100
      BY <1>2, <2>1, Quotient
    <3>2. y \in Nat /\ Bill[i] * 100 < D * y + D
      BY <1>2, <2>1, Quotient
    <3> HIDE DEF x, y
    <3>3. D * x <= T * x
      BY <1>2, <3>1
    <3>4. D * x < D * (y + 1)
      <4>1. D * (y + 1) = D * y + D /\ D * x \in Nat /\ T * x \in Nat /\ D * y \in Nat
        BY <1>2, <3>1, <3>2
      <4>2. QED
        BY <1>2, <2>1, <3>1, <3>2, <3>3, <4>1
    <3>5. x < y + 1
      BY <1>2, <3>1, <3>2, <3>4
    <3>6. QED
      BY <3>1, <3>2, <3>5 DEF x, y
  <2>5. (Bill[i] * 100) \div T \in Nat
    BY <1>2, <2>1, Quotient
  <2>6. QED
    BY <2>2, <2>3, <2>4, <2>5
<1>12. QED
  BY <1>4, <1>5, <1>8, <1>9, <1>10, <1>11 DEF AddsUp

\* For every design with a bill: whatever is swapped, and wherever the knobs are, the bill
\* lists a component exactly while the diagram has its card, under the name of the card; the
\* fixed part is within the total, the shares are percentages that reach a hundred but for
\* rounding, and no bar is shorter than the share it stands for or longer than the dearest.
THEOREM BillIsOfDiagram ==
  ASSUME DesignHasBill, 1 \in Scales
  PROVE  Spec => []BillFollowsDiagram
<1>1. Init => ScreenOK
  BY LensNames DEF Init, ScreenOK
<1>2. ScreenOK => BillFollowsDiagram
  <2>1. SUFFICES ASSUME ScreenOK PROVE BillFollowsDiagram
    OBVIOUS
  <2>2. ASSUME NEW i \in DOMAIN BOM_LINES, BOM_LINES[i].nodeId # NoNode
        PROVE  /\ i \in BillLines <=> BOM_LINES[i].nodeId \in LiveIds
               /\ LineShows(BOM_LINES[i]) = CardShows(BOM_LINES[i].nodeId)
    BY <2>2 DEF BillLines, Billed, LiveIds, Live, LineShows, CardShows
  <2>3. \A i \in LiveEdges : {EDGES[i].from, EDGES[i].to} \subseteq LiveIds
    BY DEF LiveEdges, LiveIds, Live
  <2>4. AddsUp(CostPanel, BillLines)
    BY <2>1, PanelAddsUp
  <2>5. QED
    BY <2>2, <2>3, <2>4 DEF BillFollowsDiagram
<1>3. QED
  BY <1>1, <1>2, ScreenStep, PTL DEF Spec
=============================================================================
