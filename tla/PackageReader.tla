---------------------------- MODULE PackageReader ----------------------------
(***************************************************************************)
(* The reader of a finished package (components/decide/decide-viewer.tsx   *)
(* and what it draws with): six sections computed from one RunPackage, by  *)
(* helpers that are written out again in the viewer, the executive summary *)
(* and the charts; and the sequence diagrams, which the browser renders    *)
(* asynchronously and again whenever the theme changes.                    *)
(***************************************************************************)
EXTENDS Integers, Sequences, FiniteSetsExt

CONSTANTS
  Packages,       \* the packages there are to read, by name
  NoPackage,      \* before one is opened
  MaxDiagrams,    \* bound: the sequence diagrams of a package
  Unit,           \* 1 in the fixed-point numbers that stand for the floats of a factor
  Exponents,      \* the exponents of the cost lines, which may be fractions
  Power           \* Math.pow: Power[k][e] is k to the e, at each scale k

ASSUME PackagesAssumption == NoPackage \notin DOMAIN Packages
\* No exponent is negative, so a power is 1 at scale 1 and no less at a higher scale.
ASSUME PowersGrow ==
  /\ Unit \in Nat \ {0}
  /\ \A e \in Exponents :
       /\ Power[1][e] = Unit /\ Power[10][e] \in Nat /\ Power[100][e] \in Nat
       /\ Unit <= Power[10][e] /\ Power[10][e] <= Power[100][e]

VARIABLES
  pkg,            \* the package on the page
  section,        \* the open section, or "closed"
  focus,          \* Verdict: the box that was clicked, or 0
  sortMode,       \* Decisions: the order of the cards
  theme,          \* the theme of the page
  blocks,         \* System design: the state of each diagram
  config          \* the theme mermaid was last initialized with

readerVars == <<pkg, section, focus, sortMode, theme, blocks, config>>

SECTIONS == <<"verdict", "system-design", "decisions", "numbers", "risks", "audit">>
SortModes == {"tier", "order", "confidence", "blast"}
Themes == {"light", "dark"}
Statuses == {"rendering", "ok", "error"}

Package == Packages[pkg]

(***************************************************************************)
(* Array.sort keeps the order of equal elements: the position of every     *)
(* element of a list whose i-th element has the key key[i].                *)
(***************************************************************************)
Position(key, i) ==
  Cardinality({j \in DOMAIN key : key[j] < key[i] \/ (key[j] = key[i] /\ j <= i)})
First(key, n) == {i \in DOMAIN key : Position(key, i) <= n}
Sorted(key) == [p \in DOMAIN key |-> CHOOSE i \in DOMAIN key : Position(key, i) = p]
InOrder(list) == [i \in DOMAIN list |-> i]

LEVEL == [high |-> 0, med |-> 1, low |-> 2]
REV_ORDER == [x \in {"1-way", "2-way"} |-> IF x = "1-way" THEN 0 ELSE 1]
BLAST_ORDER == [platform |-> 0, data |-> 1, service |-> 2]

(***************************************************************************)
(* Decisions: the headline picks of the summary, the stack picks of the    *)
(* verdict, and the cards of the Decisions section.                        *)
(***************************************************************************)
HeadlineKey(ds) ==
  [i \in DOMAIN ds |-> 6 * LEVEL[ds[i].conf] + 3 * REV_ORDER[ds[i].reversibility]
                         + BLAST_ORDER[ds[i].blastRadius]]
headlinePicks(ds) == First(HeadlineKey(ds), 5)

StackKey(ds) == [i \in DOMAIN ds |-> 2 * LEVEL[ds[i].conf] + REV_ORDER[ds[i].reversibility]]
topStackPicks(ds) == First(StackKey(ds), 4)

Foundational(d) == d.blastRadius \in {"platform", "data"} \/ d.reversibility = "1-way"
\* The foundational ones, then the others, each group in the order of the list.
Tiers(ds) == Sorted([i \in DOMAIN ds |-> IF Foundational(ds[i]) THEN 0 ELSE 1])

DecisionOrder(ds, mode) ==
  CASE mode = "tier" -> Tiers(ds)
    [] mode = "order" -> InOrder(ds)
    [] mode = "confidence" -> Sorted([i \in DOMAIN ds |-> LEVEL[ds[i].conf]])
    [] mode = "blast" -> Sorted([i \in DOMAIN ds |-> BLAST_ORDER[ds[i].blastRadius]])

(***************************************************************************)
(* Costs: the same sums in the summary, the Numbers section and two charts.*)
(***************************************************************************)
BaseCost(l) == l.baseCost
\* A product is rounded down to the unit it is counted in.
Times(a, f) == (a * f) \div Unit
Factor(l, k) ==
  Times(Times(Power[k][l.scaleExp.users], Power[k][l.scaleExp.rps]), Power[k][l.scaleExp.gb])
Scaled(l, k) == Times(l.baseCost, Factor(l, k))

SumOf(bom, Cost(_)) == MapThenSumSet(LAMBDA i : Cost(bom[i]), DOMAIN bom)

baselineCost(bom) == SumOf(bom, BaseCost)
costAtScale(bom, k) == SumOf(bom, LAMBDA l : IF l.fixed THEN l.baseCost ELSE Scaled(l, k))

ScaleEveryLine(l, k) == Scaled(l, k)
scaleLine(l, k) == IF l.fixed THEN l.baseCost ELSE Scaled(l, k)
sumBaseline(bom) == SumOf(bom, BaseCost)
sumAtScale(bom, k) == SumOf(bom, LAMBDA l : scaleLine(l, k))

\* The points of the trajectory chart, which sums for itself.
TrajectoryAt(bom, k) == SumOf(bom, LAMBDA l : IF l.fixed THEN l.baseCost ELSE Scaled(l, k))
Trajectory(bom) == [k \in {1, 10, 100} |-> TrajectoryAt(bom, k)]

DearestFirst(bom) == [i \in DOMAIN bom |-> -bom[i].baseCost]
topCostLine(bom) == First(DearestFirst(bom), 1)

\* The table of the Numbers section, dearest line first, with its shares in percent.
BomTable(bom) ==
  [p \in DOMAIN bom |->
     LET l == bom[Sorted(DearestFirst(bom))[p]] IN
     [line |-> l, at10 |-> scaleLine(l, 10),
      pct |-> IF sumBaseline(bom) > 0 THEN (l.baseCost * 100) \div sumBaseline(bom) ELSE 0]]

\* The breakdown chart: the six dearest lines and the rest rolled up; the kinds of
\* its stacked bar are those that cost anything.
TopN == 6
Breakdown(bom) ==
  LET head == First(DearestFirst(bom), TopN)
      Cost(S) == MapThenSumSet(LAMBDA i : bom[i].baseCost, S)
      kinds == {bom[i].kind : i \in DOMAIN bom}
      kindTotal == [k \in kinds |-> Cost({i \in DOMAIN bom : bom[i].kind = k})]
  IN [rows |-> IF Cost(DOMAIN bom) = 0 THEN {} ELSE
               {<<"line", i, bom[i].baseCost>> : i \in head}
                 \cup (IF head = DOMAIN bom THEN {} ELSE {<<"other", 0, Cost(DOMAIN bom \ head)>>}),
      total |-> Cost(DOMAIN bom),
      kinds |-> [k \in {c \in kinds : kindTotal[c] > 0} |-> kindTotal[k]]]

\* What an estimate usually has and no line of this one mentions.
Services == {"load balancer", "nat", "egress", "logging", "registry"}
detectMissingItems(bom) == Services \ UNION {bom[i].mentions : i \in DOMAIN bom}

(***************************************************************************)
(* Risks.                                                                  *)
(***************************************************************************)
RiskKey(rs) == [i \in DOMAIN rs |-> 3 * LEVEL[rs[i].severity] + LEVEL[rs[i].likelihood]]
topRisk(rs) == First(RiskKey(rs), 1)
sortRisks(rs) == Sorted(RiskKey(rs))
topRisks(rs) == First(RiskKey(rs), 3)
HeatmapCell(rs, s, l) == {i \in DOMAIN rs : rs[i].severity = s /\ rs[i].likelihood = l}
RiskHeatmap(rs) == [c \in (DOMAIN LEVEL) \X (DOMAIN LEVEL) |-> HeatmapCell(rs, c[1], c[2])]

(***************************************************************************)
(* Requirements: the buckets of "What we heard", the first six with eight  *)
(* entries each, and the rationales next to each requirement.              *)
(***************************************************************************)
EarlierOf(reqs, i) == {j \in DOMAIN reqs : j < i /\ reqs[j].word = reqs[i].word}
BucketsBefore(reqs, i) == {reqs[j].word : j \in {k \in DOMAIN reqs : k < i}}
groupRequirements(reqs) ==
  {i \in DOMAIN reqs :
     LET opener == Min({i} \cup EarlierOf(reqs, i)) IN
     Cardinality(BucketsBefore(reqs, opener)) < 6 /\ Cardinality(EarlierOf(reqs, i)) < 8}

\* A rationale names a requirement by its id, or by its label made into a key.
mapRequirementsToArchitecture(p) ==
  [i \in DOMAIN p.requirements |->
     {r \in DOMAIN p.componentRationales :
        p.componentRationales[r].requirementId \in {p.requirements[i].id, p.requirements[i].key}}]

\* The block that lists the mapping is there when it has a rationale.
MappedRequirements(p) ==
  LET m == mapRequirementsToArchitecture(p) IN
  IF \E i \in DOMAIN m : m[i] # {} THEN DOMAIN m ELSE {}

(***************************************************************************)
(* The caption of a headline pick: the first rationale of the last node    *)
(* that carries its name, or else why it was picked.                       *)
(***************************************************************************)
NodesNamed(p, d) == {n \in DOMAIN p.nodes : p.nodes[n].label = d.pick}
RationalesOf(p, n) ==
  {r \in DOMAIN p.componentRationales : p.componentRationales[r].nodeId = p.nodes[n].id}
FitsBecause(p, d) ==
  IF NodesNamed(p, d) # {} /\ RationalesOf(p, Max(NodesNamed(p, d))) # {}
    THEN <<"rationale", Min(RationalesOf(p, Max(NodesNamed(p, d))))>>
    ELSE <<"why", 0>>

UpTo(n, list) == SubSeq(list, 1, Min({n, Len(list)}))
firstPhases(seq) == UpTo(3, seq)

deriveExecutiveSummary(p) ==
  [picks |-> headlinePicks(p.decisions), phases |-> firstPhases(p.buildSequence),
   baseline |-> baselineCost(p.bom), scaled10x |-> costAtScale(p.bom, 10),
   costDriver |-> topCostLine(p.bom), risk |-> topRisk(p.risks)]

ExecutiveSummaryCard(p) ==
  LET s == deriveExecutiveSummary(p) IN
  [summary |-> s, captions |-> [i \in s.picks |-> FitsBecause(p, p.decisions[i])]]

(***************************************************************************)
(* The architecture diagram: the boxes spread over the canvas, and the     *)
(* arrows between boxes there are.                                         *)
(***************************************************************************)
Spread(lo, hi, v, from, to) == from + ((v - lo) * (to - from)) \div Max({hi - lo, 1})
Boxes(ns) ==
  LET xs == {ns[i].x : i \in DOMAIN ns}  ys == {ns[i].y : i \in DOMAIN ns} IN
  [i \in DOMAIN ns |-> <<Spread(Min(xs), Max(xs), ns[i].x, 9, 91),
                         Spread(Min(ys), Max(ys), ns[i].y, 9, 86)>>]
HasBox(p, id) == \E i \in DOMAIN p.nodes : p.nodes[i].id = id
Arrows(p) == {e \in DOMAIN p.edges : HasBox(p, p.edges[e].from) /\ HasBox(p, p.edges[e].to)}

\* A card links the source it cites, when the package lists it.
SourceOf(p, cite) == {s \in DOMAIN p.sources : p.sources[s] = cite}
NodeDetail(p, i) == [entry |-> i, source |-> SourceOf(p, p.nodes[i].cite)]
DecisionCard(p, i) == [entry |-> i, source |-> SourceOf(p, p.decisions[i].cite)]
RiskCard(p, i) == [entry |-> i, source |-> SourceOf(p, p.risks[i].cite)]

\* A phase ships components, by label; one that is no box goes by its id.
Shipped(p, id) ==
  IF HasBox(p, id) THEN <<"box", CHOOSE i \in DOMAIN p.nodes : p.nodes[i].id = id>>
                   ELSE <<"id", id>>
Timeline(p) ==
  [i \in DOMAIN p.buildSequence |-> {Shipped(p, id) : id \in p.buildSequence[i].nodes}]

(***************************************************************************)
(* What the agents and the packager let into a package: lists whose levels *)
(* are of the schemas, citations that are numbers of sources, edges and    *)
(* phases of nodes there are, a rationale of a requirement there is, and   *)
(* costs and exponents that are not negative.                              *)
(***************************************************************************)
Citing == {"componentRationales", "integrationContracts", "failureModes"}
IsList(entries) == Len(entries) \in Nat /\ DOMAIN entries = 1..Len(entries)
CitesSources(p, entries) == \A i \in DOMAIN entries : SourceOf(p, entries[i].cite) # {}

ArchitectureOK(p) ==
  /\ IsList(p.nodes) /\ CitesSources(p, p.nodes) /\ \A s \in Citing : CitesSources(p, p[s])
  /\ \A i \in DOMAIN p.nodes : p.nodes[i].x \in Nat /\ p.nodes[i].y \in Nat
  /\ \A e \in DOMAIN p.edges : HasBox(p, p.edges[e].from) /\ HasBox(p, p.edges[e].to)
  /\ \A i \in DOMAIN p.buildSequence : \A id \in p.buildSequence[i].nodes : HasBox(p, id)
  /\ \E i \in DOMAIN p.requirements, r \in DOMAIN p.componentRationales :
       p.componentRationales[r].requirementId = p.requirements[i].id

DecisionsOK(p) ==
  /\ IsList(p.decisions) /\ CitesSources(p, p.decisions)
  /\ \A i \in DOMAIN p.decisions :
       /\ p.decisions[i].conf \in DOMAIN LEVEL
       /\ p.decisions[i].reversibility \in DOMAIN REV_ORDER
       /\ p.decisions[i].blastRadius \in DOMAIN BLAST_ORDER

ExponentsOf(l) == {l.scaleExp.users, l.scaleExp.rps, l.scaleExp.gb}
CostsOK(p) ==
  IsList(p.bom) /\ \A i \in DOMAIN p.bom :
                     p.bom[i].baseCost \in Nat /\ ExponentsOf(p.bom[i]) \subseteq Exponents

RisksOK(p) ==
  /\ IsList(p.risks) /\ CitesSources(p, p.risks)
  /\ \A i \in DOMAIN p.risks :
       {p.risks[i].severity, p.risks[i].likelihood} \subseteq DOMAIN LEVEL

PackageOK(p) == ArchitectureOK(p) /\ DecisionsOK(p) /\ CostsOK(p) /\ RisksOK(p)
ASSUME PackagesHold == \A k \in DOMAIN Packages : PackageOK(Packages[k])

(***************************************************************************)
(* What the sections show.                                                 *)
(***************************************************************************)
Verdict(p) ==
  [card |-> ExecutiveSummaryCard(p), heard |-> groupRequirements(p.requirements),
   stack |-> topStackPicks(p.decisions),
   baseline |-> sumBaseline(p.bom), at10 |-> sumAtScale(p.bom, 10),
   boxes |-> Boxes(p.nodes), arrows |-> Arrows(p),
   detail |-> IF focus = 0 THEN {} ELSE NodeDetail(p, focus).source,
   timeline |-> Timeline(p), mapped |-> MappedRequirements(p), watchOut |-> topRisks(p.risks)]

SystemDesign(p) ==
  {s \in {"componentRationales", "sequenceDiagrams", "integrationContracts", "failureModes",
          "buildSequence"} : p[s] # <<>>}

Numbers(p) ==
  [tiles |-> [k \in {1, 10, 100} |-> IF k = 1 THEN sumBaseline(p.bom) ELSE sumAtScale(p.bom, k)],
   trajectory |-> Trajectory(p.bom), breakdown |-> Breakdown(p.bom),
   missing |-> detectMissingItems(p.bom), table |-> BomTable(p.bom)]

Risks(p) ==
  LET order == sortRisks(p.risks) IN
  [heatmap |-> RiskHeatmap(p.risks), cards |-> [q \in DOMAIN order |-> RiskCard(p, order[q])]]

Decisions(p) ==
  LET order == DecisionOrder(p.decisions, sortMode) IN
  [q \in DOMAIN order |-> DecisionCard(p, order[q])]

Audit(p) == {p.sources[s] : s \in DOMAIN p.sources}
-----------------------------------------------------------------------------
(***************************************************************************)
(* The diagrams.  A block runs an effect on mount and for every theme      *)
(* change it has noticed; each run of the effect is a job of two awaits,   *)
(* the import of mermaid and the render.  Leaving a run of the effect sets *)
(* the flag the runs share and the one of its own; the next run clears the *)
(* shared one.                                                             *)
(***************************************************************************)
Diagrams == IF section = "system-design" THEN DOMAIN Package.sequenceDiagrams ELSE {}

NewJob == [mounted |-> TRUE, stage |-> "import", theme |-> "none"]
NewBlock == [status |-> "rendering", svg |-> "none", pending |-> FALSE, cancelled |-> FALSE,
             jobs |-> {NewJob}]

KeepCancelled(flag) == flag
CancelledOnStart(flag) == FALSE

\* The effect is left, and run again.
Effect(b) ==
  [status |-> "rendering", svg |-> "none", pending |-> FALSE,
   cancelled |-> CancelledOnStart(TRUE),
   jobs |-> {[j EXCEPT !.mounted = FALSE] : j \in b.jobs} \cup {NewJob}]

SharedFlagOnly(b, j) == ~b.cancelled
MayReport(b, j) == ~b.cancelled /\ j.mounted

Rerun(d) ==
  /\ d \in Diagrams /\ blocks[d].pending
  /\ blocks' = [blocks EXCEPT ![d] = Effect(@)]
  /\ UNCHANGED <<pkg, section, focus, sortMode, theme, config>>

Ended(b, j, status, svg) == [b EXCEPT !.status = status, !.svg = svg, !.jobs = @ \ {j}]
Dropped(b, j) == [b EXCEPT !.jobs = @ \ {j}]

\* A job past its import initializes mermaid, for all blocks, with the page's theme.
ImportEnds(d, j) ==
  /\ j.stage = "import"
  /\ IF ~MayReport(blocks[d], j)
       THEN blocks' = [blocks EXCEPT ![d] = Dropped(@, j)] /\ UNCHANGED config
       ELSE \/ /\ config' = theme
               /\ blocks' = [blocks EXCEPT ![d].jobs =
                               (@ \ {j}) \cup {[j EXCEPT !.stage = "render", !.theme = theme]}]
            \/ /\ blocks' = [blocks EXCEPT ![d] = Ended(@, j, "error", "none")]
               /\ UNCHANGED config
  /\ UNCHANGED <<pkg, section, focus, sortMode, theme>>

\* Renders wait in one queue and are drawn with the theme set last by then.
RenderEnds(d, j) ==
  /\ j.stage = "render"
  /\ IF ~MayReport(blocks[d], j) THEN blocks' = [blocks EXCEPT ![d] = Dropped(@, j)]
     ELSE IF Package.sequenceDiagrams[d].valid
       THEN \E drawn \in {j.theme, config} :
              blocks' = [blocks EXCEPT ![d] = Ended(@, j, "ok", drawn)]
       ELSE blocks' = [blocks EXCEPT ![d] = Ended(@, j, "error", "none")]
  /\ UNCHANGED <<pkg, section, focus, sortMode, theme, config>>

JobEnds(d) ==
  d \in Diagrams /\ \E j \in blocks[d].jobs : ImportEnds(d, j) \/ RenderEnds(d, j)

ToggleTheme ==
  /\ section # "closed"
  /\ theme' = IF theme = "light" THEN "dark" ELSE "light"
  /\ blocks' = [d \in DOMAIN blocks |-> [blocks[d] EXCEPT !.pending = TRUE]]
  /\ UNCHANGED <<pkg, section, focus, sortMode, config>>

(***************************************************************************)
(* What the reader does.                                                   *)
(***************************************************************************)
ReaderInit ==
  /\ pkg = NoPackage /\ section = "closed"
  /\ focus = 0 /\ sortMode = "tier"
  /\ theme = "light" /\ config = "none"
  /\ blocks = <<>>

Open(p) ==
  /\ pkg' = p /\ section' = "verdict"
  /\ focus' = 0 /\ sortMode' = "tier" /\ blocks' = <<>> /\ config' = "none"
  /\ UNCHANGED theme

Close ==
  /\ pkg' = NoPackage /\ section' = "closed"
  /\ focus' = 0 /\ sortMode' = "tier" /\ blocks' = <<>> /\ config' = "none"
  /\ UNCHANGED theme

\* A section that is left forgets its focus or order, and its diagrams.
GoTo(s) ==
  /\ section \notin {"closed", s}
  /\ section' = s /\ focus' = 0 /\ sortMode' = "tier"
  /\ blocks' = (IF s = "system-design" THEN [d \in DOMAIN Package.sequenceDiagrams |-> NewBlock]
                                       ELSE <<>>)
  /\ UNCHANGED <<pkg, theme, config>>

SectionIndex == CHOOSE i \in DOMAIN SECTIONS : SECTIONS[i] = section
Pager ==
  /\ section # "closed"
  /\ \E i \in {SectionIndex - 1, SectionIndex + 1} \cap DOMAIN SECTIONS : GoTo(SECTIONS[i])

\* A citation of the System design section leads to the audit, whatever its number.
FollowCite ==
  section = "system-design" /\ SystemDesign(Package) \cap Citing # {} /\ GoTo("audit")

ClickBox(n) ==
  /\ section = "verdict"
  /\ focus' = IF focus = n THEN 0 ELSE n
  /\ UNCHANGED <<pkg, section, sortMode, theme, blocks, config>>

SortBy(m) ==
  /\ section = "decisions"
  /\ sortMode' = m
  /\ UNCHANGED <<pkg, section, focus, theme, blocks, config>>

ReaderNext ==
  \/ \E i \in DOMAIN SECTIONS : GoTo(SECTIONS[i])
  \/ Pager
  \/ FollowCite
  \/ section # "closed" /\ \E n \in DOMAIN Package.nodes : ClickBox(n)
  \/ \E m \in SortModes : SortBy(m)
  \/ ToggleTheme
  \/ \E d \in 1..MaxDiagrams : Rerun(d) \/ JobEnds(d)

\* Effects run, and the browser fetches and renders, in the end.
ReaderFairness ==
  \A d \in 1..MaxDiagrams : WF_readerVars(Rerun(d)) /\ WF_readerVars(JobEnds(d))
-----------------------------------------------------------------------------
ReaderTypeOK ==
  /\ pkg \in DOMAIN Packages \cup {NoPackage}
  /\ section \in {SECTIONS[i] : i \in DOMAIN SECTIONS} \cup {"closed"}
  /\ section = "closed" <=> pkg = NoPackage
  /\ focus # 0 => section = "verdict" /\ focus \in DOMAIN Package.nodes
  /\ sortMode \in SortModes /\ theme \in Themes /\ config \in Themes \cup {"none"}
  /\ DOMAIN blocks = Diagrams
  /\ \A d \in DOMAIN blocks :
       /\ blocks[d].status \in Statuses /\ blocks[d].svg \in Themes \cup {"none"}
       /\ Cardinality({j \in blocks[d].jobs : j.mounted}) <= 1

\* The cards show every entry of the list once, each with its source.
ShowAll(cards, list) ==
  /\ Len(cards) = Len(list)
  /\ \A i \in DOMAIN list : \E q \in DOMAIN cards : cards[q].entry = i
  /\ \A q \in DOMAIN cards : cards[q].source # {}

\* What a section says the verdict says too, although each computes it for itself.
\* Numbers: the tiles, the table and both charts show the sums of the verdict and
\* its summary, which grow with the scale, and the dearest line is on top.  Risks:
\* the headline and the three to watch are the first of the list, every risk is in
\* one cell of the heat map, and those of the hot corner come first.  Decisions: the
\* two short lists differ only between decisions that are as sure and as hard to
\* reverse, and leave out none that is more so; every order shows every decision.
\* Verdict: every requirement is there in spite of the cut buckets, each box is on
\* the canvas, and every phase has its boxes.  Audit: what is cited is listed.
CostsAgree ==
  LET v == Verdict(Package)
      s == v.card.summary
      n == Numbers(Package)
      Sum(f) == MapThenSumSet(LAMBDA x : f[x], DOMAIN f)
  IN /\ s.baseline = v.baseline /\ s.scaled10x = v.at10
     /\ n.tiles = n.trajectory /\ n.tiles[1] = v.baseline /\ n.tiles[10] = v.at10
     /\ n.tiles[1] <= n.tiles[10] /\ n.tiles[10] <= n.tiles[100]
     /\ n.breakdown.total = v.baseline /\ Sum(n.breakdown.kinds) = v.baseline
     /\ MapThenSumSet(LAMBDA r : r[3], n.breakdown.rows) = v.baseline
     /\ Sum([p \in DOMAIN n.table |-> n.table[p].at10]) = v.at10
     /\ \A i \in s.costDriver : n.table[1].line = Package.bom[i]
RisksAgree ==
  LET v == Verdict(Package)
      r == Risks(Package)
      Place(i) == CHOOSE q \in DOMAIN r.cards : r.cards[q].entry = i
  IN /\ ShowAll(r.cards, Package.risks)
     /\ v.watchOut = {r.cards[q].entry : q \in 1..Cardinality(v.watchOut)}
     /\ \A i \in v.card.summary.risk : Place(i) = 1
     /\ \A i \in DOMAIN Package.risks :
          Cardinality({c \in DOMAIN r.heatmap : i \in r.heatmap[c]}) = 1
     /\ \A i \in DOMAIN Package.risks : \A l \in {"high", "med"} :
          i \in r.heatmap[<<"high", l>>] =>
            Place(i) <= Cardinality(r.heatmap[<<"high", "high">>] \cup r.heatmap[<<"high", l>>])
DecisionsAgree ==
  LET v == Verdict(Package)
      headline == v.card.summary.picks
      Weight == StackKey(Package.decisions)
  IN /\ \A i \in headline \cup v.stack, j \in DOMAIN Package.decisions :
          Weight[j] < Weight[i] => j \in v.stack /\ j \in headline
     /\ \A i \in v.stack \ headline : \A j \in headline \ v.stack : Weight[i] <= Weight[j]
     /\ ShowAll(Decisions(Package), Package.decisions)
NothingIsHidden ==
  LET v == Verdict(Package) IN
  /\ v.heard \cup v.mapped = DOMAIN Package.requirements
  /\ \A i \in DOMAIN Package.nodes : v.boxes[i] \in (9..91) \X (9..86)
  /\ v.arrows = DOMAIN Package.edges
  /\ \A i \in DOMAIN v.timeline : \A c \in v.timeline[i] : c[1] = "box"
  /\ focus # 0 => v.detail # {}
SectionsAgree ==
  /\ section = "verdict" => NothingIsHidden
  /\ section = "decisions" => DecisionsAgree
  /\ section = "numbers" => CostsAgree
  /\ section = "risks" => RisksAgree
  /\ section = "audit" =>
       \A s \in Citing : \A i \in DOMAIN Package[s] : Package[s][i].cite \in Audit(Package)

\* A diagram that is on the page is in the page's theme, but for the moment before
\* its block notices a change of theme: no result of an earlier theme, finished
\* late, ever replaces the one of the current theme.
DiagramFollowsTheme ==
  \A d \in Diagrams : blocks[d].status = "ok" /\ ~blocks[d].pending => blocks[d].svg = theme

\* Once the theme is left alone, a diagram that is "Rendering..." comes to an end,
\* in a picture or in the message that it could not be drawn, while it is on the page.
Rendering(d) == d \in Diagrams /\ blocks[d].status = "rendering"
DiagramsSettle ==
  <>[][theme' = theme]_theme => \A d \in 1..MaxDiagrams : Rendering(d) ~> ~Rendering(d)
=============================================================================
