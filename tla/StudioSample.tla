---------------------------- MODULE StudioSample ----------------------------
(***************************************************************************)
(* The canned design the studio of /decide opens on, DEFAULT_DECIDE_DATA   *)
(* of components/decide/decide-studio.tsx.  Texts are left out: an entry   *)
(* is what other entries refer to it by, what it refers to, and the        *)
(* numbers the studio computes with.  Money is in thousandths of a dollar  *)
(* per month, the multiple of an option in hundredths.                     *)
(***************************************************************************)
EXTENDS Naturals, Sequences

None == "none"

Node(id, zone, cite, data, fails) ==
  [id |-> id, zone |-> zone, cite |-> cite, dataClass |-> data, failureDomain |-> fails]

FrontNodes == <<
  Node("user", "client", 1, "public", {}),
  Node("lb", "edge", 2, "public",
       {"web", "worker", "queue", "redis", "db", "storage", "vertex", "stripe"}),
  Node("web", "app", 3, "internal", {"queue"}),
  Node("worker", "app", 4, "internal", {})>>

BackNodes == <<
  Node("queue", "app", 5, "internal", {"worker"}),
  Node("redis", "app", 6, "internal", {}),
  Node("db", "data", 7, "pii", {"web", "worker"}),
  Node("storage", "data", 8, "internal", {}),
  Node("vertex", "external", 4, "internal", {"worker"}),
  Node("stripe", "external", 8, "payment", {})>>

SampleNodes == FrontNodes \o BackNodes

Option(id, costMul) == [id |-> id, costMul |-> costMul, remove |-> FALSE]

StoreOptions == [
  redis |-> <<Option("redis-default", 100), Option("redis-upstash", 45),
              [Option("redis-pg", 0) EXCEPT !.remove = TRUE],
              Option("redis-dragonfly", 140)>>,
  db |-> <<Option("db-default", 100), Option("db-cosmos", 460), Option("db-rds", 130),
           Option("db-self", 55)>>,
  queue |-> <<Option("q-default", 100), Option("q-storage", 15), Option("q-eventgrid", 60),
              Option("q-sqs", 90), Option("q-kafka", 380)>>]

HostOptions == [
  vertex |-> <<Option("llm-default", 100), Option("llm-anthropic", 125),
               Option("llm-bedrock", 110), Option("llm-vllm", 240), Option("llm-openai", 105)>>,
  web |-> <<Option("web-default", 100), Option("web-aks", 170), Option("web-appsvc", 135),
            Option("web-vercel", 90)>>,
  storage |-> <<Option("store-default", 100), Option("store-r2", 70), Option("store-s3", 105)>>,
  lb |-> <<Option("lb-default", 100), Option("lb-cf", 50), Option("lb-appgw", 140)>>]

SampleOptions ==
  [n \in DOMAIN StoreOptions \cup DOMAIN HostOptions |->
     IF n \in DOMAIN StoreOptions THEN StoreOptions[n] ELSE HostOptions[n]]

\* "applies" maps the components a constraint overrides to the option it forces.
Constraint(id, applies, globalCostMul) ==
  [id |-> id, applies |-> applies, globalCostMul |-> globalCostMul]

SampleConstraints == <<
  Constraint("no-redis", [redis |-> "redis-pg"], 100),
  Constraint("no-managed-llm", [vertex |-> "llm-vllm"], 100),
  Constraint("no-managed-pg", [db |-> "db-self"], 100),
  Constraint("multi-region", <<>>, 170),
  Constraint("multi-az", <<>>, 125),
  Constraint("no-egress", [storage |-> "store-r2"], 100),
  Constraint("cross-cloud-aws",
             [db |-> "db-rds", queue |-> "q-sqs", storage |-> "store-s3"], 100)>>

Edge(from, to, kind) == [from |-> from, to |-> to, kind |-> kind]

SampleEdges == <<
  Edge("user", "lb", "sync"), Edge("lb", "web", "sync"),
  Edge("web", "queue", "async"), Edge("queue", "worker", "async"),
  Edge("worker", "redis", "data"), Edge("web", "redis", "data"),
  Edge("worker", "db", "data"), Edge("worker", "storage", "data"),
  Edge("worker", "vertex", "external"), Edge("web", "stripe", "external")>>

Decision(id, cite) == [id |-> id, cite |-> cite]

SampleDecisions == <<Decision("d-db", 7), Decision("d-queue", 5), Decision("d-llm", 4),
                     Decision("d-cost", 8), Decision("d-risk", 6)>>

SampleSources == 1..8

\* base and per are dollars a month at 1x and for each further multiple of a knob.
Line(id, base, users, rps, gb, cite, node) ==
  [id |-> id, base |-> base, per |-> [users |-> users, rps |-> rps, gb |-> gb],
   cite |-> cite, nodeId |-> node, freeTierPct |-> 0, kind |-> "network", fixed |-> FALSE,
   cliff |-> FALSE]

SampleBom == <<
  [Line("b-lb", 35000, 400, 6000, 0, 2, "lb") EXCEPT !.fixed = TRUE, !.cliff = TRUE],
  [Line("b-web", 28000, 600, 3200, 0, 3, "web") EXCEPT !.freeTierPct = 30, !.kind = "compute"],
  [Line("b-worker", 14000, 1800, 400, 0, 3, "worker") EXCEPT
     !.freeTierPct = 20, !.kind = "compute"],
  Line("b-queue", 10000, 180, 600, 0, 5, "queue"),
  [Line("b-redis", 17000, 0, 200, 4000, 6, "redis") EXCEPT
     !.kind = "data", !.fixed = TRUE, !.cliff = TRUE],
  [Line("b-db", 14000, 1200, 1400, 115, 8, "db") EXCEPT !.kind = "data", !.cliff = TRUE],
  [Line("b-storage", 2000, 0, 0, 18, 8, "storage") EXCEPT !.freeTierPct = 70, !.kind = "data"],
  [Line("b-vertex", 0, 18000, 0, 0, 4, "vertex") EXCEPT !.kind = "vendor"],
  Line("b-egress", 5000, 200, 1800, 87, 2, None),
  [Line("b-obs", 14000, 50, 400, 0, 1, None) EXCEPT !.kind = "observability", !.fixed = TRUE],
  [Line("b-secrets", 1000, 0, 0, 0, 1, None) EXCEPT
     !.freeTierPct = 80, !.kind = "observability", !.fixed = TRUE],
  [Line("b-stripe", 0, 900, 0, 0, 8, "stripe") EXCEPT !.kind = "vendor"]>>

Risk(id, likelihood, impact, cite, node) ==
  [id |-> id, likelihood |-> likelihood, impact |-> impact, cite |-> cite, nodeId |-> node]

SampleRisks == <<
  Risk("r-cold", "high", "low", 6, "worker"), Risk("r-llm", "med", "high", 4, "vertex"),
  Risk("r-cost", "med", "med", 4, "vertex"), Risk("r-redis", "low", "med", 6, "redis"),
  Risk("r-db", "low", "high", 7, "db"), Risk("r-prompt", "high", "med", 1, None),
  Risk("r-region", "low", "high", 2, None)>>

Assumption(id, category) == [id |-> id, category |-> category]

SampleAssumptions == <<
  Assumption("a-region", "compliance"), Assumption("a-scale", "scale"),
  Assumption("a-tenants", "scale"), Assumption("a-slo", "slo"), Assumption("a-team", "team"),
  Assumption("a-data", "compliance"), Assumption("a-pii", "compliance"),
  Assumption("a-domain", "domain")>>

Step(id, phase, decision) == [id |-> id, phase |-> phase, decisionId |-> decision]

FirstSteps == <<
  Step("rm-repo", "Day 1", None), Step("rm-tf", "Day 1", None),
  Step("rm-runweb", "Day 1", None), Step("rm-sql", "Day 1", "d-db"),
  Step("rm-runworker", "Week 1", None), Step("rm-pubsub", "Week 1", "d-queue"),
  Step("rm-redis", "Week 1", None), Step("rm-auth", "Week 1", None),
  Step("rm-llm", "Week 1", "d-llm")>>

LaterSteps == <<
  Step("rm-armor", "Month 1", None), Step("rm-stripe", "Month 1", None),
  Step("rm-otel", "Month 1", None), Step("rm-eval", "Month 1", None),
  Step("rm-runbook", "Month 1", None), Step("rm-soc", "Quarter 1", None),
  Step("rm-multireg", "Quarter 1", "d-cost"), Step("rm-billing", "Quarter 1", None)>>

SampleRoadmap == FirstSteps \o LaterSteps

SampleErrorPath == <<
  Edge("worker", "vertex", "external"), Edge("vertex", "worker", "external"),
  Edge("worker", "vertex", "external"), Edge("vertex", "worker", "external"),
  Edge("worker", "user", "async")>>

\* The sample chips of the header (lib/mocks/sample-packages.ts).
SamplePackages == <<"saas", "marketplace", "events">>
=============================================================================
