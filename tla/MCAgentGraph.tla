---------------------------- MODULE MCAgentGraph ----------------------------
(***************************************************************************)
(* AgentGraph for TLC.  Two records, two questions, and a finding on the   *)
(* page of a record.  Answers are a good one, varied in a field or two:    *)
(* other citations, unknown ones, and each way to be inadmissible.         *)
(***************************************************************************)
EXTENDS AgentGraph, TLC

k1 == <<"kb", "k1">>
k2 == <<"kb", "k2">>
k9 == <<"kb", "k9">>
q1 == <<"finding", "q1">>
q2 == <<"finding", "q2">>
q9 == <<"finding", "q9">>

Pages == (k1 :> "u1") @@ (k2 :> "u2") @@ (q1 :> "u1") @@ (q2 :> "u3")
Monthly == ("k1" :> 8) @@ ("k2" :> 0)

OneDecision(component, list) == <<[component |-> component, cites |-> list]>>
Syntheses ==
  {OneDecision("c1", list) : list \in {<<k1>>, <<q1, k2>>, <<k1, q2>>, <<k9>>, <<k1, q9>>}}
    \cup {OneDecision("null", <<q1>>) \o OneDecision("c1", <<k2>>)}

\* Four nodes in a line; the first goes down with the second.
Design(c) ==
  [nodes |-> [i \in 1..4 |->
                [id |-> <<"N1", "N2", "N3", "N4">>[i],
                 failure_domain |-> IF i = 1 THEN {"N2"} ELSE {}, cites |-> <<c>>]],
   edges |-> {<<"N1", "N2">>, <<"N2", "N3">>, <<"N3", "N4">>},
   flows |-> {{"N1", "N2"}},
   contracts |-> <<[edge |-> <<"N1", "N2">>, cites |-> <<c>>]>>,
   rationales |-> <<[node |-> "N1", requirement |-> "FR-1", cites |-> <<c>>]>>,
   failure_modes |-> <<[id |-> "FM-1", node |-> "N1", cites |-> <<c>>]>>,
   sequences |-> <<[id |-> "write", kind |-> "write"], [id |-> "read", kind |-> "read"],
                   [id |-> "async", kind |-> "async"]>>,
   phases |-> [i \in 1..3 |-> [id |-> <<"BP-1", "BP-2", "BP-3">>[i], nodes |-> {"N1"}]]]

Architectures ==
  LET d == Design(k1) IN
  {d, Design(k2), Design(q1), Design(k9)}
    \cup {[d EXCEPT !.nodes[2].cites = <<q9>>], [d EXCEPT !.nodes[2].failure_domain = {"N3"}],
          [d EXCEPT !.nodes[1].failure_domain = {}], [d EXCEPT !.nodes[1].failure_domain = {"N1"}],
          [d EXCEPT !.nodes[1].failure_domain = {"N9"}]}
    \cup {[d EXCEPT !.edges = @ \cup {e}] : e \in {<<"N1", "N1">>, <<"N1", "N9">>, <<"N2", "N4">>}}
    \cup {[d EXCEPT !.flows = {{"N9"}}]}
    \cup {[d EXCEPT !.contracts = @ \o s] :
            s \in {<<[edge |-> <<"N1", "N2">>, cites |-> <<q1>>]>>,
                   <<[edge |-> <<"N2", "N1">>, cites |-> <<k1>>]>>}}
    \cup {[d EXCEPT !.contracts = <<>>], [d EXCEPT !.rationales = <<>>]}
    \cup {[d EXCEPT !.rationales[1].requirement = "FR-9"],
          [d EXCEPT !.rationales[1].cites = <<k9>>],
          [d EXCEPT !.rationales[1].node = "N9"]}
    \cup {[d EXCEPT !.failure_modes = <<>>], [d EXCEPT !.failure_modes[1].cites = <<q9>>],
          [d EXCEPT !.failure_modes[1].node = "N9"], [d EXCEPT !.failure_modes = @ \o @]}
    \cup {[d EXCEPT !.sequences = SubSeq(@, 1, 2)], [d EXCEPT !.sequences[1].id = "read"],
          [d EXCEPT !.phases = SubSeq(@, 1, 2)], [d EXCEPT !.phases[3].id = "BP-1"],
          [d EXCEPT !.phases[3].nodes = {"N9"}]}

Quote(cost, c, baseline) ==
  [lines |-> <<[cost |-> cost, cites |-> <<c>>]>>, baseline |-> baseline, at_10x |-> 2,
   at_100x |-> 3]
Estimates ==
  {Quote(8, k1, 1), Quote(2, k1, 1), Quote(1, k1, 1), Quote(33, k1, 1), Quote(33, k2, 1),
   Quote(1, q1, 2), Quote(8, k1, 3), Quote(8, k9, 1), Quote(8, q9, 1),
   [Quote(8, k1, 1) EXCEPT !.at_100x = 1]}

OneRisk(component, list) == <<[component |-> component, cites |-> list]>>
RiskLists ==
  {OneRisk("null", <<k1>>), OneRisk("c1", <<q2, k1>>), OneRisk("N4", <<k2, q1>>),
   OneRisk("c9", <<k1>>), OneRisk("null", <<k1, k9>>)}

Replies ==
  [a \in Asking |->
     CASE a = "intake_normalizer" -> {"brief"}
       [] a = "requirements_extractor" -> {{"FR-1", "NFR-1"}}
       [] a = "research_planner" -> {{"q1", "q2"}}
       [] a = "synthesizer" -> Syntheses
       [] a = "architect" -> Architectures
       [] a = "cost_estimator" -> Estimates
       [] a = "risk_writer" -> RiskLists]
=============================================================================
