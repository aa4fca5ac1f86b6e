------------------------------- MODULE MCSite -------------------------------
(***************************************************************************)
(* Site for TLC: one run of the reader's, one of somebody else's, and two  *)
(* packages, with the least of every list that the agents accept: a rich   *)
(* one, with ties between decisions, risks and cost lines, more cost lines *)
(* than the chart shows and more requirements than "What we heard" shows;  *)
(* and a poor one, with one line or risk or pick, all boxes on one spot, a *)
(* diagram that cannot be drawn and no PDF.  One diagram stands for three. *)
(***************************************************************************)
EXTENDS Site

Box(id, label, x, y, cite) == [id |-> id, label |-> label, x |-> x, y |-> y, cite |-> cite]
Pick(pick, conf, rev, blast, cite) ==
  [pick |-> pick, conf |-> conf, reversibility |-> rev, blastRadius |-> blast, cite |-> cite]
Line(cost, kind, fixed, users, rps, gb, mentions) ==
  [baseCost |-> cost, kind |-> kind, fixed |-> fixed,
   scaleExp |-> [users |-> users, rps |-> rps, gb |-> gb], mentions |-> mentions]
Risk(severity, likelihood, cite) == [severity |-> severity, likelihood |-> likelihood, cite |-> cite]

\* The edges of both packages.
Arcs == <<[from |-> "api", to |-> "db"], [from |-> "api", to |-> "q"], [from |-> "q", to |-> "w"]>>

Words == <<"scale", "scale", "latency", "region", "budget", "audience", "cloud", "uptime", "export">>
Rich ==
  [nodes |-> <<Box("api", "Cloud Run", 40, 10, 1), Box("db", "Cloud SQL", 40, 60, 2),
               Box("q", "Pub/Sub", 70, 60, 1), Box("w", "Cloud Run", 70, 10, 2)>>,
   edges |-> Arcs,
   decisions |-> <<Pick("Pub/Sub", "med", "2-way", "service", 1),
                   Pick("Cloud SQL", "high", "2-way", "data", 2),
                   Pick("Cloud Run", "high", "2-way", "service", 1),
                   Pick("Terraform", "low", "2-way", "platform", 2),
                   Pick("GCP", "high", "1-way", "platform", 1),
                   Pick("Redis", "high", "2-way", "data", 2),
                   Pick("OIDC", "high", "2-way", "platform", 2)>>,
   bom |-> <<Line(30, "compute", FALSE, 10, 0, 0, {}), Line(90, "data", FALSE, 0, 0, 10, {}),
             Line(22, "network", TRUE, 0, 10, 0, {"load balancer"}), Line(30, "data", FALSE, 0, 5, 0, {}),
             Line(0, "vendor", TRUE, 0, 0, 0, {"logging"}), Line(4, "storage", FALSE, 0, 5, 15, {}),
             Line(2, "vendor", FALSE, 10, 10, 0, {}), Line(1, "storage", TRUE, 0, 0, 0, {"registry"})>>,
   risks |-> <<Risk("med", "high", 1), Risk("high", "low", 2), Risk("high", "high", 1),
               Risk("low", "high", 2), Risk("high", "high", 2)>>,
   requirements |-> [i \in DOMAIN Words |-> [id |-> i, key |-> 10 + i, word |-> Words[i]]],
   componentRationales |-> <<[nodeId |-> "db", requirementId |-> 1, cite |-> 2],
                             [nodeId |-> "api", requirementId |-> 3, cite |-> 1]>>,
   sequenceDiagrams |-> <<[valid |-> TRUE]>>,
   integrationContracts |-> <<[cite |-> 1]>>, failureModes |-> <<[cite |-> 2]>>,
   buildSequence |-> <<[nodes |-> {"api", "db"}], [nodes |-> {"q"}], [nodes |-> {"w"}],
                       [nodes |-> {"q", "w"}]>>,
   sources |-> <<1, 2>>, pdf |-> TRUE]

Poor ==
  [nodes |-> <<Box("api", "Cloud Run", 0, 0, 1), Box("db", "Cloud SQL", 0, 0, 1),
               Box("q", "Pub/Sub", 0, 0, 1), Box("w", "Cloud Run", 0, 0, 1)>>,
   edges |-> Arcs,
   decisions |-> <<Pick("Cloud Run", "low", "2-way", "service", 1)>>,
   bom |-> <<Line(0, "compute", TRUE, 0, 0, 0, {})>>, risks |-> <<Risk("low", "low", 1)>>,
   requirements |-> <<[id |-> 1, key |-> 11, word |-> "scale"], [id |-> 2, key |-> 12, word |-> "budget"]>>,
   componentRationales |-> <<[nodeId |-> "api", requirementId |-> 1, cite |-> 1]>>,
   sequenceDiagrams |-> <<[valid |-> FALSE]>>,
   integrationContracts |-> <<[cite |-> 1]>>, failureModes |-> <<>>,
   buildSequence |-> <<[nodes |-> {"db"}], [nodes |-> {"q"}], [nodes |-> {"api", "w"}]>>,
   sources |-> <<1>>, pdf |-> FALSE]

TwoPackages == [rich |-> Rich, poor |-> Poor]

\* Exponents in tenths (0, a half, 1 and one and a half), powers in hundredths.
TenthsUsed == {0, 5, 10, 15}
PowersOfTenths ==
  [k \in {1, 10, 100} |->
     [e \in TenthsUsed |->
        CASE k = 1 \/ e = 0 -> 100
          [] k = 10 -> (CASE e = 5 -> 316 [] e = 10 -> 1000 [] e = 15 -> 3162)
          [] k = 100 -> (CASE e = 5 -> 1000 [] e = 10 -> 10000 [] e = 15 -> 100000)]]

\* Billing is turned on while the reader is at work.
BillingTurnedOn == <<FALSE, TRUE>>
=============================================================================
