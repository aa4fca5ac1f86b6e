--------------------------- MODULE MCDecideStudio ---------------------------
(***************************************************************************)
(* DecideStudio for TLC: the whole canned design; the reader swaps the     *)
(* component that can be swapped out and another, and selects entries     *)
(* of every kind, of these components and of others.                       *)
(***************************************************************************)
EXTENDS DecideStudio, StudioSample

Selections ==
  Pick("node", {"lb", "redis", "db"}) \cup Pick("bom", {"b-redis"})
    \cup Pick("decision", {"d-db"}) \cup Pick("risk", {"r-redis"})
    \cup Pick("source", {6}) \cup Pick("assumption", {"a-slo"})
    \cup Pick("roadmap", {"rm-sql"})
=============================================================================
