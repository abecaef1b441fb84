----------------------------- MODULE MCInventory -----------------------------
(***************************************************************************)
(* A host with a slot nvme1 and a slot nvme10, so that one name begins the *)
(* other, and three drives: d1 tells everything, d2 gives no model over the *)
(* wire, and d3 has no serial.  Only d1 serves page 0xc0 at first.         *)
(***************************************************************************)
EXTENDS Inventory

CONSTANTS d1, d2, d3

MCBegins == {<<"nvme1", "nvme10">>}
MCRank   == [n \in Names |-> IF n = "nvme1" THEN 1 ELSE 2]

\* d1 in the first slot and d3 in the second, or d2 in the first and nothing in the
\* second; the first has its namespaces 1 and 2, and namespace 2 is in an array.
MCHosts ==
  {[slot     |-> [n \in Names |-> IF n = "nvme1" THEN d ELSE e],
    state    |-> [n \in Names |-> "live"],
    attached |-> [x \in Drives |-> IF x = d3 THEN {1} ELSE NSIDs],
    serves   |-> {d1},
    member   |-> [b \in Blocks |-> IF b = <<"nvme1", 2>> THEN 3 ELSE NoArray]] :
      <<d, e>> \in {<<d1, d3>>, <<d2, None>>}}
=============================================================================
