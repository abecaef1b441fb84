----------------------------- MODULE MCExporter -----------------------------
(***************************************************************************)
(* Values of the constants of Exporter for model checking: fleets of one   *)
(* to three drives that differ in what they serve, and page orders that    *)
(* are the code's or a part of it in the code's order.                     *)
(***************************************************************************)
EXTENDS Exporter, TLC

CONSTANTS d1, d2, d3

\* collectController's calls, and parts of them.
AllPages   == <<"0x02", "0xc0", "0x03", "0x01", "0x06">>
OneVendor  == <<"0xc0">>
OneError   == <<"0x01">>

\* d1 serves every page; d2 has another vendor's page 0xc0 and refuses the
\* self-test log; d3 refuses page 0xc0 and even Identify.
MCVerdict ==
  [d \in Drives |-> [c \in Commands |->
    CASE d = d2 /\ c = "0xc0" -> "foreign"
      [] d = d2 /\ c = "0x06" -> "refused"
      [] d = d3 /\ c \in {"identify", "0xc0"} -> "refused"
      [] OTHER -> "data"]]

\* The lengths of their error logs: 256, 64 and 1 entries.
MCELPE == [d \in Drives |-> IF d = d1 THEN 255 ELSE IF d = d2 THEN 63 ELSE 0]

ScrapeSymmetry == Permutations(Scrapes)
=============================================================================
