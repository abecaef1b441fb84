------------------------------- MODULE MCScrub -------------------------------
(***************************************************************************)
(* Values of the constants of Scrub for model checking: every buffer of up *)
(* to seven bytes, and serials that overlap themselves, that hold the      *)
(* placeholder at an end or inside, or that are too short to look for.     *)
(***************************************************************************)
EXTENDS Scrub

CONSTANTS a, b, X

MCChars == {a, b, X}
MCRaws  == UNION {[1..n -> MCChars] : n \in 0..7}
MCSerials == {<<a>>, <<a, b>>, <<a, b, a>>, <<X, X>>, <<b, X>>, <<a, X, a>>, <<a, a, b, a>>}

MCSerialField == {1}
MCSubnqnField == {4, 5}
=============================================================================
