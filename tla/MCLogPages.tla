----------------------------- MODULE MCLogPages -----------------------------
(***************************************************************************)
(* Values of the constants of LogPages for model checking.  A byte of page *)
(* 0xc0 holds three values, so that sixteen of them fit TLC's integers;    *)
(* statuses and nibbles have their real width.                             *)
(***************************************************************************)
EXTENDS LogPages

InvalidLogPage == [sct |-> 1, sc |-> 9, above |-> 8]    \* Do Not Retry
InvalidField   == [sct |-> 0, sc |-> 2, above |-> 0]
MediaError     == [sct |-> 2, sc |-> 129, above |-> 12]
Media9         == [sct |-> 2, sc |-> 9, above |-> 4]    \* the code of another type

\* A drive that serves everything; one that lacks the vendor page; one whose
\* refusals differ from each other, and from what the exporter knows.
MCRefusals ==
  {<<>>,
   [p \in {"0xc0"} |-> InvalidLogPage],
   [p \in {"identify", "0x02", "0xc0", "0x06"} |->
      IF p = "0x02" THEN Media9 ELSE InvalidField]}

MCErrors == {InvalidLogPage, MediaError}

\* An extended test that failed, and two whose names are "reserved".
MCOutcomes ==
  {[result |-> 7, code |-> 2],
   [result |-> 10, code |-> 3], [result |-> 11, code |-> 3]}

\* No bit and every bit; one that is reserved, and two that are not.
MCWarnings == {{}, 0..7, {6}, {1, 4}}

MCPasts ==
  {[log |-> <<>>, runs |-> <<>>],
   [log |-> [i \in 1..9 |-> IF i = 9 THEN MediaError ELSE InvalidLogPage],
    runs |-> <<[result |-> 10, code |-> 3], [result |-> 11, code |-> 3]>>]}

\* One field of each kind of width.
MCFields ==
  [f \in {<<"thermal_throttle_events_total">>, <<"bad_nand_blocks_normalized">>,
          <<"refresh_count_total">>, <<"xor_recovery_total">>,
          <<"media_written_bytes_total">>} |->
    CASE f[1] = "thermal_throttle_events_total" -> 1
      [] f[1] = "bad_nand_blocks_normalized" -> 2
      [] f[1] = "refresh_count_total" -> 7
      [] f[1] = "xor_recovery_total" -> 8
      [] f[1] = "media_written_bytes_total" -> 16]
=============================================================================
