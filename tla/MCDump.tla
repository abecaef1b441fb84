------------------------------- MODULE MCDump -------------------------------
(***************************************************************************)
(* Values of the constants of Dump for model checking: two controllers and *)
(* two of the pages of dump.go's table.                                    *)
(***************************************************************************)
EXTENDS Dump

MCCtrls == <<"nvme0", "nvme1">>
MCPages == <<"0x02", "0xc0">>
OneCtrl == <<"nvme0">>
=============================================================================
