-------------------------------- MODULE MCIPC -------------------------------
(***************************************************************************)
(* The IPC relay with a reply of five units, the last one a newline, and  *)
(* reads of at most two units: reads come out full and short, a newline    *)
(* arrives alone or at the end of a longer read, and a full read that is  *)
(* not the last is held in buf.                                            *)
(***************************************************************************)
EXTENDS IPCRelay

DataUnit == [byte |-> "data"]
NewlineUnit == [byte |-> "newline"]
MCReply == <<DataUnit, DataUnit, DataUnit, DataUnit, NewlineUnit>>
=============================================================================
