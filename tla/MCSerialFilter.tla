-------------------------- MODULE MCSerialFilter --------------------------
(* Small instances of SerialFilter for TLC: a magic of three bytes whose first *)
(* byte does not come again, as the 'I' of "IMPROV" does not.                 *)
EXTENDS SerialFilter

MCMagic == <<1, 0, 0>>
\* The Improv sink may be left null.
MCWirings == {Sinks, {"console"}}
=============================================================================
