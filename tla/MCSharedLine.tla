---------------------------- MODULE MCSharedLine ----------------------------
(* Small instances of SharedLine for TLC: a magic of two different bytes, as  *)
(* the letters of "IMPROV" are different.                                    *)
EXTENDS SharedLine

MCMagic == <<1, 0>>
\* The Improv sink may be left null.
MCWirings == {Sinks, {"console"}}
=============================================================================
