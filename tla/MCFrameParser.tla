--------------------------- MODULE MCFrameParser ---------------------------
(* Small instances of FrameParser for TLC: a magic of two different bytes, as *)
(* the letters of "IMPROV" are different.  What the frames carry is checked   *)
(* on an alphabet of its own.                                                *)
EXTENDS FrameParser, Payload

MCMagic == <<1, 0>>

\* The payload of a frame that was dispatched means what the host put into it,
\* credentials are never cut in another place, and the response that follows is
\* read back as it was meant (improv_wifi.cpp:106-143, 308-333).
PayloadExact == dispatched # {} => RequestsParsed /\ ResponsesReadable
=============================================================================
