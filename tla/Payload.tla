------------------------------ MODULE Payload ------------------------------
(* What is inside the RPC frames (improv_wifi.cpp): parsePayload_(), which     *)
(* takes a request apart, and emitRpcResponse_(), which builds a response.    *)
(* Bytes are scaled: MaxByte is 255 in the code, and a payload is a sequence. *)
EXTENDS Integers, Sequences, SequencesExt

CONSTANTS
  MaxByte,        \* the largest value of a byte, and so the largest length
  WifiSettings,   \* Command::WifiSettings
  MaxPayload,     \* bound on the bytes of a request's payload
  Letters,        \* the bytes the fields of a response are made of
  MaxFields       \* bound on the fields of a response

Bytes == 0..MaxByte

ASSUME MaxByteAssumption == MaxByte \in Nat /\ MaxByte > 2
ASSUME WifiAssumption == WifiSettings \in Bytes
ASSUME PayloadBounds ==
  MaxPayload \in Nat /\ Letters \subseteq Bytes /\ MaxFields \in Nat

-----------------------------------------------------------------------------
(* Requests *)

Unknown == [command |-> -1, ssid |-> <<>>, password |-> <<>>]
Settings(s, p) == [command |-> WifiSettings, ssid |-> s, password |-> p]

PassAt(d) == 3 + d[3] + 1

BadFieldsFit(d) ==
  /\ Len(d) - 2 >= 2
  /\ PassAt(d) <= Len(d)
  /\ PassAt(d) + d[PassAt(d)] <= Len(d)

\* [ssid_len][ssid][pass_len][pass]; the comparisons are made in this order, and
\* each makes the next read safe.
FieldsFit(d) ==
  /\ Len(d) - 2 >= 2
  /\ PassAt(d) <= Len(d)
  /\ PassAt(d) + d[PassAt(d)] = Len(d)

\* parsePayload_(), which is only ever called for a payload whose checksum the
\* frame has carried (withChecksum is false).
ParsePayload(d) ==
  IF Len(d) < 2 \/ d[2] # Len(d) - 2 THEN Unknown
  ELSE IF d[1] # WifiSettings THEN [Unknown EXCEPT !.command = d[1]]
  ELSE IF FieldsFit(d)
  THEN Settings(SubSeq(d, 4, 3 + d[3]),
                SubSeq(d, PassAt(d) + 1, PassAt(d) + d[PassAt(d)]))
  ELSE Unknown

\* What a host sends.
Field(s) == <<Len(s)>> \o s
Request(c, body) == <<c, Len(body)>> \o body

-----------------------------------------------------------------------------
(* Responses *)

TooLong == <<>>     \* Error::Unknown takes the place of the response

TotalLength(fields) == FoldLeft(LAMBDA n, s : n + 1 + Len(s), 0, fields)

BadFits(fields) == \A i \in DOMAIN fields : Len(fields[i]) <= MaxByte

\* Two bytes of the payload are the command and the total length.
Fits(fields) ==
  /\ \A i \in DOMAIN fields : Len(fields[i]) <= MaxByte
  /\ TotalLength(fields) <= MaxByte - 2

EmitRpcResponse(c, fields) ==
  IF Fits(fields)
  THEN <<c, TotalLength(fields) % (MaxByte + 1)>>
         \o FoldLeft(LAMBDA b, s : b \o Field(s), <<>>, fields)
  ELSE TooLong

\* How a host reads it: Reads(d, fields) when the fields are what d holds.
Reads(d, fields) ==
  LET start == [i \in 1..(Len(fields) + 1) |-> 3 + TotalLength(SubSeq(fields, 1, i - 1))]
  IN  /\ d[2] = Len(d) - 2
      /\ start[Len(fields) + 1] = Len(d) + 1
      /\ \A i \in DOMAIN fields :
           /\ d[start[i]] = Len(fields[i])
           /\ SubSeq(d, start[i] + 1, start[i] + d[start[i]]) = fields[i]

-----------------------------------------------------------------------------
(* What both are for *)

Payloads == BoundedSeq(Bytes, MaxPayload)

\* A payload is taken for credentials when a host has built it from them, which
\* it can have done in one way, and for another command when its length agrees.
RequestsParsed ==
  /\ \A d \in Payloads :
       LET r == ParsePayload(d) IN
         IF r.command = WifiSettings
         THEN d = Request(WifiSettings, Field(r.ssid) \o Field(r.password))
         ELSE IF r # Unknown THEN d = Request(r.command, SubSeq(d, 3, Len(d)))
         ELSE \A c \in Bytes \ {WifiSettings} : d # Request(c, SubSeq(d, 3, Len(d)))
  /\ \A s, p \in BoundedSeq(Letters, MaxByte) :
       LET d == Request(WifiSettings, Field(s) \o Field(p)) IN
         Len(d) <= MaxByte => ParsePayload(d) = Settings(s, p)

Strings == BoundedSeq(Letters, MaxByte + 1)

\* A response goes out whole, in a frame that has room for it, and a host reads
\* its fields back; one that has no room is replaced.
ResponsesReadable ==
  \A fields \in BoundedSeq(Strings, MaxFields) :
    LET d == EmitRpcResponse(0, fields) IN
      IF 2 + TotalLength(fields) > MaxByte THEN d = TooLong
      ELSE Len(d) \in 2..MaxByte /\ Reads(d, fields)
=============================================================================
