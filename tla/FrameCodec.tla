------------------------------ MODULE FrameCodec ------------------------------
(***************************************************************************)
(* The frame format of transport/frame-codec.ts: a header with the length  *)
(* of the payload, most significant byte first, and the payload.  Constant *)
(* definitions only.                                                       *)
(*                                                                         *)
(* A decoder is what FrameDecoder keeps: the header and body bytes that it *)
(* has accepted, and how far it is.                                        *)
(***************************************************************************)
EXTENDS Naturals, Sequences

CONSTANTS HeaderBytes,      \* FRAME_HEADER_BYTES
          ByteValues,       \* how many values a byte has: 256
          MaxPayload        \* maxPayloadBytes

Byte == 0 .. (ByteValues - 1)

\* readUInt32BE of the first k bytes of s, and of a whole header.
ValueOf(s) ==
    LET upTo[k \in Nat] == IF k = 0 THEN 0 ELSE ByteValues * upTo[k - 1] + s[k]
    IN upTo[HeaderBytes]

\* MAX_UINT32: the value of the largest header.
MaxUint == ValueOf([i \in 1 .. HeaderBytes |-> ByteValues - 1])

\* normalizeMaxPayloadBytes refuses a limit that no header can say.
ASSUME FrameAssumption ==
    /\ HeaderBytes \in Nat \ {0}
    /\ ByteValues \in Nat \ {0}
    /\ MaxPayload \in 0 .. MaxUint

\* writeUInt32BE: the header whose value is n.
Header(n) == CHOOSE h \in [1 .. HeaderBytes -> Byte] : ValueOf(h) = n

\* encodeFrame of a payload that is not oversized.
Encodable(payload) == Len(payload) <= MaxPayload
Frame(payload) == Header(Len(payload)) \o payload

DecoderFailures == {"oversized-frame", "trailing-data"}

NewDecoder == [bytes |-> <<>>, status |-> "open"]

Failed(d) == d.status \in DecoderFailures

\* FrameDecoder.push of one chunk, of any size: the decoder afterwards.  It
\* accepts a header, then as much body as the header declares, and fails on a
\* declaration above the limit before it takes any body, or on what is left.
Push(d, chunk) ==
    LET all == d.bytes \o chunk
        end == HeaderBytes + ValueOf(all)
    IN IF Failed(d) \/ chunk = <<>> THEN d
       ELSE IF d.status = "complete" THEN [d EXCEPT !.status = "trailing-data"]
       ELSE IF Len(all) < HeaderBytes THEN [d EXCEPT !.bytes = all]
       ELSE IF ValueOf(all) > MaxPayload
       THEN [bytes |-> SubSeq(all, 1, HeaderBytes), status |-> "oversized-frame"]
       ELSE IF Len(all) < end THEN [d EXCEPT !.bytes = all]
       ELSE [bytes  |-> SubSeq(all, 1, end),
             status |-> IF Len(all) = end THEN "complete" ELSE "trailing-data"]

\* The payload of a complete frame.
Payload(d) == SubSeq(d.bytes, HeaderBytes + 1, Len(d.bytes))
=============================================================================
