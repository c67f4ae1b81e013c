------------------------------ MODULE Framing ------------------------------
(***************************************************************************)
(* The stream framing of src/p2p/stream_helper.go as pure operators on    *)
(* byte sequences: WriteStreamWithBuffer puts a LengthHeader-byte little- *)
(* endian length (len(msg) truncated to uint32) before the message;       *)
(* ReadStreamWithBuffer reads the header, rejects a length above          *)
(* MaxPayload, and reads that many bytes.  A failed read or write of the  *)
(* transport (deadline, reset) is a fault of the protocol modules; here a *)
(* stream that ends early is a byte sequence cut short.                    *)
(***************************************************************************)
EXTENDS Naturals, Sequences

LOCAL INSTANCE SequencesExt

CONSTANTS
    LengthHeader,  \* bytes of the length header (4)
    MaxPayload,    \* the largest length ReadStreamWithBuffer accepts
    PayloadBytes   \* byte values a message is made of (a few of 0..255)

ByteBase == 256

(* binary.LittleEndian.PutUint32(uint32(x)): the LengthHeader low bytes   *)
(* of x, least significant first; higher bytes are cut off, which is the  *)
(* uint32 conversion.                                                      *)
PutUint32(x) == [i \in 1..LengthHeader |-> (x \div ByteBase ^ (i - 1)) % ByteBase]

(* binary.LittleEndian.Uint32: the first byte is the least significant. *)
Uint32(bytes) == FoldRight(LAMBDA b, acc : b + ByteBase * acc, bytes, 0)

(* WriteStreamWithBuffer: what reaches the stream when every write succeeds. *)
WriteFrame(msg) == PutUint32(Len(msg)) \o msg

(* Mutant: the payload is taken with a single Read, not io.ReadFull, and  *)
(* a short read is not noticed.                                            *)
ReadFrameIgnoresShortRead(bytes) ==
    LET length == Uint32(SubSeq(bytes, 1, LengthHeader))
        last   == Min({Len(bytes), LengthHeader + length})
    IN
    CASE Len(bytes) < LengthHeader -> [ok |-> FALSE, err |-> "head"]
      [] length > MaxPayload       -> [ok |-> FALSE, err |-> "too long"]
      [] OTHER -> [ok |-> TRUE,
                   data |-> SubSeq(bytes, LengthHeader + 1, last),
                   rest |-> SubSeq(bytes, last + 1, Len(bytes))]

(* ReadStreamWithBuffer on a stream that carries bytes: io.ReadFull of    *)
(* the header, the MaxPayload check, io.ReadFull of the payload.  rest is *)
(* what stays on the stream (the dropped bufio.Reader's read-ahead is     *)
(* JoinPartyLeader's concern).                                            *)
ReadFrame(bytes) ==
    LET length == Uint32(SubSeq(bytes, 1, LengthHeader)) IN
    CASE Len(bytes) < LengthHeader           -> [ok |-> FALSE, err |-> "head"]
      [] length > MaxPayload                 -> [ok |-> FALSE, err |-> "too long"]
      [] Len(bytes) - LengthHeader < length  -> [ok |-> FALSE, err |-> "short read"]
      [] OTHER -> [ok |-> TRUE,
                   data |-> SubSeq(bytes, LengthHeader + 1, LengthHeader + length),
                   rest |-> SubSeq(bytes, LengthHeader + length + 1, Len(bytes))]

(* The messages a writer may be given: up to one byte over MaxPayload. *)
Messages == SeqOf(PayloadBytes, MaxPayload + 1)

(* What a reader may find on a stream on which msg was written: the      *)
(* frame, whole, or cut short by a reset or a deadline.                   *)
Prefix(s, j) == SubSeq(s, 1, j)
OnWire(msg) == {Prefix(WriteFrame(msg), j) : j \in 0..Len(WriteFrame(msg))}

-----------------------------------------------------------------------------
(* Reference: a frame is the length of the message as a LengthHeader-byte *)
(* little-endian number, then the message (spec 3, "Framing").            *)
RECURSIVE RefHeaderValue(_)
RefHeaderValue(h) == IF h = << >> THEN 0 ELSE h[1] + ByteBase * RefHeaderValue(Tail(h))

(* The framing against its reference (an assumption of the MC module,    *)
(* checked by TLC before the search): a frame written by                  *)
(* WriteStreamWithBuffer is read back by ReadStreamWithBuffer as exactly  *)
(* the message when it has at most MaxPayload bytes, whatever follows it *)
(* on the stream, and a longer message is rejected; the header is the     *)
(* reference little-endian encoding of the length.  (Frames cut short    *)
(* are the concern of Communication's DeliveredIntact.)                   *)
FrameRoundTrip ==
    /\ \A m \in Messages, r \in {<< >>} \cup {<<b>> : b \in PayloadBytes} :
          LET got == ReadFrame(WriteFrame(m) \o r) IN
          IF Len(m) <= MaxPayload
          THEN got = [ok |-> TRUE, data |-> m, rest |-> r]
          ELSE ~got.ok
    /\ \A m \in Messages : RefHeaderValue(PutUint32(Len(m))) = Len(m)

=============================================================================
