------------------------------- MODULE Framing -------------------------------
(***************************************************************************)
(* frame.rs: frames on a byte stream.  A frame is a length in four         *)
(* big-endian bytes, a kind and that many bytes; a BLOB longer than        *)
(* BLOB_CHUNK is split, and follows a CBOR header that declares its        *)
(* length.  A byte here has the two values of Base, so a length is below   *)
(* Base^4; CBOR itself is the value it carries.                            *)
(***************************************************************************)
EXTENDS Naturals, Sequences, SequencesExt

Base == 2
MAX_FRAME == 6
BLOB_CHUNK == 3
KIND_CBOR == 1
KIND_BLOB == 2

to_be_bytes(n) == [k \in 1..4 |-> (n \div Base^(4 - k)) % Base]

from_be_bytes(bytes) == FoldLeft(LAMBDA n, b : n * Base + b, 0, SubSeq(bytes, 1, 4))

\* What is written, or nothing for a payload over the limit.
write_raw(kind, payload) ==
  IF Len(payload) > MAX_FRAME THEN << >>
  ELSE to_be_bytes(Len(payload)) \o <<kind>> \o payload

ChunksOf(bytes, n) ==
  [k \in 1..((Len(bytes) + n - 1) \div n) |->
     SubSeq(bytes, (k - 1) * n + 1, IF k * n < Len(bytes) THEN k * n ELSE Len(bytes))]

BlobInOneFrame(bytes) == write_raw(KIND_BLOB, bytes)

write_blob(bytes) ==
  FlattenSeq([k \in DOMAIN ChunksOf(bytes, BLOB_CHUNK) |->
                write_raw(KIND_BLOB, ChunksOf(bytes, BLOB_CHUNK)[k])])

\* write_cbor of a header that declares a length: one byte of payload.
write_cbor(len) == write_raw(KIND_CBOR, <<len>>)

\* What is left of the stream and what was read: a frame, "none" for an end
\* between frames, or "error".
read_frame(stream) ==
  LET len == from_be_bytes(stream)
      payload == SubSeq(stream, 6, 5 + len)
      gives(kind, bytes, rest) == [kind |-> kind, payload |-> bytes, rest |-> rest]
  IN  CASE stream = << >> -> gives("none", << >>, << >>)
        [] Len(stream) \in 1..4 -> gives("error", << >>, << >>)
        [] Len(stream) >= 5 ->
             IF len > MAX_FRAME \/ Len(stream) < 5 + len \/ stream[5] \notin {KIND_CBOR, KIND_BLOB}
             THEN gives("error", << >>, << >>)
             ELSE gives(IF stream[5] = KIND_CBOR THEN "cbor" ELSE "blob", payload,
                        SubSeq(stream, 6 + len, Len(stream)))

\* The loop of every reader of a payload: frames until the declared length.
RECURSIVE read_payload(_, _, _)
read_payload(stream, len, got) ==
  LET f == read_frame(stream)
  IN  CASE Len(got) = len -> [ok |-> TRUE, bytes |-> got, rest |-> stream]
        [] Len(got) # len /\ f.kind = "blob" /\ Len(got) + Len(f.payload) <= len ->
             read_payload(f.rest, len, got \o f.payload)
        [] OTHER -> [ok |-> FALSE, bytes |-> got, rest |-> f.rest]

\* The payloads read from a stream of headers, each with its BLOBs, and how
\* the stream ended: at "none" or in an "error".
RECURSIVE read_all(_, _)
read_all(stream, got) ==
  LET f == read_frame(stream)
      p == read_payload(f.rest, f.payload[1], << >>)
  IN  CASE f.kind = "none" -> [payloads |-> got, end |-> "none"]
        [] f.kind = "cbor" ->
             IF p.ok THEN read_all(p.rest, Append(got, p.bytes))
             ELSE [payloads |-> got, end |-> "error"]
        [] f.kind \in {"blob", "error"} -> [payloads |-> got, end |-> "error"]

-----------------------------------------------------------------------------
\* Payload k of a list of lengths: recognisable bytes.
Bytes(k, n) == [j \in 1..n |-> (j + k) % Base]

Written(k, n) == write_cbor(n) \o write_blob(Bytes(k, n))

\* However long the payloads, the reader is in step with the writer: it reads
\* them all back and ends between frames.  A stream cut short is read up to
\* the last whole payload, and passes for finished only when cut between two.
StreamInStep(lengths, cut) ==
  LET whole == [k \in DOMAIN lengths |-> Written(k, lengths[k])]
      upto(k) == Len(FlattenSeq(SubSeq(whole, 1, k)))
      stream == FlattenSeq(whole)
      kept == IF cut < Len(stream) THEN cut ELSE Len(stream)
      arrived == {k \in 0..Len(lengths) : upto(k) <= kept}
      n == CHOOSE k \in arrived : \A j \in arrived : j <= k
  IN  read_all(SubSeq(stream, 1, kept), << >>) =
        [payloads |-> [k \in 1..n |-> Bytes(k, lengths[k])],
         end |-> IF upto(n) = kept THEN "none" ELSE "error"]
=============================================================================
