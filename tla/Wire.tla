-------------------------------- MODULE Wire --------------------------------
(***************************************************************************)
(* A request at the level of its bytes: the receivers take a message out   *)
(* of a body (handle in src/src/server.rs, handle_grpc in src/src/grpc.rs),*)
(* the cursor of archiv-ingest/src/otlp.rs walks it, archiv-export puts it *)
(* together again, and the verdict becomes an answer.                      *)
(*                                                                         *)
(* The parser and the re-encoder walk with the same cursor and differ in   *)
(* the fields they look into.  Here each length-delimited field is looked  *)
(* into or not, so that the walk stands for both, and every field that is  *)
(* looked into gets a new header, as around a child that was rebuilt.      *)
(* Which fields hold records is in module Otlp.                            *)
(***************************************************************************)
EXTENDS Integers, Sequences, SequencesExt

CONSTANTS
    Requests,         \* [transport, route, typed, body]: path and content type right or not
    max_body_bytes,
    MaxDepth          \* bound on nested windows

Byte == 0 .. 255

ASSUME WireAssumption ==
    /\ Requests \subseteq [transport : {"http", "grpc"}, route : BOOLEAN, typed : BOOLEAN, body : Seq(Byte)]
    /\ max_body_bytes \in Nat \ {0} /\ max_body_bytes < 128 * 128 * 128 * 128
    /\ MaxDepth \in Nat \ {0}

VARIABLES
    pc,
    req,       \* the request
    message,   \* the bytes handed to a worker
    stack,     \* the cursors, outermost first
    err,       \* ParseError
    rebuilt,   \* the bytes put together again
    verdict, status

vars == <<pc, req, message, stack, err, rebuilt, verdict, status>>

-----------------------------------------------------------------------------
(* Varints.  A u64 is its ten digits to the base 128, the lowest first; the *)
(* tenth is a single bit.                                                   *)

Digits10 == 1 .. 10

Weights == <<1, 128, 128 * 128, 128 * 128 * 128>>
U64(n)  == [k \in Digits10 |-> IF k > 4 THEN 0 ELSE (n \div Weights[k]) % 128]

\* Messages, of at most max_body_bytes, are shorter than 128^4 bytes.
IsSmall(v) == \A k \in 5 .. 10 : v[k] = 0
Small(v)   == v[1] + 128 * v[2] + 128 * 128 * v[3] + 128 * 128 * 128 * v[4]

\* What a read returns: an error, where the cursor is, the value.
Read(error, pos, v) == [err |-> error, pos |-> pos, v |-> v]

\* WireCursor::varint.  Eleven bytes are too many; of the tenth one bit counts.
varint(buf, c) ==
    LET stops == {n \in 1 .. c.end - c.pos : buf[c.pos + n] < 128}
        n     == IF stops = {} THEN c.end - c.pos + 1 ELSE Min(stops)
    IN  IF n > 10 /\ c.end - c.pos > 10 THEN Read("VarintOverflow", c.pos, U64(0))
        ELSE IF stops = {} THEN Read("Truncated", c.pos, U64(0))
        ELSE Read("none", c.pos + n,
                  [k \in Digits10 |-> IF k > n THEN 0
                                      ELSE (buf[c.pos + k] % 128) % (IF k = 10 THEN 2 ELSE 128)])

\* WireCursor::tag: three bits of wire type, and the next 32 bits.
WireType(v) == v[1] % 8
Field(v)    == [k \in 1 .. 5 |-> IF k = 1 THEN v[1] \div 8 ELSE v[k]]

\* put_varint: the digits to the highest that is not zero, each but the last
\* with its top bit set.
Highest(v) == Max({1} \cup {k \in Digits10 : v[k] # 0})
put_varint(v) == [k \in 1 .. Highest(v) |-> IF k < Highest(v) THEN v[k] + 128 ELSE v[k]]

\* Bits in use, and how many groups of seven they fill: 64 - leading_zeros(v).
Powers    == <<1, 2, 4, 8, 16, 32, 64, 128>>
BitsOf(d) == Min({n \in 0 .. 7 : d < Powers[n + 1]})
Bits(v)   == 7 * (Highest(v) - 1) + BitsOf(v[Highest(v)])
Or1(v)    == [v EXCEPT ![1] = IF @ % 2 = 0 THEN @ + 1 ELSE @]

\* Mutant: zero takes no byte.
varint_len_of_zero(v) == (Bits(v) + 6) \div 7

varint_len(v) == (Bits(Or1(v)) + 6) \div 7

\* field << 3 | 2
LenTag(field) == [k \in Digits10 |-> IF k > 5 THEN 0 ELSE IF k = 1 THEN field[1] * 8 + 2 ELSE field[k]]
header_len(field, size) == varint_len(LenTag(field)) + varint_len(U64(size))
header(field, size)     == put_varint(LenTag(field)) \o put_varint(U64(size))

-----------------------------------------------------------------------------
(* The cursor: [pos, end], offsets into the message *)

\* Mutant: a field that ends with its window overruns it.
FitsBelow(c, start, v) == IsSmall(v) /\ start + Small(v) < c.end

Fits(c, start, v) == IsSmall(v) /\ start + Small(v) <= c.end

\* WireCursor::len_range: the range is from start to pos.
len_range(buf, c) ==
    LET r == varint(buf, c)
        ReadRange(error, pos) == [err |-> error, pos |-> pos, v |-> r.v, start |-> r.pos]
    IN  IF r.err # "none" THEN ReadRange(r.err, r.pos)
        ELSE IF Fits(c, r.pos, r.v) THEN ReadRange("none", r.pos + Small(r.v))
        ELSE ReadRange("LengthOverrun", r.pos)

\* Mutant: a fixed-width field is not checked against the window.
advance_unchecked(c, n) == Read("none", c.pos + n, U64(0))

advance(c, n) == IF c.pos + n <= c.end THEN Read("none", c.pos + n, U64(0))
                 ELSE Read("Truncated", c.pos, U64(0))

skip(buf, c, wire) ==
    CASE wire = 0 -> varint(buf, c)
      [] wire = 1 -> advance(c, 8)
      [] wire = 2 -> len_range(buf, c)
      [] wire = 5 -> advance(c, 4)
      [] OTHER    -> Read("UnsupportedWire", c.pos, U64(0))

-----------------------------------------------------------------------------
(* The receivers *)

\* The status of the first check that fails.
FirstStatus(checks) ==
    LET failed == {i \in DOMAIN checks : checks[i][1]}
    IN  IF failed = {} THEN "none" ELSE checks[Min(failed)][2]

\* Mutant: the frame's header counts against the limit.
GrpcLimitBare == max_body_bytes

\* Limited: the message and the five bytes of its header.
GrpcLimit == max_body_bytes + 5

BigEndian(b) == ((b[1] * 256 + b[2]) * 256 + b[3]) * 256 + b[4]
FrameLen(body) == BigEndian(SubSeq(body, 2, 5))

handle(r) == FirstStatus(<<<<~r.route, "404">>, <<Len(r.body) > max_body_bytes, "413">>>>)

\* The later checks read the frame's header, which the earlier ones have found.
handle_grpc(r) ==
    LET early == FirstStatus(<<<<~r.route, "12">>, <<~r.typed, "3">>,
                               <<Len(r.body) > GrpcLimit, "8">>, <<Len(r.body) < 5, "3">>>>)
    IN  IF early # "none" THEN early
        ELSE FirstStatus(<<<<r.body[1] # 0, "12">>, <<Len(r.body) < 5 + FrameLen(r.body), "3">>>>)

Refusal(r) == IF r.transport = "http" THEN handle(r) ELSE handle_grpc(r)
Message(r) == IF r.transport = "http" THEN r.body ELSE SubSeq(r.body, 6, 5 + FrameLen(r.body))

\* The answer to each verdict.
Answer(transport, v) ==
    CASE v = "Accepted"      -> IF transport = "http" THEN "200" ELSE "0"
      [] v = "Malformed"     -> IF transport = "http" THEN "400" ELSE "3"
      [] v = "ForwardFailed" -> IF transport = "http" THEN "503" ELSE "14"

-----------------------------------------------------------------------------
NoRequest == [transport |-> "none", route |-> FALSE, typed |-> FALSE, body |-> <<>>]

\* A window that is walked, lo its first byte: run is where the bytes start that are not yet in
\* out, size what segs_encoded_len says of out, field the tag it stands under.
Window(lo, hi, field, tag_start) ==
    [lo |-> lo, pos |-> lo, end |-> hi, run |-> lo, out |-> <<>>, size |-> 0, field |-> field, tag_start |-> tag_start]
TopField == [k \in 1 .. 5 |-> 0]

Top   == Last(stack)
Bytes(lo, hi) == SubSeq(message, lo + 1, hi)

Init ==
    /\ pc = "idle" /\ req = NoRequest /\ message = <<>> /\ stack = <<>> /\ err = "none"
    /\ rebuilt = <<>> /\ verdict = "none" /\ status = "none"

Refuse(r) ==
    /\ Refusal(r) # "none"
    /\ req' = r /\ status' = Refusal(r) /\ pc' = "answered"
    /\ UNCHANGED <<message, stack, err, rebuilt, verdict>>

Submit(r) ==
    /\ Refusal(r) = "none"
    /\ req' = r /\ message' = Message(r)
    /\ stack' = <<Window(0, Len(Message(r)), TopField, 0)>>
    /\ pc' = "walk"
    /\ UNCHANGED <<err, rebuilt, verdict, status>>

Tag(c) == varint(message, c)
AfterTag(c) == [c EXCEPT !.pos = Tag(c).pos]

Fail(error) ==
    /\ err' = error /\ pc' = "walked" /\ verdict' = "Malformed"
    /\ UNCHANGED <<req, message, stack, rebuilt, status>>

\* A field that nobody looks into.
SkipField ==
    /\ pc = "walk" /\ Top.pos < Top.end
    /\ Tag(Top).err = "none"
    /\ LET r == skip(message, AfterTag(Top), WireType(Tag(Top).v))
       IN  /\ r.err = "none"
           /\ stack' = [stack EXCEPT ![Len(stack)].pos = r.pos]
    /\ UNCHANGED <<pc, req, message, err, rebuilt, verdict, status>>

\* A length-delimited field is walked with a cursor of its own.
EnterField ==
    /\ pc = "walk" /\ Top.pos < Top.end /\ Len(stack) < MaxDepth
    /\ Tag(Top).err = "none" /\ WireType(Tag(Top).v) = 2
    /\ LET r == len_range(message, AfterTag(Top))
       IN  /\ r.err = "none"
           /\ stack' = Append([stack EXCEPT ![Len(stack)].pos = r.pos],
                              Window(r.start, r.pos, Field(Tag(Top).v), Top.pos))
    /\ UNCHANGED <<pc, req, message, err, rebuilt, verdict, status>>

\* The parser stops.  A request on which only the re-encoder stops goes out as
\* it came (module Pipeline).
WalkFails ==
    /\ pc = "walk" /\ Top.pos < Top.end
    /\ \/ Tag(Top).err # "none" /\ Fail(Tag(Top).err)
       \/ /\ Tag(Top).err = "none"
          /\ LET r == skip(message, AfterTag(Top), WireType(Tag(Top).v))
             IN  r.err # "none" /\ Fail(r.err)

\* What is left of a window is copied as it is.
Rest(w)     == w.out \o Bytes(w.run, w.end)
RestSize(w) == w.size + (w.end - w.run)

\* Mutant: the tag of the field is copied too.
LeaveFieldKeepsTag ==
    /\ pc = "walk" /\ Len(stack) > 1 /\ Top.pos >= Top.end
    /\ LET up == stack[Len(stack) - 1]
       IN  stack' = Append(SubSeq(stack, 1, Len(stack) - 2),
                 [up EXCEPT !.out  = up.out \o Bytes(up.run, Top.tag_start + 1)
                                       \o header(Top.field, RestSize(Top)) \o Rest(Top),
                            !.size = up.size + (Top.tag_start - up.run)
                                       + header_len(Top.field, RestSize(Top)) + RestSize(Top),
                            !.run  = up.pos])
    /\ UNCHANGED <<pc, req, message, err, rebuilt, verdict, status>>

\* The end of an inner window: the bytes before its tag, a new header, and what
\* it has become.
LeaveField ==
    /\ pc = "walk" /\ Len(stack) > 1 /\ Top.pos >= Top.end
    /\ LET up == stack[Len(stack) - 1]
       IN  stack' = Append(SubSeq(stack, 1, Len(stack) - 2),
                 [up EXCEPT !.out  = up.out \o Bytes(up.run, Top.tag_start)
                                       \o header(Top.field, RestSize(Top)) \o Rest(Top),
                            !.size = up.size + (Top.tag_start - up.run)
                                       + header_len(Top.field, RestSize(Top)) + RestSize(Top),
                            !.run  = up.pos])
    /\ UNCHANGED <<pc, req, message, err, rebuilt, verdict, status>>

\* The whole message is walked and put together; it is forwarded or not.
Finish ==
    /\ pc = "walk" /\ Len(stack) = 1 /\ Top.pos >= Top.end
    /\ pc' = "walked"
    /\ rebuilt' = Rest(Top)
    /\ verdict' \in {"Accepted", "ForwardFailed"}
    /\ UNCHANGED <<req, message, stack, err, status>>

Respond ==
    /\ pc = "walked" /\ pc' = "answered"
    /\ status' = Answer(req.transport, verdict)
    /\ UNCHANGED <<req, message, stack, err, rebuilt, verdict>>

Next ==
    \/ pc = "idle" /\ \E r \in Requests : Refuse(r) \/ Submit(r)
    \/ SkipField \/ EnterField \/ WalkFails \/ LeaveField \/ Finish
    \/ Respond

Spec == Init /\ [][Next]_vars

-----------------------------------------------------------------------------
(* Properties *)

\* A cursor stays in its window, a window in the one around it, and what
\* was copied ends before the cursor.
TypeOK ==
    /\ pc \in {"idle", "walk", "walked", "answered"}
    /\ err \in {"none", "Truncated", "VarintOverflow", "LengthOverrun", "UnsupportedWire"}
    /\ \A i \in DOMAIN stack :
          /\ 0 <= stack[i].lo /\ stack[i].lo <= stack[i].run /\ stack[i].run <= stack[i].pos
          /\ stack[i].pos <= stack[i].end /\ stack[i].end <= Len(message)
          /\ i > 1 => stack[i].end = stack[i - 1].pos /\ stack[i].tag_start < stack[i].run

\* The wire format itself, without a cursor.  Bytes lo+1 to hi are one varint:
VarintAt(b, lo, hi) ==
    /\ lo < hi /\ hi <= Len(b)
    /\ b[hi] < 128 /\ \A j \in lo + 1 .. hi - 1 : b[j] >= 128
\* ... that stands for n, seven bits a byte, the tenth byte one,
DigitAt(b, lo, hi, k) == IF lo + k > hi THEN 0 ELSE b[lo + k] % (IF k = 10 THEN 2 ELSE 128)
ValueAt(b, lo, hi, n) ==
    /\ n = DigitAt(b, lo, hi, 1) + 128 * DigitAt(b, lo, hi, 2)
             + 128 * 128 * DigitAt(b, lo, hi, 3) + 128 * 128 * 128 * DigitAt(b, lo, hi, 4)
    /\ \A k \in 5 .. 10 : DigitAt(b, lo, hi, k) = 0
\* ... what follows a tag with a wire type that OTLP uses,
PayloadAt(b, wire, lo, hi) ==
    \/ wire = 0 /\ hi - lo <= 10 /\ VarintAt(b, lo, hi)
    \/ wire = 1 /\ hi - lo = 8
    \/ wire = 5 /\ hi - lo = 4
    \/ wire = 2 /\ \E len \in lo + 1 .. lo + 10 :
                      len <= hi /\ VarintAt(b, lo, len) /\ ValueAt(b, lo, len, hi - len)
\* ... a field,
FieldAt(b, lo, hi) ==
    \E tag \in lo + 1 .. lo + 10 : VarintAt(b, lo, tag) /\ PayloadAt(b, b[lo + 1] % 8, tag, hi)
\* ... or a run of fields.
WellFormed(b, lo, hi) ==
    LET W[i \in lo .. hi] == i = hi \/ \E j \in i + 1 .. hi : FieldAt(b, i, j) /\ W[j]
    IN  W[lo]

\* The walk gets to the end of a window exactly when the window is a run of
\* fields, at the last byte of a window and for varints of any length; it
\* fails only on a window that is not, whichever fields were looked into.
WalkExact ==
    /\ verdict = "Malformed" => ~WellFormed(message, Top.lo, Top.end)
    /\ stack # <<>> /\ err = "none" /\ Top.pos >= Top.end => WellFormed(message, Top.lo, Top.end)

\* What is put together again is the message: a run of fields, with lengths that
\* are right, no longer than before, and the same bytes unless a header was
\* written in more bytes than it needs.
RebuildFaithful ==
    verdict \in {"Accepted", "ForwardFailed"} =>
        /\ WellFormed(rebuilt, 0, Len(rebuilt))
        /\ Len(rebuilt) <= Len(message)
        /\ Len(rebuilt) = Len(message) => rebuilt = message

\* The answer is the same by both transports: a message is taken exactly when it
\* has at most max_body_bytes (grpc.rs line 104), and taken whole; a client is
\* told OK only of a message that is well formed, to send it again only when
\* the forward failed, and never to send again what cannot be parsed.
Frame(m) == <<0, 0, 0, Len(m) \div 256, Len(m) % 256>> \o m
Carried(r, m) == r.route /\ r.typed /\ r.body = (IF r.transport = "http" THEN m ELSE Frame(m))
SameAnswer ==
    pc = "answered" =>
        /\ LET m == IF req.transport = "http" THEN req.body ELSE SubSeq(req.body, 6, Len(req.body))
           IN  Carried(req, m) => IF Len(m) <= max_body_bytes THEN message = m /\ verdict # "none"
                                  ELSE verdict = "none" /\ status \in {"413", "8"}
        /\ status \in {"200", "0"} => WellFormed(message, 0, Len(message))
        /\ verdict = "Malformed" => status \in {"400", "3"}
        /\ status \in {"503", "14"} <=> verdict = "ForwardFailed"
=============================================================================
