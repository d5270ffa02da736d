-------------------------------- MODULE Otlp --------------------------------
(***************************************************************************)
(* An OTLP logs request as both walkers of the wire format see it: the     *)
(* parser (src/crates/archiv-ingest/src/otlp.rs) and the re-encoder        *)
(* (src/crates/archiv-export/src/lib.rs).                                  *)
(*                                                                         *)
(* A message is the sequence of its fields, in wire order.  A field is     *)
(*   num   a number                                                        *)
(*   str   a length-delimited string; its parts are ranges of the original *)
(*         text and masks put in place of ranges                           *)
(*   msg   a length-delimited message                                      *)
(*   bad   bytes on which the cursor fails: a truncated or over-long       *)
(*         varint, a length past the end, an unknown wire type             *)
(* The place of a field in the tree stands for its range of the buffer.    *)
(* `size` is its length prefix; prefixes are received in their shortest    *)
(* form.  A length-delimited field is a msg where the walkers open it and  *)
(* a str elsewhere.                                                        *)
(*                                                                         *)
(* A text is its length, what it says (`id`) and what each redaction rule  *)
(* finds in it (`hits`): strings and regular expressions are not modelled. *)
(***************************************************************************)
EXTENDS Integers, Sequences, SequencesExt

CONSTANT MaskLen    \* the length of each mask

ASSUME OtlpAssumption == \A m \in DOMAIN MaskLen : MaskLen[m] \in Nat

\* varint_len, for values under 2^28
varint_len(v) == 1 + Cardinality({k \in 1 .. 3 : v >= 2 ^ (7 * k)})

header_len(no, size) == varint_len(8 * no + 2) + varint_len(size)

\* The bytes a field takes, with its own header.
EncodedLen(f) ==
    CASE f.kind = "num" -> varint_len(8 * f.no) + 1
      [] f.kind = "bad" -> 1
      [] OTHER          -> header_len(f.no, f.size) + f.size

SumOf(seq) ==
    LET sum[i \in 0 .. Len(seq)] == IF i = 0 THEN 0 ELSE sum[i - 1] + seq[i]
    IN  sum[Len(seq)]

\* segs_encoded_len
EncodedLens(fields) == SumOf([i \in DOMAIN fields |-> EncodedLen(fields[i])])

\* A range of the original text, or the mask put in its place.
Raw(lo, hi)     == [mask |-> "raw", lo |-> lo, hi |-> hi]
Mask(m, lo, hi) == [mask |-> m, lo |-> lo, hi |-> hi]
PartLen(x)      == IF x.mask = "raw" THEN x.hi - x.lo ELSE MaskLen[x.mask]
PartLens(parts) == SumOf([i \in DOMAIN parts |-> PartLen(parts[i])])

\* The fields of a request as it is received.
Num(no, v) == [kind |-> "num", no |-> no, val |-> v]
Bad        == [kind |-> "bad", no |-> 0]
Str(no, t) == [kind |-> "str", no |-> no, size |-> t.len, text |-> t,
               parts |-> IF t.len = 0 THEN <<>> ELSE <<Raw(0, t.len)>>]
Msg(no, fields) == [kind |-> "msg", no |-> no, size |-> EncodedLens(fields), fields |-> fields]

-----------------------------------------------------------------------------
(* Walking one message *)

\* Every field of the message can be read or skipped.
Walkable(fields) == \A i \in DOMAIN fields : fields[i].kind # "bad"

\* The fields numbered `no` of a kind, by their place.
At(fields, kind, no) == {i \in DOMAIN fields : fields[i].kind = kind /\ fields[i].no = no}

\* What the walk makes of each message numbered `no`, in order.
Each(fields, no, Made(_)) ==
    FlattenSeq([i \in DOMAIN fields |-> IF i \in At(fields, "msg", no) THEN Made(fields[i]) ELSE <<>>])

-----------------------------------------------------------------------------
(* The parser.  A view of a string is its path inside the record. *)

NoView == <<>>

\* any_value_string stops at the first string_value: what follows is not read.
AnyValueStop(fields) == At(fields, "str", 1) \cup {i \in DOMAIN fields : fields[i].kind = "bad"}
AnyValueOk(fields)   ==
    AnyValueStop(fields) = {} \/ fields[Min(AnyValueStop(fields))].kind = "str"
HasString(fields)    == AnyValueStop(fields) # {}
StringAt(fields)     == Min(AnyValueStop(fields))

\* parse_key_value: the last key and the last value, if that is a string.
KeyValueOk(fields) ==
    Walkable(fields) /\ \A i \in At(fields, "msg", 2) : AnyValueOk(fields[i].fields)
HasAttr(fields) ==
    /\ At(fields, "str", 1) # {} /\ At(fields, "msg", 2) # {}
    /\ HasString(fields[Max(At(fields, "msg", 2))].fields)
AttrKey(fields)  == fields[Max(At(fields, "str", 1))].text.id
AttrPath(fields) == LET v == Max(At(fields, "msg", 2)) IN <<v, StringAt(fields[v].fields)>>
AttrText(fields) == LET at == AttrPath(fields) IN fields[at[1]].fields[at[2]].text

\* An Option is the set of its value, or the empty set.
LastOf(S, Value(_)) == IF S = {} THEN {} ELSE {Value(Max(S))}

\* parse_resource_attrs: the last attribute of that name of the last Resource.
ResourceAttr(fields, name) ==
    LET attrs == FlattenSeq([i \in DOMAIN fields |->
                   IF i \in LastOf(At(fields, "msg", 1), LAMBDA k : k) THEN fields[i].fields ELSE <<>>])
    IN  LastOf({i \in At(attrs, "msg", 1) :
                  HasAttr(attrs[i].fields) /\ AttrKey(attrs[i].fields) = name},
               LAMBDA i : AttrText(attrs[i].fields).id)

\* parse_log_record
LogRecordOk(fields) ==
    /\ Walkable(fields)
    /\ \A i \in At(fields, "msg", 5) : AnyValueOk(fields[i].fields)
    /\ \A i \in At(fields, "msg", 6) : KeyValueOk(fields[i].fields)

RecordView(fields, namespace, service) ==
    LET bodies == {i \in At(fields, "msg", 5) : HasString(fields[i].fields)}
        traces == {i \in At(fields, "str", 9) : fields[i].size \in {16, 32}}
        Attr(i) == IF i \in At(fields, "msg", 6) /\ HasAttr(fields[i].fields)
                   THEN <<(<<i>> \o AttrPath(fields[i].fields))>> ELSE <<>>
    IN  [raw       |-> fields,
         body      |-> IF bodies = {} THEN NoView
                       ELSE <<Max(bodies), StringAt(fields[Max(bodies)].fields)>>,
         attrs     |-> FlattenSeq([i \in DOMAIN fields |-> Attr(i)]),
         trace_id  |-> LastOf(traces, LAMBDA i : fields[i].text),
         severity  |-> LastOf(At(fields, "num", 2), LAMBDA i : fields[i].val),
         namespace |-> namespace, service |-> service]

\* The string a path of a record leads to.
StrAt(fields, path) ==
    IF Len(path) = 2 THEN fields[path[1]].fields[path[2]]
    ELSE fields[path[1]].fields[path[2]].fields[path[3]]

\* parse_scope_logs, parse_resource_logs, parse_export_logs_request
ScopeLogsOk(fields) ==
    Walkable(fields) /\ \A i \in At(fields, "msg", 2) : LogRecordOk(fields[i].fields)

ResourceOk(fields) ==
    Walkable(fields) /\ \A i \in At(fields, "msg", 1) : KeyValueOk(fields[i].fields)

ResourceLogsOk(fields) ==
    /\ Walkable(fields)
    /\ \A i \in At(fields, "msg", 1) : ResourceOk(fields[i].fields)
    /\ \A i \in At(fields, "msg", 2) : ScopeLogsOk(fields[i].fields)

RequestOk(fields) ==
    Walkable(fields) /\ \A i \in At(fields, "msg", 1) : ResourceLogsOk(fields[i].fields)

ResourceRecords(fields) ==
    LET namespace == ResourceAttr(fields, "k8s.namespace.name")
        service   == ResourceAttr(fields, "service.name")
    IN  Each(fields, 2, LAMBDA sl :
            Each(sl.fields, 2, LAMBDA rec : <<RecordView(rec.fields, namespace, service)>>))

RequestRecords(fields) == Each(fields, 1, LAMBDA rl : ResourceRecords(rl.fields))

-----------------------------------------------------------------------------
(* The re-encoder.  Spans are redactions of one record, in the order they   *)
(* were found: [at, lo, hi, mask].                                          *)

\* Mutants: keeps overlapping spans; drops a span that touches the one before.
FreeOverlapping(span, cursor) == TRUE
FreeApart(span, cursor) == span.lo > cursor \/ cursor = 0

\* The span does not overlap the ones already taken.
Free(span, cursor) == span.lo >= cursor

\* effective_spans: by start, then end, then the order they were found in; the
\* first of overlapping ones wins.
EffectiveSpans(spans, path) ==
    LET here   == {n \in DOMAIN spans : spans[n].at = path}
        Key(n) == <<spans[n].lo, spans[n].hi, n>>
        Less(m, n) == \E k \in 1 .. 3 : Key(m)[k] < Key(n)[k] /\ \A j \in 1 .. k - 1 : Key(m)[j] = Key(n)[j]
        Least(S) == CHOOSE n \in S : \A m \in S \ {n} : Less(n, m)
        Take(w, n) == IF Free(spans[n], w.cursor)
                      THEN [left |-> w.left \ {n}, cursor |-> spans[n].hi, out |-> Append(w.out, spans[n])]
                      ELSE [w EXCEPT !.left = w.left \ {n}]
        walk[k \in 0 .. Cardinality(here)] ==
            IF k = 0 THEN [left |-> here, cursor |-> 0, out |-> <<>>]
            ELSE Take(walk[k - 1], Least(walk[k - 1].left))
    IN  walk[Cardinality(here)].out

\* build_scalar: raw ranges between the masks, and the size of the whole.
Splice(text, spans) ==
    LET Cursor(i)   == IF i = 1 THEN 0 ELSE spans[i - 1].hi
        Gap(lo, hi) == IF lo < hi THEN <<Raw(lo, hi)>> ELSE <<>>
    IN  FlattenSeq([i \in DOMAIN spans |-> Gap(Cursor(i), spans[i].lo)
                                             \o <<Mask(spans[i].mask, spans[i].lo, spans[i].hi)>>])
          \o Gap(Cursor(Len(spans) + 1), text.len)

\* What became of a field: Unchanged, Dropped, or the field that replaces it.
Unchanged == [kind |-> "unchanged"]
Dropped   == [kind |-> "dropped"]

BuildScalar(f, spans, path) ==
    LET parts == Splice(f.text, EffectiveSpans(spans, path))
    IN  IF EffectiveSpans(spans, path) = <<>> THEN Unchanged
        ELSE [f EXCEPT !.size = PartLens(parts), !.parts = parts]

\* The message without what was dropped and with what was replaced.
Emit(fields, child) ==
    LET One(i) == CASE child[i].kind = "unchanged" -> <<fields[i]>>
                    [] child[i].kind = "dropped"   -> <<>>
                    [] OTHER                       -> <<child[i]>>
    IN  FlattenSeq([i \in DOMAIN fields |-> One(i)])

\* Mutant: the old length prefix.
RebuiltOldSize(f, child) ==
    IF \A i \in DOMAIN child : child[i] = Unchanged THEN Unchanged
    ELSE [f EXCEPT !.fields = Emit(f.fields, child)]

\* A message field with some child changed gets a new length prefix.
Rebuilt(f, child) ==
    IF \A i \in DOMAIN child : child[i] = Unchanged THEN Unchanged
    ELSE [f EXCEPT !.fields = Emit(f.fields, child),
                   !.size = EncodedLens(Emit(f.fields, child))]

\* build_any_value, build_key_value, build_record
BuildAnyValue(f, spans, path) ==
    Rebuilt(f, [i \in DOMAIN f.fields |->
        IF i \in At(f.fields, "str", 1) THEN BuildScalar(f.fields[i], spans, Append(path, i))
        ELSE Unchanged])

BuildKeyValue(f, spans, path) ==
    Rebuilt(f, [i \in DOMAIN f.fields |->
        IF i \in At(f.fields, "msg", 2) THEN BuildAnyValue(f.fields[i], spans, Append(path, i))
        ELSE Unchanged])

BuildRecord(f, drop, spans) ==
    IF drop THEN Dropped
    ELSE Rebuilt(f, [i \in DOMAIN f.fields |->
            IF i \in At(f.fields, "msg", 5) THEN BuildAnyValue(f.fields[i], spans, <<i>>)
            ELSE IF i \in At(f.fields, "msg", 6) THEN BuildKeyValue(f.fields[i], spans, <<i>>)
            ELSE Unchanged])

\* The walk fails on a message that it opens and cannot read to its end.
BuildKeyValueOk(fields) ==
    Walkable(fields) /\ \A i \in At(fields, "msg", 2) : Walkable(fields[i].fields)
BuildRecordOk(fields) ==
    /\ Walkable(fields)
    /\ \A i \in At(fields, "msg", 5) : Walkable(fields[i].fields)
    /\ \A i \in At(fields, "msg", 6) : BuildKeyValueOk(fields[i].fields)

\* The LogRecords of a container.
Counts(f, no, Count(_)) ==
    [i \in DOMAIN f.fields |-> IF i \in At(f.fields, "msg", no) THEN Count(f.fields[i]) ELSE 0]
OneRecord(rec) == 1
RecordsOf(scope) == SumOf(Counts(scope, 2, OneRecord))
RecordsUnder(resource) == SumOf(Counts(resource, 2, RecordsOf))

\* Mutant: the index starts again in every container.
RecIdxRestarts(first, counts, i) == 1 + SumOf(SubSeq(counts, 1, i - 1))

\* rec_idx at child i of a container whose first record has number `first`.
RecIdx(first, counts, i) == first + SumOf(SubSeq(counts, 1, i - 1))

RecordsWalked(f) == SumOf(Counts(f, 1, RecordsUnder))

\* build_container at each of its three levels: dropped[n] and spans[n] are
\* the decisions on record n.
BuildScope(f, first, dropped, spans) ==
    Rebuilt(f, [i \in DOMAIN f.fields |->
        LET n == RecIdx(first, Counts(f, 2, OneRecord), i)
        IN  IF i \in At(f.fields, "msg", 2) THEN BuildRecord(f.fields[i], n \in dropped, spans[n])
            ELSE Unchanged])

BuildResource(f, first, dropped, spans) ==
    Rebuilt(f, [i \in DOMAIN f.fields |->
        IF i \in At(f.fields, "msg", 2)
        THEN BuildScope(f.fields[i], RecIdx(first, Counts(f, 2, RecordsOf), i), dropped, spans)
        ELSE Unchanged])

BuildRequest(f, dropped, spans) ==
    Rebuilt(f, [i \in DOMAIN f.fields |->
        IF i \in At(f.fields, "msg", 1)
        THEN BuildResource(f.fields[i], RecIdx(1, Counts(f, 1, RecordsUnder), i), dropped, spans)
        ELSE Unchanged])

\* A dropped record is not opened.
BuildScopeOk(f, first, dropped) ==
    /\ Walkable(f.fields)
    /\ \A i \in At(f.fields, "msg", 2) :
          RecIdx(first, Counts(f, 2, OneRecord), i) \in dropped \/ BuildRecordOk(f.fields[i].fields)

BuildResourceOk(f, first, dropped) ==
    /\ Walkable(f.fields)
    /\ \A i \in At(f.fields, "msg", 2) :
          BuildScopeOk(f.fields[i], RecIdx(first, Counts(f, 2, RecordsOf), i), dropped)

BuildRequestOk(f, dropped) ==
    /\ Walkable(f.fields)
    /\ \A i \in At(f.fields, "msg", 1) :
          BuildResourceOk(f.fields[i], RecIdx(1, Counts(f, 1, RecordsUnder), i), dropped)
=============================================================================
