--------------------------- MODULE PipelineProofs ---------------------------
(***************************************************************************)
(* Proofs about Pipeline.                                                  *)
(***************************************************************************)
EXTENDS Pipeline, OtlpProofs

-----------------------------------------------------------------------------
(* Fields that have their length prefixes right and stand for a given field. *)

Like(h, g) == Sized(g) /\ g.kind = h.kind /\ g.no = h.no

\* g is h with masks put in.
StringAs(h, g)       == Like(h, g) /\ StringRight(g) /\ OriginalString(g) = h
AnyValueAs(h, g)     == Like(h, g) /\ AnyValueRight(g) /\ OriginalAnyValue(g) = h
KeyValueAs(h, g)     == Like(h, g) /\ KeyValueRight(g) /\ OriginalKeyValue(g) = h
LogRecordAs(h, g)    == Like(h, g) /\ LogRecordRight(g) /\ OriginalLogRecord(g) = h
ScopeLogsAs(h, g)    == Like(h, g) /\ ScopeLogsRight(g) /\ OriginalScopeLogs(g) = h
ResourceLogsAs(h, g) == Like(h, g) /\ ResourceLogsRight(g) /\ OriginalResourceLogs(g) = h
RequestAs(h, g)      == Like(h, g) /\ RequestRight(g) /\ OriginalRequest(g) = h

\* A string as it is received stands for itself.
LEMMA StringRefl == ASSUME NEW f, IsString(f) PROVE StringAs(f, f)
<1>1. CASE f.kind = "num"
  <2>1. f = Num(f.no, f.val)
    BY <1>1 DEF IsString, Received
  <2>2. OriginalString(f) = f /\ StringRight(f)
    BY <1>1 DEF OriginalString, Restored, StringRight, Right
  <2> QED BY <1>1, <2>2 DEF StringAs, Like, Sized
<1>2. CASE f.kind = "str"
  <2>1. f = Str(f.no, f.text) /\ f.text.len \in Nat
    BY <1>2 DEF IsString, Received, IsText
  <2>2. OriginalString(f) = f
    BY <1>2, <2>1 DEF OriginalString, Restored
  <2>3. f.size = f.text.len /\ f.parts = IF f.text.len = 0 THEN <<>> ELSE <<Raw(0, f.text.len)>>
    <3> DEFINE no == f.no
               t == f.text
    <3>1. f = Str(no, t)
      BY <2>1
    <3> HIDE DEF no, t
    <3>2. f.size = t.len /\ f.parts = IF t.len = 0 THEN <<>> ELSE <<Raw(0, t.len)>>
      BY <3>1 DEF Str
    <3> QED BY <3>2 DEF t
  <2>4. f.size = PartLens(f.parts)
    BY <2>1, <2>3, PartLensRaw
  <2>5. StringRight(f)
    BY <1>2, <2>4 DEF StringRight, Right
  <2> QED BY <2>1, <2>2, <2>3, <2>5 DEF StringAs, Like, Sized
<1>3. CASE f.kind \notin {"num", "str"}
  <2>1. f = Bad
    BY <1>3 DEF IsString, Received
  <2>2. f.kind = "bad"
    BY <2>1 DEF Bad
  <2>3. OriginalString(f) = f /\ StringRight(f)
    BY <2>2 DEF OriginalString, Restored, StringRight, Right
  <2> QED BY <2>2, <2>3 DEF StringAs, Like, Sized
<1> QED BY <1>1, <1>2, <1>3

\* A message of fields that stand for those of another stands for it.
LEMMA AnyValueMsg ==
    ASSUME NEW no, NEW N \in Nat, NEW hs, hs = [i \in 1 .. N |-> hs[i]], NEW x, DOMAIN x = 1 .. N,
           \A i \in 1 .. N : StringAs(hs[i], x[i])
    PROVE  AnyValueAs(Msg(no, hs), Msg(no, x))
<1> DEFINE g == Msg(no, x)
<1>1. g.kind = "msg" /\ g.no = no /\ g.size = EncodedLens(x) /\ g.fields = x
  BY DEF Msg
<1>2. Msg(no, hs).kind = "msg" /\ Msg(no, hs).no = no
  BY DEF Msg
<1>3. EncodedLens(x) \in Nat
  BY EncodedLensNat DEF StringAs, Like
<1> HIDE DEF g
<1>4. AnyValueRight(g)
  BY <1>1 DEF AnyValueRight, Right, StringAs
<1>5. OriginalAnyValue(g) = Msg(no, [i \in 1 .. N |-> OriginalString(x[i])])
  BY <1>1 DEF OriginalAnyValue, Restored
<1>6. [i \in 1 .. N |-> OriginalString(x[i])] = hs
  BY DEF StringAs
<1>7. OriginalAnyValue(g) = Msg(no, hs)
  BY <1>5, <1>6
<1> QED BY <1>1, <1>2, <1>3, <1>4, <1>7 DEF AnyValueAs, Like, Sized, g

\* A field as it is received stands for itself.
LEMMA AnyValueRefl == ASSUME NEW f, IsAnyValue(f) PROVE AnyValueAs(f, f)
<1>1. CASE f.kind # "msg"
  <2>1. IsString(f)
    BY <1>1 DEF IsAnyValue, IsString, Received
  <2>2. StringAs(f, f)
    BY <2>1, StringRefl
  <2>3. OriginalAnyValue(f) = OriginalString(f) /\ (StringRight(f) => AnyValueRight(f))
    BY <1>1 DEF OriginalAnyValue, OriginalString, AnyValueRight, StringRight, Restored, Right
  <2> QED BY <2>2, <2>3 DEF AnyValueAs, StringAs
<1>2. CASE f.kind = "msg"
  <2> DEFINE fs == f.fields
             N  == Len(fs)
  <2>1. f = Msg(f.no, fs) /\ fs \in Seq(Range(fs)) /\ \A i \in DOMAIN fs : IsString(fs[i])
    BY <1>2 DEF IsAnyValue, Received
  <2> HIDE DEF fs
  <2>2. N \in Nat /\ DOMAIN fs = 1 .. N /\ fs = [i \in 1 .. N |-> fs[i]]
    BY <2>1
  <2> HIDE DEF N
  <2>3. \A i \in 1 .. N : StringAs(fs[i], fs[i])
    BY <2>1, <2>2, StringRefl
  <2>4. AnyValueAs(Msg(f.no, fs), Msg(f.no, fs))
    BY <2>2, <2>3, AnyValueMsg
  <2> QED BY <2>1, <2>4
<1> QED BY <1>1, <1>2

\* A message of fields that stand for those of another stands for it.
LEMMA KeyValueMsg ==
    ASSUME NEW no, NEW N \in Nat, NEW hs, hs = [i \in 1 .. N |-> hs[i]], NEW x, DOMAIN x = 1 .. N,
           \A i \in 1 .. N : AnyValueAs(hs[i], x[i])
    PROVE  KeyValueAs(Msg(no, hs), Msg(no, x))
<1> DEFINE g == Msg(no, x)
<1>1. g.kind = "msg" /\ g.no = no /\ g.size = EncodedLens(x) /\ g.fields = x
  BY DEF Msg
<1>2. Msg(no, hs).kind = "msg" /\ Msg(no, hs).no = no
  BY DEF Msg
<1>3. EncodedLens(x) \in Nat
  BY EncodedLensNat DEF AnyValueAs, Like
<1> HIDE DEF g
<1>4. KeyValueRight(g)
  BY <1>1 DEF KeyValueRight, Right, AnyValueAs
<1>5. OriginalKeyValue(g) = Msg(no, [i \in 1 .. N |-> OriginalAnyValue(x[i])])
  BY <1>1 DEF OriginalKeyValue, Restored
<1>6. [i \in 1 .. N |-> OriginalAnyValue(x[i])] = hs
  BY DEF AnyValueAs
<1>7. OriginalKeyValue(g) = Msg(no, hs)
  BY <1>5, <1>6
<1> QED BY <1>1, <1>2, <1>3, <1>4, <1>7 DEF KeyValueAs, Like, Sized, g

\* A field as it is received stands for itself.
LEMMA KeyValueRefl == ASSUME NEW f, IsKeyValue(f) PROVE KeyValueAs(f, f)
<1>1. CASE f.kind # "msg"
  <2>1. IsAnyValue(f)
    BY <1>1 DEF IsKeyValue, IsAnyValue, Received
  <2>2. AnyValueAs(f, f)
    BY <2>1, AnyValueRefl
  <2>3. OriginalKeyValue(f) = OriginalAnyValue(f) /\ (AnyValueRight(f) => KeyValueRight(f))
    BY <1>1 DEF OriginalKeyValue, OriginalAnyValue, KeyValueRight, AnyValueRight, Restored, Right
  <2> QED BY <2>2, <2>3 DEF KeyValueAs, AnyValueAs
<1>2. CASE f.kind = "msg"
  <2> DEFINE fs == f.fields
             N  == Len(fs)
  <2>1. f = Msg(f.no, fs) /\ fs \in Seq(Range(fs)) /\ \A i \in DOMAIN fs : IsAnyValue(fs[i])
    BY <1>2 DEF IsKeyValue, Received
  <2> HIDE DEF fs
  <2>2. N \in Nat /\ DOMAIN fs = 1 .. N /\ fs = [i \in 1 .. N |-> fs[i]]
    BY <2>1
  <2> HIDE DEF N
  <2>3. \A i \in 1 .. N : AnyValueAs(fs[i], fs[i])
    BY <2>1, <2>2, AnyValueRefl
  <2>4. KeyValueAs(Msg(f.no, fs), Msg(f.no, fs))
    BY <2>2, <2>3, KeyValueMsg
  <2> QED BY <2>1, <2>4
<1> QED BY <1>1, <1>2

\* A message of fields that stand for those of another stands for it.
LEMMA LogRecordMsg ==
    ASSUME NEW no, NEW N \in Nat, NEW hs, hs = [i \in 1 .. N |-> hs[i]], NEW x, DOMAIN x = 1 .. N,
           \A i \in 1 .. N : KeyValueAs(hs[i], x[i])
    PROVE  LogRecordAs(Msg(no, hs), Msg(no, x))
<1> DEFINE g == Msg(no, x)
<1>1. g.kind = "msg" /\ g.no = no /\ g.size = EncodedLens(x) /\ g.fields = x
  BY DEF Msg
<1>2. Msg(no, hs).kind = "msg" /\ Msg(no, hs).no = no
  BY DEF Msg
<1>3. EncodedLens(x) \in Nat
  BY EncodedLensNat DEF KeyValueAs, Like
<1> HIDE DEF g
<1>4. LogRecordRight(g)
  BY <1>1 DEF LogRecordRight, Right, KeyValueAs
<1>5. OriginalLogRecord(g) = Msg(no, [i \in 1 .. N |-> OriginalKeyValue(x[i])])
  BY <1>1 DEF OriginalLogRecord, Restored
<1>6. [i \in 1 .. N |-> OriginalKeyValue(x[i])] = hs
  BY DEF KeyValueAs
<1>7. OriginalLogRecord(g) = Msg(no, hs)
  BY <1>5, <1>6
<1> QED BY <1>1, <1>2, <1>3, <1>4, <1>7 DEF LogRecordAs, Like, Sized, g

\* A field as it is received stands for itself.
LEMMA LogRecordRefl == ASSUME NEW f, IsLogRecord(f) PROVE LogRecordAs(f, f)
<1>1. CASE f.kind # "msg"
  <2>1. IsKeyValue(f)
    BY <1>1 DEF IsLogRecord, IsKeyValue, Received
  <2>2. KeyValueAs(f, f)
    BY <2>1, KeyValueRefl
  <2>3. OriginalLogRecord(f) = OriginalKeyValue(f) /\ (KeyValueRight(f) => LogRecordRight(f))
    BY <1>1 DEF OriginalLogRecord, OriginalKeyValue, LogRecordRight, KeyValueRight, Restored, Right
  <2> QED BY <2>2, <2>3 DEF LogRecordAs, KeyValueAs
<1>2. CASE f.kind = "msg"
  <2> DEFINE fs == f.fields
             N  == Len(fs)
  <2>1. f = Msg(f.no, fs) /\ fs \in Seq(Range(fs)) /\ \A i \in DOMAIN fs : IsKeyValue(fs[i])
    BY <1>2 DEF IsLogRecord, Received
  <2> HIDE DEF fs
  <2>2. N \in Nat /\ DOMAIN fs = 1 .. N /\ fs = [i \in 1 .. N |-> fs[i]]
    BY <2>1
  <2> HIDE DEF N
  <2>3. \A i \in 1 .. N : KeyValueAs(fs[i], fs[i])
    BY <2>1, <2>2, KeyValueRefl
  <2>4. LogRecordAs(Msg(f.no, fs), Msg(f.no, fs))
    BY <2>2, <2>3, LogRecordMsg
  <2> QED BY <2>1, <2>4
<1> QED BY <1>1, <1>2

\* A message of fields that stand for those of another stands for it.
LEMMA ScopeLogsMsg ==
    ASSUME NEW no, NEW N \in Nat, NEW hs, hs = [i \in 1 .. N |-> hs[i]], NEW x, DOMAIN x = 1 .. N,
           \A i \in 1 .. N : LogRecordAs(hs[i], x[i])
    PROVE  ScopeLogsAs(Msg(no, hs), Msg(no, x))
<1> DEFINE g == Msg(no, x)
<1>1. g.kind = "msg" /\ g.no = no /\ g.size = EncodedLens(x) /\ g.fields = x
  BY DEF Msg
<1>2. Msg(no, hs).kind = "msg" /\ Msg(no, hs).no = no
  BY DEF Msg
<1>3. EncodedLens(x) \in Nat
  BY EncodedLensNat DEF LogRecordAs, Like
<1> HIDE DEF g
<1>4. ScopeLogsRight(g)
  BY <1>1 DEF ScopeLogsRight, Right, LogRecordAs
<1>5. OriginalScopeLogs(g) = Msg(no, [i \in 1 .. N |-> OriginalLogRecord(x[i])])
  BY <1>1 DEF OriginalScopeLogs, Restored
<1>6. [i \in 1 .. N |-> OriginalLogRecord(x[i])] = hs
  BY DEF LogRecordAs
<1>7. OriginalScopeLogs(g) = Msg(no, hs)
  BY <1>5, <1>6
<1> QED BY <1>1, <1>2, <1>3, <1>4, <1>7 DEF ScopeLogsAs, Like, Sized, g

\* A field as it is received stands for itself.
LEMMA ScopeLogsRefl == ASSUME NEW f, IsScopeLogs(f) PROVE ScopeLogsAs(f, f)
<1>1. CASE f.kind # "msg"
  <2>1. IsLogRecord(f)
    BY <1>1 DEF IsScopeLogs, IsLogRecord, Received
  <2>2. LogRecordAs(f, f)
    BY <2>1, LogRecordRefl
  <2>3. OriginalScopeLogs(f) = OriginalLogRecord(f) /\ (LogRecordRight(f) => ScopeLogsRight(f))
    BY <1>1 DEF OriginalScopeLogs, OriginalLogRecord, ScopeLogsRight, LogRecordRight, Restored, Right
  <2> QED BY <2>2, <2>3 DEF ScopeLogsAs, LogRecordAs
<1>2. CASE f.kind = "msg"
  <2> DEFINE fs == f.fields
             N  == Len(fs)
  <2>1. f = Msg(f.no, fs) /\ fs \in Seq(Range(fs)) /\ \A i \in DOMAIN fs : IsLogRecord(fs[i])
    BY <1>2 DEF IsScopeLogs, Received
  <2> HIDE DEF fs
  <2>2. N \in Nat /\ DOMAIN fs = 1 .. N /\ fs = [i \in 1 .. N |-> fs[i]]
    BY <2>1
  <2> HIDE DEF N
  <2>3. \A i \in 1 .. N : LogRecordAs(fs[i], fs[i])
    BY <2>1, <2>2, LogRecordRefl
  <2>4. ScopeLogsAs(Msg(f.no, fs), Msg(f.no, fs))
    BY <2>2, <2>3, ScopeLogsMsg
  <2> QED BY <2>1, <2>4
<1> QED BY <1>1, <1>2

\* A message of fields that stand for those of another stands for it.
LEMMA ResourceLogsMsg ==
    ASSUME NEW no, NEW N \in Nat, NEW hs, hs = [i \in 1 .. N |-> hs[i]], NEW x, DOMAIN x = 1 .. N,
           \A i \in 1 .. N : ScopeLogsAs(hs[i], x[i])
    PROVE  ResourceLogsAs(Msg(no, hs), Msg(no, x))
<1> DEFINE g == Msg(no, x)
<1>1. g.kind = "msg" /\ g.no = no /\ g.size = EncodedLens(x) /\ g.fields = x
  BY DEF Msg
<1>2. Msg(no, hs).kind = "msg" /\ Msg(no, hs).no = no
  BY DEF Msg
<1>3. EncodedLens(x) \in Nat
  BY EncodedLensNat DEF ScopeLogsAs, Like
<1> HIDE DEF g
<1>4. ResourceLogsRight(g)
  BY <1>1 DEF ResourceLogsRight, Right, ScopeLogsAs
<1>5. OriginalResourceLogs(g) = Msg(no, [i \in 1 .. N |-> OriginalScopeLogs(x[i])])
  BY <1>1 DEF OriginalResourceLogs, Restored
<1>6. [i \in 1 .. N |-> OriginalScopeLogs(x[i])] = hs
  BY DEF ScopeLogsAs
<1>7. OriginalResourceLogs(g) = Msg(no, hs)
  BY <1>5, <1>6
<1> QED BY <1>1, <1>2, <1>3, <1>4, <1>7 DEF ResourceLogsAs, Like, Sized, g

\* A field as it is received stands for itself.
LEMMA ResourceLogsRefl == ASSUME NEW f, IsResourceLogs(f) PROVE ResourceLogsAs(f, f)
<1>1. CASE f.kind # "msg"
  <2>1. IsScopeLogs(f)
    BY <1>1 DEF IsResourceLogs, IsScopeLogs, Received
  <2>2. ScopeLogsAs(f, f)
    BY <2>1, ScopeLogsRefl
  <2>3. OriginalResourceLogs(f) = OriginalScopeLogs(f) /\ (ScopeLogsRight(f) => ResourceLogsRight(f))
    BY <1>1 DEF OriginalResourceLogs, OriginalScopeLogs, ResourceLogsRight, ScopeLogsRight, Restored, Right
  <2> QED BY <2>2, <2>3 DEF ResourceLogsAs, ScopeLogsAs
<1>2. CASE f.kind = "msg"
  <2> DEFINE fs == f.fields
             N  == Len(fs)
  <2>1. f = Msg(f.no, fs) /\ fs \in Seq(Range(fs)) /\ \A i \in DOMAIN fs : IsScopeLogs(fs[i])
    BY <1>2 DEF IsResourceLogs, Received
  <2> HIDE DEF fs
  <2>2. N \in Nat /\ DOMAIN fs = 1 .. N /\ fs = [i \in 1 .. N |-> fs[i]]
    BY <2>1
  <2> HIDE DEF N
  <2>3. \A i \in 1 .. N : ScopeLogsAs(fs[i], fs[i])
    BY <2>1, <2>2, ScopeLogsRefl
  <2>4. ResourceLogsAs(Msg(f.no, fs), Msg(f.no, fs))
    BY <2>2, <2>3, ResourceLogsMsg
  <2> QED BY <2>1, <2>4
<1> QED BY <1>1, <1>2

\* A message of fields that stand for those of another stands for it.
LEMMA RequestMsg ==
    ASSUME NEW no, NEW N \in Nat, NEW hs, hs = [i \in 1 .. N |-> hs[i]], NEW x, DOMAIN x = 1 .. N,
           \A i \in 1 .. N : ResourceLogsAs(hs[i], x[i])
    PROVE  RequestAs(Msg(no, hs), Msg(no, x))
<1> DEFINE g == Msg(no, x)
<1>1. g.kind = "msg" /\ g.no = no /\ g.size = EncodedLens(x) /\ g.fields = x
  BY DEF Msg
<1>2. Msg(no, hs).kind = "msg" /\ Msg(no, hs).no = no
  BY DEF Msg
<1>3. EncodedLens(x) \in Nat
  BY EncodedLensNat DEF ResourceLogsAs, Like
<1> HIDE DEF g
<1>4. RequestRight(g)
  BY <1>1 DEF RequestRight, Right, ResourceLogsAs
<1>5. OriginalRequest(g) = Msg(no, [i \in 1 .. N |-> OriginalResourceLogs(x[i])])
  BY <1>1 DEF OriginalRequest, Restored
<1>6. [i \in 1 .. N |-> OriginalResourceLogs(x[i])] = hs
  BY DEF ResourceLogsAs
<1>7. OriginalRequest(g) = Msg(no, hs)
  BY <1>5, <1>6
<1> QED BY <1>1, <1>2, <1>3, <1>4, <1>7 DEF RequestAs, Like, Sized, g

\* A field as it is received stands for itself.
LEMMA RequestRefl == ASSUME NEW f, IsRequest(f) PROVE RequestAs(f, f)
<1>1. CASE f.kind # "msg"
  <2>1. IsResourceLogs(f)
    BY <1>1 DEF IsRequest, IsResourceLogs, Received
  <2>2. ResourceLogsAs(f, f)
    BY <2>1, ResourceLogsRefl
  <2>3. OriginalRequest(f) = OriginalResourceLogs(f) /\ (ResourceLogsRight(f) => RequestRight(f))
    BY <1>1 DEF OriginalRequest, OriginalResourceLogs, RequestRight, ResourceLogsRight, Restored, Right
  <2> QED BY <2>2, <2>3 DEF RequestAs, ResourceLogsAs
<1>2. CASE f.kind = "msg"
  <2> DEFINE fs == f.fields
             N  == Len(fs)
  <2>1. f = Msg(f.no, fs) /\ fs \in Seq(Range(fs)) /\ \A i \in DOMAIN fs : IsResourceLogs(fs[i])
    BY <1>2 DEF IsRequest, Received
  <2> HIDE DEF fs
  <2>2. N \in Nat /\ DOMAIN fs = 1 .. N /\ fs = [i \in 1 .. N |-> fs[i]]
    BY <2>1
  <2> HIDE DEF N
  <2>3. \A i \in 1 .. N : ResourceLogsAs(fs[i], fs[i])
    BY <2>1, <2>2, ResourceLogsRefl
  <2>4. RequestAs(Msg(f.no, fs), Msg(f.no, fs))
    BY <2>2, <2>3, RequestMsg
  <2> QED BY <2>1, <2>4
<1> QED BY <1>1, <1>2

-----------------------------------------------------------------------------
(* A string with the spans of its path. *)

\* What a string, a value, an attribute and a record become.
NewString(f, spans, path)   == After(f, BuildScalar(f, spans, path))
NewAnyValue(f, spans, path) == After(f, BuildAnyValue(f, spans, path))
NewKeyValue(f, spans, path) == After(f, BuildKeyValue(f, spans, path))
NewLogRecord(f, spans)      == After(f, BuildRecord(f, FALSE, spans))

\* The spans are a sequence, and those at the path are ranges of the text.
Fits(spans, path, text) ==
    /\ Len(spans) \in Nat /\ DOMAIN spans = 1 .. Len(spans)
    /\ \A n \in Here(spans, path) : IsRedaction(spans[n]) /\ spans[n].hi <= text.len

\* A string as it is received.
IsStr(f) == f.kind = "str" /\ f = Str(f.no, f.text) /\ IsText(f.text)

\* The masks of the spans that take effect at a path.
MasksAt(spans, path) == SpanMasks(EffectiveSpans(spans, path))

\* The string with masks put in: it says what it said, and every part of the
\* text is there, or a mask is in its place.
Spliced(f, g, spans, path) ==
    /\ StringAs(f, g) /\ g.kind = "str" /\ g.no = f.no /\ g.text = f.text
    /\ Tiles(g.parts, f.text.len) /\ Masks(g) = MasksAt(spans, path)

\* What the fields of a string are.
LEMMA StrFields ==
    ASSUME NEW no, NEW t
    PROVE  /\ Str(no, t).kind = "str" /\ Str(no, t).no = no /\ Str(no, t).text = t /\ Str(no, t).size = t.len
           /\ Str(no, t).parts = IF t.len = 0 THEN <<>> ELSE <<Raw(0, t.len)>>
BY DEF Str

\* Tiles, as Tiled and EndOf say it.
LEMMA TilesIs ==
    ASSUME NEW len, NEW parts, Tiled(parts), EndOf(parts) = len
    PROVE  Tiles(parts, len)
BY DEF Tiles, Tiled, EndOf, Last

\* build_scalar, whether or not a span takes effect.
LEMMA NewStringIs ==
    ASSUME NEW f, IsStr(f), NEW spans, NEW path, Fits(spans, path, f.text)
    PROVE  Kept(BuildScalar(f, spans, path)) /\ Spliced(f, NewString(f, spans, path), spans, path)
<1> DEFINE eff   == EffectiveSpans(spans, path)
           S     == {spans[n] : n \in Here(spans, path)}
           t     == f.text
           parts == Splice(t, eff)
<1>1. eff \in Seq(S) /\ Ordered(eff)
  BY EffectiveIs DEF Fits, IsRedaction
<1>2. \A s \in S : IsRedaction(s) /\ s.hi <= t.len
  BY DEF Fits
<1>3. t.len \in Nat /\ f = Str(f.no, t)
  BY DEF IsStr, IsText
<1>4. IsString(f)
  BY DEF IsStr, IsString, Received
<1>5. StringAs(f, f)
  BY <1>4, StringRefl
<1>6. MasksAt(spans, path) = SpanMasks(eff)
  BY DEF MasksAt
<1>7. CASE eff = <<>>
  <2>1. BuildScalar(f, spans, path) = Unchanged
    BY <1>7 DEF BuildScalar
  <2>2. NewString(f, spans, path) = f
    BY <2>1 DEF NewString, After, Unchanged
  <2>3. f.parts = IF t.len = 0 THEN <<>> ELSE <<Raw(0, t.len)>>
    BY <1>3, StrFields
  <2>4. Tiles(f.parts, t.len) /\ Masks(f) = {}
    <3>1. CASE t.len = 0
      <4>1. f.parts = <<>>
        BY <2>3, <3>1
      <4>2. Range(f.parts) = {}
        BY <4>1 DEF Range
      <4> QED BY <4>1, <4>2, <3>1 DEF Tiles, Masks
    <3>2. CASE t.len # 0
      <4>1. f.parts = <<Raw(0, t.len)>>
        BY <2>3, <3>2
      <4>2. Raw(0, t.len).lo = 0 /\ Raw(0, t.len).hi = t.len /\ Raw(0, t.len).mask = "raw"
        BY DEF Raw
      <4> DEFINE x == Raw(0, t.len)
      <4> HIDE DEF x
      <4>3. Len(<<x>>) = 1 /\ DOMAIN <<x>> = {1} /\ <<x>>[1] = x
        OBVIOUS
      <4>4. Range(<<x>>) = {x}
        BY <4>3 DEF Range
      <4>5. Last(<<x>>) = x /\ <<x>> # <<>>
        BY <4>3 DEF Last
      <4> QED BY <4>1, <4>2, <4>3, <4>4, <4>5 DEF Tiles, Masks, x
    <3> QED BY <3>1, <3>2
  <2>5. MasksAt(spans, path) = {}
    BY <1>6, <1>7 DEF SpanMasks
  <2> QED BY <1>5, <2>1, <2>2, <2>4, <2>5 DEF Kept, Spliced, IsStr
<1>8. CASE eff # <<>>
  <2>2. Woven(parts, t.len, eff)
    <3> HIDE DEF eff, S
    <3> QED BY <1>1, <1>2, <1>3, SpliceWoven
  <2> DEFINE g == [f EXCEPT !.size = PartLens(parts), !.parts = parts]
  <2>3. BuildScalar(f, spans, path) = g
    BY <1>8 DEF BuildScalar
  <2>4. /\ g.kind = "str" /\ g.no = f.no /\ g.text = t /\ g.size = PartLens(parts) /\ g.parts = parts
        /\ g = [kind |-> "str", no |-> f.no, size |-> PartLens(parts), text |-> t, parts |-> parts]
    <3> DEFINE no == f.no
               n  == PartLens(parts)
    <3>1. f = [kind |-> "str", no |-> no, size |-> t.len, text |-> t,
               parts |-> IF t.len = 0 THEN <<>> ELSE <<Raw(0, t.len)>>]
      BY <1>3 DEF Str
    <3>2. g = [f EXCEPT !.size = n, !.parts = parts]
      OBVIOUS
    <3> HIDE DEF no, n, parts, t, g
    <3>3. /\ g.kind = "str" /\ g.no = no /\ g.text = t /\ g.size = n /\ g.parts = parts
          /\ g = [kind |-> "str", no |-> no, size |-> n, text |-> t, parts |-> parts]
      BY <3>1, <3>2
    <3> QED BY <3>3 DEF no, n
  <2>5. NewString(f, spans, path) = g
    BY <2>3, <2>4 DEF NewString, After
  <2>6. PartLens(parts) \in Nat
    <3> HIDE DEF parts
    <3>1. Len(parts) \in Nat /\ DOMAIN parts = 1 .. Len(parts) /\ \A i \in 1 .. Len(parts) : parts[i] \in Parts
      BY <2>2 DEF Woven
    <3>2. \A i \in 1 .. Len(parts) : IsPart(parts[i])
      BY <3>1 DEF Parts, IsPart
    <3> QED BY <3>1, <3>2, PartLensNat
  <2> HIDE DEF g, parts, eff, S
  <2>7. StringRight(g)
    BY <2>4 DEF StringRight, Right
  <2>8. OriginalString(g) = f
    BY <1>3, <2>4 DEF OriginalString, Restored
  <2>9. StringAs(f, g)
    BY <2>4, <2>6, <2>7, <2>8 DEF StringAs, Like, Sized, IsStr
  <2>10. Tiles(parts, t.len)
    BY <2>2, TilesIs DEF Woven
  <2>11. Masks(g) = MasksIn(parts)
    BY <2>4 DEF Masks, MasksIn
  <2>12. Masks(g) = MasksAt(spans, path)
    BY <1>6, <2>2, <2>11 DEF Woven
  <2> QED BY <2>3, <2>4, <2>5, <2>9, <2>10, <2>12 DEF Kept, Spliced
<1> QED BY <1>7, <1>8

-----------------------------------------------------------------------------
(* A record with its spans. *)

\* A message as it is received, or as it is built.
IsMsg(f) == f.kind = "msg" /\ f = Msg(f.no, f.fields) /\ IsSeq(f.fields)

\* The fields of each kind have their places in the message.
LEMMA AtFields ==
    ASSUME NEW fields, NEW kind, NEW no, NEW i
    PROVE  i \in At(fields, kind, no) <=> i \in DOMAIN fields /\ fields[i].kind = kind /\ fields[i].no = no
BY DEF At

\* The spans fit the strings of a value, of an attribute and of a record.
AnyValueFits(f, spans, path) == \A i \in At(f.fields, "str", 1) : Fits(spans, Append(path, i), f.fields[i].text)
KeyValueFits(f, spans, path) == \A i \in At(f.fields, "msg", 2) : AnyValueFits(f.fields[i], spans, Append(path, i))
RecordFits(fields, spans) ==
    /\ Len(spans) \in Nat /\ DOMAIN spans = 1 .. Len(spans)
    /\ \A n \in DOMAIN spans : IsRedaction(spans[n]) /\ spans[n].hi <= StrAt(fields, spans[n].at).text.len

\* build_any_value: its strings, each with the spans of its path.
LEMMA NewAnyValueIs ==
    ASSUME NEW f, IsMsg(f), NEW spans, NEW path,
           \A i \in At(f.fields, "str", 1) : Kept(BuildScalar(f.fields[i], spans, Append(path, i)))
    PROVE  /\ Kept(BuildAnyValue(f, spans, path))
           /\ NewAnyValue(f, spans, path) =
                Msg(f.no, [i \in DOMAIN f.fields |->
                    IF i \in At(f.fields, "str", 1) THEN NewString(f.fields[i], spans, Append(path, i))
                    ELSE f.fields[i]])
<1> DEFINE fs == f.fields
           N == Len(fs)
           C(i) == IF i \in At(fs, "str", 1) THEN BuildScalar(fs[i], spans, Append(path, i)) ELSE Unchanged
           child == [i \in DOMAIN fs |-> C(i)]
           x == [i \in DOMAIN fs |-> IF i \in At(fs, "str", 1) THEN NewString(fs[i], spans, Append(path, i)) ELSE fs[i]]
<1>1. N \in Nat /\ DOMAIN fs = 1 .. N /\ fs = [i \in 1 .. N |-> fs[i]] /\ f = Msg(f.no, fs)
  BY SeqFields DEF IsMsg
<1>2. BuildAnyValue(f, spans, path) = Rebuilt(f, child)
  BY DEF BuildAnyValue
<1>3. \A i \in 1 .. N : Kept(C(i))
  BY DEF Kept
<1>4. \A i \in 1 .. N : After(fs[i], C(i)) = IF i \in At(fs, "str", 1) THEN NewString(fs[i], spans, Append(path, i)) ELSE fs[i]
  BY DEF NewString, After, Unchanged
<1>5. DOMAIN child = 1 .. N /\ \A i \in 1 .. N : child[i] = C(i)
  BY <1>1
<1> HIDE DEF C, child, N
<1>6. x = [i \in 1 .. N |-> After(fs[i], child[i])]
  BY <1>1, <1>4, <1>5
<1> HIDE DEF x, fs
<1>7. Emit(fs, child) = x
  <2>1. \A i \in 1 .. N : Kept(child[i])
    BY <1>3, <1>5
  <2> QED BY <1>1, <1>6, <2>1, EmitKept
<1>8. Kept(Rebuilt(f, child)) /\ After(f, Rebuilt(f, child)) = Msg(f.no, Emit(fs, child))
  BY <1>1, <1>5, RebuiltIs DEF fs
<1> QED BY <1>2, <1>7, <1>8 DEF NewAnyValue, x, fs

\* build_key_value: its values.
LEMMA NewKeyValueIs ==
    ASSUME NEW f, IsMsg(f), NEW spans, NEW path,
           \A i \in At(f.fields, "msg", 2) : Kept(BuildAnyValue(f.fields[i], spans, Append(path, i)))
    PROVE  /\ Kept(BuildKeyValue(f, spans, path))
           /\ NewKeyValue(f, spans, path) =
                Msg(f.no, [i \in DOMAIN f.fields |->
                    IF i \in At(f.fields, "msg", 2) THEN NewAnyValue(f.fields[i], spans, Append(path, i))
                    ELSE f.fields[i]])
<1> DEFINE fs == f.fields
           N == Len(fs)
           C(i) == IF i \in At(fs, "msg", 2) THEN BuildAnyValue(fs[i], spans, Append(path, i)) ELSE Unchanged
           child == [i \in DOMAIN fs |-> C(i)]
           x == [i \in DOMAIN fs |-> IF i \in At(fs, "msg", 2) THEN NewAnyValue(fs[i], spans, Append(path, i)) ELSE fs[i]]
<1>1. N \in Nat /\ DOMAIN fs = 1 .. N /\ fs = [i \in 1 .. N |-> fs[i]] /\ f = Msg(f.no, fs)
  BY SeqFields DEF IsMsg
<1>2. BuildKeyValue(f, spans, path) = Rebuilt(f, child)
  BY DEF BuildKeyValue
<1>3. \A i \in 1 .. N : Kept(C(i))
  BY DEF Kept
<1>4. \A i \in 1 .. N : After(fs[i], C(i)) = IF i \in At(fs, "msg", 2) THEN NewAnyValue(fs[i], spans, Append(path, i)) ELSE fs[i]
  BY DEF NewAnyValue, After, Unchanged
<1>5. DOMAIN child = 1 .. N /\ \A i \in 1 .. N : child[i] = C(i)
  BY <1>1
<1> HIDE DEF C, child, N
<1>6. x = [i \in 1 .. N |-> After(fs[i], child[i])]
  BY <1>1, <1>4, <1>5
<1> HIDE DEF x, fs
<1>7. Emit(fs, child) = x
  <2>1. \A i \in 1 .. N : Kept(child[i])
    BY <1>3, <1>5
  <2> QED BY <1>1, <1>6, <2>1, EmitKept
<1>8. Kept(Rebuilt(f, child)) /\ After(f, Rebuilt(f, child)) = Msg(f.no, Emit(fs, child))
  BY <1>1, <1>5, RebuiltIs DEF fs
<1> QED BY <1>2, <1>7, <1>8 DEF NewKeyValue, x, fs

\* build_record: its bodies and its attributes.
LEMMA NewLogRecordIs ==
    ASSUME NEW f, IsMsg(f), NEW spans,
           \A i \in At(f.fields, "msg", 5) : Kept(BuildAnyValue(f.fields[i], spans, <<i>>)),
           \A i \in At(f.fields, "msg", 6) : Kept(BuildKeyValue(f.fields[i], spans, <<i>>))
    PROVE  /\ Kept(BuildRecord(f, FALSE, spans))
           /\ NewLogRecord(f, spans) =
                Msg(f.no, [i \in DOMAIN f.fields |->
                    IF i \in At(f.fields, "msg", 5) THEN NewAnyValue(f.fields[i], spans, <<i>>)
                    ELSE IF i \in At(f.fields, "msg", 6) THEN NewKeyValue(f.fields[i], spans, <<i>>)
                    ELSE f.fields[i]])
<1> DEFINE fs == f.fields
           N == Len(fs)
           C(i) == IF i \in At(fs, "msg", 5) THEN BuildAnyValue(fs[i], spans, <<i>>)
                   ELSE IF i \in At(fs, "msg", 6) THEN BuildKeyValue(fs[i], spans, <<i>>) ELSE Unchanged
           X(i) == IF i \in At(fs, "msg", 5) THEN NewAnyValue(fs[i], spans, <<i>>)
                   ELSE IF i \in At(fs, "msg", 6) THEN NewKeyValue(fs[i], spans, <<i>>) ELSE fs[i]
           child == [i \in DOMAIN fs |-> C(i)]
           x == [i \in DOMAIN fs |-> X(i)]
<1>1. N \in Nat /\ DOMAIN fs = 1 .. N /\ fs = [i \in 1 .. N |-> fs[i]] /\ f = Msg(f.no, fs)
  BY SeqFields DEF IsMsg
<1>2. BuildRecord(f, FALSE, spans) = Rebuilt(f, child)
  BY DEF BuildRecord
<1>3. \A i \in 1 .. N : Kept(C(i))
  BY DEF Kept
<1>4. \A i \in 1 .. N : After(fs[i], C(i)) = X(i)
  BY DEF NewAnyValue, NewKeyValue, After, Unchanged
<1>5. DOMAIN child = 1 .. N /\ \A i \in 1 .. N : child[i] = C(i)
  BY <1>1
<1>6. x = [i \in 1 .. N |-> X(i)]
  BY <1>1
<1> HIDE DEF C, child, N, X
<1>7. x = [i \in 1 .. N |-> After(fs[i], child[i])]
  BY <1>4, <1>5, <1>6
<1> HIDE DEF x, fs
<1>8. Emit(fs, child) = x
  <2>1. \A i \in 1 .. N : Kept(child[i])
    BY <1>3, <1>5
  <2>2. Emit(fs, child) = [i \in 1 .. N |-> After(fs[i], child[i])]
    BY <1>1, <2>1, EmitKept
  <2> QED BY <1>7, <2>2
<1>9. Kept(Rebuilt(f, child)) /\ After(f, Rebuilt(f, child)) = Msg(f.no, Emit(fs, child))
  BY <1>1, <1>5, RebuiltIs DEF fs
<1> QED BY <1>2, <1>8, <1>9 DEF NewLogRecord, x, X, fs

\* A string of any message, as the walkers see it.
LEMMA StrLevels ==
    ASSUME NEW f, f.kind = "str"
    PROVE  /\ IsString(f) \/ IsAnyValue(f) \/ IsKeyValue(f) \/ IsLogRecord(f) => IsStr(f)
           /\ \A g : StringAs(f, g) => AnyValueAs(f, g)
<1>1. IsString(f) \/ IsAnyValue(f) \/ IsKeyValue(f) \/ IsLogRecord(f) => IsStr(f)
  BY DEF IsStr, IsString, IsAnyValue, IsKeyValue, IsLogRecord, Received
<1>2. ASSUME NEW g, StringAs(f, g) PROVE AnyValueAs(f, g)
  <2>1. g.kind = "str"
    BY <1>2 DEF StringAs, Like
  <2> QED BY <1>2, <2>1 DEF StringAs, AnyValueAs, AnyValueRight, StringRight, Right, OriginalAnyValue, OriginalString,
             Restored
<1> QED BY <1>1, <1>2

\* A value of an attribute, with its spans.
LEMMA NewAnyValueAs ==
    ASSUME NEW f, IsAnyValue(f), f.kind = "msg", NEW spans, NEW path, AnyValueFits(f, spans, path)
    PROVE  Kept(BuildAnyValue(f, spans, path)) /\ AnyValueAs(f, NewAnyValue(f, spans, path))
<1> DEFINE fs == f.fields
           S == At(fs, "str", 1)
           X(i) == IF i \in S THEN NewString(fs[i], spans, Append(path, i)) ELSE fs[i]
           N == Len(fs)
           x == [i \in DOMAIN fs |-> X(i)]
<1>1. f = Msg(f.no, fs) /\ IsSeq(fs) /\ IsMsg(f) /\ \A i \in DOMAIN fs : IsString(fs[i])
  BY DEF IsAnyValue, Received, IsMsg, IsSeq
<1>2. N \in Nat /\ DOMAIN fs = 1 .. N /\ fs = [i \in 1 .. N |-> fs[i]]
  BY <1>1, SeqFields
<1>3. ASSUME NEW i \in S
      PROVE  Kept(BuildScalar(fs[i], spans, Append(path, i))) /\ StringAs(fs[i], NewString(fs[i], spans, Append(path, i)))
  <2>1. i \in DOMAIN fs /\ fs[i].kind = "str"
    BY AtFields
  <2>2. IsStr(fs[i])
    BY <1>1, <2>1, StrLevels
  <2>3. Fits(spans, Append(path, i), fs[i].text)
    BY DEF AnyValueFits
  <2> QED BY <2>2, <2>3, NewStringIs DEF Spliced
<1>4. \A i \in 1 .. N : StringAs(fs[i], X(i))
  BY <1>1, <1>2, <1>3, StringRefl
<1>5. Kept(BuildAnyValue(f, spans, path)) /\ NewAnyValue(f, spans, path) = Msg(f.no, x)
  BY <1>1, <1>3, NewAnyValueIs
<1>6. DOMAIN x = 1 .. N /\ \A i \in 1 .. N : x[i] = X(i)
  BY <1>2
<1> HIDE DEF fs, X, x, N
<1>7. \A i \in 1 .. N : StringAs(fs[i], x[i])
  BY <1>4, <1>6
<1>8. AnyValueAs(Msg(f.no, fs), Msg(f.no, x))
  BY <1>2, <1>6, <1>7, AnyValueMsg
<1> QED BY <1>1, <1>5, <1>8

\* A body, with its spans: it may hold messages of its own, which stay.
LEMMA NewBodyAs ==
    ASSUME NEW f, IsKeyValue(f), f.kind = "msg", NEW spans, NEW path, AnyValueFits(f, spans, path)
    PROVE  Kept(BuildAnyValue(f, spans, path)) /\ KeyValueAs(f, NewAnyValue(f, spans, path))
<1> DEFINE fs == f.fields
           S == At(fs, "str", 1)
           X(i) == IF i \in S THEN NewString(fs[i], spans, Append(path, i)) ELSE fs[i]
           N == Len(fs)
           x == [i \in DOMAIN fs |-> X(i)]
<1>1. f = Msg(f.no, fs) /\ IsSeq(fs) /\ IsMsg(f) /\ \A i \in DOMAIN fs : IsAnyValue(fs[i])
  BY DEF IsKeyValue, Received, IsMsg, IsSeq
<1>2. N \in Nat /\ DOMAIN fs = 1 .. N /\ fs = [i \in 1 .. N |-> fs[i]]
  BY <1>1, SeqFields
<1>3. ASSUME NEW i \in S
      PROVE  Kept(BuildScalar(fs[i], spans, Append(path, i))) /\ AnyValueAs(fs[i], NewString(fs[i], spans, Append(path, i)))
  <2>1. i \in DOMAIN fs /\ fs[i].kind = "str"
    BY AtFields
  <2>2. IsStr(fs[i])
    BY <1>1, <2>1, StrLevels
  <2>3. Fits(spans, Append(path, i), fs[i].text)
    BY DEF AnyValueFits
  <2>4. Kept(BuildScalar(fs[i], spans, Append(path, i))) /\ StringAs(fs[i], NewString(fs[i], spans, Append(path, i)))
    BY <2>2, <2>3, NewStringIs DEF Spliced
  <2> QED BY <2>1, <2>4, StrLevels
<1>4. \A i \in 1 .. N : AnyValueAs(fs[i], X(i))
  BY <1>1, <1>2, <1>3, AnyValueRefl
<1>5. Kept(BuildAnyValue(f, spans, path)) /\ NewAnyValue(f, spans, path) = Msg(f.no, x)
  BY <1>1, <1>3, NewAnyValueIs
<1>6. DOMAIN x = 1 .. N /\ \A i \in 1 .. N : x[i] = X(i)
  BY <1>2
<1> HIDE DEF fs, X, x, N
<1>7. \A i \in 1 .. N : AnyValueAs(fs[i], x[i])
  BY <1>4, <1>6
<1>8. KeyValueAs(Msg(f.no, fs), Msg(f.no, x))
  BY <1>2, <1>6, <1>7, KeyValueMsg
<1> QED BY <1>1, <1>5, <1>8

\* An attribute, with its spans.
LEMMA NewKeyValueAs ==
    ASSUME NEW f, IsKeyValue(f), f.kind = "msg", NEW spans, NEW path, KeyValueFits(f, spans, path)
    PROVE  Kept(BuildKeyValue(f, spans, path)) /\ KeyValueAs(f, NewKeyValue(f, spans, path))
<1> DEFINE fs == f.fields
           S == At(fs, "msg", 2)
           X(i) == IF i \in S THEN NewAnyValue(fs[i], spans, Append(path, i)) ELSE fs[i]
           N == Len(fs)
           x == [i \in DOMAIN fs |-> X(i)]
<1>1. f = Msg(f.no, fs) /\ IsSeq(fs) /\ IsMsg(f) /\ \A i \in DOMAIN fs : IsAnyValue(fs[i])
  BY DEF IsKeyValue, Received, IsMsg, IsSeq
<1>2. N \in Nat /\ DOMAIN fs = 1 .. N /\ fs = [i \in 1 .. N |-> fs[i]]
  BY <1>1, SeqFields
<1>3. ASSUME NEW i \in S
      PROVE  Kept(BuildAnyValue(fs[i], spans, Append(path, i))) /\ AnyValueAs(fs[i], NewAnyValue(fs[i], spans, Append(path, i)))
  <2>1. i \in DOMAIN fs /\ fs[i].kind = "msg"
    BY AtFields
  <2>2. IsAnyValue(fs[i])
    BY <1>1, <2>1
  <2>3. AnyValueFits(fs[i], spans, Append(path, i))
    BY DEF KeyValueFits
  <2> QED BY <2>1, <2>2, <2>3, NewAnyValueAs
<1>4. \A i \in 1 .. N : AnyValueAs(fs[i], X(i))
  BY <1>1, <1>2, <1>3, AnyValueRefl
<1>5. Kept(BuildKeyValue(f, spans, path)) /\ NewKeyValue(f, spans, path) = Msg(f.no, x)
  BY <1>1, <1>3, NewKeyValueIs
<1>6. DOMAIN x = 1 .. N /\ \A i \in 1 .. N : x[i] = X(i)
  BY <1>2
<1> HIDE DEF fs, X, x, N
<1>7. \A i \in 1 .. N : AnyValueAs(fs[i], x[i])
  BY <1>4, <1>6
<1>8. KeyValueAs(Msg(f.no, fs), Msg(f.no, x))
  BY <1>2, <1>6, <1>7, KeyValueMsg
<1> QED BY <1>1, <1>5, <1>8

\* Spans that fit a record fit the strings of its bodies and attributes.
LEMMA FitsFields ==
    ASSUME NEW fields, NEW spans, RecordFits(fields, spans), NEW i
    PROVE  AnyValueFits(fields[i], spans, <<i>>) /\ KeyValueFits(fields[i], spans, <<i>>)
<1>1. ASSUME NEW path, NEW text, StrAt(fields, path).text = text PROVE Fits(spans, path, text)
  BY <1>1 DEF RecordFits, Fits, Here
<1>2. AnyValueFits(fields[i], spans, <<i>>)
  <2>1. ASSUME NEW j \in At(fields[i].fields, "str", 1) PROVE Fits(spans, Append(<<i>>, j), fields[i].fields[j].text)
    <3>1. Append(<<i>>, j) = <<i, j>> /\ Len(<<i, j>>) = 2 /\ <<i, j>>[1] = i /\ <<i, j>>[2] = j
      BY ShortPath
    <3>2. StrAt(fields, <<i, j>>) = fields[i].fields[j]
      BY <3>1 DEF StrAt
    <3> QED BY <1>1, <3>1, <3>2
  <2> QED BY <2>1 DEF AnyValueFits
<1>3. ASSUME NEW v \in At(fields[i].fields, "msg", 2)
      PROVE  AnyValueFits(fields[i].fields[v], spans, Append(<<i>>, v))
  <2>1. ASSUME NEW j \in At(fields[i].fields[v].fields, "str", 1)
        PROVE  Fits(spans, Append(Append(<<i>>, v), j), fields[i].fields[v].fields[j].text)
    <3>1. Append(Append(<<i>>, v), j) = <<i, v, j>> /\ Len(<<i, v, j>>) = 3
          /\ <<i, v, j>>[1] = i /\ <<i, v, j>>[2] = v /\ <<i, v, j>>[3] = j
      <4>1. Append(<<i>>, v) = <<i, v>>
        BY ShortPath
      <4>2. Append(<<i, v>>, j) = <<i, v, j>>
        BY LongerPath
      <4> QED BY <4>1, <4>2, LongerPath
    <3>2. StrAt(fields, <<i, v, j>>) = fields[i].fields[v].fields[j]
      BY <3>1 DEF StrAt
    <3> QED BY <1>1, <3>1, <3>2
  <2> QED BY <2>1 DEF AnyValueFits
<1> QED BY <1>2, <1>3 DEF KeyValueFits

\* A record, with its spans.
LEMMA NewLogRecordAs ==
    ASSUME NEW f, IsLogRecord(f), f.kind = "msg", NEW spans, RecordFits(f.fields, spans)
    PROVE  Kept(BuildRecord(f, FALSE, spans)) /\ LogRecordAs(f, NewLogRecord(f, spans))
<1> DEFINE fs == f.fields
           X(i) == IF i \in At(fs, "msg", 5) THEN NewAnyValue(fs[i], spans, <<i>>)
                   ELSE IF i \in At(fs, "msg", 6) THEN NewKeyValue(fs[i], spans, <<i>>) ELSE fs[i]
           N == Len(fs)
           x == [i \in DOMAIN fs |-> X(i)]
<1>1. f = Msg(f.no, fs) /\ IsSeq(fs) /\ IsMsg(f) /\ \A i \in DOMAIN fs : IsKeyValue(fs[i])
  BY DEF IsLogRecord, Received, IsMsg, IsSeq
<1>2. N \in Nat /\ DOMAIN fs = 1 .. N /\ fs = [i \in 1 .. N |-> fs[i]]
  BY <1>1, SeqFields
<1>3. ASSUME NEW i \in At(fs, "msg", 5)
      PROVE  Kept(BuildAnyValue(fs[i], spans, <<i>>)) /\ KeyValueAs(fs[i], NewAnyValue(fs[i], spans, <<i>>))
  <2>1. i \in DOMAIN fs /\ fs[i].kind = "msg"
    BY AtFields
  <2> QED BY <1>1, <2>1, FitsFields, NewBodyAs
<1>4. ASSUME NEW i \in At(fs, "msg", 6)
      PROVE  Kept(BuildKeyValue(fs[i], spans, <<i>>)) /\ KeyValueAs(fs[i], NewKeyValue(fs[i], spans, <<i>>))
  <2>1. i \in DOMAIN fs /\ fs[i].kind = "msg"
    BY AtFields
  <2> QED BY <1>1, <2>1, FitsFields, NewKeyValueAs
<1>5. \A i \in 1 .. N : KeyValueAs(fs[i], X(i))
  BY <1>1, <1>2, <1>3, <1>4, KeyValueRefl
<1>6. Kept(BuildRecord(f, FALSE, spans)) /\ NewLogRecord(f, spans) = Msg(f.no, x)
  BY <1>1, <1>3, <1>4, NewLogRecordIs
<1>7. DOMAIN x = 1 .. N /\ \A i \in 1 .. N : x[i] = X(i)
  BY <1>2
<1> HIDE DEF fs, X, x, N
<1>8. \A i \in 1 .. N : KeyValueAs(fs[i], x[i])
  BY <1>5, <1>7
<1>9. LogRecordAs(Msg(f.no, fs), Msg(f.no, x))
  BY <1>2, <1>7, <1>8, LogRecordMsg
<1> QED BY <1>1, <1>6, <1>9

-----------------------------------------------------------------------------
(* The numbers of the records: the parser lists them, the re-encoder counts. *)

\* The records of a scope and of the containers above it, piece by piece.
ScopePieces(fields, namespace, service) ==
    [i \in DOMAIN fields |->
        IF i \in At(fields, "msg", 2) THEN <<RecordView(fields[i].fields, namespace, service)>> ELSE <<>>]
ScopeRecords(fields, namespace, service) == FlattenSeq(ScopePieces(fields, namespace, service))
NamespaceOf(fields) == ResourceAttr(fields, "k8s.namespace.name")
ServiceNameOf(fields) == ResourceAttr(fields, "service.name")
ResourcePieces(fields) ==
    [i \in DOMAIN fields |->
        IF i \in At(fields, "msg", 2) THEN ScopeRecords(fields[i].fields, NamespaceOf(fields), ServiceNameOf(fields))
        ELSE <<>>]
RequestPieces(fields) ==
    [i \in DOMAIN fields |-> IF i \in At(fields, "msg", 1) THEN ResourceRecords(fields[i].fields) ELSE <<>>]

\* The containers hold sequences.
ResourceSeq(f) == IsSeq(f.fields) /\ \A i \in At(f.fields, "msg", 2) : IsSeq(f.fields[i].fields)
RequestSeq(f)  == IsSeq(f.fields) /\ \A i \in At(f.fields, "msg", 1) : ResourceSeq(f.fields[i])

\* The operators of the parser, by their pieces.
LEMMA PiecesAre ==
    ASSUME NEW fields
    PROVE  ResourceRecords(fields) = FlattenSeq(ResourcePieces(fields))
           /\ RequestRecords(fields) = FlattenSeq(RequestPieces(fields))
BY DEF ResourceRecords, RequestRecords, Each, ResourcePieces, RequestPieces, ScopeRecords, ScopePieces, NamespaceOf,
       ServiceNameOf

\* The records of a scope: one of each.
LEMMA ScopeJoined ==
    ASSUME NEW f, IsSeq(f.fields), NEW namespace, NEW service
    PROVE  /\ Joined(ScopeRecords(f.fields, namespace, service), ScopePieces(f.fields, namespace, service), Len(f.fields))
           /\ Lens(ScopePieces(f.fields, namespace, service)) = Counts(f, 2, OneRecord)
<1> DEFINE N == Len(f.fields)
           ss == ScopePieces(f.fields, namespace, service)
           V(i) == RecordView(f.fields[i].fields, namespace, service)
<1>1. N \in Nat /\ DOMAIN f.fields = 1 .. N
  BY SeqFields
<1>2. DOMAIN ss = 1 .. N /\ ss = [i \in 1 .. N |-> ss[i]]
      /\ \A i \in 1 .. N : ss[i] = IF i \in At(f.fields, "msg", 2) THEN <<V(i)>> ELSE <<>>
  BY <1>1 DEF ScopePieces
<1>3. Lens(ss) = [i \in DOMAIN ss |-> Len(ss[i])]
  BY DEF Lens
<1>4. Counts(f, 2, OneRecord) = [i \in 1 .. N |-> IF i \in At(f.fields, "msg", 2) THEN 1 ELSE 0]
  BY <1>1 DEF Counts, OneRecord
<1> HIDE DEF ss, V, N
<1>5. ASSUME NEW i \in 1 .. N
      PROVE  IsSeq(ss[i]) /\ Len(ss[i]) = IF i \in At(f.fields, "msg", 2) THEN 1 ELSE 0
  <2>1. CASE i \in At(f.fields, "msg", 2)
    <3> DEFINE v == V(i)
    <3>1. ss[i] = <<v>>
      BY <1>2, <2>1
    <3> HIDE DEF v
    <3>2. Len(<<v>>) = 1 /\ DOMAIN <<v>> = 1 .. 1 /\ <<v>> = [k \in 1 .. 1 |-> <<v>>[k]]
      OBVIOUS
    <3>3. IsSeq(<<v>>)
      BY <3>2, SeqIs
    <3> QED BY <2>1, <3>1, <3>2, <3>3
  <2>2. CASE i \notin At(f.fields, "msg", 2)
    <3>1. ss[i] = <<>>
      BY <1>2, <2>2
    <3>2. IsSeq(<<>>) /\ Len(<<>>) = 0
      BY DEF IsSeq, Range
    <3> QED BY <2>2, <3>1, <3>2
  <2> QED BY <2>1, <2>2
<1>6. Joined(FlattenSeq(ss), ss, N)
  <2>1. \A i \in 1 .. N : IsSeq(ss[i])
    BY <1>5
  <2> QED BY <1>1, <1>2, <2>1, FlattenJoins
<1>7. Lens(ss) = Counts(f, 2, OneRecord)
  BY <1>2, <1>3, <1>4, <1>5
<1> QED BY <1>6, <1>7 DEF ScopeRecords, ss, N

\* The records of a ResourceLogs: those of its scopes.
LEMMA ResourceJoined ==
    ASSUME NEW f, ResourceSeq(f)
    PROVE  /\ Joined(ResourceRecords(f.fields), ResourcePieces(f.fields), Len(f.fields))
           /\ Lens(ResourcePieces(f.fields)) = Counts(f, 2, RecordsOf)
           /\ Len(ResourceRecords(f.fields)) = RecordsUnder(f)
<1> DEFINE N == Len(f.fields)
           ss == ResourcePieces(f.fields)
           S == At(f.fields, "msg", 2)
           ns == NamespaceOf(f.fields)
           sv == ServiceNameOf(f.fields)
<1>1. N \in Nat /\ DOMAIN f.fields = 1 .. N
  BY SeqFields DEF ResourceSeq
<1>2. DOMAIN ss = 1 .. N /\ ss = [i \in 1 .. N |-> ss[i]]
      /\ \A i \in 1 .. N : ss[i] = IF i \in S THEN ScopeRecords(f.fields[i].fields, ns, sv) ELSE <<>>
  BY <1>1 DEF ResourcePieces
<1>3. Lens(ss) = [i \in DOMAIN ss |-> Len(ss[i])]
  BY DEF Lens
<1>4. Counts(f, 2, RecordsOf) = [i \in 1 .. N |-> IF i \in S THEN RecordsOf(f.fields[i]) ELSE 0]
  BY <1>1 DEF Counts
<1>5. ASSUME NEW i \in S
      PROVE  IsSeq(ScopeRecords(f.fields[i].fields, ns, sv))
             /\ Len(ScopeRecords(f.fields[i].fields, ns, sv)) = RecordsOf(f.fields[i])
  <2>1. IsSeq(f.fields[i].fields)
    BY DEF ResourceSeq
  <2> DEFINE g == f.fields[i]
             r == ScopeRecords(g.fields, ns, sv)
             pp == ScopePieces(g.fields, ns, sv)
  <2> HIDE DEF ns, sv, g
  <2>2. Joined(r, pp, Len(g.fields)) /\ Lens(pp) = Counts(g, 2, OneRecord)
    BY <2>1, ScopeJoined DEF g
  <2>3. IsSeq(r) /\ Len(r) = SumOf(Lens(pp))
    BY <2>2 DEF Joined
  <2>4. Len(r) = RecordsOf(g)
    BY <2>2, <2>3 DEF RecordsOf
  <2> QED BY <2>3, <2>4 DEF g
<1> HIDE DEF ss, N, ns, sv, S
<1>6. ASSUME NEW i \in 1 .. N
      PROVE  IsSeq(ss[i]) /\ Len(ss[i]) = IF i \in S THEN RecordsOf(f.fields[i]) ELSE 0
  <2>1. CASE i \in S
    BY <1>2, <1>5, <2>1
  <2>2. CASE i \notin S
    <3>1. ss[i] = <<>>
      BY <1>2, <2>2
    <3>2. IsSeq(<<>>) /\ Len(<<>>) = 0
      BY DEF IsSeq, Range
    <3> QED BY <2>2, <3>1, <3>2
  <2> QED BY <2>1, <2>2
<1>7. Joined(FlattenSeq(ss), ss, N)
  <2>1. \A i \in 1 .. N : IsSeq(ss[i])
    BY <1>6
  <2> QED BY <1>1, <1>2, <2>1, FlattenJoins
<1>8. Lens(ss) = Counts(f, 2, RecordsOf)
  BY <1>2, <1>3, <1>4, <1>6
<1>9. ResourceRecords(f.fields) = FlattenSeq(ss)
  BY PiecesAre DEF ss
<1>10. Len(FlattenSeq(ss)) = SumOf(Lens(ss))
  BY <1>7 DEF Joined
<1>11. Len(ResourceRecords(f.fields)) = RecordsUnder(f)
  BY <1>8, <1>9, <1>10 DEF RecordsUnder
<1> QED BY <1>7, <1>8, <1>9, <1>11 DEF ss, N

\* The records of a request: those of its ResourceLogs.
LEMMA RequestJoined ==
    ASSUME NEW f, RequestSeq(f)
    PROVE  /\ Joined(RequestRecords(f.fields), RequestPieces(f.fields), Len(f.fields))
           /\ Lens(RequestPieces(f.fields)) = Counts(f, 1, RecordsUnder)
           /\ Len(RequestRecords(f.fields)) = RecordsWalked(f)
           /\ IsSeq(RequestRecords(f.fields)) /\ Placed(RequestRecords(f.fields), 1, RequestRecords(f.fields))
<1> DEFINE N == Len(f.fields)
           ss == RequestPieces(f.fields)
           S == At(f.fields, "msg", 1)
<1>1. N \in Nat /\ DOMAIN f.fields = 1 .. N
  BY SeqFields DEF RequestSeq
<1>2. DOMAIN ss = 1 .. N /\ ss = [i \in 1 .. N |-> ss[i]]
      /\ \A i \in 1 .. N : ss[i] = IF i \in S THEN ResourceRecords(f.fields[i].fields) ELSE <<>>
  BY <1>1 DEF RequestPieces
<1>3. Lens(ss) = [i \in DOMAIN ss |-> Len(ss[i])]
  BY DEF Lens
<1>4. Counts(f, 1, RecordsUnder) = [i \in 1 .. N |-> IF i \in S THEN RecordsUnder(f.fields[i]) ELSE 0]
  BY <1>1 DEF Counts
<1>5. ASSUME NEW i \in S
      PROVE  IsSeq(ResourceRecords(f.fields[i].fields))
             /\ Len(ResourceRecords(f.fields[i].fields)) = RecordsUnder(f.fields[i])
  <2> DEFINE g == f.fields[i]
  <2>1. ResourceSeq(g)
    BY DEF RequestSeq
  <2> HIDE DEF g
  <2>2. Joined(ResourceRecords(g.fields), ResourcePieces(g.fields), Len(g.fields))
        /\ Len(ResourceRecords(g.fields)) = RecordsUnder(g)
    BY <2>1, ResourceJoined
  <2> QED BY <2>2 DEF Joined, g
<1> HIDE DEF ss, N, S
<1>6. ASSUME NEW i \in 1 .. N
      PROVE  IsSeq(ss[i]) /\ Len(ss[i]) = IF i \in S THEN RecordsUnder(f.fields[i]) ELSE 0
  <2>1. CASE i \in S
    BY <1>2, <1>5, <2>1
  <2>2. CASE i \notin S
    <3>1. ss[i] = <<>>
      BY <1>2, <2>2
    <3>2. IsSeq(<<>>) /\ Len(<<>>) = 0
      BY DEF IsSeq, Range
    <3> QED BY <2>2, <3>1, <3>2
  <2> QED BY <2>1, <2>2
<1>7. Joined(FlattenSeq(ss), ss, N)
  <2>1. \A i \in 1 .. N : IsSeq(ss[i])
    BY <1>6
  <2> QED BY <1>1, <1>2, <2>1, FlattenJoins
<1>8. Lens(ss) = Counts(f, 1, RecordsUnder)
  BY <1>2, <1>3, <1>4, <1>6
<1> DEFINE r == RequestRecords(f.fields)
<1>9. r = FlattenSeq(ss)
  BY PiecesAre DEF ss
<1> HIDE DEF r
<1>10. IsSeq(r) /\ Len(r) = SumOf(Lens(ss))
  BY <1>7, <1>9 DEF Joined
<1>11. Len(r) = RecordsWalked(f)
  BY <1>8, <1>10 DEF RecordsWalked
<1>12. Placed(r, 1, r)
  <2>1. Len(r) \in Nat
    BY <1>10, SeqFields
  <2> QED BY <2>1 DEF Placed
<1> QED BY <1>7, <1>8, <1>9, <1>10, <1>11, <1>12 DEF ss, N, r

\* The number of the first record of a ResourceLogs and of a scope of it, and
\* of a record of that scope.
FirstUnder(f, i)     == RecIdx(1, Counts(f, 1, RecordsUnder), i)
FirstIn(g, first, j) == RecIdx(first, Counts(g, 2, RecordsOf), j)
NumberIn(h, first, k) == RecIdx(first, Counts(h, 2, OneRecord), k)

\* The scopes of a request, and their records, by their places.
IsScope(f, i, j)     == i \in At(f.fields, "msg", 1) /\ j \in At(f.fields[i].fields, "msg", 2)
IsRecord(f, i, j, k) == IsScope(f, i, j) /\ k \in At(f.fields[i].fields[j].fields, "msg", 2)

\* The view of a record, where it stands.
ViewOf(f, i, j, k) ==
    RecordView(f.fields[i].fields[j].fields[k].fields, NamespaceOf(f.fields[i].fields), ServiceNameOf(f.fields[i].fields))

\* The number of a record: the one that the re-encoder gives it.
NumberOf(f, i, j, k) ==
    NumberIn(f.fields[i].fields[j], FirstIn(f.fields[i], FirstUnder(f, i), j), k)

\* The numbers that the re-encoder gives are the places in the parser's list.
LEMMA Numbered ==
    ASSUME NEW f, RequestSeq(f), NEW i, NEW j, NEW k, IsRecord(f, i, j, k)
    PROVE  /\ NumberOf(f, i, j, k) \in 1 .. Len(RequestRecords(f.fields))
           /\ RequestRecords(f.fields)[NumberOf(f, i, j, k)] = ViewOf(f, i, j, k)
<1> DEFINE R == RequestRecords(f.fields)
           rl == f.fields[i]
           sl == rl.fields[j]
           a == FirstUnder(f, i)
           b == FirstIn(rl, a, j)
           n == NumberIn(sl, b, k)
           ns == NamespaceOf(rl.fields)
           sv == ServiceNameOf(rl.fields)
           v == ViewOf(f, i, j, k)
<1>1. Joined(R, RequestPieces(f.fields), Len(f.fields)) /\ Lens(RequestPieces(f.fields)) = Counts(f, 1, RecordsUnder)
      /\ Placed(R, 1, R)
  BY RequestJoined
<1>2. i \in At(f.fields, "msg", 1) /\ j \in At(rl.fields, "msg", 2) /\ k \in At(sl.fields, "msg", 2)
  BY DEF IsRecord, IsScope
<1>3. Len(f.fields) \in Nat /\ i \in 1 .. Len(f.fields) /\ ResourceSeq(rl)
  BY <1>2, AtFields, SeqFields DEF RequestSeq
<1>4. Len(rl.fields) \in Nat /\ j \in 1 .. Len(rl.fields) /\ IsSeq(sl.fields)
  BY <1>2, <1>3, AtFields, SeqFields DEF ResourceSeq
<1>5. Len(sl.fields) \in Nat /\ k \in 1 .. Len(sl.fields)
  BY <1>2, <1>4, AtFields, SeqFields
<1>6. RequestPieces(f.fields)[i] = ResourceRecords(rl.fields)
  BY <1>2, AtFields DEF RequestPieces
<1>7. ResourcePieces(rl.fields)[j] = ScopeRecords(sl.fields, ns, sv)
  BY <1>2, AtFields DEF ResourcePieces
<1>8. ScopePieces(sl.fields, ns, sv)[k] = <<v>>
  BY <1>2, AtFields DEF ScopePieces, ViewOf
<1> HIDE DEF R, rl, sl, ns, sv, v
<1>9. Joined(ResourceRecords(rl.fields), ResourcePieces(rl.fields), Len(rl.fields))
      /\ Lens(ResourcePieces(rl.fields)) = Counts(rl, 2, RecordsOf)
  BY <1>3, ResourceJoined
<1>10. Joined(ScopeRecords(sl.fields, ns, sv), ScopePieces(sl.fields, ns, sv), Len(sl.fields))
       /\ Lens(ScopePieces(sl.fields, ns, sv)) = Counts(sl, 2, OneRecord)
  BY <1>4, ScopeJoined
<1>11. a \in Nat /\ Placed(R, a, ResourceRecords(rl.fields))
  <2> DEFINE ss == RequestPieces(f.fields)
             N == Len(f.fields)
  <2>1. Joined(R, ss, N) /\ Placed(R, 1, R) /\ N \in Nat /\ i \in 1 .. N /\ ss[i] = ResourceRecords(rl.fields)
        /\ a = RecIdx(1, Lens(ss), i)
    BY <1>1, <1>3, <1>6 DEF FirstUnder
  <2> HIDE DEF ss, N, a
  <2>2. RecIdx(1, Lens(ss), i) \in Nat /\ Placed(R, RecIdx(1, Lens(ss), i), ss[i])
    BY <2>1, PlacedPart
  <2> QED BY <2>1, <2>2
<1> HIDE DEF a
<1>12. b \in Nat /\ Placed(R, b, ScopeRecords(sl.fields, ns, sv))
  <2> DEFINE ss == ResourcePieces(rl.fields)
             N == Len(rl.fields)
             g == ResourceRecords(rl.fields)
  <2>1. Joined(g, ss, N) /\ Placed(R, a, g) /\ N \in Nat /\ j \in 1 .. N /\ ss[j] = ScopeRecords(sl.fields, ns, sv)
        /\ b = RecIdx(a, Lens(ss), j)
    BY <1>4, <1>7, <1>9, <1>11 DEF FirstIn
  <2> HIDE DEF ss, N, b, g
  <2>2. RecIdx(a, Lens(ss), j) \in Nat /\ Placed(R, RecIdx(a, Lens(ss), j), ss[j])
    BY <1>11, <2>1, PlacedPart
  <2> QED BY <2>1, <2>2
<1> HIDE DEF b
<1>13. n \in Nat /\ Placed(R, n, <<v>>)
  <2> DEFINE ss == ScopePieces(sl.fields, ns, sv)
             N == Len(sl.fields)
             g == ScopeRecords(sl.fields, ns, sv)
  <2>1. Joined(g, ss, N) /\ Placed(R, b, g) /\ N \in Nat /\ k \in 1 .. N /\ ss[k] = <<v>>
        /\ n = RecIdx(b, Lens(ss), k)
    BY <1>5, <1>8, <1>10, <1>12 DEF NumberIn
  <2> HIDE DEF ss, N, n, g
  <2>2. RecIdx(b, Lens(ss), k) \in Nat /\ Placed(R, RecIdx(b, Lens(ss), k), ss[k])
    BY <1>12, <2>1, PlacedPart
  <2> QED BY <2>1, <2>2
<1>14. NumberOf(f, i, j, k) = n
  BY DEF NumberOf, a, b, rl, sl
<1> HIDE DEF n
<1>15. n \in 1 .. Len(R) /\ R[n] = v
  <2>1. Len(<<v>>) = 1 /\ <<v>>[1] = v /\ 1 \in 1 .. Len(<<v>>) /\ (n + 1) - 1 = n
    BY <1>13
  <2>2. (n + 1) - 1 \in 1 .. Len(R) /\ R[(n + 1) - 1] = <<v>>[1]
    BY <1>13, <2>1 DEF Placed
  <2> QED BY <2>1, <2>2
<1> QED BY <1>14, <1>15 DEF R, v

\* Every view is that of a record, where it stands.
LEMMA ViewsAre ==
    ASSUME NEW f, RequestSeq(f), NEW v \in Range(RequestRecords(f.fields))
    PROVE  \E i, j, k : IsRecord(f, i, j, k) /\ v = ViewOf(f, i, j, k)
<1> DEFINE R == RequestRecords(f.fields)
<1>1. Joined(R, RequestPieces(f.fields), Len(f.fields))
  BY RequestJoined
<1>2. PICK m \in DOMAIN R : v = R[m]
  BY DEF Range
<1>3. DOMAIN R = 1 .. Len(R)
  BY <1>1, SeqFields DEF Joined
<1>4. PICK i \in 1 .. Len(f.fields) : \E q \in 1 .. Len(RequestPieces(f.fields)[i]) :
        v = RequestPieces(f.fields)[i][q]
  BY <1>1, <1>2, <1>3 DEF Joined
<1>5. PICK q \in 1 .. Len(RequestPieces(f.fields)[i]) : v = RequestPieces(f.fields)[i][q]
  BY <1>4
<1>6. DOMAIN f.fields = 1 .. Len(f.fields)
  BY SeqFields DEF RequestSeq
<1>7. i \in At(f.fields, "msg", 1) /\ RequestPieces(f.fields)[i] = ResourceRecords(f.fields[i].fields)
  <2>1. CASE i \in At(f.fields, "msg", 1)
    BY <1>6, <2>1 DEF RequestPieces
  <2>2. CASE i \notin At(f.fields, "msg", 1)
    <3>1. RequestPieces(f.fields)[i] = <<>>
      BY <1>6, <2>2 DEF RequestPieces
    <3>2. 1 .. Len(<<>>) = {}
      OBVIOUS
    <3> QED BY <1>5, <3>1, <3>2
  <2> QED BY <2>1, <2>2
<1> DEFINE rl == f.fields[i]
           ns == NamespaceOf(rl.fields)
           sv == ServiceNameOf(rl.fields)
           Q == ResourceRecords(rl.fields)
<1>8. ResourceSeq(rl) /\ q \in 1 .. Len(Q) /\ v = Q[q]
  BY <1>5, <1>7 DEF RequestSeq
<1> HIDE DEF rl
<1>9. Joined(Q, ResourcePieces(rl.fields), Len(rl.fields))
  BY <1>8, ResourceJoined
<1>10. PICK j \in 1 .. Len(rl.fields) : \E p \in 1 .. Len(ResourcePieces(rl.fields)[j]) :
         v = ResourcePieces(rl.fields)[j][p]
  BY <1>8, <1>9 DEF Joined
<1>11. PICK p \in 1 .. Len(ResourcePieces(rl.fields)[j]) : v = ResourcePieces(rl.fields)[j][p]
  BY <1>10
<1>12. DOMAIN rl.fields = 1 .. Len(rl.fields)
  BY <1>8, SeqFields DEF ResourceSeq
<1>13. j \in At(rl.fields, "msg", 2) /\ ResourcePieces(rl.fields)[j] = ScopeRecords(rl.fields[j].fields, ns, sv)
  <2>1. CASE j \in At(rl.fields, "msg", 2)
    BY <1>12, <2>1 DEF ResourcePieces
  <2>2. CASE j \notin At(rl.fields, "msg", 2)
    <3>1. ResourcePieces(rl.fields)[j] = <<>>
      BY <1>12, <2>2 DEF ResourcePieces
    <3>2. 1 .. Len(<<>>) = {}
      OBVIOUS
    <3> QED BY <1>11, <3>1, <3>2
  <2> QED BY <2>1, <2>2
<1> DEFINE sl == rl.fields[j]
           T == ScopeRecords(sl.fields, ns, sv)
<1>14. IsSeq(sl.fields) /\ p \in 1 .. Len(T) /\ v = T[p]
  BY <1>8, <1>11, <1>13 DEF ResourceSeq
<1> HIDE DEF sl, ns, sv
<1>15. Joined(T, ScopePieces(sl.fields, ns, sv), Len(sl.fields))
  BY <1>14, ScopeJoined
<1>16. PICK k \in 1 .. Len(sl.fields) : \E o \in 1 .. Len(ScopePieces(sl.fields, ns, sv)[k]) :
         v = ScopePieces(sl.fields, ns, sv)[k][o]
  BY <1>14, <1>15 DEF Joined
<1>17. PICK o \in 1 .. Len(ScopePieces(sl.fields, ns, sv)[k]) : v = ScopePieces(sl.fields, ns, sv)[k][o]
  BY <1>16
<1>18. DOMAIN sl.fields = 1 .. Len(sl.fields)
  BY <1>14, SeqFields
<1>19. k \in At(sl.fields, "msg", 2) /\ v = RecordView(sl.fields[k].fields, ns, sv)
  <2>1. CASE k \in At(sl.fields, "msg", 2)
    <3> DEFINE w == RecordView(sl.fields[k].fields, ns, sv)
    <3>1. ScopePieces(sl.fields, ns, sv)[k] = <<w>>
      BY <1>18, <2>1 DEF ScopePieces
    <3> HIDE DEF w
    <3>2. 1 .. Len(<<w>>) = {1} /\ <<w>>[1] = w
      OBVIOUS
    <3>3. v = w
      BY <1>17, <3>1, <3>2
    <3> QED BY <2>1, <3>3 DEF w
  <2>2. CASE k \notin At(sl.fields, "msg", 2)
    <3>1. ScopePieces(sl.fields, ns, sv)[k] = <<>>
      BY <1>18, <2>2 DEF ScopePieces
    <3>2. 1 .. Len(<<>>) = {}
      OBVIOUS
    <3> QED BY <1>17, <3>1, <3>2
  <2> QED BY <2>1, <2>2
<1>20. IsRecord(f, i, j, k) /\ v = ViewOf(f, i, j, k)
  BY <1>7, <1>13, <1>19 DEF IsRecord, IsScope, ViewOf, rl, sl, ns, sv
<1> QED BY <1>20

-----------------------------------------------------------------------------
(* A scope, with the records that are dropped taken out. *)

\* What each field of the scope leaves, and what it leaves in the new scope.
KeptPieces(h, first, D) ==
    [k \in DOMAIN h.fields |->
        IF k \in At(h.fields, "msg", 2) /\ NumberIn(h, first, k) \in D THEN <<>> ELSE <<h.fields[k]>>]
NewField(h, first, S, k) ==
    IF k \in At(h.fields, "msg", 2) THEN NewLogRecord(h.fields[k], S[NumberIn(h, first, k)]) ELSE h.fields[k]
NewPieces(h, first, D, S) ==
    [k \in DOMAIN h.fields |->
        IF k \in At(h.fields, "msg", 2) /\ NumberIn(h, first, k) \in D THEN <<>> ELSE <<NewField(h, first, S, k)>>]

\* The scope without what is dropped, and the scope that is built.
KeptScope(h, first, D)   == Msg(h.no, FlattenSeq(KeptPieces(h, first, D)))
NewScope(h, first, D, S) == After(h, BuildScope(h, first, D, S))

\* The spans of the records that stay are theirs.
ScopeFits(h, first, D, S) ==
    \A k \in At(h.fields, "msg", 2) :
        NumberIn(h, first, k) \in D \/ RecordFits(h.fields[k].fields, S[NumberIn(h, first, k)])

\* A scope is built of the new pieces.
LEMMA NewScopeIs ==
    ASSUME NEW h, IsScopeLogs(h), h.kind = "msg", NEW first, NEW D, NEW S, ScopeFits(h, first, D, S)
    PROVE  /\ Kept(BuildScope(h, first, D, S))
           /\ NewScope(h, first, D, S) = Msg(h.no, FlattenSeq(NewPieces(h, first, D, S)))
           /\ \A k \in DOMAIN h.fields :
                 (k \in At(h.fields, "msg", 2) /\ NumberIn(h, first, k) \in D)
                 \/ LogRecordAs(h.fields[k], NewField(h, first, S, k))
<1> DEFINE fs == h.fields
           N == Len(fs)
           n(k) == NumberIn(h, first, k)
           C(k) == IF k \in At(fs, "msg", 2) THEN BuildRecord(fs[k], n(k) \in D, S[n(k)]) ELSE Unchanged
           child == [k \in DOMAIN fs |-> C(k)]
           One(k) == CASE child[k].kind = "unchanged" -> <<fs[k]>>
                       [] child[k].kind = "dropped"   -> <<>>
                       [] OTHER                       -> <<child[k]>>
           P(k) == IF k \in At(fs, "msg", 2) /\ n(k) \in D THEN <<>> ELSE <<NewField(h, first, S, k)>>
<1>1. h = Msg(h.no, fs) /\ IsSeq(fs) /\ IsMsg(h) /\ \A k \in DOMAIN fs : IsLogRecord(fs[k])
  BY DEF IsScopeLogs, Received, IsMsg, IsSeq
<1>2. N \in Nat /\ DOMAIN fs = 1 .. N /\ fs = [k \in 1 .. N |-> fs[k]]
  BY <1>1, SeqFields
<1>3. BuildScope(h, first, D, S) = Rebuilt(h, child)
  BY DEF BuildScope, NumberIn
<1>4. ASSUME NEW k \in DOMAIN fs, ~(k \in At(fs, "msg", 2) /\ n(k) \in D)
      PROVE  Kept(C(k)) /\ After(fs[k], C(k)) = NewField(h, first, S, k) /\ LogRecordAs(fs[k], NewField(h, first, S, k))
  <2>1. CASE k \in At(fs, "msg", 2)
    <3>1. n(k) \notin D /\ fs[k].kind = "msg" /\ RecordFits(fs[k].fields, S[n(k)]) /\ IsLogRecord(fs[k])
      BY <1>1, <1>4, <2>1, AtFields DEF ScopeFits
    <3>2. Kept(BuildRecord(fs[k], FALSE, S[n(k)])) /\ LogRecordAs(fs[k], NewLogRecord(fs[k], S[n(k)]))
      BY <3>1, NewLogRecordAs
    <3>3. C(k) = BuildRecord(fs[k], FALSE, S[n(k)])
      BY <2>1, <3>1 DEF BuildRecord
    <3>4. NewField(h, first, S, k) = NewLogRecord(fs[k], S[n(k)])
      BY <2>1 DEF NewField
    <3> QED BY <3>2, <3>3, <3>4 DEF NewLogRecord
  <2>2. CASE k \notin At(fs, "msg", 2)
    <3>1. C(k) = Unchanged /\ NewField(h, first, S, k) = fs[k]
      BY <2>2 DEF NewField
    <3>2. LogRecordAs(fs[k], fs[k])
      BY <1>1, LogRecordRefl
    <3> QED BY <3>1, <3>2 DEF Kept, After, Unchanged
  <2> QED BY <2>1, <2>2
<1>5. ASSUME NEW k \in DOMAIN fs PROVE One(k) = P(k)
  <2>1. child[k] = C(k)
    OBVIOUS
  <2>2. CASE k \in At(fs, "msg", 2) /\ n(k) \in D
    <3>1. C(k) = Dropped
      BY <2>2 DEF BuildRecord
    <3> QED BY <2>1, <2>2, <3>1 DEF Dropped
  <2>3. CASE ~(k \in At(fs, "msg", 2) /\ n(k) \in D)
    <3> DEFINE c == C(k)
               w == NewField(h, first, S, k)
    <3>1. Kept(c) /\ After(fs[k], c) = w /\ child[k] = c /\ P(k) = <<w>>
      BY <1>4, <2>1, <2>3
    <3> HIDE DEF c, w, C, P
    <3> QED BY <3>1 DEF Kept, After, Unchanged
  <2> QED BY <2>2, <2>3
<1>6. Emit(fs, child) = FlattenSeq([k \in DOMAIN fs |-> One(k)])
  BY DEF Emit
<1>7. NewPieces(h, first, D, S) = [k \in DOMAIN fs |-> P(k)]
  BY DEF NewPieces
<1> HIDE DEF One, P
<1>8. Emit(fs, child) = FlattenSeq(NewPieces(h, first, D, S))
  BY <1>5, <1>6, <1>7
<1>9. DOMAIN child = 1 .. N
  BY <1>2
<1> HIDE DEF child, N
<1>10. Kept(Rebuilt(h, child)) /\ After(h, Rebuilt(h, child)) = Msg(h.no, Emit(fs, child))
  BY <1>1, <1>2, <1>9, RebuiltIs
<1> QED BY <1>3, <1>4, <1>8, <1>10 DEF NewScope

\* The new scope stands for the scope without what is dropped.
LEMMA NewScopeAs ==
    ASSUME NEW h, IsScopeLogs(h), h.kind = "msg", NEW first, NEW D, NEW S, ScopeFits(h, first, D, S)
    PROVE  /\ Kept(BuildScope(h, first, D, S))
           /\ ScopeLogsAs(KeptScope(h, first, D), NewScope(h, first, D, S))
<1> DEFINE fs == h.fields
           N == Len(fs)
           Out(k) == k \in At(fs, "msg", 2) /\ NumberIn(h, first, k) \in D
           W(k) == NewField(h, first, S, k)
           ss == NewPieces(h, first, D, S)
           tt == KeptPieces(h, first, D)
           A == {W(k) : k \in 1 .. N}
           B == {fs[k] : k \in 1 .. N}
           o == [x \in A |-> OriginalLogRecord(x)]
           F == FlattenSeq(ss)
           G == FlattenSeq(tt)
<1>1. N \in Nat /\ DOMAIN fs = 1 .. N
  <2>1. IsSeq(fs)
    BY DEF IsScopeLogs, Received, IsSeq
  <2> QED BY <2>1, SeqFields
<1>2. /\ Kept(BuildScope(h, first, D, S)) /\ NewScope(h, first, D, S) = Msg(h.no, F)
      /\ \A k \in 1 .. N : Out(k) \/ LogRecordAs(fs[k], W(k))
  BY <1>1, NewScopeIs
<1>3. \A k \in 1 .. N : ss[k] = IF Out(k) THEN <<>> ELSE <<W(k)>>
  BY <1>1 DEF NewPieces
<1>4. \A k \in 1 .. N : tt[k] = IF Out(k) THEN <<>> ELSE <<fs[k]>>
  BY <1>1 DEF KeptPieces
<1>5. DOMAIN ss = 1 .. N /\ ss = [k \in 1 .. N |-> ss[k]] /\ DOMAIN tt = 1 .. N /\ tt = [k \in 1 .. N |-> tt[k]]
  BY <1>1 DEF NewPieces, KeptPieces
<1>6. \A k \in 1 .. N : W(k) \in A /\ fs[k] \in B
  OBVIOUS
<1>7. \A x \in A : o[x] = OriginalLogRecord(x)
  OBVIOUS
<1>8. o \in [A -> {OriginalLogRecord(x) : x \in A}]
  OBVIOUS
<1> HIDE DEF ss, tt, A, B, o, W, Out, fs, N
<1>9. ss \in [1 .. N -> Seq(A)] /\ tt \in [1 .. N -> Seq(B)]
  <2>1. ASSUME NEW k \in 1 .. N PROVE ss[k] \in Seq(A) /\ tt[k] \in Seq(B)
    <3>1. CASE Out(k)
      <4>1. ss[k] = <<>> /\ tt[k] = <<>>
        BY <1>3, <1>4, <3>1
      <4>2. <<>> \in Seq(A) /\ <<>> \in Seq(B)
        OBVIOUS
      <4> QED BY <4>1, <4>2
    <3>2. CASE ~Out(k)
      <4> DEFINE w == W(k)
                 f == fs[k]
      <4>1. ss[k] = <<w>> /\ tt[k] = <<f>> /\ w \in A /\ f \in B
        BY <1>3, <1>4, <1>6, <3>2
      <4> HIDE DEF w, f
      <4> QED BY <4>1
    <3> QED BY <3>1, <3>2
  <2> QED BY <1>5, <2>1
<1>10. ASSUME NEW k \in 1 .. N
       PROVE  /\ Len(tt[k]) = Len(ss[k])
              /\ \A q \in 1 .. Len(ss[k]) : tt[k][q] = o[ss[k][q]] /\ LogRecordAs(tt[k][q], ss[k][q])
  <2>1. CASE Out(k)
    <3>1. ss[k] = <<>> /\ tt[k] = <<>>
      BY <1>3, <1>4, <2>1
    <3> QED BY <3>1
  <2>2. CASE ~Out(k)
    <3> DEFINE w == W(k)
               f == fs[k]
    <3>1. ss[k] = <<w>> /\ tt[k] = <<f>> /\ w \in A /\ LogRecordAs(f, w)
      BY <1>2, <1>3, <1>4, <1>6, <2>2
    <3>2. o[w] = f
      BY <1>7, <3>1 DEF LogRecordAs
    <3> HIDE DEF w, f
    <3>3. Len(<<w>>) = 1 /\ Len(<<f>>) = 1 /\ <<w>>[1] = w /\ <<f>>[1] = f
      OBVIOUS
    <3> QED BY <3>1, <3>2, <3>3
  <2> QED BY <2>1, <2>2
<1>11. o \in [A -> B \cup {OriginalLogRecord(x) : x \in A}] /\ tt \in [1 .. N -> Seq(B \cup {OriginalLogRecord(x) : x \in A})]
  <2> DEFINE E == B \cup {OriginalLogRecord(x) : x \in A}
  <2>1. Seq(B) \subseteq Seq(E)
    BY SeqMonotonic
  <2> QED BY <1>8, <1>9, <2>1
<1>12. G = [m \in DOMAIN F |-> o[F[m]]]
  <2> DEFINE E == B \cup {OriginalLogRecord(x) : x \in A}
  <2>1. o \in [A -> E] /\ tt \in [1 .. N -> Seq(E)]
    BY <1>11
  <2>2. Mapped(tt, ss, o, N)
    BY <1>10 DEF Mapped
  <2> HIDE DEF E
  <2>3. IsImage(G, F, o)
    BY <1>1, <1>9, <2>1, <2>2, FlattenMap
  <2> QED BY <2>3 DEF IsImage
<1> DEFINE M == Len(F)
<1>13. Flattened(F, ss, N, A) /\ F \in Seq(A) /\ M \in Nat /\ DOMAIN F = 1 .. M
  <2>1. Flattened(F, ss, N, A)
    BY <1>1, <1>9, FlattenAt
  <2> HIDE DEF F
  <2>2. F \in Seq(A)
    BY <2>1 DEF Flattened
  <2> QED BY <2>1, <2>2
<1>14. ASSUME NEW m \in 1 .. M PROVE LogRecordAs(G[m], F[m])
  <2>1. \E k \in 1 .. N : \E q \in 1 .. Len(ss[k]) : F[m] = ss[k][q]
    <3> HIDE DEF F
    <3>1. PICK k \in 1 .. N : \E q \in 1 .. Len(ss[k]) : m = Upto(Lens(ss), k - 1) + q
      BY <1>13 DEF Flattened
    <3>2. PICK q \in 1 .. Len(ss[k]) : m = Upto(Lens(ss), k - 1) + q
      BY <3>1
    <3>3. F[m] = ss[k][q]
      BY <1>13, <3>2 DEF Flattened
    <3> QED BY <3>3
  <2>2. PICK k \in 1 .. N : \E q \in 1 .. Len(ss[k]) : F[m] = ss[k][q]
    BY <2>1
  <2>3. PICK q \in 1 .. Len(ss[k]) : F[m] = ss[k][q]
    BY <2>2
  <2>4. G[m] = o[F[m]]
    BY <1>12, <1>13
  <2> HIDE DEF F, G
  <2> QED BY <1>10, <2>3, <2>4
<1>15. G = [m \in 1 .. M |-> G[m]]
  BY <1>12, <1>13
<1> HIDE DEF F, G, M
<1>16. ScopeLogsAs(Msg(h.no, G), Msg(h.no, F))
  BY <1>13, <1>14, <1>15, ScopeLogsMsg
<1>17. KeptScope(h, first, D) = Msg(h.no, G)
  BY DEF KeptScope, G, tt
<1> QED BY <1>2, <1>16, <1>17

-----------------------------------------------------------------------------
(* The containers above: nothing else is dropped. *)

KeptResource(g, first, D) ==
    Msg(g.no, [j \in DOMAIN g.fields |->
        IF j \in At(g.fields, "msg", 2) THEN KeptScope(g.fields[j], FirstIn(g, first, j), D) ELSE g.fields[j]])
KeptRequest(f, D) ==
    Msg(f.no, [i \in DOMAIN f.fields |->
        IF i \in At(f.fields, "msg", 1) THEN KeptResource(f.fields[i], FirstUnder(f, i), D) ELSE f.fields[i]])
NewResource(g, first, D, S) == After(g, BuildResource(g, first, D, S))
NewRequest(f, D, S)         == After(f, BuildRequest(f, D, S))

ResourceFits(g, first, D, S) ==
    \A j \in At(g.fields, "msg", 2) : ScopeFits(g.fields[j], FirstIn(g, first, j), D, S)
RequestFits(f, D, S) == \A i \in At(f.fields, "msg", 1) : ResourceFits(f.fields[i], FirstUnder(f, i), D, S)

\* A ResourceLogs is built of the new scopes.
LEMMA NewResourceIs ==
    ASSUME NEW g, IsResourceLogs(g), g.kind = "msg", NEW first, NEW D, NEW S, ResourceFits(g, first, D, S)
    PROVE  /\ Kept(BuildResource(g, first, D, S))
           /\ NewResource(g, first, D, S) =
                Msg(g.no, [j \in DOMAIN g.fields |->
                    IF j \in At(g.fields, "msg", 2) THEN NewScope(g.fields[j], FirstIn(g, first, j), D, S)
                    ELSE g.fields[j]])
           /\ ResourceLogsAs(KeptResource(g, first, D), NewResource(g, first, D, S))
<1> DEFINE fs == g.fields
           N == Len(fs)
           C(j) == IF j \in At(fs, "msg", 2) THEN BuildScope(fs[j], FirstIn(g, first, j), D, S) ELSE Unchanged
           X(j) == IF j \in At(fs, "msg", 2) THEN NewScope(fs[j], FirstIn(g, first, j), D, S) ELSE fs[j]
           H(j) == IF j \in At(fs, "msg", 2) THEN KeptScope(fs[j], FirstIn(g, first, j), D) ELSE fs[j]
           child == [j \in DOMAIN fs |-> C(j)]
           x == [j \in DOMAIN fs |-> X(j)]
           hs == [j \in DOMAIN fs |-> H(j)]
<1>1. g = Msg(g.no, fs) /\ IsSeq(fs) /\ \A j \in DOMAIN fs : IsScopeLogs(fs[j])
  BY DEF IsResourceLogs, Received, IsSeq
<1>2. N \in Nat /\ DOMAIN fs = 1 .. N /\ fs = [j \in 1 .. N |-> fs[j]]
  BY <1>1, SeqFields
<1>3. BuildResource(g, first, D, S) = Rebuilt(g, child)
  BY DEF BuildResource, FirstIn
<1>4. ASSUME NEW j \in 1 .. N PROVE Kept(C(j)) /\ After(fs[j], C(j)) = X(j) /\ ScopeLogsAs(H(j), X(j))
  <2>1. CASE j \in At(fs, "msg", 2)
    <3> DEFINE h == fs[j]
               first1 == FirstIn(g, first, j)
    <3>1. h.kind = "msg" /\ IsScopeLogs(h) /\ ScopeFits(h, first1, D, S)
      BY <1>1, <2>1, AtFields DEF ResourceFits
    <3>2. C(j) = BuildScope(h, first1, D, S) /\ X(j) = NewScope(h, first1, D, S) /\ H(j) = KeptScope(h, first1, D)
      BY <2>1
    <3> HIDE DEF h, first1
    <3>3. Kept(BuildScope(h, first1, D, S)) /\ ScopeLogsAs(KeptScope(h, first1, D), NewScope(h, first1, D, S))
      BY <3>1, NewScopeAs
    <3>4. After(h, BuildScope(h, first1, D, S)) = NewScope(h, first1, D, S)
      BY DEF NewScope
    <3> HIDE DEF C, X, H
    <3> QED BY <3>2, <3>3, <3>4 DEF h
  <2>2. CASE j \notin At(fs, "msg", 2)
    <3>1. C(j) = Unchanged /\ X(j) = fs[j] /\ H(j) = fs[j]
      BY <2>2
    <3>2. ScopeLogsAs(fs[j], fs[j])
      BY <1>1, <1>2, ScopeLogsRefl
    <3> QED BY <3>1, <3>2 DEF Kept, After, Unchanged
  <2> QED BY <2>1, <2>2
<1>5. /\ DOMAIN child = 1 .. N /\ \A j \in 1 .. N : child[j] = C(j)
      /\ x = [j \in 1 .. N |-> X(j)] /\ DOMAIN x = 1 .. N /\ \A j \in 1 .. N : x[j] = X(j)
      /\ hs = [j \in 1 .. N |-> hs[j]] /\ \A j \in 1 .. N : hs[j] = H(j)
  BY <1>2
<1>6. KeptResource(g, first, D) = Msg(g.no, hs)
  BY DEF KeptResource
<1> HIDE DEF C, child, N, X, H, x, hs, fs
<1>7. x = [j \in 1 .. N |-> After(fs[j], child[j])]
  BY <1>4, <1>5
<1>8. Emit(fs, child) = x
  <2>1. \A j \in 1 .. N : Kept(child[j])
    BY <1>4, <1>5
  <2>2. Emit(fs, child) = [j \in 1 .. N |-> After(fs[j], child[j])]
    BY <1>2, <2>1, EmitKept
  <2> QED BY <1>7, <2>2
<1>9. Kept(Rebuilt(g, child)) /\ After(g, Rebuilt(g, child)) = Msg(g.no, Emit(fs, child))
  BY <1>1, <1>2, <1>5, RebuiltIs DEF fs
<1>10. Kept(BuildResource(g, first, D, S)) /\ NewResource(g, first, D, S) = Msg(g.no, x)
  BY <1>3, <1>8, <1>9 DEF NewResource
<1>11. \A j \in 1 .. N : ScopeLogsAs(hs[j], x[j])
  BY <1>4, <1>5
<1>12. ResourceLogsAs(Msg(g.no, hs), Msg(g.no, x))
  BY <1>2, <1>5, <1>11, ResourceLogsMsg
<1> QED BY <1>6, <1>10, <1>12 DEF x, X, fs

\* A request is built of the new ResourceLogs.
LEMMA NewRequestIs ==
    ASSUME NEW g, IsRequest(g), g.kind = "msg", NEW D, NEW S, RequestFits(g, D, S)
    PROVE  /\ Kept(BuildRequest(g, D, S))
           /\ NewRequest(g, D, S) =
                Msg(g.no, [j \in DOMAIN g.fields |->
                    IF j \in At(g.fields, "msg", 1) THEN NewResource(g.fields[j], FirstUnder(g, j), D, S)
                    ELSE g.fields[j]])
           /\ RequestAs(KeptRequest(g, D), NewRequest(g, D, S))
<1> DEFINE fs == g.fields
           N == Len(fs)
           C(j) == IF j \in At(fs, "msg", 1) THEN BuildResource(fs[j], FirstUnder(g, j), D, S) ELSE Unchanged
           X(j) == IF j \in At(fs, "msg", 1) THEN NewResource(fs[j], FirstUnder(g, j), D, S) ELSE fs[j]
           H(j) == IF j \in At(fs, "msg", 1) THEN KeptResource(fs[j], FirstUnder(g, j), D) ELSE fs[j]
           child == [j \in DOMAIN fs |-> C(j)]
           x == [j \in DOMAIN fs |-> X(j)]
           hs == [j \in DOMAIN fs |-> H(j)]
<1>1. g = Msg(g.no, fs) /\ IsSeq(fs) /\ \A j \in DOMAIN fs : IsResourceLogs(fs[j])
  BY DEF IsRequest, Received, IsSeq
<1>2. N \in Nat /\ DOMAIN fs = 1 .. N /\ fs = [j \in 1 .. N |-> fs[j]]
  BY <1>1, SeqFields
<1>3. BuildRequest(g, D, S) = Rebuilt(g, child)
  BY DEF BuildRequest, FirstUnder
<1>4. ASSUME NEW j \in 1 .. N PROVE Kept(C(j)) /\ After(fs[j], C(j)) = X(j) /\ ResourceLogsAs(H(j), X(j))
  <2>1. CASE j \in At(fs, "msg", 1)
    <3> DEFINE h == fs[j]
               first1 == FirstUnder(g, j)
    <3>1. h.kind = "msg" /\ IsResourceLogs(h) /\ ResourceFits(h, first1, D, S)
      BY <1>1, <2>1, AtFields DEF RequestFits
    <3>2. C(j) = BuildResource(h, first1, D, S) /\ X(j) = NewResource(h, first1, D, S) /\ H(j) = KeptResource(h, first1, D)
      BY <2>1
    <3> HIDE DEF h, first1
    <3>3. Kept(BuildResource(h, first1, D, S)) /\ ResourceLogsAs(KeptResource(h, first1, D), NewResource(h, first1, D, S))
      BY <3>1, NewResourceIs
    <3>4. After(h, BuildResource(h, first1, D, S)) = NewResource(h, first1, D, S)
      BY DEF NewResource
    <3> HIDE DEF C, X, H
    <3> QED BY <3>2, <3>3, <3>4 DEF h
  <2>2. CASE j \notin At(fs, "msg", 1)
    <3>1. C(j) = Unchanged /\ X(j) = fs[j] /\ H(j) = fs[j]
      BY <2>2
    <3>2. ResourceLogsAs(fs[j], fs[j])
      BY <1>1, <1>2, ResourceLogsRefl
    <3> QED BY <3>1, <3>2 DEF Kept, After, Unchanged
  <2> QED BY <2>1, <2>2
<1>5. /\ DOMAIN child = 1 .. N /\ \A j \in 1 .. N : child[j] = C(j)
      /\ x = [j \in 1 .. N |-> X(j)] /\ DOMAIN x = 1 .. N /\ \A j \in 1 .. N : x[j] = X(j)
      /\ hs = [j \in 1 .. N |-> hs[j]] /\ \A j \in 1 .. N : hs[j] = H(j)
  BY <1>2
<1>6. KeptRequest(g, D) = Msg(g.no, hs)
  BY DEF KeptRequest
<1> HIDE DEF C, child, N, X, H, x, hs, fs
<1>7. x = [j \in 1 .. N |-> After(fs[j], child[j])]
  BY <1>4, <1>5
<1>8. Emit(fs, child) = x
  <2>1. \A j \in 1 .. N : Kept(child[j])
    BY <1>4, <1>5
  <2>2. Emit(fs, child) = [j \in 1 .. N |-> After(fs[j], child[j])]
    BY <1>2, <2>1, EmitKept
  <2> QED BY <1>7, <2>2
<1>9. Kept(Rebuilt(g, child)) /\ After(g, Rebuilt(g, child)) = Msg(g.no, Emit(fs, child))
  BY <1>1, <1>2, <1>5, RebuiltIs DEF fs
<1>10. Kept(BuildRequest(g, D, S)) /\ NewRequest(g, D, S) = Msg(g.no, x)
  BY <1>3, <1>8, <1>9 DEF NewRequest
<1>11. \A j \in 1 .. N : ResourceLogsAs(hs[j], x[j])
  BY <1>4, <1>5
<1>12. RequestAs(Msg(g.no, hs), Msg(g.no, x))
  BY <1>2, <1>5, <1>11, RequestMsg
<1> QED BY <1>6, <1>10, <1>12 DEF x, X, fs

-----------------------------------------------------------------------------
(* The views of a record that is built: redaction moves nothing. *)

\* Fields of the same kinds under the same numbers.
SameShape(F, G) == DOMAIN G = DOMAIN F /\ \A i \in DOMAIN F : G[i].kind = F[i].kind /\ G[i].no = F[i].no

\* What the walkers look for is in the same places.
LEMMA ShapeAt ==
    ASSUME NEW F, NEW G, SameShape(F, G)
    PROVE  /\ \A kind, no : At(G, kind, no) = At(F, kind, no)
           /\ AnyValueStop(G) = AnyValueStop(F) /\ HasString(G) = HasString(F) /\ StringAt(G) = StringAt(F)
<1>1. ASSUME NEW kind, NEW no PROVE At(G, kind, no) = At(F, kind, no)
  BY DEF At, SameShape
<1>2. {i \in DOMAIN G : G[i].kind = "bad"} = {i \in DOMAIN F : F[i].kind = "bad"}
  BY DEF SameShape
<1>3. AnyValueStop(G) = AnyValueStop(F)
  BY <1>1, <1>2 DEF AnyValueStop
<1> QED BY <1>1, <1>3 DEF HasString, StringAt

\* The strings of a value that is built.
LEMMA NewAnyValueShape ==
    ASSUME NEW f, IsAnyValue(f) \/ IsKeyValue(f), f.kind = "msg", NEW spans, NEW path, AnyValueFits(f, spans, path)
    PROVE  /\ SameShape(f.fields, NewAnyValue(f, spans, path).fields)
           /\ \A s \in At(f.fields, "str", 1) :
                 /\ IsStr(f.fields[s]) /\ Fits(spans, Append(path, s), f.fields[s].text)
                 /\ NewAnyValue(f, spans, path).fields[s] = NewString(f.fields[s], spans, Append(path, s))
<1> DEFINE fs == f.fields
           S == At(fs, "str", 1)
           X(i) == IF i \in S THEN NewString(fs[i], spans, Append(path, i)) ELSE fs[i]
           x == [i \in DOMAIN fs |-> X(i)]
<1>1. IsMsg(f) /\ \A i \in DOMAIN fs : IsString(fs[i]) \/ IsAnyValue(fs[i])
  BY DEF IsAnyValue, IsKeyValue, Received, IsMsg, IsSeq
<1>2. ASSUME NEW s \in S
      PROVE  /\ s \in DOMAIN fs /\ fs[s].kind = "str" /\ IsStr(fs[s]) /\ Fits(spans, Append(path, s), fs[s].text)
             /\ Kept(BuildScalar(fs[s], spans, Append(path, s)))
             /\ NewString(fs[s], spans, Append(path, s)).kind = fs[s].kind
             /\ NewString(fs[s], spans, Append(path, s)).no = fs[s].no
  <2>1. s \in DOMAIN fs /\ fs[s].kind = "str"
    BY AtFields
  <2>2. IsStr(fs[s])
    BY <1>1, <2>1, StrLevels
  <2>3. Fits(spans, Append(path, s), fs[s].text)
    BY DEF AnyValueFits
  <2> QED BY <2>1, <2>2, <2>3, NewStringIs DEF Spliced
<1>3. NewAnyValue(f, spans, path) = Msg(f.no, x)
  BY <1>1, <1>2, NewAnyValueIs
<1>4. Msg(f.no, x).fields = x
  BY DEF Msg
<1>5. NewAnyValue(f, spans, path).fields = x
  BY <1>3, <1>4
<1>6. DOMAIN x = DOMAIN fs /\ \A i \in DOMAIN fs : x[i] = X(i)
  OBVIOUS
<1> HIDE DEF x
<1>7. SameShape(fs, x)
  BY <1>2, <1>6 DEF SameShape
<1> QED BY <1>2, <1>5, <1>6, <1>7

\* The values of an attribute that is built; its key stays.
LEMMA NewKeyValueShape ==
    ASSUME NEW f, IsKeyValue(f), f.kind = "msg", NEW spans, NEW path, KeyValueFits(f, spans, path)
    PROVE  /\ SameShape(f.fields, NewKeyValue(f, spans, path).fields)
           /\ \A i \in DOMAIN f.fields :
                 NewKeyValue(f, spans, path).fields[i] =
                   IF i \in At(f.fields, "msg", 2) THEN NewAnyValue(f.fields[i], spans, Append(path, i)) ELSE f.fields[i]
           /\ \A i \in At(f.fields, "msg", 2) :
                 f.fields[i].kind = "msg" /\ IsAnyValue(f.fields[i]) /\ AnyValueFits(f.fields[i], spans, Append(path, i))
<1> DEFINE fs == f.fields
           S == At(fs, "msg", 2)
           X(i) == IF i \in S THEN NewAnyValue(fs[i], spans, Append(path, i)) ELSE fs[i]
           x == [i \in DOMAIN fs |-> X(i)]
<1>1. IsMsg(f) /\ \A i \in DOMAIN fs : IsAnyValue(fs[i])
  BY DEF IsKeyValue, Received, IsMsg, IsSeq
<1>2. ASSUME NEW s \in S
      PROVE  /\ fs[s].kind = "msg" /\ IsAnyValue(fs[s]) /\ AnyValueFits(fs[s], spans, Append(path, s))
             /\ Kept(BuildAnyValue(fs[s], spans, Append(path, s)))
             /\ NewAnyValue(fs[s], spans, Append(path, s)).kind = fs[s].kind
             /\ NewAnyValue(fs[s], spans, Append(path, s)).no = fs[s].no
  <2>1. s \in DOMAIN fs /\ fs[s].kind = "msg"
    BY AtFields
  <2>2. AnyValueFits(fs[s], spans, Append(path, s))
    BY DEF KeyValueFits
  <2> QED BY <1>1, <2>1, <2>2, NewAnyValueAs DEF AnyValueAs, Like
<1>3. NewKeyValue(f, spans, path) = Msg(f.no, x)
  BY <1>1, <1>2, NewKeyValueIs
<1>4. Msg(f.no, x).fields = x
  BY DEF Msg
<1>5. NewKeyValue(f, spans, path).fields = x
  BY <1>3, <1>4
<1>6. DOMAIN x = DOMAIN fs /\ \A i \in DOMAIN fs : x[i] = X(i)
  OBVIOUS
<1> HIDE DEF x
<1>7. SameShape(fs, x)
  BY <1>2, <1>6 DEF SameShape
<1> QED BY <1>2, <1>5, <1>6, <1>7

\* The bodies and the attributes of a record that is built.
LEMMA NewLogRecordShape ==
    ASSUME NEW f, IsLogRecord(f), f.kind = "msg", NEW spans, RecordFits(f.fields, spans)
    PROVE  /\ SameShape(f.fields, NewLogRecord(f, spans).fields)
           /\ \A i \in At(f.fields, "msg", 5) :
                 /\ NewLogRecord(f, spans).fields[i] = NewAnyValue(f.fields[i], spans, <<i>>)
                 /\ f.fields[i].kind = "msg" /\ IsKeyValue(f.fields[i]) /\ AnyValueFits(f.fields[i], spans, <<i>>)
           /\ \A i \in At(f.fields, "msg", 6) :
                 /\ NewLogRecord(f, spans).fields[i] = NewKeyValue(f.fields[i], spans, <<i>>)
                 /\ f.fields[i].kind = "msg" /\ IsKeyValue(f.fields[i]) /\ KeyValueFits(f.fields[i], spans, <<i>>)
<1> DEFINE fs == f.fields
           X(i) == IF i \in At(fs, "msg", 5) THEN NewAnyValue(fs[i], spans, <<i>>)
                   ELSE IF i \in At(fs, "msg", 6) THEN NewKeyValue(fs[i], spans, <<i>>) ELSE fs[i]
           x == [i \in DOMAIN fs |-> X(i)]
<1>1. IsMsg(f) /\ \A i \in DOMAIN fs : IsKeyValue(fs[i])
  BY DEF IsLogRecord, Received, IsMsg, IsSeq
<1>2. ASSUME NEW i \in At(fs, "msg", 5)
      PROVE  /\ fs[i].kind = "msg" /\ IsKeyValue(fs[i]) /\ AnyValueFits(fs[i], spans, <<i>>) /\ i \in DOMAIN fs
             /\ Kept(BuildAnyValue(fs[i], spans, <<i>>)) /\ X(i) = NewAnyValue(fs[i], spans, <<i>>)
             /\ X(i).kind = fs[i].kind /\ X(i).no = fs[i].no
  <2>1. i \in DOMAIN fs /\ fs[i].kind = "msg"
    BY AtFields
  <2> QED BY <1>1, <2>1, FitsFields, NewBodyAs DEF KeyValueAs, Like
<1>3. ASSUME NEW i \in At(fs, "msg", 6)
      PROVE  /\ fs[i].kind = "msg" /\ IsKeyValue(fs[i]) /\ KeyValueFits(fs[i], spans, <<i>>) /\ i \in DOMAIN fs
             /\ Kept(BuildKeyValue(fs[i], spans, <<i>>)) /\ X(i) = NewKeyValue(fs[i], spans, <<i>>)
             /\ X(i).kind = fs[i].kind /\ X(i).no = fs[i].no
  <2>1. i \in DOMAIN fs /\ fs[i].kind = "msg" /\ i \notin At(fs, "msg", 5)
    BY AtFields
  <2> QED BY <1>1, <2>1, FitsFields, NewKeyValueAs DEF KeyValueAs, Like
<1>4. NewLogRecord(f, spans) = Msg(f.no, x)
  BY <1>1, <1>2, <1>3, NewLogRecordIs
<1>5. Msg(f.no, x).fields = x
  BY DEF Msg
<1>6. NewLogRecord(f, spans).fields = x
  BY <1>4, <1>5
<1>7. DOMAIN x = DOMAIN fs /\ \A i \in DOMAIN fs : x[i] = X(i)
  OBVIOUS
<1>8. \A i \in DOMAIN fs : X(i).kind = fs[i].kind /\ X(i).no = fs[i].no
  BY <1>2, <1>3
<1> HIDE DEF x, X
<1>9. SameShape(fs, x)
  BY <1>7, <1>8 DEF SameShape
<1> QED BY <1>2, <1>3, <1>6, <1>7, <1>9

\* The first string of a value that can be read.
LEMMA StringAtIs ==
    ASSUME NEW fields, IsSeq(fields), AnyValueOk(fields), HasString(fields)
    PROVE  StringAt(fields) \in At(fields, "str", 1)
<1> DEFINE T == AnyValueStop(fields)
<1>1. T \in SUBSET Nat
  BY SeqFields DEF AnyValueStop, At
<1>2. T # {}
  BY DEF HasString
<1>3. StringAt(fields) = Min(T) /\ fields[Min(T)].kind = "str"
  BY <1>2 DEF StringAt, AnyValueOk
<1> HIDE DEF T
<1>4. Min(T) \in T
  BY <1>1, <1>2, Smallest
<1>5. Min(T) \in At(fields, "str", 1)
  BY <1>3, <1>4 DEF AnyValueStop, T
<1> QED BY <1>3, <1>5

\* An attribute keeps its key and the place of its value.
LEMMA KeyValueKept ==
    ASSUME NEW f, IsKeyValue(f), f.kind = "msg", NEW spans, NEW path, KeyValueFits(f, spans, path),
           NEW G, G = NewKeyValue(f, spans, path).fields
    PROVE  /\ HasAttr(G) <=> HasAttr(f.fields)
           /\ HasAttr(f.fields) => AttrPath(G) = AttrPath(f.fields) /\ AttrKey(G) = AttrKey(f.fields)
<1> DEFINE F == f.fields
           K == At(F, "str", 1)
           V == At(F, "msg", 2)
           N == Len(F)
<1>1. N \in Nat /\ DOMAIN F = 1 .. N
  <2>1. IsSeq(F)
    BY DEF IsKeyValue, Received, IsSeq
  <2> QED BY <2>1, SeqFields
<1>2. /\ SameShape(F, G)
      /\ \A i \in DOMAIN F : G[i] = IF i \in V THEN NewAnyValue(F[i], spans, Append(path, i)) ELSE F[i]
      /\ \A i \in V : F[i].kind = "msg" /\ IsAnyValue(F[i]) /\ AnyValueFits(F[i], spans, Append(path, i))
  BY NewKeyValueShape
<1>3. At(G, "str", 1) = K /\ At(G, "msg", 2) = V
  BY <1>2, ShapeAt
<1>4. \A i \in V : i \in DOMAIN F
  BY DEF At
<1>5. V \in SUBSET (1 .. N) /\ K \in SUBSET (1 .. N)
  BY <1>1 DEF At
<1>6. \A i \in K : i \in DOMAIN F /\ i \notin V
  BY DEF At
<1> HIDE DEF F, K, V, N
<1>7. ASSUME NEW v \in V PROVE HasString(G[v].fields) = HasString(F[v].fields) /\ StringAt(G[v].fields) = StringAt(F[v].fields)
  <2>1. G[v] = NewAnyValue(F[v], spans, Append(path, v))
    BY <1>2, <1>4
  <2>2. SameShape(F[v].fields, G[v].fields)
    BY <1>2, <2>1, NewAnyValueShape
  <2> QED BY <2>2, ShapeAt
<1>8. V # {} => Max(V) \in V
  BY <1>1, <1>5, Largest
<1>9. K # {} => Max(K) \in K
  BY <1>1, <1>5, Largest
<1>10. HasAttr(F) <=> K # {} /\ V # {} /\ HasString(F[Max(V)].fields)
  BY DEF HasAttr, K, V
<1>11. HasAttr(G) <=> K # {} /\ V # {} /\ HasString(G[Max(V)].fields)
  BY <1>3 DEF HasAttr
<1>12. HasAttr(G) <=> HasAttr(F)
  BY <1>7, <1>8, <1>10, <1>11
<1>13. ASSUME HasAttr(F) PROVE AttrPath(G) = AttrPath(F) /\ AttrKey(G) = AttrKey(F)
  <2>1. AttrPath(F) = <<Max(V), StringAt(F[Max(V)].fields)>> /\ AttrKey(F) = F[Max(K)].text.id
    BY DEF AttrPath, AttrKey, V, K
  <2>2. AttrPath(G) = <<Max(V), StringAt(G[Max(V)].fields)>> /\ AttrKey(G) = G[Max(K)].text.id
    BY <1>3 DEF AttrPath, AttrKey
  <2>3. StringAt(G[Max(V)].fields) = StringAt(F[Max(V)].fields)
    BY <1>7, <1>8, <1>10, <1>13
  <2>4. G[Max(K)] = F[Max(K)]
    BY <1>2, <1>6, <1>9, <1>10, <1>13
  <2> QED BY <2>1, <2>2, <2>3, <2>4
<1> QED BY <1>12, <1>13 DEF F

\* The pieces of the attributes of a view.
AttrPiece(fields, i) ==
    IF i \in At(fields, "msg", 6) /\ HasAttr(fields[i].fields) THEN <<(<<i>> \o AttrPath(fields[i].fields))>> ELSE <<>>
AttrsOf(fields) == FlattenSeq([i \in DOMAIN fields |-> AttrPiece(fields, i)])
Bodies(fields) == {i \in At(fields, "msg", 5) : HasString(fields[i].fields)}
BodyOf(fields) ==
    IF Bodies(fields) = {} THEN NoView ELSE <<Max(Bodies(fields)), StringAt(fields[Max(Bodies(fields))].fields)>>

\* What a view has of its record.
LEMMA ViewIs ==
    ASSUME NEW fields, NEW namespace, NEW service
    PROVE  /\ RecordView(fields, namespace, service).raw = fields
           /\ RecordView(fields, namespace, service).body = BodyOf(fields)
           /\ RecordView(fields, namespace, service).attrs = AttrsOf(fields)
           /\ RecordView(fields, namespace, service).namespace = namespace
           /\ RecordView(fields, namespace, service).service = service
BY DEF RecordView, Bodies, BodyOf, AttrsOf, AttrPiece

\* The view of a record that is built leads to the same places.
LEMMA ViewKept ==
    ASSUME NEW f, IsLogRecord(f), f.kind = "msg", NEW spans, RecordFits(f.fields, spans), NEW namespace, NEW service,
           NEW G, G = NewLogRecord(f, spans).fields
    PROVE  /\ RecordView(G, namespace, service).body = RecordView(f.fields, namespace, service).body
           /\ RecordView(G, namespace, service).attrs = RecordView(f.fields, namespace, service).attrs
<1> DEFINE F == f.fields
           N == Len(F)
<1>1. N \in Nat /\ DOMAIN F = 1 .. N
  <2>1. IsSeq(F)
    BY DEF IsLogRecord, Received, IsSeq
  <2> QED BY <2>1, SeqFields
<1>2. /\ SameShape(F, G)
      /\ \A i \in At(F, "msg", 5) :
            G[i] = NewAnyValue(F[i], spans, <<i>>) /\ F[i].kind = "msg" /\ IsKeyValue(F[i]) /\ AnyValueFits(F[i], spans, <<i>>)
      /\ \A i \in At(F, "msg", 6) :
            G[i] = NewKeyValue(F[i], spans, <<i>>) /\ F[i].kind = "msg" /\ IsKeyValue(F[i]) /\ KeyValueFits(F[i], spans, <<i>>)
  BY NewLogRecordShape
<1> HIDE DEF F, N
<1>3. At(G, "msg", 5) = At(F, "msg", 5) /\ At(G, "msg", 6) = At(F, "msg", 6)
  BY <1>2, ShapeAt
<1>4. ASSUME NEW i \in At(F, "msg", 5)
      PROVE  HasString(G[i].fields) = HasString(F[i].fields) /\ StringAt(G[i].fields) = StringAt(F[i].fields)
  <2> DEFINE e == F[i]
             path == <<i>>
             r == NewAnyValue(e, spans, path)
  <2>1. e.kind = "msg" /\ IsKeyValue(e) /\ AnyValueFits(e, spans, path) /\ G[i] = r
    BY <1>2
  <2> HIDE DEF e, path
  <2>2. SameShape(e.fields, r.fields)
    BY <2>1, NewAnyValueShape
  <2> HIDE DEF r
  <2>3. HasString(r.fields) = HasString(e.fields) /\ StringAt(r.fields) = StringAt(e.fields)
    BY <2>2, ShapeAt
  <2> QED BY <2>1, <2>3 DEF e
<1>5. Bodies(G) = Bodies(F)
  BY <1>3, <1>4 DEF Bodies
<1>6. Bodies(F) # {} => Max(Bodies(F)) \in At(F, "msg", 5)
  <2>1. Bodies(F) \in SUBSET (1 .. N)
    BY <1>1 DEF Bodies, At
  <2>2. Bodies(F) # {} => Max(Bodies(F)) \in Bodies(F)
    BY <1>1, <2>1, Largest
  <2> QED BY <2>2 DEF Bodies
<1>7. RecordView(G, namespace, service).body = RecordView(F, namespace, service).body
  <2>1. BodyOf(G) = BodyOf(F)
    BY <1>4, <1>5, <1>6 DEF BodyOf
  <2> QED BY <2>1, ViewIs
<1>8. ASSUME NEW i \in DOMAIN F PROVE AttrPiece(G, i) = AttrPiece(F, i)
  <2>1. CASE i \in At(F, "msg", 6)
    <3>1. /\ HasAttr(G[i].fields) <=> HasAttr(F[i].fields)
          /\ HasAttr(F[i].fields) => AttrPath(G[i].fields) = AttrPath(F[i].fields)
      <4> DEFINE e == F[i]
                 path == <<i>>
                 H == G[i].fields
      <4>1. e.kind = "msg" /\ IsKeyValue(e) /\ KeyValueFits(e, spans, path) /\ H = NewKeyValue(e, spans, path).fields
        BY <1>2, <2>1
      <4> HIDE DEF e, path, H
      <4>2. /\ HasAttr(H) <=> HasAttr(e.fields)
            /\ HasAttr(e.fields) => AttrPath(H) = AttrPath(e.fields) /\ AttrKey(H) = AttrKey(e.fields)
        BY <4>1, KeyValueKept
      <4> QED BY <4>2 DEF e, H
    <3> QED BY <1>3, <3>1 DEF AttrPiece
  <2>2. CASE i \notin At(F, "msg", 6)
    BY <1>3, <2>2 DEF AttrPiece
  <2> QED BY <2>1, <2>2
<1>9. DOMAIN G = DOMAIN F
  BY <1>2 DEF SameShape
<1>10. AttrsOf(G) = AttrsOf(F)
  BY <1>8, <1>9 DEF AttrsOf
<1>11. RecordView(G, namespace, service).attrs = RecordView(F, namespace, service).attrs
  BY <1>10, ViewIs
<1> QED BY <1>7, <1>11 DEF F

\* The paths of a view.
Paths(v) == ({v.body} \ {NoView}) \cup Range(v.attrs)

\* A path to a string of a body, and of an attribute.
LeadsToBody(F, p) == \E b \in At(F, "msg", 5) : \E s \in At(F[b].fields, "str", 1) : p = <<b, s>>
LeadsToAttr(F, p) ==
    \E i \in At(F, "msg", 6) : HasAttr(F[i].fields) /\
        \E m \in At(F[i].fields, "msg", 2) : \E s \in At(F[i].fields[m].fields, "str", 1) : p = <<i, m, s>>

\* The body of the view of a record that can be read.
LEMMA BodyLeads ==
    ASSUME NEW f, IsLogRecord(f), f.kind = "msg", LogRecordOk(f.fields), BodyOf(f.fields) # NoView
    PROVE  LeadsToBody(f.fields, BodyOf(f.fields))
<1> DEFINE F == f.fields
           N == Len(F)
           b == Max(Bodies(F))
<1>1. IsSeq(F) /\ \A i \in DOMAIN F : IsKeyValue(F[i])
  BY DEF IsLogRecord, Received, IsSeq
<1>2. N \in Nat /\ DOMAIN F = 1 .. N
  BY <1>1, SeqFields
<1>3. Bodies(F) # {} /\ BodyOf(F) = <<b, StringAt(F[b].fields)>>
  BY DEF BodyOf
<1>4. Bodies(F) \in SUBSET (1 .. N)
  BY <1>2 DEF Bodies, At
<1> HIDE DEF N
<1>5. b \in Bodies(F)
  BY <1>2, <1>3, <1>4, Largest
<1>6. b \in At(F, "msg", 5) /\ HasString(F[b].fields)
  BY <1>5 DEF Bodies
<1> HIDE DEF b
<1>7. b \in DOMAIN F /\ F[b].kind = "msg" /\ AnyValueOk(F[b].fields)
  BY <1>6, AtFields DEF LogRecordOk
<1>8. IsSeq(F[b].fields)
  BY <1>1, <1>7 DEF IsKeyValue, Received, IsSeq
<1>9. StringAt(F[b].fields) \in At(F[b].fields, "str", 1)
  BY <1>6, <1>7, <1>8, StringAtIs
<1> QED BY <1>3, <1>6, <1>9 DEF LeadsToBody

\* The attributes of the view of a record that can be read.
LEMMA AttrLeads ==
    ASSUME NEW f, IsLogRecord(f), f.kind = "msg", LogRecordOk(f.fields), NEW p \in Range(AttrsOf(f.fields))
    PROVE  LeadsToAttr(f.fields, p)
<1> DEFINE F == f.fields
           N == Len(F)
           ss == [i \in DOMAIN F |-> AttrPiece(F, i)]
           A == FlattenSeq(ss)
<1>1. IsSeq(F) /\ \A i \in DOMAIN F : IsKeyValue(F[i])
  BY DEF IsLogRecord, Received, IsSeq
<1>2. N \in Nat /\ DOMAIN F = 1 .. N
  BY <1>1, SeqFields
<1>3. ASSUME NEW i \in 1 .. N PROVE IsSeq(ss[i])
  <2>1. ss[i] = <<>> \/ ss[i] = <<(<<i>> \o AttrPath(F[i].fields))>>
    BY <1>2 DEF AttrPiece
  <2> DEFINE x == <<i>> \o AttrPath(F[i].fields)
  <2>2. ss[i] = <<>> \/ ss[i] = <<x>>
    BY <2>1
  <2> HIDE DEF x, ss
  <2>3. IsSeq(<<>>)
    BY DEF IsSeq, Range
  <2>4. DOMAIN <<x>> = 1 .. 1 /\ <<x>> = [k \in 1 .. 1 |-> <<x>>[k]]
    OBVIOUS
  <2>5. IsSeq(<<x>>)
    BY <2>4, SeqIs
  <2> QED BY <2>2, <2>3, <2>5
<1>4. DOMAIN ss = 1 .. N /\ ss = [i \in 1 .. N |-> ss[i]] /\ \A i \in 1 .. N : ss[i] = AttrPiece(F, i)
  BY <1>2
<1>5. A = AttrsOf(F)
  BY DEF AttrsOf
<1> HIDE DEF ss, N
<1>6. Joined(A, ss, N)
  BY <1>2, <1>3, <1>4, FlattenJoins
<1> HIDE DEF A
<1>7. DOMAIN A = 1 .. Len(A)
  BY <1>6, SeqFields DEF Joined
<1>8. PICK k \in 1 .. Len(A) : p = A[k]
  BY <1>5, <1>7 DEF Range
<1>9. PICK i \in 1 .. N : \E q \in 1 .. Len(ss[i]) : p = ss[i][q]
  BY <1>6, <1>8 DEF Joined
<1>10. PICK q \in 1 .. Len(ss[i]) : p = ss[i][q]
  BY <1>9
<1>11. i \in At(F, "msg", 6) /\ HasAttr(F[i].fields) /\ p = <<i>> \o AttrPath(F[i].fields)
  <2> DEFINE x == <<i>> \o AttrPath(F[i].fields)
             c == i \in At(F, "msg", 6) /\ HasAttr(F[i].fields)
  <2>1. ss[i] = IF c THEN <<x>> ELSE <<>>
    BY <1>4 DEF AttrPiece
  <2> HIDE DEF x, c
  <2>2. c
    <3>1. CASE ~c
      <4>1. ss[i] = <<>> /\ 1 .. Len(<<>>) = {}
        BY <2>1, <3>1
      <4> QED BY <1>10, <4>1
    <3> QED BY <3>1
  <2>3. Len(<<x>>) = 1 /\ <<x>>[1] = x /\ 1 .. 1 = {1}
    OBVIOUS
  <2>4. p = x
    BY <1>10, <2>1, <2>2, <2>3
  <2> QED BY <2>2, <2>4 DEF x, c
<1> DEFINE e == F[i].fields
           V == At(e, "msg", 2)
           m == Max(V)
           s == StringAt(e[m].fields)
<1>12. i \in DOMAIN F /\ F[i].kind = "msg" /\ KeyValueOk(e)
  BY <1>11, AtFields DEF LogRecordOk
<1>13. IsSeq(e) /\ \A j \in DOMAIN e : IsAnyValue(e[j])
  BY <1>1, <1>12 DEF IsKeyValue, Received, IsSeq
<1>14. V # {} /\ HasString(e[m].fields) /\ AttrPath(e) = <<m, s>>
  BY <1>11 DEF HasAttr, AttrPath
<1>15. m \in V
  <2>1. Len(e) \in Nat /\ DOMAIN e = 1 .. Len(e)
    BY <1>13, SeqFields
  <2>2. V \in SUBSET (1 .. Len(e))
    BY <2>1 DEF At
  <2> HIDE DEF V, e
  <2> QED BY <1>14, <2>1, <2>2, Largest
<1> HIDE DEF m
<1>16. m \in DOMAIN e /\ e[m].kind = "msg" /\ AnyValueOk(e[m].fields)
  BY <1>12, <1>15, AtFields DEF KeyValueOk
<1>17. IsSeq(e[m].fields)
  BY <1>13, <1>16 DEF IsAnyValue, Received, IsSeq
<1>18. s \in At(e[m].fields, "str", 1)
  BY <1>14, <1>16, <1>17, StringAtIs
<1> HIDE DEF s
<1>19. p = <<i, m, s>>
  BY <1>11, <1>14, PathConcat
<1>20. \E m1 \in At(F[i].fields, "msg", 2) : \E s1 \in At(F[i].fields[m1].fields, "str", 1) : p = <<i, m1, s1>>
  BY <1>15, <1>18, <1>19
<1> QED BY <1>11, <1>20 DEF LeadsToAttr

\* The strings that the views of a record that can be read lead to, before and
\* after redaction.
LEMMA PathStrings ==
    ASSUME NEW f, IsLogRecord(f), f.kind = "msg", LogRecordOk(f.fields), NEW spans, RecordFits(f.fields, spans),
           NEW namespace, NEW service, NEW p \in Paths(RecordView(f.fields, namespace, service)),
           NEW G, G = NewLogRecord(f, spans).fields
    PROVE  /\ IsStr(StrAt(f.fields, p)) /\ Fits(spans, p, StrAt(f.fields, p).text)
           /\ StrAt(G, p) = NewString(StrAt(f.fields, p), spans, p)
           /\ p # BodyOf(f.fields) => AttrKey(G[p[1]].fields) = AttrKey(f.fields[p[1]].fields)
           /\ p \in Range(AttrsOf(f.fields)) => p # BodyOf(f.fields)
<1> DEFINE F == f.fields
<1>1. /\ \A i \in At(F, "msg", 5) :
            G[i] = NewAnyValue(F[i], spans, <<i>>) /\ F[i].kind = "msg" /\ IsKeyValue(F[i]) /\ AnyValueFits(F[i], spans, <<i>>)
      /\ \A i \in At(F, "msg", 6) :
            G[i] = NewKeyValue(F[i], spans, <<i>>) /\ F[i].kind = "msg" /\ IsKeyValue(F[i]) /\ KeyValueFits(F[i], spans, <<i>>)
  BY NewLogRecordShape
<1>2. (p = BodyOf(F) /\ BodyOf(F) # NoView) \/ p \in Range(AttrsOf(F))
  BY ViewIs DEF Paths
<1>3. ASSUME p = BodyOf(F), BodyOf(F) # NoView
      PROVE  /\ IsStr(StrAt(F, p)) /\ Fits(spans, p, StrAt(F, p).text) /\ StrAt(G, p) = NewString(StrAt(F, p), spans, p)
             /\ Len(p) = 2
  <2>1. LeadsToBody(F, p)
    BY <1>3, BodyLeads
  <2>2. PICK b \in At(F, "msg", 5) : \E s \in At(F[b].fields, "str", 1) : p = <<b, s>>
    BY <2>1 DEF LeadsToBody
  <2>3. PICK s \in At(F[b].fields, "str", 1) : p = <<b, s>>
    BY <2>2
  <2> DEFINE e == F[b]
             path == <<b>>
             H == G[b]
  <2>4. e.kind = "msg" /\ IsKeyValue(e) /\ AnyValueFits(e, spans, path) /\ H = NewAnyValue(e, spans, path)
        /\ s \in At(e.fields, "str", 1)
    BY <1>1, <2>3
  <2>5. Append(path, s) = p /\ Len(p) = 2 /\ p[1] = b /\ p[2] = s
    BY <2>3, ShortPath
  <2>6. StrAt(F, p) = e.fields[s] /\ StrAt(G, p) = H.fields[s]
    BY <2>5 DEF StrAt
  <2> HIDE DEF e, H, path
  <2>7. IsStr(e.fields[s]) /\ Fits(spans, Append(path, s), e.fields[s].text)
        /\ NewAnyValue(e, spans, path).fields[s] = NewString(e.fields[s], spans, Append(path, s))
    BY <2>4, NewAnyValueShape
  <2> QED BY <2>4, <2>5, <2>6, <2>7
<1>4. ASSUME p \in Range(AttrsOf(F))
      PROVE  /\ IsStr(StrAt(F, p)) /\ Fits(spans, p, StrAt(F, p).text) /\ StrAt(G, p) = NewString(StrAt(F, p), spans, p)
             /\ Len(p) = 3 /\ AttrKey(G[p[1]].fields) = AttrKey(F[p[1]].fields)
  <2>1. LeadsToAttr(F, p)
    BY <1>4, AttrLeads
  <2>2. PICK i \in At(F, "msg", 6) : HasAttr(F[i].fields) /\
            \E m \in At(F[i].fields, "msg", 2) : \E s \in At(F[i].fields[m].fields, "str", 1) : p = <<i, m, s>>
    BY <2>1 DEF LeadsToAttr
  <2>3. PICK m \in At(F[i].fields, "msg", 2) : \E s \in At(F[i].fields[m].fields, "str", 1) : p = <<i, m, s>>
    BY <2>2
  <2>4. PICK s \in At(F[i].fields[m].fields, "str", 1) : p = <<i, m, s>>
    BY <2>3
  <2> DEFINE e == F[i]
             path == <<i>>
             H == G[i]
  <2>5. e.kind = "msg" /\ IsKeyValue(e) /\ KeyValueFits(e, spans, path) /\ H = NewKeyValue(e, spans, path)
        /\ HasAttr(e.fields) /\ m \in At(e.fields, "msg", 2) /\ s \in At(e.fields[m].fields, "str", 1)
    BY <1>1, <2>2, <2>3, <2>4
  <2> DEFINE path2 == <<i, m>>
  <2>6. Append(path, m) = path2 /\ Append(path2, s) = p
    BY <2>4, ShortPath, LongerPath
  <2>7. Len(p) = 3 /\ p[1] = i /\ p[2] = m /\ p[3] = s
    BY <2>4, LongerPath
  <2>8. StrAt(F, p) = e.fields[m].fields[s] /\ StrAt(G, p) = H.fields[m].fields[s]
    BY <2>7 DEF StrAt
  <2> HIDE DEF e, H, path, path2
  <2>9. m \in DOMAIN e.fields
    BY <2>5, AtFields
  <2>10. /\ \A k \in DOMAIN e.fields :
               NewKeyValue(e, spans, path).fields[k] =
                 IF k \in At(e.fields, "msg", 2) THEN NewAnyValue(e.fields[k], spans, Append(path, k)) ELSE e.fields[k]
         /\ \A k \in At(e.fields, "msg", 2) :
               e.fields[k].kind = "msg" /\ IsAnyValue(e.fields[k]) /\ AnyValueFits(e.fields[k], spans, Append(path, k))
    BY <2>5, NewKeyValueShape
  <2> DEFINE d == e.fields[m]
  <2>11. H.fields[m] = NewAnyValue(d, spans, path2) /\ d.kind = "msg" /\ IsAnyValue(d) /\ AnyValueFits(d, spans, path2)
    BY <2>5, <2>6, <2>9, <2>10
  <2>12. s \in At(d.fields, "str", 1) /\ StrAt(F, p) = d.fields[s]
    BY <2>5, <2>8
  <2> HIDE DEF d
  <2>13. IsStr(d.fields[s]) /\ Fits(spans, Append(path2, s), d.fields[s].text)
         /\ NewAnyValue(d, spans, path2).fields[s] = NewString(d.fields[s], spans, Append(path2, s))
    BY <2>11, <2>12, NewAnyValueShape
  <2>14. AttrKey(H.fields) = AttrKey(e.fields)
    <3> DEFINE HF == H.fields
    <3>1. HF = NewKeyValue(e, spans, path).fields
      BY <2>5
    <3> HIDE DEF HF
    <3>2. AttrKey(HF) = AttrKey(e.fields)
      BY <2>5, <3>1, KeyValueKept
    <3> QED BY <3>2 DEF HF
  <2>15. AttrKey(G[p[1]].fields) = AttrKey(F[p[1]].fields)
    BY <2>7, <2>14 DEF H, e
  <2> QED BY <2>6, <2>7, <2>8, <2>11, <2>12, <2>13, <2>15
<1>5. p \in Range(AttrsOf(F)) => p # BodyOf(F)
  <2>1. ASSUME p \in Range(AttrsOf(F)), p = BodyOf(F) PROVE FALSE
    <3>1. Len(p) = 3
      BY <1>4, <2>1
    <3>2. p # NoView
      <4>1. NoView = <<>> /\ Len(<<>>) = 0
        BY DEF NoView
      <4>2. Len(NoView) = 0
        BY <4>1
      <4> QED BY ONLY <3>1, <4>2
    <3>3. Len(p) = 2
      BY <1>3, <2>1, <3>2
    <3> QED BY <3>1, <3>3
  <2> QED BY <2>1
<1> QED BY <1>2, <1>3, <1>4, <1>5

-----------------------------------------------------------------------------
(* Redaction: the spans of a record are the matches of the rules. *)

\* The rules are a sequence.
LEMMA RulesAre == Len(RuleSpecs) \in Nat /\ DOMAIN RuleSpecs = 1 .. Len(RuleSpecs)
<1>1. IsSeq(RuleSpecs)
  BY PipelineAssumption DEF IsSeq
<1> QED BY <1>1, SeqFields

\* The id of a rule's mask leads to its mask (compile, the mask table).
LEMMA MaskFound == \A n \in DOMAIN RuleSpecs : MaskTable[MaskId(n)] = RuleSpecs[n].mask
<1> DEFINE N == Len(RuleSpecs)
           A == Seq({RuleSpecs[n].mask : n \in 1 .. N})
           Step(t, n) == IF Contains(t, RuleSpecs[n].mask) THEN t ELSE Append(t, RuleSpecs[n].mask)
           add == [p \in A \X (1 .. N) |-> Step(p[1], p[2])]
           F(s) == [n \in 0 .. N |-> IF n = 0 THEN <<>>
                                     ELSE IF Contains(s[n - 1], RuleSpecs[n].mask) THEN s[n - 1]
                                     ELSE Append(s[n - 1], RuleSpecs[n].mask)]
           masks == CHOOSE s : s = F(s)
<1>1. N \in Nat /\ DOMAIN RuleSpecs = 1 .. N
  BY RulesAre
<1>2. \A t \in A, n \in 1 .. N : Step(t, n) \in A
  <2>1. ASSUME NEW t \in A, NEW n \in 1 .. N PROVE Append(t, RuleSpecs[n].mask) \in A
    <3>1. RuleSpecs[n].mask \in {RuleSpecs[k].mask : k \in 1 .. N}
      OBVIOUS
    <3> QED BY <3>1, AppendProperties
  <2> QED BY <2>1
<1>3. PICK g : g \in [0 .. N -> A] /\ g[0] = <<>> /\ \A i \in 1 .. N : g[i] = Step(g[i - 1], i)
  <2>1. add \in [A \X (1 .. N) -> A] /\ <<>> \in A
    BY <1>2
  <2>2. \A t \in A, n \in 1 .. N : add[<<t, n>>] = Step(t, n)
    OBVIOUS
  <2> HIDE DEF add, A, Step
  <2>3. PICK g : Folds(g, N, <<>>, A, add)
    BY <1>1, <2>1, FoldExists
  <2>4. g \in [0 .. N -> A] /\ g[0] = <<>> /\ \A i \in 1 .. N : g[i] = add[<<g[i - 1], i>>]
    BY <2>3 DEF Folds
  <2>5. \A i \in 1 .. N : g[i] = Step(g[i - 1], i)
    <3>1. ASSUME NEW i \in 1 .. N PROVE g[i] = Step(g[i - 1], i)
      <4>1. i - 1 \in 0 .. N
        BY <1>1
      <4>2. g[i - 1] \in A
        BY <2>4, <4>1
      <4> QED BY <2>2, <2>4, <4>2
    <3> QED BY <3>1
  <2> QED BY <2>4, <2>5
<1>4. g = F(g)
  <2>1. DOMAIN g = 0 .. N /\ g = [i \in 0 .. N |-> g[i]]
    BY <1>3
  <2>2. F(g)[0] = <<>> /\ \A i \in 1 .. N : F(g)[i] = Step(g[i - 1], i)
    BY <1>1
  <2>3. \A i \in 0 .. N : i = 0 \/ i \in 1 .. N
    BY <1>1
  <2> HIDE DEF Step
  <2>4. \A i \in 0 .. N : g[i] = F(g)[i]
    <3> HIDE DEF F
    <3> QED BY <1>3, <2>2, <2>3
  <2>5. DOMAIN F(g) = 0 .. N /\ F(g) = [i \in 0 .. N |-> F(g)[i]]
    OBVIOUS
  <2> HIDE DEF F
  <2> QED BY <2>1, <2>4, <2>5
<1>5. masks = F(masks)
  BY <1>4
<1>6. MaskTable = masks[N]
  BY DEF MaskTable
<1> HIDE DEF masks, A
<1>7. masks[0] = <<>> /\ \A n \in 1 .. N : masks[n] = Step(masks[n - 1], n)
  <2>1. F(masks)[0] = <<>> /\ \A n \in 1 .. N : F(masks)[n] = Step(masks[n - 1], n)
    BY <1>1
  <2> HIDE DEF F
  <2> QED BY <1>5, <2>1
<1> HIDE DEF Step
<1> DEFINE P(n) == masks[n] \in A /\ \A m \in 1 .. n : \E i \in DOMAIN masks[n] : masks[n][i] = RuleSpecs[m].mask
           S == {n \in Nat : n <= N => P(n)}
<1>8. 0 \in S
  <2>1. <<>> \in A /\ 1 .. 0 = {}
    BY DEF A
  <2> QED BY <1>7, <2>1
<1>9. ASSUME NEW n \in S PROVE n + 1 \in S
  <2> SUFFICES ASSUME n + 1 <= N PROVE P(n + 1)
    OBVIOUS
  <2> DEFINE t == masks[n]
             x == RuleSpecs[n + 1].mask
  <2>1. P(n) /\ n + 1 \in 1 .. N /\ (n + 1) - 1 = n
    BY <1>1
  <2>2. masks[n + 1] = Step(t, n + 1) /\ Step(t, n + 1) \in A /\ t \in A
    BY <1>2, <1>7, <2>1
  <2>3. Step(t, n + 1) = IF Contains(t, x) THEN t ELSE Append(t, x)
    BY DEF Step
  <2>4. x \in {RuleSpecs[k].mask : k \in 1 .. N}
    BY <2>1
  <2> HIDE DEF t, x
  <2>5. Len(t) \in Nat /\ DOMAIN t = 1 .. Len(t)
    BY <2>2 DEF A
  <2>6. CASE Contains(t, x)
    <3>1. \E i \in DOMAIN t : t[i] = x
      BY <2>5, <2>6 DEF Contains
    <3>2. masks[n + 1] = t
      BY <2>2, <2>3, <2>6
    <3>3. \A m \in 1 .. n + 1 : m = n + 1 \/ m \in 1 .. n
      BY <2>1
    <3>4. \A m \in 1 .. n : \E i \in DOMAIN t : t[i] = RuleSpecs[m].mask
      BY <2>1 DEF t
    <3> QED BY <2>2, <3>1, <3>2, <3>3, <3>4 DEF x
  <2>7. CASE ~Contains(t, x)
    <3> DEFINE u == Append(t, x)
    <3>1. masks[n + 1] = u
      BY <2>2, <2>3, <2>7
    <3>2. Len(u) = Len(t) + 1 /\ u \in A /\ u[Len(t) + 1] = x /\ \A i \in 1 .. Len(t) : u[i] = t[i]
      <4> DEFINE B == {RuleSpecs[k].mask : k \in 1 .. N}
      <4>1. t \in Seq(B) /\ x \in B /\ A = Seq(B)
        BY <2>2, <2>4 DEF A
      <4> HIDE DEF B, A
      <4>2. Append(t, x) \in Seq(B) /\ Len(Append(t, x)) = Len(t) + 1 /\ Append(t, x)[Len(t) + 1] = x
            /\ \A i \in 1 .. Len(t) : Append(t, x)[i] = t[i]
        BY <4>1, AppendProperties
      <4> QED BY <4>1, <4>2
    <3> HIDE DEF u
    <3>3. DOMAIN u = 1 .. Len(t) + 1
      BY <3>2 DEF A
    <3>4. \E i \in DOMAIN u : u[i] = x
      BY <2>5, <3>2, <3>3
    <3>5. ASSUME NEW m \in 1 .. n PROVE \E i \in DOMAIN u : u[i] = RuleSpecs[m].mask
      <4>1. PICK i \in DOMAIN t : t[i] = RuleSpecs[m].mask
        BY <2>1 DEF t
      <4>2. i \in DOMAIN u /\ u[i] = RuleSpecs[m].mask
        BY <2>5, <3>2, <3>3, <4>1
      <4> QED BY <4>2
    <3>6. \A m \in 1 .. n + 1 : m = n + 1 \/ m \in 1 .. n
      BY <2>1
    <3> QED BY <2>2, <3>1, <3>2, <3>4, <3>5, <3>6 DEF x
  <2> QED BY <2>6, <2>7
<1>10. N \in S
  <2> HIDE DEF S
  <2>1. S \in SUBSET Nat
    BY DEF S
  <2>2. S = Nat
    BY <1>8, <1>9, <2>1, NatInd
  <2> QED BY <1>1, <2>2
<1>11. \A m \in 1 .. N : \E i \in DOMAIN MaskTable : MaskTable[i] = RuleSpecs[m].mask
  BY <1>1, <1>6, <1>10
<1> QED BY <1>1, <1>11 DEF MaskId

\* The span of a match.
SpanOf(t, p, n, k) == [at |-> p, lo |-> t.hits[n][k][1], hi |-> t.hits[n][k][2], mask |-> RuleSpecs[n].mask]

\* A match of one of the rules, and a match that is in the sequence.
IsMatch(s, t, p, rules)  == t.len # 0 /\ \E n \in rules : \E k \in DOMAIN t.hits[n] : s = SpanOf(t, p, n, k)
AllFound(r, t, p, rules) == t.len # 0 => \A n \in rules : \A k \in DOMAIN t.hits[n] : SpanOf(t, p, n, k) \in Range(r)

\* redact_field finds the matches of the rules that apply, and nothing else.
LEMMA RedactFieldIs ==
    ASSUME NEW f, IsStr(f), NEW p, NEW rules \in SUBSET DOMAIN RuleSpecs
    PROVE  /\ IsSeq(RedactField(f, p, rules))
           /\ \A s \in Range(RedactField(f, p, rules)) : IsMatch(s, f.text, p, rules)
           /\ AllFound(RedactField(f, p, rules), f.text, p, rules)
<1> DEFINE t == f.text
           N == Len(RuleSpecs)
           One(n) == IF n \in rules THEN [k \in DOMAIN t.hits[n] |->
                        [at |-> p, lo |-> t.hits[n][k][1], hi |-> t.hits[n][k][2], mask |-> MaskTable[MaskId(n)]]]
                     ELSE <<>>
           ss == [n \in DOMAIN RuleSpecs |-> One(n)]
           r == FlattenSeq(ss)
<1>1. N \in Nat /\ DOMAIN RuleSpecs = 1 .. N
  BY RulesAre
<1>2. RedactField(f, p, rules) = IF t.len = 0 THEN <<>> ELSE r
  BY DEF RedactField
<1>3. DOMAIN ss = 1 .. N /\ ss = [n \in 1 .. N |-> ss[n]] /\ \A n \in 1 .. N : ss[n] = One(n)
  BY <1>1
<1> HIDE DEF ss
<1>4. ASSUME NEW n \in rules
      PROVE  /\ n \in 1 .. N /\ DOMAIN ss[n] = DOMAIN t.hits[n] /\ IsSeq(ss[n])
             /\ \A k \in DOMAIN t.hits[n] : ss[n][k] = SpanOf(t, p, n, k)
  <2>1. n \in 1 .. N
    BY <1>1
  <2>2. ss[n] = [k \in DOMAIN t.hits[n] |-> SpanOf(t, p, n, k)]
    BY <1>1, <1>3, <2>1, MaskFound DEF SpanOf
  <2>3. Len(t.hits[n]) \in Nat /\ DOMAIN t.hits[n] = 1 .. Len(t.hits[n])
    <3>1. n \in DOMAIN t.hits
      BY <1>1, <2>1 DEF IsStr, IsText
    <3>2. t.hits[n] \in Seq({h \in (0 .. t.len) \X (0 .. t.len) : h[1] <= h[2]})
      BY <3>1 DEF IsStr, IsText
    <3> DEFINE x == t.hits[n]
               E == {h \in (0 .. t.len) \X (0 .. t.len) : h[1] <= h[2]}
    <3>3. x \in Seq(E)
      BY <3>2
    <3> HIDE DEF x, E
    <3>4. Len(x) \in Nat /\ DOMAIN x = 1 .. Len(x)
      BY <3>3
    <3> QED BY <3>4 DEF x
  <2>4. DOMAIN ss[n] = DOMAIN t.hits[n] /\ \A k \in DOMAIN t.hits[n] : ss[n][k] = SpanOf(t, p, n, k)
    BY <2>2
  <2>5. DOMAIN ss[n] = 1 .. Len(t.hits[n]) /\ ss[n] = [k \in 1 .. Len(t.hits[n]) |-> ss[n][k]]
    BY <2>2, <2>3
  <2>6. IsSeq(ss[n])
    <3> DEFINE x == ss[n]
               M == Len(t.hits[n])
    <3>1. M \in Nat /\ DOMAIN x = 1 .. M /\ x = [k \in 1 .. M |-> x[k]]
      BY <2>3, <2>5
    <3> HIDE DEF x, M
    <3>2. IsSeq(x)
      BY <3>1, SeqIs
    <3> QED BY <3>2 DEF x
  <2> QED BY <2>1, <2>4, <2>6
<1>5. IsSeq(<<>>) /\ Range(<<>>) = {}
  BY DEF IsSeq, Range
<1>6. \A n \in 1 .. N : n \notin rules => ss[n] = <<>>
  BY <1>3
<1> HIDE DEF N
<1>7. \A n \in 1 .. N : IsSeq(ss[n])
  BY <1>4, <1>5, <1>6
<1>8. Joined(r, ss, N)
  BY <1>1, <1>3, <1>7, FlattenJoins
<1> HIDE DEF r
<1>9. /\ \A x \in Range(r) : \E n \in 1 .. N : x \in Range(ss[n])
      /\ \A n \in 1 .. N : Range(ss[n]) \subseteq Range(r)
  BY <1>1, <1>7, <1>8, JoinedRange
<1>10. CASE t.len = 0
  BY <1>2, <1>5, <1>10 DEF AllFound
<1>11. CASE t.len # 0
  <2>1. IsSeq(r)
    BY <1>8 DEF Joined
  <2>2. ASSUME NEW s \in Range(r) PROVE IsMatch(s, t, p, rules)
    <3>1. PICK n \in 1 .. N : s \in Range(ss[n])
      BY <1>9
    <3>2. n \in rules
      BY <1>5, <1>6, <3>1
    <3>3. PICK k \in DOMAIN ss[n] : s = ss[n][k]
      BY <3>1 DEF Range
    <3>4. k \in DOMAIN t.hits[n] /\ s = SpanOf(t, p, n, k)
      BY <1>4, <3>2, <3>3
    <3> QED BY <1>11, <3>2, <3>4 DEF IsMatch
  <2>3. ASSUME NEW n \in rules, NEW k \in DOMAIN t.hits[n] PROVE SpanOf(t, p, n, k) \in Range(r)
    <3>1. SpanOf(t, p, n, k) \in Range(ss[n])
      BY <1>4 DEF Range
    <3> QED BY <1>4, <1>9, <3>1
  <2> QED BY <1>2, <1>11, <2>1, <2>2, <2>3 DEF AllFound
<1> QED BY <1>10, <1>11

\* The rules for a path of a view.
RulesOf(v, p) == IF p = v.body THEN BodyRules ELSE AttrRules(KeyOf(v, p))

\* The rules are rules.
LEMMA RulesOfAre == ASSUME NEW v, NEW p PROVE RulesOf(v, p) \in SUBSET DOMAIN RuleSpecs
BY DEF RulesOf, BodyRules, AttrRules

\* The spans are those of the matches at the paths of the view, all of them.
SpansOfView(v, spans) ==
    /\ IsSeq(spans)
    /\ \A s \in Range(spans) : s.at \in Paths(v) /\ IsMatch(s, StrAt(v.raw, s.at).text, s.at, RulesOf(v, s.at))
    /\ \A p \in Paths(v) : AllFound(spans, StrAt(v.raw, p).text, p, RulesOf(v, p))

\* A sequence that holds another has all that is found in it.
LEMMA AllFoundMore ==
    ASSUME NEW r, NEW q, Range(r) \subseteq Range(q), NEW t, NEW p, NEW rules, AllFound(r, t, p, rules)
    PROVE  AllFound(q, t, p, rules)
BY DEF AllFound

\* The attributes of a view are a sequence.
LEMMA AttrsSeq == ASSUME NEW F, IsSeq(F) PROVE IsSeq(AttrsOf(F))
<1> DEFINE N == Len(F)
           ss == [i \in DOMAIN F |-> AttrPiece(F, i)]
<1>1. N \in Nat /\ DOMAIN F = 1 .. N
  BY SeqFields
<1>2. DOMAIN ss = 1 .. N /\ ss = [i \in 1 .. N |-> ss[i]] /\ \A i \in 1 .. N : ss[i] = AttrPiece(F, i)
  BY <1>1
<1>3. AttrsOf(F) = FlattenSeq(ss)
  BY DEF AttrsOf
<1> HIDE DEF ss, N
<1>4. ASSUME NEW i \in 1 .. N PROVE IsSeq(ss[i])
  <2> DEFINE x == <<i>> \o AttrPath(F[i].fields)
  <2>1. ss[i] = <<>> \/ ss[i] = <<x>>
    BY <1>2 DEF AttrPiece
  <2> HIDE DEF x
  <2>2. IsSeq(<<>>)
    BY DEF IsSeq, Range
  <2>3. DOMAIN <<x>> = 1 .. 1 /\ <<x>> = [k \in 1 .. 1 |-> <<x>>[k]]
    OBVIOUS
  <2>4. IsSeq(<<x>>)
    BY <2>3, SeqIs
  <2> QED BY <2>1, <2>2, <2>4
<1>5. Joined(FlattenSeq(ss), ss, N)
  BY <1>1, <1>2, <1>4, FlattenJoins
<1> QED BY <1>3, <1>5 DEF Joined

\* No spans fit any record.
LEMMA NoSpansFit == ASSUME NEW fields PROVE RecordFits(fields, <<>>)
BY DEF RecordFits

\* RedactRecord looks at every string that the view leads to, with the rules for
\* it, and at nothing else.
LEMMA RedactRecordIs ==
    ASSUME NEW f, IsLogRecord(f), f.kind = "msg", LogRecordOk(f.fields), NEW namespace, NEW service,
           NEW v, v = RecordView(f.fields, namespace, service)
    PROVE  SpansOfView(v, RedactRecord(v))
<1> DEFINE F == f.fields
           b == v.body
           One(a) == RedactField(StrAt(v.raw, v.attrs[a]), v.attrs[a], AttrRules(KeyOf(v, v.attrs[a])))
           ss == [a \in DOMAIN v.attrs |-> One(a)]
           x == IF b = NoView THEN <<>> ELSE RedactField(StrAt(v.raw, b), b, BodyRules)
           y == FlattenSeq(ss)
           N == Len(v.attrs)
<1>1. v.raw = F /\ v.body = BodyOf(F) /\ v.attrs = AttrsOf(F)
  BY ViewIs
<1>2. RedactRecord(v) = x \o y
  BY DEF RedactRecord
<1>3. ASSUME NEW p \in Paths(v)
      PROVE  IsStr(StrAt(v.raw, p)) /\ (p \in Range(v.attrs) => p # v.body)
  <2> DEFINE G == NewLogRecord(f, <<>>).fields
  <2>1. RecordFits(f.fields, <<>>)
    BY NoSpansFit
  <2> HIDE DEF G
  <2>2. IsStr(StrAt(f.fields, p)) /\ (p \in Range(AttrsOf(f.fields)) => p # BodyOf(f.fields))
    BY <2>1, PathStrings DEF G
  <2> QED BY <1>1, <2>2
<1>4. N \in Nat /\ DOMAIN v.attrs = 1 .. N
  <2>1. IsSeq(F)
    BY DEF IsLogRecord, Received, IsSeq
  <2> QED BY <1>1, <2>1, AttrsSeq, SeqFields
<1>5. \A a \in 1 .. N : v.attrs[a] \in Range(v.attrs) /\ v.attrs[a] \in Paths(v)
  BY <1>4 DEF Paths, Range
<1>6. \A q \in Range(v.attrs) : \E a \in 1 .. N : q = v.attrs[a]
  BY <1>4 DEF Range
<1>7. DOMAIN ss = 1 .. N /\ ss = [a \in 1 .. N |-> ss[a]] /\ \A a \in 1 .. N : ss[a] = One(a)
  BY <1>4
<1> HIDE DEF ss, N, F
<1>8. ASSUME NEW a \in 1 .. N
      PROVE  /\ IsSeq(ss[a])
             /\ \A s \in Range(ss[a]) : IsMatch(s, StrAt(v.raw, v.attrs[a]).text, v.attrs[a], RulesOf(v, v.attrs[a]))
             /\ AllFound(ss[a], StrAt(v.raw, v.attrs[a]).text, v.attrs[a], RulesOf(v, v.attrs[a]))
  <2> DEFINE p == v.attrs[a]
             g == StrAt(v.raw, p)
             rules == RulesOf(v, p)
  <2>1. p \in Paths(v) /\ IsStr(g) /\ p # v.body
    BY <1>3, <1>5
  <2>2. rules = AttrRules(KeyOf(v, p))
    BY <2>1 DEF RulesOf
  <2>3. ss[a] = RedactField(g, p, rules)
    BY <1>7, <2>2
  <2>4. rules \in SUBSET DOMAIN RuleSpecs
    BY RulesOfAre
  <2> HIDE DEF p, g, rules
  <2>5. IsSeq(RedactField(g, p, rules)) /\ (\A s \in Range(RedactField(g, p, rules)) : IsMatch(s, g.text, p, rules))
        /\ AllFound(RedactField(g, p, rules), g.text, p, rules)
    BY <2>1, <2>4, RedactFieldIs
  <2>6. IsSeq(ss[a]) /\ (\A s \in Range(ss[a]) : IsMatch(s, g.text, p, rules)) /\ AllFound(ss[a], g.text, p, rules)
    BY <2>3, <2>5
  <2> QED BY <2>6 DEF p, g, rules
<1>9. \A a \in 1 .. N : IsSeq(ss[a])
  BY <1>8
<1>10. Joined(y, ss, N)
  BY <1>4, <1>7, <1>9, FlattenJoins
<1> HIDE DEF y
<1>11. /\ \A s \in Range(y) : \E a \in 1 .. N : s \in Range(ss[a])
       /\ \A a \in 1 .. N : Range(ss[a]) \subseteq Range(y)
  BY <1>4, <1>9, <1>10, JoinedRange
<1>12. IsSeq(y)
  BY <1>10 DEF Joined
<1>13. /\ IsSeq(x)
       /\ \A s \in Range(x) : b # NoView /\ IsMatch(s, StrAt(v.raw, b).text, b, RulesOf(v, b))
       /\ b # NoView => AllFound(x, StrAt(v.raw, b).text, b, RulesOf(v, b))
  <2>1. CASE b = NoView
    <3>1. x = <<>>
      BY <2>1
    <3>2. IsSeq(<<>>) /\ Range(<<>>) = {}
      BY DEF IsSeq, Range
    <3> QED BY <2>1, <3>1, <3>2
  <2>2. CASE b # NoView
    <3> DEFINE g == StrAt(v.raw, b)
               rules == RulesOf(v, b)
    <3>1. b \in Paths(v) /\ IsStr(g)
      BY <1>3, <2>2 DEF Paths
    <3>2. rules = BodyRules /\ rules \in SUBSET DOMAIN RuleSpecs
      BY RulesOfAre DEF RulesOf
    <3>3. x = RedactField(g, b, rules)
      BY <2>2, <3>2
    <3> HIDE DEF g, rules, x
    <3>4. IsSeq(x) /\ (\A s \in Range(x) : IsMatch(s, g.text, b, rules)) /\ AllFound(x, g.text, b, rules)
      BY <3>1, <3>2, <3>3, RedactFieldIs
    <3> QED BY <2>2, <3>4 DEF g, rules
  <2> QED BY <2>1, <2>2
<1> DEFINE r == x \o y
<1> HIDE DEF x
<1>14. IsSeq(r) /\ Range(r) = Range(x) \cup Range(y)
  BY <1>12, <1>13, ConcatRange
<1> HIDE DEF r
<1>15. ASSUME NEW s \in Range(r)
       PROVE  s.at \in Paths(v) /\ IsMatch(s, StrAt(v.raw, s.at).text, s.at, RulesOf(v, s.at))
  <2>0. ASSUME NEW p, NEW t, NEW rules, IsMatch(s, t, p, rules) PROVE s.at = p
    BY <2>0 DEF IsMatch, SpanOf
  <2>1. CASE s \in Range(x)
    <3>1. b # NoView /\ IsMatch(s, StrAt(v.raw, b).text, b, RulesOf(v, b))
      BY <1>13, <2>1
    <3>2. s.at = b
      BY <2>0, <3>1
    <3> QED BY <3>1, <3>2 DEF Paths
  <2>2. CASE s \notin Range(x)
    <3>1. PICK a \in 1 .. N : s \in Range(ss[a])
      BY <1>11, <1>14, <2>2
    <3>2. IsMatch(s, StrAt(v.raw, v.attrs[a]).text, v.attrs[a], RulesOf(v, v.attrs[a]))
      BY <1>8, <3>1
    <3>3. s.at = v.attrs[a]
      BY <2>0, <3>2
    <3> QED BY <1>5, <3>2, <3>3
  <2> QED BY <2>1, <2>2
<1>16. ASSUME NEW p \in Paths(v) PROVE AllFound(r, StrAt(v.raw, p).text, p, RulesOf(v, p))
  <2>1. CASE p = b /\ b # NoView
    <3>1. Range(x) \subseteq Range(r)
      BY <1>14
    <3>2. AllFound(x, StrAt(v.raw, b).text, b, RulesOf(v, b))
      BY <1>13, <2>1
    <3>3. AllFound(r, StrAt(v.raw, b).text, b, RulesOf(v, b))
      BY <3>1, <3>2, AllFoundMore
    <3> QED BY <2>1, <3>3
  <2>2. CASE ~(p = b /\ b # NoView)
    <3>1. p \in Range(v.attrs)
      BY <2>2 DEF Paths
    <3>2. PICK a \in 1 .. N : p = v.attrs[a]
      BY <1>6, <3>1
    <3>3. Range(ss[a]) \subseteq Range(r)
      BY <1>11, <1>14
    <3>4. AllFound(ss[a], StrAt(v.raw, p).text, p, RulesOf(v, p))
      BY <1>8, <3>2
    <3> QED BY <3>3, <3>4, AllFoundMore
  <2> QED BY <2>1, <2>2
<1> QED BY <1>2, <1>14, <1>15, <1>16 DEF SpansOfView, r

-----------------------------------------------------------------------------
(* Every record, where it stands. *)

\* The messages of a request have their types at each depth.
LEMMA RecordIs ==
    ASSUME NEW f, IsRequest(f), f.kind = "msg", NEW i, NEW j, NEW k, IsRecord(f, i, j, k)
    PROVE  /\ IsResourceLogs(f.fields[i]) /\ f.fields[i].kind = "msg"
           /\ IsScopeLogs(f.fields[i].fields[j]) /\ f.fields[i].fields[j].kind = "msg"
           /\ IsLogRecord(f.fields[i].fields[j].fields[k]) /\ f.fields[i].fields[j].fields[k].kind = "msg"
           /\ RequestOk(f.fields) => LogRecordOk(f.fields[i].fields[j].fields[k].fields)
<1> DEFINE g == f.fields[i]
           h == g.fields[j]
           r == h.fields[k]
<1>1. i \in At(f.fields, "msg", 1) /\ j \in At(g.fields, "msg", 2) /\ k \in At(h.fields, "msg", 2)
  BY DEF IsRecord, IsScope
<1>2. i \in DOMAIN f.fields /\ g.kind = "msg" /\ j \in DOMAIN g.fields /\ h.kind = "msg"
      /\ k \in DOMAIN h.fields /\ r.kind = "msg"
  BY <1>1, AtFields
<1> HIDE DEF r
<1>3. IsResourceLogs(g)
  BY <1>2 DEF IsRequest, Received
<1>4. IsScopeLogs(h)
  <2> HIDE DEF g
  <2> QED BY <1>2, <1>3 DEF IsResourceLogs, Received
<1>5. IsLogRecord(r)
  <2> HIDE DEF g, h
  <2>1. \A q \in DOMAIN h.fields : IsLogRecord(h.fields[q])
    BY <1>2, <1>4 DEF IsScopeLogs, Received
  <2> QED BY <1>2, <2>1 DEF r
<1>6. ASSUME RequestOk(f.fields) PROVE LogRecordOk(r.fields)
  <2>1. ResourceLogsOk(g.fields)
    BY <1>1, <1>6 DEF RequestOk
  <2>2. ScopeLogsOk(h.fields)
    <3> HIDE DEF g
    <3> QED BY <1>1, <2>1 DEF ResourceLogsOk
  <2> HIDE DEF g, h
  <2> QED BY <1>1, <2>2 DEF ScopeLogsOk, r
<1> QED BY <1>2, <1>3, <1>4, <1>5, <1>6 DEF r

\* The fields of a request are sequences down to its records.
LEMMA RequestIsSeq == ASSUME NEW f, IsRequest(f), f.kind = "msg" PROVE RequestSeq(f)
<1>1. IsSeq(f.fields) /\ \A i \in DOMAIN f.fields : IsResourceLogs(f.fields[i])
  BY DEF IsRequest, Received, IsSeq
<1>2. ASSUME NEW g, IsResourceLogs(g), g.kind = "msg" PROVE ResourceSeq(g)
  <2>1. IsSeq(g.fields) /\ \A j \in DOMAIN g.fields : IsScopeLogs(g.fields[j])
    BY <1>2 DEF IsResourceLogs, Received, IsSeq
  <2>2. ASSUME NEW h, IsScopeLogs(h), h.kind = "msg" PROVE IsSeq(h.fields)
    BY <2>2 DEF IsScopeLogs, Received, IsSeq
  <2> QED BY <2>1, <2>2, AtFields DEF ResourceSeq
<1> QED BY <1>1, <1>2, AtFields DEF RequestSeq

\* A match is a range of the text with the mask of a rule.
LEMMA MatchIs ==
    ASSUME NEW t, IsText(t), NEW p, NEW rules \in SUBSET DOMAIN RuleSpecs, NEW s, IsMatch(s, t, p, rules)
    PROVE  s.at = p /\ IsRedaction(s) /\ s.hi <= t.len
<1>1. PICK n \in rules : \E k \in DOMAIN t.hits[n] : s = SpanOf(t, p, n, k)
  BY DEF IsMatch
<1>2. PICK k \in DOMAIN t.hits[n] : s = SpanOf(t, p, n, k)
  BY <1>1
<1> DEFINE H == {h \in (0 .. t.len) \X (0 .. t.len) : h[1] <= h[2]}
           x == t.hits[n]
           h == x[k]
<1>3. t.len \in Nat /\ x \in Seq(H)
  BY <1>1 DEF IsText
<1>4. h \in H
  BY <1>2, <1>3
<1>5. h[1] \in Nat /\ h[2] \in Nat /\ h[1] <= h[2] /\ h[2] <= t.len
  <2> HIDE DEF h
  <2> QED BY <1>3, <1>4
<1>6. RuleSpecs[n].mask \in DOMAIN MaskLen \ {"raw"}
  BY <1>1, PipelineAssumption
<1>7. s.at = p /\ s.lo = h[1] /\ s.hi = h[2] /\ s.mask = RuleSpecs[n].mask
  BY <1>2 DEF SpanOf
<1> QED BY <1>5, <1>6, <1>7 DEF IsRedaction, IsSpan

\* The spans of a record fit it.
LEMMA SpansFit ==
    ASSUME NEW f, IsLogRecord(f), f.kind = "msg", LogRecordOk(f.fields), NEW namespace, NEW service,
           NEW v, v = RecordView(f.fields, namespace, service), NEW spans, SpansOfView(v, spans)
    PROVE  RecordFits(f.fields, spans)
<1>1. v.raw = f.fields
  BY ViewIs
<1>2. Len(spans) \in Nat /\ DOMAIN spans = 1 .. Len(spans)
  BY SeqFields DEF SpansOfView
<1>3. ASSUME NEW n \in DOMAIN spans
      PROVE  IsRedaction(spans[n]) /\ spans[n].hi <= StrAt(f.fields, spans[n].at).text.len
  <2> DEFINE s == spans[n]
             p == s.at
             g == StrAt(f.fields, p)
             rules == RulesOf(v, p)
             G == NewLogRecord(f, <<>>).fields
  <2>1. p \in Paths(v) /\ IsMatch(s, g.text, p, rules)
    BY <1>1 DEF SpansOfView, Range
  <2>2. RecordFits(f.fields, <<>>)
    BY NoSpansFit
  <2> HIDE DEF p, G
  <2>3. IsStr(g)
    BY <2>1, <2>2, PathStrings DEF G
  <2>4. IsText(g.text) /\ rules \in SUBSET DOMAIN RuleSpecs
    BY <2>3, RulesOfAre DEF IsStr
  <2> HIDE DEF g, rules, s
  <2>5. IsRedaction(s) /\ s.hi <= g.text.len
    BY <2>1, <2>4, MatchIs
  <2> QED BY <2>5 DEF s, g, p
<1> QED BY <1>2, <1>3 DEF RecordFits

\* For each record the spans that redaction finds in it, or none.
Decided(f, S) ==
    \A n \in 1 .. Len(RequestRecords(f.fields)) : S[n] = <<>> \/ S[n] = RedactRecord(RequestRecords(f.fields)[n])

\* What is decided for a record fits it.
LEMMA DecidedFits ==
    ASSUME NEW f, IsRequest(f), f.kind = "msg", RequestOk(f.fields), NEW S, Decided(f, S),
           NEW i, NEW j, NEW k, IsRecord(f, i, j, k)
    PROVE  RecordFits(f.fields[i].fields[j].fields[k].fields, S[NumberOf(f, i, j, k)])
<1> DEFINE r == f.fields[i].fields[j].fields[k]
           n == NumberOf(f, i, j, k)
           namespace == NamespaceOf(f.fields[i].fields)
           service == ServiceNameOf(f.fields[i].fields)
           v == RecordView(r.fields, namespace, service)
<1>1. IsLogRecord(r) /\ r.kind = "msg" /\ LogRecordOk(r.fields)
  BY RecordIs
<1>2. n \in 1 .. Len(RequestRecords(f.fields)) /\ RequestRecords(f.fields)[n] = v
  <2>1. RequestSeq(f)
    BY RequestIsSeq
  <2> HIDE DEF n, v
  <2>2. NumberOf(f, i, j, k) \in 1 .. Len(RequestRecords(f.fields))
        /\ RequestRecords(f.fields)[NumberOf(f, i, j, k)] = ViewOf(f, i, j, k)
    BY <2>1, Numbered
  <2> QED BY <2>2 DEF n, v, ViewOf
<1>3. S[n] = <<>> \/ S[n] = RedactRecord(v)
  BY <1>2 DEF Decided
<1> HIDE DEF n, namespace, service, r
<1>4. SpansOfView(v, RedactRecord(v))
  BY <1>1, RedactRecordIs
<1>5. RecordFits(r.fields, RedactRecord(v))
  BY <1>1, <1>4, SpansFit
<1>6. RecordFits(r.fields, S[n])
  BY <1>3, <1>5, NoSpansFit
<1> QED BY <1>6 DEF r, n

\* What is decided for the records of a request fits them all.
LEMMA DecisionsFit ==
    ASSUME NEW f, IsRequest(f), f.kind = "msg", RequestOk(f.fields), NEW D, NEW S, Decided(f, S)
    PROVE  RequestFits(f, D, S)
<1> SUFFICES ASSUME NEW i \in At(f.fields, "msg", 1), NEW j \in At(f.fields[i].fields, "msg", 2),
                    NEW k \in At(f.fields[i].fields[j].fields, "msg", 2)
             PROVE  RecordFits(f.fields[i].fields[j].fields[k].fields,
                               S[NumberIn(f.fields[i].fields[j], FirstIn(f.fields[i], FirstUnder(f, i), j), k)])
  BY DEF RequestFits, ResourceFits, ScopeFits
<1>1. IsRecord(f, i, j, k)
  BY DEF IsRecord, IsScope
<1>2. RecordFits(f.fields[i].fields[j].fields[k].fields, S[NumberOf(f, i, j, k)])
  BY <1>1, DecidedFits
<1> QED BY <1>2 DEF NumberOf

\* A string with masks put in has a mask only for a match of the rules for it;
\* and, when all were found, each match is masked or starts in one that is.
LEMMA MaskedString ==
    ASSUME NEW f, IsStr(f), NEW spans, NEW p, Fits(spans, p, f.text), NEW rules \in SUBSET DOMAIN RuleSpecs,
           \A s \in Range(spans) : s.at = p => IsMatch(s, f.text, p, rules),
           NEW g, g = NewString(f, spans, p)
    PROVE  /\ Tiles(g.parts, g.text.len)
           /\ Masks(g) \subseteq Matches([f |-> g, rules |-> rules])
           /\ AllFound(spans, f.text, p, rules) =>
                \A m \in Matches([f |-> g, rules |-> rules]) :
                    m \in Masks(g) \/ \E x \in Masks(g) : x.lo <= m.lo /\ m.lo < x.hi
           /\ spans = <<>> => Masks(g) = {}
<1> DEFINE eff == EffectiveSpans(spans, p)
           here == Here(spans, p)
           t == f.text
           x == [f |-> g, rules |-> rules]
<1>1. Spliced(f, NewString(f, spans, p), spans, p)
  BY NewStringIs
<1>2. g.text = t /\ Tiles(g.parts, t.len) /\ Masks(g) = SpanMasks(eff)
  BY <1>1 DEF Spliced, MasksAt
<1>3. /\ eff \in Seq({spans[n] : n \in here})
      /\ \A n \in here : Covered(spans[n], eff)
  BY EffectiveIs DEF Fits, IsRedaction
<1>4. x.f = g /\ x.rules = rules
  OBVIOUS
<1> HIDE DEF x, eff
<1>5. ASSUME NEW m
      PROVE  m \in Matches(x) <=>
                t.len # 0 /\ \E n \in rules : \E h \in Range(t.hits[n]) : m = Mask(RuleSpecs[n].mask, h[1], h[2])
  <2>1. x.f.text = t /\ x.rules = rules
    BY <1>2, <1>4
  <2>2. m \in Matches(x) <=>
            x.f.text.len # 0 /\ \E n \in x.rules : \E h \in Range(x.f.text.hits[n]) : m = Mask(RuleSpecs[n].mask, h[1], h[2])
    BY DEF Matches
  <2> QED BY <2>1, <2>2
<1>6. ASSUME NEW s, IsMatch(s, t, p, rules) PROVE Mask(s.mask, s.lo, s.hi) \in Matches(x)
  <2>1. PICK n \in rules : \E k \in DOMAIN t.hits[n] : s = SpanOf(t, p, n, k)
    BY <1>6 DEF IsMatch
  <2>2. PICK k \in DOMAIN t.hits[n] : s = SpanOf(t, p, n, k)
    BY <2>1
  <2> DEFINE h == t.hits[n][k]
  <2>3. h \in Range(t.hits[n])
    BY <2>2 DEF Range
  <2>4. s.mask = RuleSpecs[n].mask /\ s.lo = h[1] /\ s.hi = h[2]
    BY <2>2 DEF SpanOf
  <2> HIDE DEF h
  <2>5. t.len # 0
    BY <1>6 DEF IsMatch
  <2> QED BY <1>5, <2>3, <2>4, <2>5
<1>7. \A s \in Range(eff) : s \in Range(spans) /\ s.at = p
  BY <1>3 DEF Here, Range
<1>8. ASSUME NEW m \in Masks(g) PROVE m \in Matches(x)
  <2>1. PICK i \in DOMAIN eff : m = Mask(eff[i].mask, eff[i].lo, eff[i].hi)
    BY <1>2 DEF SpanMasks
  <2>2. eff[i] \in Range(eff)
    BY DEF Range
  <2>3. IsMatch(eff[i], t, p, rules)
    BY <1>7, <2>2
  <2> QED BY <1>6, <2>1, <2>3
<1>9. ASSUME AllFound(spans, t, p, rules), NEW m \in Matches(x)
      PROVE  m \in Masks(g) \/ \E y \in Masks(g) : y.lo <= m.lo /\ m.lo < y.hi
  <2>1. t.len # 0 /\ \E n \in rules : \E h \in Range(t.hits[n]) : m = Mask(RuleSpecs[n].mask, h[1], h[2])
    BY <1>5, <1>9
  <2>2. PICK n \in rules : \E h \in Range(t.hits[n]) : m = Mask(RuleSpecs[n].mask, h[1], h[2])
    BY <2>1
  <2>3. PICK h \in Range(t.hits[n]) : m = Mask(RuleSpecs[n].mask, h[1], h[2])
    BY <2>2
  <2>4. PICK k \in DOMAIN t.hits[n] : h = t.hits[n][k]
    BY <2>3 DEF Range
  <2> DEFINE s == SpanOf(t, p, n, k)
  <2>5. s \in Range(spans)
    BY <1>9, <2>1, <2>4 DEF AllFound
  <2>6. s.at = p /\ s.lo = h[1] /\ s.hi = h[2] /\ s.mask = RuleSpecs[n].mask
    BY <2>4 DEF SpanOf
  <2> HIDE DEF s
  <2>7. PICK q \in DOMAIN spans : spans[q] = s
    BY <2>5 DEF Range
  <2>8. Covered(s, eff)
    BY <1>3, <2>6, <2>7 DEF Here
  <2>9. PICK i \in DOMAIN eff : eff[i] = s \/ (eff[i].lo <= s.lo /\ s.lo < eff[i].hi)
    BY <2>8 DEF Covered
  <2> DEFINE y == Mask(eff[i].mask, eff[i].lo, eff[i].hi)
  <2>10. y \in Masks(g)
    BY <1>2 DEF SpanMasks
  <2>11. y.lo = eff[i].lo /\ y.hi = eff[i].hi /\ m.lo = s.lo /\ (eff[i] = s => y = m)
    BY <2>3, <2>6 DEF Mask
  <2> QED BY <2>9, <2>10, <2>11
<1>10. ASSUME spans = <<>> PROVE Masks(g) = {}
  <2>1. Range(spans) = {}
    BY <1>10 DEF Range
  <2>2. Range(eff) = {}
    BY <1>7, <2>1
  <2>3. DOMAIN eff = {}
    BY <2>2 DEF Range
  <2> QED BY <1>2, <2>3 DEF SpanMasks
<1> QED BY <1>2, <1>8, <1>9, <1>10 DEF x

\* The parts of a message, and a message with some of its parts replaced.
LEMMA MsgIs ==
    ASSUME NEW no, NEW F
    PROVE  Msg(no, F).kind = "msg" /\ Msg(no, F).no = no /\ Msg(no, F).fields = F /\ Msg(no, F).size = EncodedLens(F)
BY DEF Msg

\* The records of a scope that is built again are the ones kept, each built
\* from its record with the spans at its number.
LEMMA NewScopeRecords ==
    ASSUME NEW h, IsScopeLogs(h), h.kind = "msg", NEW first, NEW D, NEW S, ScopeFits(h, first, D, S),
           NEW G, G = NewScope(h, first, D, S).fields
    PROVE  /\ IsSeq(G)
           /\ \A m \in At(G, "msg", 2) : \E k \in At(h.fields, "msg", 2) :
                 NumberIn(h, first, k) \notin D /\ G[m] = NewLogRecord(h.fields[k], S[NumberIn(h, first, k)])
<1> DEFINE F == h.fields
           N == Len(F)
           ss == NewPieces(h, first, D, S)
           Gone(k) == k \in At(F, "msg", 2) /\ NumberIn(h, first, k) \in D
           Field(k) == NewField(h, first, S, k)
<1>1. G = FlattenSeq(ss)
  BY NewScopeIs, MsgIs
<1>2. N \in Nat /\ DOMAIN F = 1 .. N
  <2>1. IsSeq(F)
    BY DEF IsScopeLogs, Received, IsSeq
  <2> QED BY <2>1, SeqFields
<1>3. DOMAIN ss = 1 .. N /\ ss = [k \in 1 .. N |-> ss[k]]
      /\ \A k \in 1 .. N : ss[k] = IF Gone(k) THEN <<>> ELSE <<Field(k)>>
  BY <1>2 DEF NewPieces
<1> HIDE DEF N, ss, Gone, Field
<1>4. ASSUME NEW x PROVE IsSeq(<<x>>) /\ Len(<<x>>) = 1 /\ <<x>>[1] = x
  <2>1. DOMAIN <<x>> = 1 .. 1 /\ <<x>> = [k \in 1 .. 1 |-> <<x>>[k]] /\ <<x>>[1] = x
    OBVIOUS
  <2> QED BY <2>1, SeqIs
<1>5. IsSeq(<<>>) /\ Len(<<>>) = 0
  BY DEF IsSeq, Range
<1>6. \A k \in 1 .. N : IsSeq(ss[k])
  BY <1>3, <1>4, <1>5
<1>7. Joined(G, ss, N)
  BY <1>1, <1>2, <1>3, <1>6, FlattenJoins
<1>8. IsSeq(G)
  BY <1>7 DEF Joined
<1>9. ASSUME NEW m \in At(G, "msg", 2)
      PROVE  \E k \in At(F, "msg", 2) :
                 NumberIn(h, first, k) \notin D /\ G[m] = NewLogRecord(F[k], S[NumberIn(h, first, k)])
  <2>1. m \in 1 .. Len(G) /\ G[m].kind = "msg" /\ G[m].no = 2
    BY <1>8, SeqFields, AtFields
  <2>2. PICK k \in 1 .. N : \E j \in 1 .. Len(ss[k]) : m = Upto(Lens(ss), k - 1) + j
    BY <1>7, <2>1 DEF Joined
  <2>3. PICK j \in 1 .. Len(ss[k]) : m = Upto(Lens(ss), k - 1) + j
    BY <2>2
  <2>4. G[m] = ss[k][j]
    BY <1>7, <2>3 DEF Joined
  <2>5. ~Gone(k)
    <3>1. ASSUME Gone(k) PROVE FALSE
      <4>1. Len(ss[k]) = 0
        BY <1>3, <1>5, <3>1
      <4> QED BY <2>3, <4>1
    <3> QED BY <3>1
  <2>6. G[m] = Field(k)
    <3>1. ss[k] = <<Field(k)>>
      BY <1>3, <2>5
    <3>2. Len(ss[k]) = 1 /\ ss[k][1] = Field(k)
      BY <1>4, <3>1
    <3>3. j = 1
      BY <2>3, <3>2
    <3> QED BY <2>4, <3>2, <3>3
  <2>7. k \in At(F, "msg", 2)
    <3>1. ASSUME k \notin At(F, "msg", 2) PROVE FALSE
      <4>1. G[m] = F[k]
        BY <2>6, <3>1 DEF Field, NewField
      <4> QED BY <1>2, <2>1, <2>2, <3>1, <4>1, AtFields
    <3> QED BY <3>1
  <2> QED BY <2>5, <2>6, <2>7 DEF Gone, Field, NewField
<1> QED BY <1>8, <1>9

\* The scopes and resources of a request that is built again are where they were.
LEMMA NewContainers ==
    ASSUME NEW f, IsRequest(f), f.kind = "msg", NEW D, NEW S, RequestFits(f, D, S), NEW out, out = NewRequest(f, D, S)
    PROVE  /\ IsSeq(out.fields) /\ At(out.fields, "msg", 1) = At(f.fields, "msg", 1)
           /\ DOMAIN out.fields = DOMAIN f.fields
           /\ \A i \in At(f.fields, "msg", 1) :
                 /\ IsSeq(out.fields[i].fields) /\ DOMAIN out.fields[i].fields = DOMAIN f.fields[i].fields
                 /\ out.fields[i] = NewResource(f.fields[i], FirstUnder(f, i), D, S)
                 /\ At(out.fields[i].fields, "msg", 2) = At(f.fields[i].fields, "msg", 2)
                 /\ \A j \in At(f.fields[i].fields, "msg", 2) :
                       /\ IsScopeLogs(f.fields[i].fields[j]) /\ f.fields[i].fields[j].kind = "msg"
                       /\ ScopeFits(f.fields[i].fields[j], FirstIn(f.fields[i], FirstUnder(f, i), j), D, S)
                       /\ out.fields[i].fields[j] =
                            NewScope(f.fields[i].fields[j], FirstIn(f.fields[i], FirstUnder(f, i), j), D, S)
<1> DEFINE F == f.fields
           O == out.fields
<1>1. O = [i \in DOMAIN F |-> IF i \in At(F, "msg", 1) THEN NewResource(F[i], FirstUnder(f, i), D, S) ELSE F[i]]
  BY NewRequestIs, MsgIs
<1>2. IsSeq(F) /\ \A i \in DOMAIN F : IsResourceLogs(F[i])
  BY DEF IsRequest, Received, IsSeq
<1>3. ASSUME NEW i \in At(F, "msg", 1)
      PROVE  /\ i \in DOMAIN F /\ F[i].kind = "msg" /\ F[i].no = 1 /\ IsResourceLogs(F[i])
             /\ ResourceFits(F[i], FirstUnder(f, i), D, S) /\ O[i] = NewResource(F[i], FirstUnder(f, i), D, S)
  <2>1. i \in DOMAIN F /\ F[i].kind = "msg" /\ F[i].no = 1
    BY AtFields
  <2> QED BY <1>1, <1>2, <2>1 DEF RequestFits
<1>4. ASSUME NEW g, IsResourceLogs(g), g.kind = "msg", NEW first, ResourceFits(g, first, D, S),
             NEW n, n = NewResource(g, first, D, S)
      PROVE  /\ n.kind = "msg" /\ n.no = g.no /\ IsSeq(n.fields) /\ DOMAIN n.fields = DOMAIN g.fields
             /\ At(n.fields, "msg", 2) = At(g.fields, "msg", 2)
             /\ \A j \in At(g.fields, "msg", 2) :
                   /\ IsScopeLogs(g.fields[j]) /\ g.fields[j].kind = "msg"
                   /\ ScopeFits(g.fields[j], FirstIn(g, first, j), D, S)
                   /\ n.fields[j] = NewScope(g.fields[j], FirstIn(g, first, j), D, S)
  <2> DEFINE H == g.fields
             New(j) == NewScope(H[j], FirstIn(g, first, j), D, S)
             P == [j \in DOMAIN H |-> IF j \in At(H, "msg", 2) THEN New(j) ELSE H[j]]
  <2>1. n = Msg(g.no, P)
    BY <1>4, NewResourceIs
  <2>2. n.kind = "msg" /\ n.no = g.no /\ n.fields = P
    <3> HIDE DEF P
    <3> QED BY <2>1, MsgIs
  <2>3. IsSeq(H) /\ \A j \in DOMAIN H : IsScopeLogs(H[j])
    BY <1>4 DEF IsResourceLogs, Received, IsSeq
  <2>4. ASSUME NEW j \in At(H, "msg", 2)
        PROVE  /\ j \in DOMAIN H /\ IsScopeLogs(H[j]) /\ H[j].kind = "msg" /\ H[j].no = 2
               /\ ScopeFits(H[j], FirstIn(g, first, j), D, S)
    <3>1. j \in DOMAIN H /\ H[j].kind = "msg" /\ H[j].no = 2
      BY AtFields
    <3> QED BY <1>4, <2>3, <3>1 DEF ResourceFits
  <2>5. ASSUME NEW j \in At(H, "msg", 2) PROVE New(j).kind = "msg" /\ New(j).no = 2
    <3>1. New(j) = Msg(H[j].no, FlattenSeq(NewPieces(H[j], FirstIn(g, first, j), D, S)))
      BY <2>4, NewScopeIs
    <3> QED BY <2>4, <3>1, MsgIs
  <2> HIDE DEF New
  <2>6. SameShape(H, P)
    BY <2>4, <2>5 DEF SameShape
  <2>7. At(P, "msg", 2) = At(H, "msg", 2)
    <3> HIDE DEF P
    <3> QED BY <2>6, ShapeAt
  <2>8. IsSeq(P)
    <3>1. Len(H) \in Nat /\ DOMAIN H = 1 .. Len(H)
      BY <2>3, SeqFields
    <3>2. DOMAIN P = 1 .. Len(H) /\ P = [j \in 1 .. Len(H) |-> P[j]]
      BY <3>1
    <3> HIDE DEF P
    <3> QED BY <3>1, <3>2, SeqIs
  <2>9. \A j \in At(H, "msg", 2) : P[j] = New(j)
    BY <2>4
  <2>10. DOMAIN P = DOMAIN H
    OBVIOUS
  <2> QED BY <2>2, <2>4, <2>7, <2>8, <2>9, <2>10 DEF New
<1>5. SameShape(F, O)
  <2>1. ASSUME NEW i \in DOMAIN F PROVE O[i].kind = F[i].kind /\ O[i].no = F[i].no
    <3>1. CASE i \in At(F, "msg", 1)
      BY <1>3, <1>4, <3>1
    <3>2. CASE i \notin At(F, "msg", 1)
      BY <1>1, <3>2
    <3> QED BY <3>1, <3>2
  <2> QED BY <1>1, <2>1 DEF SameShape
<1> HIDE DEF F, O
<1>6. At(O, "msg", 1) = At(F, "msg", 1)
  BY <1>5, ShapeAt
<1>7. IsSeq(O)
  <2>1. Len(F) \in Nat /\ DOMAIN F = 1 .. Len(F)
    BY <1>2, SeqFields
  <2>2. DOMAIN O = 1 .. Len(F) /\ O = [i \in 1 .. Len(F) |-> O[i]]
    BY <1>1, <2>1
  <2> QED BY <2>1, <2>2, SeqIs
<1>8. ASSUME NEW i \in At(F, "msg", 1)
      PROVE  /\ IsSeq(O[i].fields) /\ DOMAIN O[i].fields = DOMAIN F[i].fields
             /\ At(O[i].fields, "msg", 2) = At(F[i].fields, "msg", 2)
             /\ \A j \in At(F[i].fields, "msg", 2) :
                   /\ IsScopeLogs(F[i].fields[j]) /\ F[i].fields[j].kind = "msg"
                   /\ ScopeFits(F[i].fields[j], FirstIn(F[i], FirstUnder(f, i), j), D, S)
                   /\ O[i].fields[j] = NewScope(F[i].fields[j], FirstIn(F[i], FirstUnder(f, i), j), D, S)
  BY <1>3, <1>4
<1> QED BY <1>1, <1>3, <1>6, <1>7, <1>8 DEF F, O

\* The records of the new request are those that are kept.
LEMMA NewRecords ==
    ASSUME NEW f, IsRequest(f), f.kind = "msg", NEW D, NEW S, RequestFits(f, D, S), NEW out, out = NewRequest(f, D, S),
           NEW w \in Range(RequestRecords(out.fields))
    PROVE  \E i, j, k :
              /\ IsRecord(f, i, j, k) /\ NumberOf(f, i, j, k) \notin D
              /\ w.raw = NewLogRecord(f.fields[i].fields[j].fields[k], S[NumberOf(f, i, j, k)]).fields
              /\ w.body = BodyOf(w.raw) /\ w.attrs = AttrsOf(w.raw)
<1>1. /\ IsSeq(out.fields) /\ At(out.fields, "msg", 1) = At(f.fields, "msg", 1)
      /\ \A i \in At(f.fields, "msg", 1) :
            /\ IsSeq(out.fields[i].fields)
            /\ At(out.fields[i].fields, "msg", 2) = At(f.fields[i].fields, "msg", 2)
            /\ \A j \in At(f.fields[i].fields, "msg", 2) :
                  /\ IsScopeLogs(f.fields[i].fields[j]) /\ f.fields[i].fields[j].kind = "msg"
                  /\ ScopeFits(f.fields[i].fields[j], FirstIn(f.fields[i], FirstUnder(f, i), j), D, S)
                  /\ out.fields[i].fields[j] =
                       NewScope(f.fields[i].fields[j], FirstIn(f.fields[i], FirstUnder(f, i), j), D, S)
  BY NewContainers
<1>2. ASSUME NEW i \in At(f.fields, "msg", 1), NEW j \in At(f.fields[i].fields, "msg", 2)
      PROVE  /\ IsSeq(out.fields[i].fields[j].fields)
             /\ \A m \in At(out.fields[i].fields[j].fields, "msg", 2) :
                   \E k \in At(f.fields[i].fields[j].fields, "msg", 2) :
                      /\ NumberOf(f, i, j, k) \notin D
                      /\ out.fields[i].fields[j].fields[m] =
                           NewLogRecord(f.fields[i].fields[j].fields[k], S[NumberOf(f, i, j, k)])
  <2> DEFINE h == f.fields[i].fields[j]
             first == FirstIn(f.fields[i], FirstUnder(f, i), j)
             G == out.fields[i].fields[j].fields
  <2>1. IsScopeLogs(h) /\ h.kind = "msg" /\ ScopeFits(h, first, D, S) /\ G = NewScope(h, first, D, S).fields
    BY <1>1
  <2>2. \A k : NumberOf(f, i, j, k) = NumberIn(h, first, k)
    BY DEF NumberOf
  <2> HIDE DEF h, first, G
  <2>3. /\ IsSeq(G)
        /\ \A m \in At(G, "msg", 2) : \E k \in At(h.fields, "msg", 2) :
              NumberIn(h, first, k) \notin D /\ G[m] = NewLogRecord(h.fields[k], S[NumberIn(h, first, k)])
    BY <2>1, NewScopeRecords
  <2> QED BY <2>2, <2>3 DEF h, G
<1>3. RequestSeq(out)
  BY <1>1, <1>2 DEF RequestSeq, ResourceSeq
<1>4. \E i, j, m : IsRecord(out, i, j, m) /\ w = ViewOf(out, i, j, m)
  BY <1>3, ViewsAre
<1>5. PICK i, j, m : IsRecord(out, i, j, m) /\ w = ViewOf(out, i, j, m)
  BY <1>4
<1>6. i \in At(f.fields, "msg", 1) /\ j \in At(f.fields[i].fields, "msg", 2)
      /\ m \in At(out.fields[i].fields[j].fields, "msg", 2)
  BY <1>1, <1>5 DEF IsRecord, IsScope
<1>7. PICK k \in At(f.fields[i].fields[j].fields, "msg", 2) :
          /\ NumberOf(f, i, j, k) \notin D
          /\ out.fields[i].fields[j].fields[m] = NewLogRecord(f.fields[i].fields[j].fields[k], S[NumberOf(f, i, j, k)])
  BY <1>2, <1>6
<1>8. IsRecord(f, i, j, k)
  BY <1>6, <1>7 DEF IsRecord, IsScope
<1>9. w.raw = out.fields[i].fields[j].fields[m].fields /\ w.body = BodyOf(w.raw) /\ w.attrs = AttrsOf(w.raw)
  <2> DEFINE F == out.fields[i].fields[j].fields[m].fields
             namespace == NamespaceOf(out.fields[i].fields)
             service == ServiceNameOf(out.fields[i].fields)
  <2>1. w = RecordView(F, namespace, service)
    BY <1>5 DEF ViewOf
  <2> HIDE DEF F, namespace, service
  <2>2. w.raw = F /\ w.body = BodyOf(F) /\ w.attrs = AttrsOf(F)
    BY <2>1, ViewIs
  <2> QED BY <2>2 DEF F
<1> QED BY <1>7, <1>8, <1>9

\* A string of the new request that redaction looks at is one of the old
\* request with masks put in, at the same path, under the same rules.
LEMMA NewStrings ==
    ASSUME NEW f, IsRequest(f), f.kind = "msg", RequestOk(f.fields), NEW D, NEW S, Decided(f, S),
           NEW out, out = NewRequest(f, D, S), NEW w \in Range(RequestRecords(out.fields)), NEW p \in Paths(w)
    PROVE  /\ p \in Range(w.attrs) => p # w.body
           /\ \E n \in 1 .. Len(RequestRecords(f.fields)) : \E v :
                 /\ v = RequestRecords(f.fields)[n] /\ SpansOfView(v, RedactRecord(v)) /\ p \in Paths(v)
                 /\ IsStr(StrAt(v.raw, p)) /\ Fits(S[n], p, StrAt(v.raw, p).text)
                 /\ StrAt(w.raw, p) = NewString(StrAt(v.raw, p), S[n], p)
                 /\ RulesOf(w, p) = RulesOf(v, p)
<1>1. RequestFits(f, D, S)
  BY DecisionsFit
<1>2. PICK i, j, k :
        /\ IsRecord(f, i, j, k)
        /\ w.raw = NewLogRecord(f.fields[i].fields[j].fields[k], S[NumberOf(f, i, j, k)]).fields
        /\ w.body = BodyOf(w.raw) /\ w.attrs = AttrsOf(w.raw)
  BY <1>1, NewRecords
<1> DEFINE r == f.fields[i].fields[j].fields[k]
           n == NumberOf(f, i, j, k)
           spans == S[n]
           G == NewLogRecord(r, spans).fields
           namespace == NamespaceOf(f.fields[i].fields)
           service == ServiceNameOf(f.fields[i].fields)
           v == RecordView(r.fields, namespace, service)
<1>3. IsLogRecord(r) /\ r.kind = "msg" /\ LogRecordOk(r.fields)
  <2>1. IsRecord(f, i, j, k)
    BY <1>2
  <2> HIDE DEF n, spans, G, namespace, service, v
  <2> QED BY ONLY IsRequest(f), f.kind = "msg", RequestOk(f.fields), <2>1, RecordIs
<1>4. n \in 1 .. Len(RequestRecords(f.fields)) /\ RequestRecords(f.fields)[n] = v
  <2>1. RequestSeq(f)
    BY RequestIsSeq
  <2> HIDE DEF n, v
  <2>2. NumberOf(f, i, j, k) \in 1 .. Len(RequestRecords(f.fields))
        /\ RequestRecords(f.fields)[NumberOf(f, i, j, k)] = ViewOf(f, i, j, k)
    BY <1>2, <2>1, Numbered
  <2> QED BY <2>2 DEF n, v, ViewOf
<1>5. RecordFits(r.fields, spans)
  BY <1>2, DecidedFits
<1>6. w.raw = G /\ w.body = BodyOf(G) /\ w.attrs = AttrsOf(G)
  BY <1>2
<1> HIDE DEF r, n, spans, G, namespace, service
<1>7. SpansOfView(v, RedactRecord(v))
  BY <1>3, RedactRecordIs
<1>8. RecordView(G, namespace, service).body = v.body /\ RecordView(G, namespace, service).attrs = v.attrs
  BY <1>3, <1>5, ViewKept DEF G
<1>9. v.raw = r.fields /\ v.body = BodyOf(r.fields) /\ v.attrs = AttrsOf(r.fields)
      /\ w.body = v.body /\ w.attrs = v.attrs
  BY <1>6, <1>8, ViewIs
<1>10. p \in Paths(v)
  BY <1>9 DEF Paths
<1>11. /\ IsStr(StrAt(r.fields, p)) /\ Fits(spans, p, StrAt(r.fields, p).text)
       /\ StrAt(G, p) = NewString(StrAt(r.fields, p), spans, p)
       /\ p # BodyOf(r.fields) => AttrKey(G[p[1]].fields) = AttrKey(r.fields[p[1]].fields)
       /\ p \in Range(AttrsOf(r.fields)) => p # BodyOf(r.fields)
  BY <1>3, <1>5, <1>10, PathStrings DEF G
<1> HIDE DEF v
<1>12. RulesOf(w, p) = RulesOf(v, p)
  <2>1. CASE p = v.body
    BY <1>9, <2>1 DEF RulesOf
  <2>2. CASE p # v.body
    <3>1. KeyOf(w, p) = KeyOf(v, p)
      BY <1>6, <1>9, <1>11, <2>2 DEF KeyOf
    <3> QED BY <1>9, <2>2, <3>1 DEF RulesOf
  <2> QED BY <2>1, <2>2
<1>13. StrAt(w.raw, p) = NewString(StrAt(v.raw, p), S[n], p)
  BY <1>6, <1>9, <1>11 DEF spans
<1>14. p \in Range(w.attrs) => p # w.body
  BY <1>9, <1>11
<1> QED BY <1>4, <1>7, <1>9, <1>10, <1>11, <1>12, <1>13, <1>14 DEF spans

\* A message none of whose fields changes is left as it is.
LEMMA RebuiltNone ==
    ASSUME NEW f, NEW child, \A i \in DOMAIN child : child[i] = Unchanged
    PROVE  Rebuilt(f, child) = Unchanged
BY DEF Rebuilt

\* Without spans nothing in a record changes.
LEMMA NoScalar == ASSUME NEW f, NEW path PROVE BuildScalar(f, <<>>, path) = Unchanged
<1> DEFINE none == <<>>
           eff == EffectiveSpans(none, path)
<1>1. DOMAIN none = 1 .. 0 /\ Here(none, path) = {}
  BY DEF Here
<1>2. {none[n] : n \in Here(none, path)} = {}
  BY <1>1
<1> HIDE DEF none
<1>3. eff \in Seq({none[n] : n \in Here(none, path)})
  BY <1>1, EffectiveIs
<1>4. eff \in Seq({})
  BY <1>2, <1>3
<1> HIDE DEF eff
<1>5. eff = <<>>
  BY <1>4
<1> QED BY <1>5 DEF BuildScalar, eff, none

\* The same for each message in a record, and for the record.
LEMMA NoAnyValue == ASSUME NEW f, NEW path PROVE BuildAnyValue(f, <<>>, path) = Unchanged
<1> DEFINE child == [i \in DOMAIN f.fields |->
                       IF i \in At(f.fields, "str", 1) THEN BuildScalar(f.fields[i], <<>>, Append(path, i)) ELSE Unchanged]
<1>1. \A i \in DOMAIN child : child[i] = Unchanged
  BY NoScalar
<1>2. BuildAnyValue(f, <<>>, path) = Rebuilt(f, child)
  BY DEF BuildAnyValue
<1> HIDE DEF child
<1> QED BY <1>1, <1>2, RebuiltNone

\* The same for an attribute.
LEMMA NoKeyValue == ASSUME NEW f, NEW path PROVE BuildKeyValue(f, <<>>, path) = Unchanged
<1> DEFINE child == [i \in DOMAIN f.fields |->
                       IF i \in At(f.fields, "msg", 2) THEN BuildAnyValue(f.fields[i], <<>>, Append(path, i)) ELSE Unchanged]
<1>1. \A i \in DOMAIN child : child[i] = Unchanged
  BY NoAnyValue
<1>2. BuildKeyValue(f, <<>>, path) = Rebuilt(f, child)
  BY DEF BuildKeyValue
<1> HIDE DEF child
<1> QED BY <1>1, <1>2, RebuiltNone

\* The same for a record.
LEMMA NoRecord == ASSUME NEW f PROVE BuildRecord(f, FALSE, <<>>) = Unchanged
<1> DEFINE child == [i \in DOMAIN f.fields |->
                       IF i \in At(f.fields, "msg", 5) THEN BuildAnyValue(f.fields[i], <<>>, <<i>>)
                       ELSE IF i \in At(f.fields, "msg", 6) THEN BuildKeyValue(f.fields[i], <<>>, <<i>>)
                       ELSE Unchanged]
<1>1. \A i \in DOMAIN child : child[i] = Unchanged
  BY NoAnyValue, NoKeyValue
<1>2. BuildRecord(f, FALSE, <<>>) = Rebuilt(f, child)
  BY DEF BuildRecord
<1> HIDE DEF child
<1> QED BY <1>1, <1>2, RebuiltNone

\* Without drops and spans the request is built as it came.
LEMMA NothingNew ==
    ASSUME NEW f, IsRequest(f), f.kind = "msg", NEW S, \A n \in 1 .. Len(RequestRecords(f.fields)) : S[n] = <<>>
    PROVE  NewRequest(f, {}, S) = f
<1>1. ASSUME NEW i, NEW j, NEW k, IsRecord(f, i, j, k) PROVE S[NumberOf(f, i, j, k)] = <<>>
  BY <1>1, RequestIsSeq, Numbered
<1>2. ASSUME NEW i, NEW j, IsScope(f, i, j)
      PROVE  BuildScope(f.fields[i].fields[j], FirstIn(f.fields[i], FirstUnder(f, i), j), {}, S) = Unchanged
  <2> DEFINE h == f.fields[i].fields[j]
             first == FirstIn(f.fields[i], FirstUnder(f, i), j)
             child == [k \in DOMAIN h.fields |->
                        LET n == RecIdx(first, Counts(h, 2, OneRecord), k)
                        IN  IF k \in At(h.fields, "msg", 2) THEN BuildRecord(h.fields[k], n \in {}, S[n]) ELSE Unchanged]
  <2>1. ASSUME NEW k \in At(h.fields, "msg", 2) PROVE S[RecIdx(first, Counts(h, 2, OneRecord), k)] = <<>>
    <3>1. IsRecord(f, i, j, k)
      BY <1>2 DEF IsRecord
    <3>2. S[NumberOf(f, i, j, k)] = <<>>
      BY <1>1, <3>1
    <3> QED BY <3>2 DEF NumberOf, NumberIn
  <2>2. BuildScope(h, first, {}, S) = Rebuilt(h, child)
    BY DEF BuildScope
  <2> HIDE DEF h, first
  <2>3. ASSUME NEW k \in DOMAIN child PROVE child[k] = Unchanged
    <3> DEFINE n == RecIdx(first, Counts(h, 2, OneRecord), k)
    <3>1. child[k] = IF k \in At(h.fields, "msg", 2) THEN BuildRecord(h.fields[k], n \in {}, S[n]) ELSE Unchanged
      OBVIOUS
    <3> HIDE DEF child
    <3>2. CASE k \in At(h.fields, "msg", 2)
      <4>1. S[n] = <<>>
        BY <2>1, <3>2
      <4> HIDE DEF n
      <4>2. (n \in {}) = FALSE
        OBVIOUS
      <4>3. BuildRecord(h.fields[k], n \in {}, S[n]) = BuildRecord(h.fields[k], FALSE, <<>>)
        BY <4>1, <4>2
      <4> QED BY <3>1, <3>2, <4>3, NoRecord
    <3>3. CASE k \notin At(h.fields, "msg", 2)
      BY <3>1, <3>3
    <3> QED BY <3>2, <3>3
  <2> HIDE DEF child
  <2>4. Rebuilt(h, child) = Unchanged
    BY <2>3, RebuiltNone
  <2> QED BY <2>2, <2>4 DEF h, first
<1>3. ASSUME NEW i \in At(f.fields, "msg", 1)
      PROVE  BuildResource(f.fields[i], FirstUnder(f, i), {}, S) = Unchanged
  <2> DEFINE g == f.fields[i]
             first == FirstUnder(f, i)
             child == [j \in DOMAIN g.fields |->
                        IF j \in At(g.fields, "msg", 2)
                        THEN BuildScope(g.fields[j], RecIdx(first, Counts(g, 2, RecordsOf), j), {}, S) ELSE Unchanged]
  <2>1. ASSUME NEW j \in At(g.fields, "msg", 2)
        PROVE  BuildScope(g.fields[j], RecIdx(first, Counts(g, 2, RecordsOf), j), {}, S) = Unchanged
    BY <1>2 DEF IsScope, FirstIn
  <2>2. BuildResource(g, first, {}, S) = Rebuilt(g, child)
    BY DEF BuildResource
  <2> HIDE DEF g, first
  <2>3. \A j \in DOMAIN child : child[j] = Unchanged
    BY <2>1
  <2> HIDE DEF child
  <2>4. Rebuilt(g, child) = Unchanged
    BY <2>3, RebuiltNone
  <2> QED BY <2>2, <2>4 DEF g, first
<1> DEFINE child == [i \in DOMAIN f.fields |->
                       IF i \in At(f.fields, "msg", 1)
                       THEN BuildResource(f.fields[i], RecIdx(1, Counts(f, 1, RecordsUnder), i), {}, S) ELSE Unchanged]
<1>4. BuildRequest(f, {}, S) = Rebuilt(f, child)
  BY DEF BuildRequest
<1>5. \A i \in DOMAIN child : child[i] = Unchanged
  BY <1>3 DEF FirstUnder
<1> HIDE DEF child
<1>6. Rebuilt(f, child) = Unchanged
  BY <1>5, RebuiltNone
<1> QED BY <1>4, <1>6 DEF NewRequest, After, Unchanged

\* Governed, container by container.
RecordKept(rl, rec) == sample_verdict(RecordView(rec.fields, NamespaceOf(rl.fields), ServiceNameOf(rl.fields)))
GovernedScope(rl, sl) ==
    Msg(2, FlattenSeq([k \in DOMAIN sl.fields |->
        IF k \in At(sl.fields, "msg", 2) THEN (IF RecordKept(rl, sl.fields[k]) THEN <<sl.fields[k]>> ELSE <<>>)
        ELSE <<sl.fields[k]>>]))
GovernedResource(rl) ==
    Msg(1, FlattenSeq([j \in DOMAIN rl.fields |->
        IF j \in At(rl.fields, "msg", 2) THEN <<GovernedScope(rl, rl.fields[j])>> ELSE <<rl.fields[j]>>]))

\* They are what Governed is made of.
LEMMA GovernedIs ==
    ASSUME NEW f
    PROVE  Governed(f) = Msg(0, FlattenSeq([i \in DOMAIN f.fields |->
               IF i \in At(f.fields, "msg", 1) THEN <<GovernedResource(f.fields[i])>> ELSE <<f.fields[i]>>]))
BY DEF Governed, GovernedResource, GovernedScope, RecordKept, NamespaceOf, ServiceNameOf

\* A message whose parts are one field each has these fields.
LEMMA OneEach ==
    ASSUME NEW F, IsSeq(F), NEW x, DOMAIN x = DOMAIN F, x = [i \in DOMAIN F |-> x[i]]
    PROVE  FlattenSeq([i \in DOMAIN F |-> <<x[i]>>]) = x
<1> DEFINE N == Len(F)
           A == {x[i] : i \in 1 .. N}
           ss == [i \in 1 .. N |-> <<x[i]>>]
<1>1. N \in Nat /\ DOMAIN F = 1 .. N
  BY SeqFields
<1>2. x \in [1 .. N -> A]
  BY <1>1
<1>3. ss = [i \in 1 .. N |-> <<x[i]>>]
  OBVIOUS
<1> HIDE DEF N, A, ss
<1>4. FlattenSeq(ss) = x
  BY ONLY <1>1, <1>2, <1>3, FlattenOnes, Zenon
<1> QED BY <1>1, <1>4 DEF ss

\* The records that the policy drops, taken out one by one where they stand,
\* are those of the numbers that the sampling stage puts down.
LEMMA KeptIsGoverned ==
    ASSUME NEW f, IsRequest(f), f.kind = "msg", f.no = 0,
           NEW D, D = {n \in 1 .. Len(RequestRecords(f.fields)) : ~sample_verdict(RequestRecords(f.fields)[n])}
    PROVE  KeptRequest(f, D) = Governed(f)
<1>1. RequestSeq(f)
  BY RequestIsSeq
<1>2. ASSUME NEW i, NEW j, NEW k, IsRecord(f, i, j, k)
      PROVE  NumberOf(f, i, j, k) \in D <=> ~RecordKept(f.fields[i], f.fields[i].fields[j].fields[k])
  <2> DEFINE n == NumberOf(f, i, j, k)
             recs == RequestRecords(f.fields)
             v == ViewOf(f, i, j, k)
  <2> HIDE DEF n, v
  <2>1. NumberOf(f, i, j, k) \in 1 .. Len(recs) /\ recs[NumberOf(f, i, j, k)] = ViewOf(f, i, j, k)
    BY <1>1, <1>2, Numbered
  <2>2. n \in 1 .. Len(recs) /\ recs[n] = v
    BY <2>1 DEF n, v
  <2>3. sample_verdict(v) <=> RecordKept(f.fields[i], f.fields[i].fields[j].fields[k])
    BY DEF v, ViewOf, RecordKept
  <2> HIDE DEF recs
  <2>4. D = {m \in 1 .. Len(recs) : ~sample_verdict(recs[m])}
    BY DEF recs
  <2>5. n \in D <=> ~sample_verdict(recs[n])
    BY <2>2, <2>4
  <2> QED BY <2>2, <2>3, <2>5 DEF n
<1>3. ASSUME NEW i, NEW j, IsScope(f, i, j)
      PROVE  KeptScope(f.fields[i].fields[j], FirstIn(f.fields[i], FirstUnder(f, i), j), D)
               = GovernedScope(f.fields[i], f.fields[i].fields[j])
  <2> DEFINE rl == f.fields[i]
             h == rl.fields[j]
             first == FirstIn(rl, FirstUnder(f, i), j)
             P == [k \in DOMAIN h.fields |->
                     IF k \in At(h.fields, "msg", 2) THEN (IF RecordKept(rl, h.fields[k]) THEN <<h.fields[k]>> ELSE <<>>)
                     ELSE <<h.fields[k]>>]
  <2>1. h.no = 2
    BY <1>3, AtFields DEF IsScope
  <2>2. ASSUME NEW k \in At(h.fields, "msg", 2) PROVE NumberIn(h, first, k) \in D <=> ~RecordKept(rl, h.fields[k])
    <3>1. IsRecord(f, i, j, k)
      BY <1>3 DEF IsRecord
    <3> QED BY <1>2, <3>1 DEF NumberOf
  <2> HIDE DEF h, rl, first
  <2>3. KeptPieces(h, first, D) = P
    <3>1. ASSUME NEW k \in DOMAIN h.fields
          PROVE  P[k] = IF k \in At(h.fields, "msg", 2) /\ NumberIn(h, first, k) \in D THEN <<>> ELSE <<h.fields[k]>>
      <4>1. CASE k \in At(h.fields, "msg", 2)
        BY <2>2, <4>1
      <4>2. CASE k \notin At(h.fields, "msg", 2)
        BY <4>2
      <4> QED BY <4>1, <4>2
    <3>2. P = [k \in DOMAIN h.fields |-> P[k]]
      OBVIOUS
    <3> HIDE DEF P
    <3> QED BY <3>1, <3>2 DEF KeptPieces
  <2>4. GovernedScope(rl, h) = Msg(2, FlattenSeq(P))
    BY DEF GovernedScope
  <2> HIDE DEF P
  <2>5. KeptScope(h, first, D) = GovernedScope(rl, h)
    BY <2>1, <2>3, <2>4 DEF KeptScope
  <2> QED BY <2>5 DEF h, rl, first
<1>4. ASSUME NEW i \in At(f.fields, "msg", 1)
      PROVE  KeptResource(f.fields[i], FirstUnder(f, i), D) = GovernedResource(f.fields[i])
  <2> DEFINE g == f.fields[i]
             F == g.fields
             x == [j \in DOMAIN F |->
                     IF j \in At(F, "msg", 2) THEN KeptScope(F[j], FirstIn(g, FirstUnder(f, i), j), D) ELSE F[j]]
             ss == [j \in DOMAIN F |-> IF j \in At(F, "msg", 2) THEN <<GovernedScope(g, F[j])>> ELSE <<F[j]>>]
  <2>1. IsSeq(F) /\ g.no = 1
    BY <1>1, AtFields DEF RequestSeq, ResourceSeq
  <2>2. ASSUME NEW j \in DOMAIN F PROVE ss[j] = <<x[j]>>
    <3>1. CASE j \in At(F, "msg", 2)
      <4>1. x[j] = KeptScope(F[j], FirstIn(g, FirstUnder(f, i), j), D) /\ ss[j] = <<GovernedScope(g, F[j])>>
        BY <3>1
      <4>2. IsScope(f, i, j)
        BY <3>1 DEF IsScope
      <4>3. KeptScope(F[j], FirstIn(g, FirstUnder(f, i), j), D) = GovernedScope(g, F[j])
        BY <1>3, <4>2
      <4> QED BY <4>1, <4>3
    <3>2. CASE j \notin At(F, "msg", 2)
      BY <3>2
    <3> QED BY <3>1, <3>2
  <2>3. DOMAIN x = DOMAIN F /\ x = [j \in DOMAIN F |-> x[j]]
    OBVIOUS
  <2>4. ss = [j \in DOMAIN F |-> ss[j]]
    OBVIOUS
  <2>5. KeptResource(g, FirstUnder(f, i), D) = Msg(g.no, x)
    BY DEF KeptResource
  <2>6. GovernedResource(g) = Msg(1, FlattenSeq(ss))
    BY DEF GovernedResource
  <2> HIDE DEF x, ss, F
  <2>7. ss = [j \in DOMAIN F |-> <<x[j]>>]
    BY <2>2, <2>4
  <2>8. FlattenSeq(ss) = x
    BY <2>1, <2>3, <2>7, OneEach
  <2> QED BY <2>1, <2>5, <2>6, <2>8
<1> DEFINE F == f.fields
           x == [i \in DOMAIN F |-> IF i \in At(F, "msg", 1) THEN KeptResource(F[i], FirstUnder(f, i), D) ELSE F[i]]
           ss == [i \in DOMAIN F |-> IF i \in At(F, "msg", 1) THEN <<GovernedResource(F[i])>> ELSE <<F[i]>>]
<1>5. IsSeq(F)
  BY <1>1 DEF RequestSeq
<1>6. ASSUME NEW i \in DOMAIN F PROVE ss[i] = <<x[i]>>
  <2>1. CASE i \in At(F, "msg", 1)
    <3>1. x[i] = KeptResource(F[i], FirstUnder(f, i), D) /\ ss[i] = <<GovernedResource(F[i])>>
      BY <2>1
    <3>2. KeptResource(F[i], FirstUnder(f, i), D) = GovernedResource(F[i])
      BY <1>4, <2>1
    <3> QED BY <3>1, <3>2
  <2>2. CASE i \notin At(F, "msg", 1)
    BY <2>2
  <2> QED BY <2>1, <2>2
<1>7. DOMAIN x = DOMAIN F /\ x = [i \in DOMAIN F |-> x[i]] /\ ss = [i \in DOMAIN F |-> ss[i]]
  OBVIOUS
<1>8. KeptRequest(f, D) = Msg(0, x)
  BY DEF KeptRequest
<1>9. Governed(f) = Msg(0, FlattenSeq(ss))
  BY GovernedIs
<1> HIDE DEF x, ss, F
<1>10. ss = [i \in DOMAIN F |-> <<x[i]>>]
  BY <1>6, <1>7
<1>11. FlattenSeq(ss) = x
  BY <1>5, <1>7, <1>10, OneEach
<1> QED BY <1>8, <1>9, <1>11

-----------------------------------------------------------------------------
(* Counting. *)

\* How many of the first n records stay.
Left(D, n) == Cardinality((1 .. n) \ D)

\* Each record that is not dropped counts for one.
LEMMA LeftIs ==
    ASSUME NEW D
    PROVE  /\ \A n \in Nat : Left(D, n) \in Nat
           /\ Left(D, 0) = 0
           /\ \A n \in Nat : Left(D, n + 1) = Left(D, n) + (IF n + 1 \in D THEN 0 ELSE 1)
<1>1. ASSUME NEW n \in Nat PROVE IsFiniteSet((1 .. n) \ D) /\ Left(D, n) \in Nat
  <2>1. IsFiniteSet(1 .. n)
    BY FS_Interval
  <2>2. IsFiniteSet((1 .. n) \ D)
    BY <2>1, FS_Difference
  <2> QED BY <2>2, FS_CardinalityType DEF Left
<1>2. Left(D, 0) = 0
  <2>1. (1 .. 0) \ D = {}
    OBVIOUS
  <2> QED BY <2>1, FS_EmptySet DEF Left
<1>3. ASSUME NEW n \in Nat PROVE Left(D, n + 1) = Left(D, n) + (IF n + 1 \in D THEN 0 ELSE 1)
  <2> DEFINE T == (1 .. n) \ D
             U == (1 .. n + 1) \ D
  <2>1. IsFiniteSet(T) /\ Cardinality(T) \in Nat
    BY <1>1 DEF Left
  <2>2. CASE n + 1 \in D
    <3>1. U = T
      BY <2>2
    <3> QED BY <2>1, <2>2, <3>1 DEF Left
  <2>3. CASE n + 1 \notin D
    <3>1. U = T \cup {n + 1} /\ n + 1 \notin T
      BY <2>3
    <3>2. Cardinality(U) = Cardinality(T) + 1
      BY <2>1, <3>1, FS_AddElement
    <3> QED BY <2>3, <3>2 DEF Left
  <2> QED BY <2>2, <2>3
<1> QED BY <1>1, <1>2, <1>3

\* Each e[i] is what D leaves of the c[i] records from one number on.
Passing(D, first, N, c, e) ==
    /\ first \in Nat \ {0} /\ N \in Nat /\ c \in [1 .. N -> Nat] /\ e \in [1 .. N -> Nat]
    /\ \A i \in 1 .. N :
          e[i] = Left(D, (RecIdx(first, c, i) + c[i]) - 1) - Left(D, RecIdx(first, c, i) - 1)

\* When the children of a container keep what is left of theirs, so does it.
LEMMA LeftThrough ==
    ASSUME NEW D, NEW first, NEW N, NEW c, NEW e, Passing(D, first, N, c, e)
    PROVE  SumOf(e) = Left(D, (first + SumOf(c)) - 1) - Left(D, first - 1)
<1>0. /\ first \in Nat \ {0} /\ N \in Nat /\ c \in [1 .. N -> Nat] /\ e \in [1 .. N -> Nat]
      /\ \A i \in 1 .. N :
            e[i] = Left(D, (RecIdx(first, c, i) + c[i]) - 1) - Left(D, RecIdx(first, c, i) - 1)
  BY DEF Passing
<1> USE <1>0
<1> DEFINE P(n) == Upto(e, n) = Left(D, (first + Upto(c, n)) - 1) - Left(D, first - 1)
           Q == {n \in Nat : n <= N => P(n)}
<1>1. /\ \A i \in 0 .. N : Upto(c, i) \in Nat /\ Upto(e, i) \in Nat
      /\ Upto(c, 0) = 0 /\ Upto(c, N) = SumOf(c) /\ Upto(e, 0) = 0 /\ Upto(e, N) = SumOf(e)
      /\ \A i \in 1 .. N : Upto(c, i) = Upto(c, i - 1) + c[i] /\ Upto(e, i) = Upto(e, i - 1) + e[i]
  BY SumPrefix
<1>2. \A n \in Nat : Left(D, n) \in Nat
  BY LeftIs
<1>3. \A i \in 1 .. N : RecIdx(first, c, i) = first + Upto(c, i - 1)
  BY DEF RecIdx, Upto
<1>4. 0 \in Q
  <2>1. first + Upto(c, 0) - 1 = first - 1 /\ first - 1 \in Nat
    BY <1>1
  <2>2. Left(D, first - 1) \in Nat
    BY <1>2, <2>1
  <2> QED BY <1>1, <2>1, <2>2
<1>5. ASSUME NEW n \in Q PROVE n + 1 \in Q
  <2> SUFFICES ASSUME n + 1 <= N PROVE P(n + 1)
    OBVIOUS
  <2> DEFINE i == n + 1
  <2>1. i \in 1 .. N /\ i - 1 = n /\ n \in 0 .. N /\ P(n)
    OBVIOUS
  <2>2. Upto(c, i) = Upto(c, n) + c[i] /\ Upto(e, i) = Upto(e, n) + e[i] /\ RecIdx(first, c, i) = first + Upto(c, n)
    BY <1>1, <1>3, <2>1
  <2>3. Upto(c, n) \in Nat /\ c[i] \in Nat /\ Upto(e, n) \in Nat /\ e[i] \in Nat
    BY <1>1, <2>1
  <2> DEFINE a == (first + Upto(c, n)) - 1
             b == (RecIdx(first, c, i) + c[i]) - 1
  <2>4. e[i] = Left(D, b) - Left(D, a)
    BY <2>1, <2>2
  <2>5. a \in Nat /\ b \in Nat /\ first - 1 \in Nat /\ b = (first + Upto(c, i)) - 1
    BY <2>2, <2>3
  <2>6. Left(D, a) \in Nat /\ Left(D, b) \in Nat /\ Left(D, first - 1) \in Nat
    BY <1>2, <2>5
  <2>7. Upto(e, n) = Left(D, a) - Left(D, first - 1)
    BY <2>1
  <2>8. Upto(e, i) = Left(D, b) - Left(D, first - 1)
    <3> HIDE DEF a, b, i
    <3> QED BY <2>2, <2>3, <2>4, <2>6, <2>7
  <2> QED BY <2>5, <2>8
<1>6. Q = Nat
  <2> HIDE DEF P
  <2>1. Q \in SUBSET Nat
    OBVIOUS
  <2> HIDE DEF Q
  <2> QED BY <1>4, <1>5, <2>1, NatInd
<1>7. P(N)
  <2> HIDE DEF P
  <2>1. N \in Q
    <3> HIDE DEF Q
    <3> QED BY <1>6
  <2> QED BY <2>1
<1> QED BY <1>1, <1>7

\* The number of records in a sequence of fields, field by field.
RecordMarks(F) == [m \in DOMAIN F |-> IF m \in At(F, "msg", 2) THEN 1 ELSE 0]
RecordsIn(F) == SumOf(RecordMarks(F))

\* It is that of a scope with these fields.
LEMMA RecordsOfIs == ASSUME NEW h PROVE RecordsOf(h) = RecordsIn(h.fields) /\ Counts(h, 2, OneRecord) = RecordMarks(h.fields)
BY DEF RecordsOf, RecordsIn, RecordMarks, Counts, OneRecord

\* The number of records grows field by field.
LEMMA RecordsAppend ==
    ASSUME NEW A, NEW F \in Seq(A), NEW x
    PROVE  /\ RecordsIn(F) \in Nat
           /\ RecordsIn(Append(F, x)) = RecordsIn(F) + (IF x.kind = "msg" /\ x.no = 2 THEN 1 ELSE 0)
<1> DEFINE N == Len(F)
           G == Append(F, x)
           y == IF x.kind = "msg" /\ x.no = 2 THEN 1 ELSE 0
           s == RecordMarks(F)
           t == RecordMarks(G)
<1>1. N \in Nat /\ DOMAIN F = 1 .. N
  OBVIOUS
<1>2. DOMAIN G = 1 .. N + 1 /\ G[N + 1] = x /\ \A m \in 1 .. N : G[m] = F[m]
  OBVIOUS
<1>3. s \in Seq(Nat) /\ Len(s) = N
  <2>1. \A m \in 1 .. N : s[m] \in Nat
    BY <1>1 DEF RecordMarks
  <2>2. DOMAIN s = 1 .. N /\ s = [m \in 1 .. N |-> s[m]]
    BY <1>1 DEF RecordMarks
  <2> HIDE DEF s, N
  <2> QED BY <1>1, <2>1, <2>2
<1>4. y \in Nat
  OBVIOUS
<1>5. t = Append(s, y)
  <2> HIDE DEF N, G, y
  <2>1. ASSUME NEW m \in 1 .. N + 1 PROVE t[m] = IF G[m].kind = "msg" /\ G[m].no = 2 THEN 1 ELSE 0
    <3>1. m \in DOMAIN G
      BY <1>2
    <3>2. t[m] = IF m \in At(G, "msg", 2) THEN 1 ELSE 0
      BY <3>1 DEF RecordMarks
    <3>3. m \in At(G, "msg", 2) <=> G[m].kind = "msg" /\ G[m].no = 2
      BY <3>1, AtFields
    <3> QED BY <3>2, <3>3
  <2>2. \A m \in 1 .. N : s[m] = IF F[m].kind = "msg" /\ F[m].no = 2 THEN 1 ELSE 0
    BY <1>1, AtFields DEF RecordMarks
  <2>3. t[N + 1] = y /\ \A m \in 1 .. N : t[m] = s[m]
    BY <1>1, <1>2, <2>1, <2>2 DEF y
  <2>4. DOMAIN t = 1 .. N + 1 /\ t = [m \in 1 .. N + 1 |-> t[m]]
    BY <1>2 DEF RecordMarks
  <2> HIDE DEF s, t
  <2> DEFINE a == Append(s, y)
  <2>5. DOMAIN a = 1 .. N + 1 /\ a[N + 1] = y /\ (\A m \in 1 .. N : a[m] = s[m]) /\ a = [m \in DOMAIN a |-> a[m]]
    <3>1. a \in Seq(Nat) /\ Len(a) = N + 1 /\ a[N + 1] = y /\ \A m \in 1 .. N : a[m] = s[m]
      BY <1>1, <1>3, <1>4
    <3> HIDE DEF a
    <3>2. a = [m \in 1 .. Len(a) |-> a[m]] /\ DOMAIN a = 1 .. Len(a)
      BY <3>1
    <3> QED BY <3>1, <3>2
  <2> HIDE DEF a
  <2>6. \A m \in 1 .. N + 1 : t[m] = a[m]
    BY <1>1, <2>3, <2>5
  <2>7. t = a
    BY <2>4, <2>5, <2>6
  <2> QED BY <2>7 DEF a
<1> HIDE DEF s, t, y
<1>6. SumOf(s) \in Nat /\ SumOf(Append(s, y)) = SumOf(s) + y
  BY <1>3, <1>4, SumAppend
<1> QED BY <1>5, <1>6 DEF RecordsIn, s, t, y

\* A scope that is built again has the records that are left of its own.
LEMMA ScopeLeft ==
    ASSUME NEW h, IsScopeLogs(h), h.kind = "msg", NEW first \in Nat \ {0}, NEW D, NEW S, ScopeFits(h, first, D, S)
    PROVE  /\ RecordsOf(h) \in Nat
           /\ RecordsOf(NewScope(h, first, D, S)) = Left(D, (first + RecordsOf(h)) - 1) - Left(D, first - 1)
<1> DEFINE F == h.fields
           N == Len(F)
           ss == NewPieces(h, first, D, S)
           c == RecordMarks(F)
           Is(k) == k \in At(F, "msg", 2)
           Gone(k) == Is(k) /\ NumberIn(h, first, k) \in D
           Field(k) == NewField(h, first, S, k)
           A == {Field(k) : k \in 1 .. N}
           U(i) == Upto(c, i)
<1>1. N \in Nat /\ DOMAIN F = 1 .. N
  <2>1. IsSeq(F)
    BY DEF IsScopeLogs, Received, IsSeq
  <2> QED BY <2>1, SeqFields
<1>2. /\ NewScope(h, first, D, S).fields = FlattenSeq(ss)
      /\ \A k \in DOMAIN F : Gone(k) \/ LogRecordAs(F[k], Field(k))
  BY NewScopeIs, MsgIs
<1>3. ss = [k \in 1 .. N |-> IF Gone(k) THEN <<>> ELSE <<Field(k)>>]
  BY <1>1 DEF NewPieces
<1>4. ss \in [1 .. N -> Seq(A)] /\ \A k \in 1 .. N : ss[k] = IF Gone(k) THEN <<>> ELSE <<Field(k)>>
  <2> HIDE DEF ss, N, Gone, Field
  <2>1. ASSUME NEW k \in 1 .. N PROVE (IF Gone(k) THEN <<>> ELSE <<Field(k)>>) \in Seq(A)
    <3>1. Field(k) \in A
      OBVIOUS
    <3> HIDE DEF A
    <3>2. <<>> \in Seq(A)
      OBVIOUS
    <3>3. <<Field(k)>> \in Seq(A)
      BY <3>1
    <3> QED BY <3>2, <3>3
  <2> HIDE DEF A
  <2> QED BY <1>3, <2>1
<1>5. c \in [1 .. N -> Nat] /\ \A k \in 1 .. N : c[k] = IF Is(k) THEN 1 ELSE 0
  BY <1>1 DEF RecordMarks
<1>6. RecordsOf(h) = SumOf(c) /\ Counts(h, 2, OneRecord) = c
  BY RecordsOfIs DEF RecordsIn
<1>7. \A k : NumberIn(h, first, k) = first + U(k - 1)
  BY <1>6 DEF NumberIn, RecIdx, Upto
<1>8. ASSUME NEW k \in 1 .. N, ~Gone(k) PROVE Field(k).kind = F[k].kind /\ Field(k).no = F[k].no
  <2>1. LogRecordAs(F[k], Field(k))
    BY <1>1, <1>2, <1>8
  <2> HIDE DEF Field
  <2> QED BY <2>1 DEF LogRecordAs, Like
<1>9. ASSUME NEW k \in 1 .. N PROVE Is(k) <=> F[k].kind = "msg" /\ F[k].no = 2
  BY <1>1, AtFields
<1> HIDE DEF N, ss, A, Is, Field, F
<1>10. \E f : Flattens(f, ss, N, A) /\ FlattenSeq(ss) = f[N]
  BY <1>1, <1>4, FlattenIs
<1>11. PICK f : Flattens(f, ss, N, A) /\ FlattenSeq(ss) = f[N]
  BY <1>10
<1>12. /\ \A i \in 0 .. N : U(i) \in Nat
       /\ U(0) = 0 /\ U(N) = SumOf(c)
       /\ \A i \in 1 .. N : U(i) = U(i - 1) + c[i]
  BY <1>1, <1>5, SumPrefix
<1>13. \A n \in Nat : Left(D, n) \in Nat /\ Left(D, n + 1) = Left(D, n) + (IF n + 1 \in D THEN 0 ELSE 1)
  BY LeftIs
<1> DEFINE P(n) == RecordsIn(f[n]) = Left(D, (first + U(n)) - 1) - Left(D, first - 1)
           Q == {n \in Nat : n <= N => P(n)}
<1> HIDE DEF c, U
<1>14. 0 \in Q
  <2>1. f[0] = <<>>
    BY <1>11 DEF Flattens
  <2>2. RecordsIn(<<>>) = 0
    <3> DEFINE e == RecordMarks(<<>>)
    <3>1. DOMAIN e = 1 .. 0 /\ e \in [1 .. 0 -> Nat]
      BY DEF RecordMarks
    <3>2. Upto(e, 0) = 0 /\ Upto(e, 0) = SumOf(e)
      <4> HIDE DEF e
      <4> QED BY <3>1, SumPrefix
    <3> QED BY <3>2 DEF RecordsIn
  <2>3. (first + U(0)) - 1 = first - 1 /\ first - 1 \in Nat
    BY <1>12
  <2>4. Left(D, first - 1) \in Nat
    BY <1>13, <2>3
  <2>5. P(0)
    BY <2>1, <2>2, <2>3, <2>4
  <2> QED BY <2>5
<1>15. ASSUME NEW n \in Q PROVE n + 1 \in Q
  <2> SUFFICES ASSUME n + 1 <= N PROVE P(n + 1)
    OBVIOUS
  <2> DEFINE k == n + 1
             a == (first + U(n)) - 1
             b == (first + U(k)) - 1
  <2>1. n \in Nat /\ k \in 1 .. N /\ n \in 0 .. N /\ k - 1 = n /\ P(n)
    BY <1>1
  <2>2. f[n] \in Seq(A) /\ f[k] = f[n] \o ss[k]
    BY <1>11, <2>1 DEF Flattens
  <2>3. U(n) \in Nat /\ U(k) = U(n) + c[k] /\ c[k] = (IF Is(k) THEN 1 ELSE 0) /\ NumberIn(h, first, k) = first + U(n)
    BY <1>5, <1>7, <1>12, <2>1
  <2>4. a \in Nat /\ a + 1 = first + U(n) /\ b = a + c[k] /\ b \in Nat
    BY <2>3
  <2>5. /\ Left(D, a) \in Nat /\ Left(D, b) \in Nat /\ Left(D, first - 1) \in Nat
        /\ Left(D, a + 1) = Left(D, a) + (IF first + U(n) \in D THEN 0 ELSE 1)
    <3>1. first - 1 \in Nat
      OBVIOUS
    <3> HIDE DEF a, b
    <3> QED BY <1>13, <2>4, <3>1
  <2>6. RecordsIn(f[n]) = Left(D, a) - Left(D, first - 1)
    BY <2>1
  <2> HIDE DEF P, Q, a, b, k
  <2>7. CASE Gone(k)
    <3>1. ss[k] = <<>> /\ Is(k) /\ first + U(n) \in D
      BY <1>4, <2>1, <2>3, <2>7
    <3>2. f[k] = f[n]
      <4>1. f[n] \o <<>> = f[n]
        BY <2>2
      <4> QED BY <2>2, <3>1, <4>1
    <3>3. b = a + 1 /\ Left(D, b) = Left(D, a)
      BY <2>3, <2>4, <2>5, <3>1
    <3> QED BY <2>6, <3>2, <3>3 DEF P, b, k
  <2>8. CASE ~Gone(k)
    <3> DEFINE x == Field(k)
    <3>1. ss[k] = <<x>>
      BY <1>4, <2>1, <2>8
    <3>2. f[k] = Append(f[n], x)
      <4> HIDE DEF x
      <4>1. f[n] \o <<x>> = Append(f[n], x)
        BY <2>2
      <4> QED BY <2>2, <3>1, <4>1
    <3>3. x.kind = "msg" /\ x.no = 2 <=> Is(k)
      BY <1>8, <1>9, <2>1, <2>8
    <3> HIDE DEF x
    <3>4. RecordsIn(f[n]) \in Nat
          /\ RecordsIn(Append(f[n], x)) = RecordsIn(f[n]) + (IF x.kind = "msg" /\ x.no = 2 THEN 1 ELSE 0)
      BY <2>2, RecordsAppend
    <3>5. RecordsIn(f[k]) = RecordsIn(f[n]) + c[k]
      BY <2>3, <3>2, <3>3, <3>4
    <3>6. Left(D, b) = Left(D, a) + c[k]
      <4>1. CASE Is(k)
        <5>1. first + U(n) \notin D
          BY <2>3, <2>8, <4>1
        <5> QED BY <2>3, <2>4, <2>5, <4>1, <5>1
      <4>2. CASE ~Is(k)
        BY <2>3, <2>4, <2>5, <4>2
      <4> QED BY <4>1, <4>2
    <3>7. c[k] \in Nat
      BY <2>3
    <3>8. RecordsIn(f[k]) = Left(D, b) - Left(D, first - 1)
      BY <2>5, <2>6, <3>4, <3>5, <3>6, <3>7
    <3> QED BY <3>8 DEF P, b, k
  <2> QED BY <2>7, <2>8 DEF P, k
<1>16. Q = Nat
  <2> HIDE DEF P
  <2>1. Q \in SUBSET Nat
    OBVIOUS
  <2> HIDE DEF Q
  <2> QED BY <1>14, <1>15, <2>1, NatInd
<1>17. P(N)
  BY <1>1, <1>16
<1>18. RecordsOf(NewScope(h, first, D, S)) = RecordsIn(f[N])
  BY <1>2, <1>11, RecordsOfIs
<1>19. RecordsOf(h) = U(N) /\ U(N) \in Nat
  BY <1>1, <1>6, <1>12
<1> QED BY <1>17, <1>18, <1>19

\* The numbers of the children of a container are positive.
LEMMA NumberAbove ==
    ASSUME NEW first \in Nat \ {0}, NEW N \in Nat, NEW c \in [1 .. N -> Nat], NEW i \in 1 .. N
    PROVE  RecIdx(first, c, i) \in Nat \ {0}
<1>1. i - 1 \in 0 .. N
  OBVIOUS
<1>2. Upto(c, i - 1) \in Nat
  BY <1>1, SumPrefix
<1> QED BY <1>2 DEF RecIdx, Upto

\* The fields of a request that is built again are sequences too.
LEMMA NewIsSeq ==
    ASSUME NEW f, IsRequest(f), f.kind = "msg", NEW D, NEW S, RequestFits(f, D, S), NEW out, out = NewRequest(f, D, S)
    PROVE  RequestSeq(out)
<1>1. /\ IsSeq(out.fields) /\ At(out.fields, "msg", 1) = At(f.fields, "msg", 1)
      /\ \A i \in At(f.fields, "msg", 1) :
            /\ IsSeq(out.fields[i].fields)
            /\ At(out.fields[i].fields, "msg", 2) = At(f.fields[i].fields, "msg", 2)
            /\ \A j \in At(f.fields[i].fields, "msg", 2) :
                  /\ IsScopeLogs(f.fields[i].fields[j]) /\ f.fields[i].fields[j].kind = "msg"
                  /\ ScopeFits(f.fields[i].fields[j], FirstIn(f.fields[i], FirstUnder(f, i), j), D, S)
                  /\ out.fields[i].fields[j] =
                       NewScope(f.fields[i].fields[j], FirstIn(f.fields[i], FirstUnder(f, i), j), D, S)
  BY NewContainers
<1>2. ASSUME NEW h, NEW first, NEW G, IsScopeLogs(h), h.kind = "msg", ScopeFits(h, first, D, S),
             G = NewScope(h, first, D, S).fields
      PROVE  IsSeq(G)
  BY <1>2, NewScopeRecords
<1> QED BY <1>1, <1>2 DEF RequestSeq, ResourceSeq

\* A request that is built again has the records that are left of its own.
LEMMA RequestLeft ==
    ASSUME NEW f, IsRequest(f), f.kind = "msg", NEW D, NEW S, RequestFits(f, D, S), NEW out, out = NewRequest(f, D, S)
    PROVE  RecordsWalked(out) = Left(D, RecordsWalked(f)) /\ RecordsWalked(f) \in Nat
<1> DEFINE one == 1
<1>0. one \in Nat \ {0} /\ one = 1
  OBVIOUS
<1> HIDE DEF one
<1>1. /\ DOMAIN out.fields = DOMAIN f.fields /\ At(out.fields, "msg", 1) = At(f.fields, "msg", 1)
      /\ \A i \in At(f.fields, "msg", 1) :
            /\ DOMAIN out.fields[i].fields = DOMAIN f.fields[i].fields
            /\ At(out.fields[i].fields, "msg", 2) = At(f.fields[i].fields, "msg", 2)
            /\ \A j \in At(f.fields[i].fields, "msg", 2) :
                  /\ IsScopeLogs(f.fields[i].fields[j]) /\ f.fields[i].fields[j].kind = "msg"
                  /\ ScopeFits(f.fields[i].fields[j], FirstIn(f.fields[i], FirstUnder(f, i), j), D, S)
                  /\ out.fields[i].fields[j] =
                       NewScope(f.fields[i].fields[j], FirstIn(f.fields[i], FirstUnder(f, i), j), D, S)
  BY NewContainers
<1>2. RequestSeq(f) /\ RequestSeq(out)
  BY RequestIsSeq, NewIsSeq
<1>3. \A n \in Nat : Left(D, n) \in Nat
  BY LeftIs
<1>4. ASSUME NEW g, ResourceSeq(g)
      PROVE  Len(g.fields) \in Nat /\ DOMAIN g.fields = 1 .. Len(g.fields)
             /\ Counts(g, 2, RecordsOf) \in [1 .. Len(g.fields) -> Nat] /\ RecordsUnder(g) \in Nat
  <2>1. Len(g.fields) \in Nat /\ DOMAIN g.fields = 1 .. Len(g.fields)
    BY <1>4, SeqFields DEF ResourceSeq
  <2>2. Counts(g, 2, RecordsOf) \in [1 .. Len(g.fields) -> Nat]
    BY <1>4, ResourceJoined DEF Joined
  <2>3. SumOf(Counts(g, 2, RecordsOf)) \in Nat
    <3> DEFINE c == Counts(g, 2, RecordsOf)
               N == Len(g.fields)
    <3>1. N \in Nat /\ c \in [1 .. N -> Nat]
      BY <2>1, <2>2
    <3> HIDE DEF c, N
    <3>2. Upto(c, N) \in Nat /\ Upto(c, N) = SumOf(c)
      <4>1. N \in 0 .. N
        BY <3>1
      <4> QED BY <3>1, <4>1, SumPrefix
    <3> QED BY <3>2 DEF c
  <2> QED BY <2>1, <2>2, <2>3 DEF RecordsUnder
<1>5. ASSUME NEW q, RequestSeq(q)
      PROVE  Len(q.fields) \in Nat /\ DOMAIN q.fields = 1 .. Len(q.fields)
             /\ Counts(q, 1, RecordsUnder) \in [1 .. Len(q.fields) -> Nat]
  <2>1. Len(q.fields) \in Nat /\ DOMAIN q.fields = 1 .. Len(q.fields)
    BY <1>5, SeqFields DEF RequestSeq
  <2>2. Counts(q, 1, RecordsUnder) \in [1 .. Len(q.fields) -> Nat]
    BY <1>5, RequestJoined DEF Joined
  <2> QED BY <2>1, <2>2
<1> DEFINE C == Counts(f, 1, RecordsUnder)
           E == Counts(out, 1, RecordsUnder)
           M == Len(f.fields)
<1>6. M \in Nat /\ DOMAIN f.fields = 1 .. M /\ C \in [1 .. M -> Nat] /\ E \in [1 .. M -> Nat]
  <2>1. M \in Nat /\ DOMAIN f.fields = 1 .. M /\ C \in [1 .. M -> Nat]
    BY <1>2, <1>5
  <2>2. DOMAIN E = DOMAIN out.fields
    BY DEF Counts
  <2>3. E \in [1 .. Len(out.fields) -> Nat]
    BY <1>2, <1>5
  <2> HIDE DEF E
  <2>4. E \in [DOMAIN E -> Nat]
    BY <2>3
  <2> QED BY <1>1, <2>1, <2>2, <2>4
<1>7. ASSUME NEW i \in At(f.fields, "msg", 1)
      PROVE  RecordsUnder(out.fields[i]) =
               Left(D, (FirstUnder(f, i) + RecordsUnder(f.fields[i])) - 1) - Left(D, FirstUnder(f, i) - 1)
  <2> DEFINE g == f.fields[i]
             o == out.fields[i]
             first == FirstUnder(f, i)
             c == Counts(g, 2, RecordsOf)
             e == Counts(o, 2, RecordsOf)
             N == Len(g.fields)
  <2>1. i \in 1 .. M
    BY <1>6, AtFields
  <2>2. first \in Nat \ {0}
    <3> HIDE DEF C, M
    <3>1. RecIdx(one, C, i) \in Nat \ {0}
      BY <1>0, <1>6, <2>1, NumberAbove
    <3> QED BY <1>0, <3>1 DEF FirstUnder, C
  <2>3. ResourceSeq(g) /\ ResourceSeq(o)
    BY <1>1, <1>2 DEF RequestSeq
  <2>4. /\ DOMAIN o.fields = DOMAIN g.fields /\ At(o.fields, "msg", 2) = At(g.fields, "msg", 2)
        /\ \A j \in At(g.fields, "msg", 2) :
              /\ IsScopeLogs(g.fields[j]) /\ g.fields[j].kind = "msg" /\ ScopeFits(g.fields[j], FirstIn(g, first, j), D, S)
              /\ o.fields[j] = NewScope(g.fields[j], FirstIn(g, first, j), D, S)
    BY <1>1
  <2> HIDE DEF g, o, first, C, M, E
  <2>5. N \in Nat /\ DOMAIN g.fields = 1 .. N /\ c \in [1 .. N -> Nat]
    BY <1>4, <2>3
  <2>6. e \in [1 .. N -> Nat]
    <3>1. DOMAIN e = DOMAIN o.fields
      BY DEF Counts
    <3>2. e \in [1 .. Len(o.fields) -> Nat]
      BY <1>4, <2>3
    <3> HIDE DEF e
    <3>3. e \in [DOMAIN e -> Nat]
      BY <3>2
    <3> QED BY <2>4, <2>5, <3>1, <3>3
  <2>7. ASSUME NEW j \in 1 .. N
        PROVE  e[j] = Left(D, (RecIdx(first, c, j) + c[j]) - 1) - Left(D, RecIdx(first, c, j) - 1)
    <3> DEFINE k == RecIdx(first, c, j)
               h == g.fields[j]
    <3>1. c[j] = (IF j \in At(g.fields, "msg", 2) THEN RecordsOf(h) ELSE 0)
      BY <2>5 DEF Counts
    <3>2. e[j] = IF j \in At(g.fields, "msg", 2) THEN RecordsOf(o.fields[j]) ELSE 0
      BY <2>4, <2>5 DEF Counts
    <3> HIDE DEF c, e, N, h
    <3>3. k \in Nat \ {0}
      BY <2>2, <2>5, NumberAbove
    <3>4. CASE j \in At(g.fields, "msg", 2)
      <4>1. k = FirstIn(g, first, j)
        BY DEF FirstIn, c
      <4>2. IsScopeLogs(h) /\ h.kind = "msg" /\ ScopeFits(h, k, D, S) /\ o.fields[j] = NewScope(h, k, D, S)
        BY <2>4, <3>4, <4>1 DEF h
      <4> HIDE DEF k
      <4>3. RecordsOf(NewScope(h, k, D, S)) = Left(D, (k + RecordsOf(h)) - 1) - Left(D, k - 1)
        BY <3>3, <4>2, ScopeLeft
      <4>4. e[j] = Left(D, (k + c[j]) - 1) - Left(D, k - 1)
        BY <3>1, <3>2, <3>4, <4>2, <4>3
      <4> QED BY <4>4 DEF k
    <3>5. CASE j \notin At(g.fields, "msg", 2)
      <4>1. e[j] = 0 /\ c[j] = 0
        BY <3>1, <3>2, <3>5
      <4> HIDE DEF k
      <4>2. (k + c[j]) - 1 = k - 1 /\ k - 1 \in Nat
        BY <3>3, <4>1
      <4>3. Left(D, k - 1) \in Nat
        BY <1>3, <4>2
      <4>4. e[j] = Left(D, (k + c[j]) - 1) - Left(D, k - 1)
        BY <4>1, <4>2, <4>3
      <4> QED BY <4>4 DEF k
    <3> QED BY <3>4, <3>5
  <2> HIDE DEF c, e, N
  <2>8. SumOf(e) = Left(D, (first + SumOf(c)) - 1) - Left(D, first - 1)
    <3>1. Passing(D, first, N, c, e)
      BY <2>2, <2>5, <2>6, <2>7 DEF Passing
    <3> QED BY <3>1, LeftThrough
  <2> QED BY <2>8 DEF RecordsUnder, c, e, first, g, o
<1>8. ASSUME NEW i \in 1 .. M
      PROVE  E[i] = Left(D, (RecIdx(1, C, i) + C[i]) - 1) - Left(D, RecIdx(1, C, i) - 1)
  <2> DEFINE k == RecIdx(1, C, i)
  <2>1. C[i] = (IF i \in At(f.fields, "msg", 1) THEN RecordsUnder(f.fields[i]) ELSE 0)
    BY <1>6 DEF Counts
  <2>2. E[i] = IF i \in At(f.fields, "msg", 1) THEN RecordsUnder(out.fields[i]) ELSE 0
    BY <1>1, <1>6 DEF Counts
  <2>3. k = FirstUnder(f, i)
    BY DEF FirstUnder
  <2> HIDE DEF C, E, M
  <2>4. k \in Nat \ {0}
    <3>1. RecIdx(one, C, i) \in Nat \ {0}
      BY <1>0, <1>6, NumberAbove
    <3> QED BY <1>0, <3>1
  <2>5. CASE i \in At(f.fields, "msg", 1)
    <3> HIDE DEF k
    <3>1. E[i] = Left(D, (k + C[i]) - 1) - Left(D, k - 1)
      BY <1>7, <2>1, <2>2, <2>3, <2>5
    <3> QED BY <3>1 DEF k
  <2>6. CASE i \notin At(f.fields, "msg", 1)
    <3>1. E[i] = 0 /\ C[i] = 0
      BY <2>1, <2>2, <2>6
    <3> HIDE DEF k
    <3>2. (k + C[i]) - 1 = k - 1 /\ k - 1 \in Nat
      BY <2>4, <3>1
    <3>3. Left(D, k - 1) \in Nat
      BY <1>3, <3>2
    <3>4. E[i] = Left(D, (k + C[i]) - 1) - Left(D, k - 1)
      BY <3>1, <3>2, <3>3
    <3> QED BY <3>4 DEF k
  <2> QED BY <2>5, <2>6
<1> HIDE DEF C, E, M
<1>9. SumOf(E) = Left(D, (1 + SumOf(C)) - 1) - Left(D, 1 - 1)
  <2>1. \A i \in 1 .. M :
           E[i] = Left(D, (RecIdx(one, C, i) + C[i]) - 1) - Left(D, RecIdx(one, C, i) - 1)
    BY <1>0, <1>8
  <2>2. SumOf(E) = Left(D, (one + SumOf(C)) - 1) - Left(D, one - 1)
    <3>1. Passing(D, one, M, C, E)
      BY <1>0, <1>6, <2>1 DEF Passing
    <3> QED BY <3>1, LeftThrough
  <2> QED BY <1>0, <2>2
<1>10. SumOf(C) \in Nat
  <2>1. M \in 0 .. M
    BY <1>6
  <2>2. Upto(C, M) \in Nat /\ Upto(C, M) = SumOf(C)
    BY <1>6, <2>1, SumPrefix
  <2> QED BY <2>2
<1>11. Left(D, 0) = 0
  BY LeftIs
<1>12. (1 + SumOf(C)) - 1 = SumOf(C) /\ 1 - 1 = 0 /\ Left(D, SumOf(C)) \in Nat
  BY <1>3, <1>10
<1>13. SumOf(E) = Left(D, SumOf(C))
  BY <1>9, <1>11, <1>12
<1> QED BY <1>10, <1>13 DEF RecordsWalked, C, E

\* A sum of natural numbers is zero when they all are.
LEMMA SumZero ==
    ASSUME NEW N \in Nat, NEW c \in [1 .. N -> Nat]
    PROVE  SumOf(c) \in Nat /\ (SumOf(c) = 0 <=> \A i \in 1 .. N : c[i] = 0)
<1> DEFINE U(i) == Upto(c, i)
           P(n) == U(n) = 0 <=> \A i \in 1 .. n : c[i] = 0
           Q == {n \in Nat : n <= N => P(n)}
<1>1. /\ \A i \in 0 .. N : U(i) \in Nat
      /\ U(0) = 0 /\ U(N) = SumOf(c)
      /\ \A i \in 1 .. N : U(i) = U(i - 1) + c[i]
  BY SumPrefix
<1> HIDE DEF U
<1>2. 0 \in Q
  BY <1>1
<1>3. ASSUME NEW n \in Q PROVE n + 1 \in Q
  <2> SUFFICES ASSUME n + 1 <= N PROVE P(n + 1)
    OBVIOUS
  <2>1. n \in Nat /\ n + 1 \in 1 .. N /\ n \in 0 .. N /\ (n + 1) - 1 = n /\ P(n)
    OBVIOUS
  <2>2. U(n + 1) = U(n) + c[n + 1] /\ U(n) \in Nat /\ c[n + 1] \in Nat
    BY <1>1, <2>1
  <2>3. U(n + 1) = 0 <=> U(n) = 0 /\ c[n + 1] = 0
    BY <2>2
  <2>4. (\A i \in 1 .. n + 1 : c[i] = 0) <=> (\A i \in 1 .. n : c[i] = 0) /\ c[n + 1] = 0
    <3>1. \A i : i \in 1 .. n + 1 <=> i \in 1 .. n \/ i = n + 1
      BY <2>1
    <3> QED BY <3>1
  <2> QED BY <2>1, <2>3, <2>4
<1>4. Q = Nat
  <2> HIDE DEF P
  <2>1. Q \in SUBSET Nat
    OBVIOUS
  <2> HIDE DEF Q
  <2> QED BY <1>2, <1>3, <2>1, NatInd
<1>5. P(N) /\ N \in 0 .. N
  BY <1>4
<1> QED BY <1>1, <1>5

\* A request as it is received has its length prefixes right.
LEMMA RequestIs ==
    ASSUME NEW r \in Requests
    PROVE  /\ IsRequest(r) /\ r.kind = "msg" /\ r.no = 0 /\ r.size = EncodedLens(r.fields)
           /\ r.size \in Nat /\ RequestRight(r)
<1>1. r.kind = "msg" /\ r.no = 0 /\ IsRequest(r)
  BY PipelineAssumption
<1>2. RequestAs(r, r)
  BY <1>1, RequestRefl
<1>3. r.size \in Nat /\ RequestRight(r)
  BY <1>1, <1>2 DEF RequestAs, Like, Sized
<1>4. r.size = EncodedLens(r.fields)
  BY <1>1, <1>3 DEF RequestRight, Right
<1> QED BY <1>1, <1>3, <1>4

\* The spans that redaction finds in each record of a request.
LEMMA RecordSpans ==
    ASSUME NEW f, IsRequest(f), f.kind = "msg", RequestOk(f.fields), NEW v \in Range(RequestRecords(f.fields))
    PROVE  SpansOfView(v, RedactRecord(v))
<1>1. \E i, j, k : IsRecord(f, i, j, k) /\ v = ViewOf(f, i, j, k)
  BY RequestIsSeq, ViewsAre
<1>2. PICK i, j, k : IsRecord(f, i, j, k) /\ v = ViewOf(f, i, j, k)
  BY <1>1
<1> DEFINE r == f.fields[i].fields[j].fields[k]
           namespace == NamespaceOf(f.fields[i].fields)
           service == ServiceNameOf(f.fields[i].fields)
<1>3. IsLogRecord(r) /\ r.kind = "msg" /\ LogRecordOk(r.fields)
  BY <1>2, RecordIs
<1>4. v = RecordView(r.fields, namespace, service)
  BY <1>2 DEF ViewOf
<1> HIDE DEF r, namespace, service
<1> QED BY <1>3, <1>4, RedactRecordIs

-----------------------------------------------------------------------------
(* The inductive invariant: what each stage has decided, from the request    *)
(* alone.                                                                    *)

ParsedRecords == IF RequestOk(raw.fields) THEN RequestRecords(raw.fields) ELSE <<>>
Drops == {n \in DOMAIN records : ~sample_verdict(records[n])}

StatsType == [records_in : Nat, kept : Nat, dropped : Nat, redactions : Nat, bytes_in : Nat, bytes_out : Nat,
              parse_bypassed : BOOLEAN, redact_bypassed : BOOLEAN, assemble_bypassed : BOOLEAN]

Types ==
    /\ pc \in {"idle", "parse", "sample", "redact", "redacting", "assemble", "done"}
    /\ stats \in StatsType
    /\ pc \in {"assemble", "done"} \/ ~stats.redact_bypassed
    /\ pc = "done" \/ ~stats.assemble_bypassed

\* Before the parse stage nothing is known of the records.
Fresh ==
    /\ pc # "idle" => raw \in Requests /\ stats.bytes_in = raw.size
    /\ pc \in {"idle", "parse"} => records = <<>> /\ redactions = <<>> /\ idx = 1

\* The parse stage has every view of the request, or none.
ParsedWhole ==
    pc \notin {"idle", "parse"} =>
        /\ records = ParsedRecords /\ DOMAIN redactions = DOMAIN records
        /\ stats.parse_bypassed = ~RequestOk(raw.fields) /\ stats.records_in = Len(records)

\* The sampling stage has decided on every record.
Sampled ==
    IF pc \in {"redact", "redacting", "assemble", "done"}
    THEN sampling = Drops /\ stats.dropped = Cardinality(sampling) /\ stats.kept = Len(records) - Cardinality(sampling)
    ELSE sampling = {}

\* The redaction stage has all spans of the records it has done, and a stage
\* that was skipped or has failed has none.
SpansFound ==
    /\ pc \in {"sample", "redact"} => idx = 1 /\ \A n \in DOMAIN records : redactions[n] = <<>>
    /\ pc = "redacting" =>
          /\ idx \in 1 .. Len(records) + 1
          /\ \A n \in DOMAIN records : redactions[n] = IF n < idx THEN RedactRecord(records[n]) ELSE <<>>
    /\ pc \in {"assemble", "done"} =>
          /\ idx \in 1 .. Len(records) + 1
          /\ \A n \in DOMAIN records :
                redactions[n] = IF stats.redact_bypassed THEN <<>> ELSE RedactRecord(records[n])

\* The request that goes out carries out these decisions, or is the one that
\* came in.
Assembled ==
    pc = "done" =>
        /\ stats.redactions = redaction_total /\ stats.bytes_out = output.size
        /\ stats.assemble_bypassed => ~NothingToDo
        /\ output = IF NothingToDo \/ stats.assemble_bypassed THEN raw
                    ELSE After(raw, BuildRequest(raw, sampling, redactions))

IInv == Types /\ Fresh /\ ParsedWhole /\ Sampled /\ SpansFound /\ Assembled

\* What every stage after the first one finds.
LEMMA RecordsAre ==
    ASSUME raw \in Requests, records = ParsedRecords, DOMAIN redactions = DOMAIN records
    PROVE  /\ Len(records) \in Nat /\ DOMAIN records = 1 .. Len(records)
           /\ RequestOk(raw.fields) => records = RequestRecords(raw.fields) /\ Len(records) = RecordsWalked(raw)
           /\ ~RequestOk(raw.fields) => records = <<>>
           /\ \A n \in DOMAIN records : IsSeq(RedactRecord(records[n]))
<1>1. IsRequest(raw) /\ raw.kind = "msg"
  BY RequestIs
<1>2. CASE RequestOk(raw.fields)
  <2>1. records = RequestRecords(raw.fields)
    BY <1>2 DEF ParsedRecords
  <2>2. IsSeq(records) /\ Len(records) = RecordsWalked(raw)
    BY <1>1, <2>1, RequestIsSeq, RequestJoined
  <2>3. ASSUME NEW n \in DOMAIN records PROVE IsSeq(RedactRecord(records[n]))
    <3>1. records[n] \in Range(RequestRecords(raw.fields))
      BY <2>1 DEF Range
    <3> QED BY <1>1, <1>2, <3>1, RecordSpans DEF SpansOfView
  <2> QED BY <1>2, <2>1, <2>2, <2>3, SeqFields
<1>3. CASE ~RequestOk(raw.fields)
  <2>1. records = <<>>
    BY <1>3 DEF ParsedRecords
  <2> QED BY <1>3, <2>1
<1> QED BY <1>2, <1>3

\* The decisions of the sampling stage, counted.
LEMMA DropsAre ==
    ASSUME Len(records) \in Nat, DOMAIN records = 1 .. Len(records)
    PROVE  /\ Drops \subseteq 1 .. Len(records) /\ IsFiniteSet(Drops)
           /\ Cardinality(Drops) \in Nat /\ Cardinality(Drops) <= Len(records)
           /\ Left(Drops, Len(records)) = Len(records) - Cardinality(Drops)
<1> DEFINE T == 1 .. Len(records)
<1>1. Drops \subseteq T
  BY DEF Drops
<1>2. IsFiniteSet(T) /\ Cardinality(T) = Len(records)
  <2> DEFINE N == Len(records)
  <2> HIDE DEF N
  <2>1. N \in Int /\ 1 \in Int /\ N - 1 + 1 = N /\ (1 > N => N = 0)
    BY DEF N
  <2>2. IsFiniteSet(1 .. N) /\ Cardinality(1 .. N) = IF 1 > N THEN 0 ELSE N - 1 + 1
    BY <2>1, FS_Interval
  <2> QED BY <2>1, <2>2 DEF N
<1> HIDE DEF T
<1>3. IsFiniteSet(Drops) /\ Cardinality(Drops) <= Cardinality(T)
  BY <1>1, <1>2, FS_Subset
<1>4. Cardinality(Drops) \in Nat
  BY <1>3, FS_CardinalityType
<1>5. T \cap Drops = Drops
  BY <1>1
<1>6. Cardinality(T \ Drops) = Cardinality(T) - Cardinality(T \cap Drops)
  BY <1>2, FS_Difference
<1> QED BY <1>1, <1>2, <1>3, <1>4, <1>5, <1>6 DEF Left, T

\* The number of all spans.
LEMMA TotalIs ==
    ASSUME NEW N \in Nat, DOMAIN redactions = 1 .. N, \A n \in 1 .. N : IsSeq(redactions[n])
    PROVE  redaction_total \in Nat /\ (redaction_total = 0 <=> \A n \in 1 .. N : redactions[n] = <<>>)
<1> DEFINE c == [n \in DOMAIN redactions |-> Len(redactions[n])]
<1>1. c \in [1 .. N -> Nat] /\ \A n \in 1 .. N : c[n] = Len(redactions[n])
  BY SeqFields
<1>2. redaction_total = SumOf(c)
  BY DEF redaction_total
<1> HIDE DEF c
<1>3. SumOf(c) \in Nat /\ (SumOf(c) = 0 <=> \A n \in 1 .. N : c[n] = 0)
  BY <1>1, SumZero
<1>4. ASSUME NEW n \in 1 .. N PROVE c[n] = 0 <=> redactions[n] = <<>>
  <2>1. IsSeq(redactions[n])
    OBVIOUS
  <2> DEFINE r == redactions[n]
  <2>2. r \in Seq(Range(r))
    BY <2>1 DEF IsSeq
  <2> HIDE DEF r
  <2>3. Len(r) = 0 <=> r = <<>>
    BY <2>2
  <2> QED BY <1>1, <2>3 DEF r
<1> QED BY <1>2, <1>3, <1>4

\* A record whose spans are known is decided.
LEMMA RedactionsDecided ==
    ASSUME raw \in Requests, records = ParsedRecords, DOMAIN redactions = DOMAIN records, RequestOk(raw.fields),
           \A n \in DOMAIN records : redactions[n] = IF stats.redact_bypassed THEN <<>> ELSE RedactRecord(records[n])
    PROVE  Decided(raw, redactions)
<1>1. DOMAIN records = 1 .. Len(RequestRecords(raw.fields)) /\ records = RequestRecords(raw.fields)
  BY RecordsAre
<1>2. \A n \in DOMAIN records : redactions[n] = <<>> \/ redactions[n] = RedactRecord(records[n])
  OBVIOUS
<1> QED BY <1>1, <1>2 DEF Decided

\* What the assembly stage finds: without decisions there is nothing to do, a
\* request that was not parsed has none, and others can be built.
LEMMA AtAssembly ==
    ASSUME IInv, pc \in {"assemble", "done"}
    PROVE  /\ redaction_total \in Nat
           /\ ~RequestOk(raw.fields) => NothingToDo
           /\ NothingToDo => sampling = {} /\ \A n \in DOMAIN records : redactions[n] = <<>>
           /\ stats.redact_bypassed => redaction_total = 0
           /\ RequestOk(raw.fields) => Decided(raw, redactions) /\ RequestFits(raw, sampling, redactions)
           /\ RequestOk(raw.fields) => Kept(BuildRequest(raw, sampling, redactions))
           /\ RequestOk(raw.fields) => RequestAs(KeptRequest(raw, sampling), NewRequest(raw, sampling, redactions))
           /\ RequestOk(raw.fields) /\ NothingToDo => NewRequest(raw, sampling, redactions) = raw
<1>1. /\ raw \in Requests /\ records = ParsedRecords /\ DOMAIN redactions = DOMAIN records /\ sampling = Drops
      /\ \A n \in DOMAIN records : redactions[n] = IF stats.redact_bypassed THEN <<>> ELSE RedactRecord(records[n])
  BY DEF IInv, Fresh, ParsedWhole, Sampled, SpansFound
<1>2. IsRequest(raw) /\ raw.kind = "msg"
  BY <1>1, RequestIs
<1>3. /\ Len(records) \in Nat /\ DOMAIN records = 1 .. Len(records)
      /\ RequestOk(raw.fields) => records = RequestRecords(raw.fields)
      /\ ~RequestOk(raw.fields) => records = <<>>
      /\ \A n \in DOMAIN records : IsSeq(RedactRecord(records[n]))
  BY <1>1, RecordsAre
<1> DEFINE N == Len(records)
<1> HIDE DEF N
<1>4. N \in Nat /\ DOMAIN records = 1 .. N /\ DOMAIN redactions = 1 .. N
  BY <1>1, <1>3 DEF N
<1>5. \A n \in 1 .. N : IsSeq(redactions[n])
  <2>1. IsSeq(<<>>)
    BY DEF IsSeq, Range
  <2> QED BY <1>1, <1>3, <1>4, <2>1
<1>6. redaction_total \in Nat /\ (redaction_total = 0 <=> \A n \in 1 .. N : redactions[n] = <<>>)
  BY <1>4, <1>5, TotalIs
<1>7. NothingToDo => sampling = {} /\ \A n \in DOMAIN records : redactions[n] = <<>>
  BY <1>4, <1>6 DEF NothingToDo, any_dropped
<1>8. ASSUME ~RequestOk(raw.fields) PROVE NothingToDo
  <2>1. records = <<>> /\ N = 0
    BY <1>3, <1>8 DEF N
  <2>2. sampling = {}
    BY <1>1, <2>1 DEF Drops
  <2> QED BY <1>6, <2>1, <2>2 DEF NothingToDo, any_dropped
<1>9. stats.redact_bypassed => redaction_total = 0
  BY <1>1, <1>4, <1>6
<1>10. ASSUME RequestOk(raw.fields) PROVE Decided(raw, redactions) /\ RequestFits(raw, sampling, redactions)
  BY <1>1, <1>2, <1>10, RedactionsDecided, DecisionsFit
<1>11. ASSUME RequestOk(raw.fields)
       PROVE  /\ Kept(BuildRequest(raw, sampling, redactions))
              /\ RequestAs(KeptRequest(raw, sampling), NewRequest(raw, sampling, redactions))
  BY <1>2, <1>10, <1>11, NewRequestIs
<1>12. ASSUME RequestOk(raw.fields), NothingToDo PROVE NewRequest(raw, sampling, redactions) = raw
  <2>1. \A n \in 1 .. Len(RequestRecords(raw.fields)) : redactions[n] = <<>>
    BY <1>3, <1>7, <1>12
  <2>2. NewRequest(raw, {}, redactions) = raw
    BY <1>2, <2>1, NothingNew
  <2> QED BY <1>7, <1>12, <2>2
<1> QED BY <1>6, <1>7, <1>8, <1>9, <1>10, <1>11, <1>12

\* The invariant holds at the start.
LEMMA IInvInit == Init => IInv
<1> SUFFICES ASSUME Init PROVE IInv
  OBVIOUS
<1> USE DEF Init, NoStats
<1>1. Types
  BY DEF Types, StatsType
<1>2. Fresh /\ ParsedWhole /\ Sampled /\ SpansFound /\ Assembled
  BY DEF Fresh, ParsedWhole, Sampled, SpansFound, Assembled
<1> QED BY <1>1, <1>2 DEF IInv

\* The stages before assembly keep it.
LEMMA IInvStages ==
    ASSUME IInv,
           (\E r \in Requests : Receive(r)) \/ Parse \/ Sample \/ SkipRedaction \/ AllowRedaction \/ RedactNext
             \/ Redacted \/ RedactFault \/ Return
    PROVE  IInv'
<1>1. Types /\ Fresh /\ ParsedWhole /\ Sampled /\ SpansFound /\ Assembled
  BY DEF IInv
<1>2. pc' # "done" /\ Assembled'
  BY DEF Receive, Parse, Sample, SkipRedaction, AllowRedaction, RedactNext, Redacted, RedactFault, Return, Assembled
<1>3. ASSUME NEW r \in Requests, Receive(r) PROVE IInv'
  <2>1. r.size \in Nat
    BY RequestIs
  <2>2. Types'
    BY <1>3, <2>1 DEF Types, StatsType, Receive, NoStats
  <2>3. Fresh' /\ ParsedWhole' /\ Sampled' /\ SpansFound'
    BY <1>3 DEF Fresh, ParsedWhole, Sampled, SpansFound, Receive, NoStats
  <2> QED BY <1>2, <2>2, <2>3 DEF IInv
<1>4. CASE Parse
  <2>1. raw \in Requests /\ stats.bytes_in = raw.size
    BY <1>1, <1>4 DEF Parse, Fresh
  <2>2. /\ pc' = "sample" /\ raw' = raw /\ records' = ParsedRecords' /\ DOMAIN redactions' = DOMAIN records'
        /\ idx' = 1 /\ sampling' = {} /\ \A n \in DOMAIN records' : redactions'[n] = <<>>
    BY <1>1, <1>4 DEF Parse, ParsedRecords, Fresh, Sampled
  <2>3. stats' = [stats EXCEPT !.parse_bypassed = ~RequestOk(raw.fields), !.records_in = Len(records')]
    BY <1>4 DEF Parse
  <2>4. Len(records') \in Nat
    <3>1. raw' \in Requests
      BY <2>1, <2>2
    <3>2. Len(records)' \in Nat
      BY <2>2, <3>1, RecordsAre
    <3> QED BY <3>2
  <2>5. Types'
    <3>1. stats \in StatsType /\ ~stats.redact_bypassed /\ ~stats.assemble_bypassed
      BY <1>1, <1>4 DEF Types, Parse
    <3>2. (~RequestOk(raw.fields)) \in BOOLEAN
      OBVIOUS
    <3>3. stats' \in StatsType
      BY <2>3, <2>4, <3>1, <3>2 DEF StatsType
    <3>4. stats'.redact_bypassed = stats.redact_bypassed /\ stats'.assemble_bypassed = stats.assemble_bypassed
      BY <2>3, <3>1 DEF StatsType
    <3> QED BY <2>2, <3>1, <3>3, <3>4 DEF Types
  <2>6. /\ stats'.parse_bypassed = ~RequestOk(raw.fields) /\ stats'.records_in = Len(records')
        /\ stats'.bytes_in = stats.bytes_in
    <3>1. stats \in StatsType
      BY <1>1 DEF Types
    <3> QED BY <2>3, <3>1 DEF StatsType
  <2>7. Fresh' /\ ParsedWhole' /\ Sampled' /\ SpansFound'
    BY <2>1, <2>2, <2>6 DEF Fresh, ParsedWhole, Sampled, SpansFound
  <2> QED BY <1>2, <2>5, <2>7 DEF IInv
<1>5. ASSUME pc \notin {"idle", "parse"}
      PROVE  /\ raw \in Requests /\ records = ParsedRecords /\ DOMAIN redactions = DOMAIN records
             /\ Len(records) \in Nat /\ DOMAIN records = 1 .. Len(records) /\ stats \in StatsType
  BY <1>1, <1>5, RecordsAre DEF Fresh, ParsedWhole, Types
<1>6. ASSUME raw' = raw, records' = records, DOMAIN redactions' = DOMAIN redactions, pc \notin {"idle", "parse"},
             pc' \notin {"idle", "parse"}, stats'.bytes_in = stats.bytes_in,
             stats'.parse_bypassed = stats.parse_bypassed, stats'.records_in = stats.records_in
      PROVE  Fresh' /\ ParsedWhole'
  BY <1>1, <1>6 DEF Fresh, ParsedWhole, ParsedRecords
<1>7. CASE Sample
  <2>1. /\ pc = "sample" /\ pc' = "redact" /\ sampling' = Drops /\ raw' = raw /\ records' = records
        /\ redactions' = redactions /\ idx' = idx
        /\ stats' = [stats EXCEPT !.dropped = Cardinality(sampling'), !.kept = Len(records) - Cardinality(sampling')]
    BY <1>7 DEF Sample, Drops
  <2>2. Drops' = Drops
    BY <2>1 DEF Drops
  <2>3. Cardinality(Drops) \in Nat /\ Len(records) - Cardinality(Drops) \in Nat
    <3>1. Len(records) \in Nat /\ DOMAIN records = 1 .. Len(records)
      BY <1>5, <2>1
    <3>2. Cardinality(Drops) \in Nat /\ Cardinality(Drops) <= Len(records)
      BY <3>1, DropsAre
    <3> QED BY <3>1, <3>2
  <2>4. stats \in StatsType /\ ~stats.redact_bypassed /\ ~stats.assemble_bypassed
    BY <1>1, <2>1 DEF Types
  <2>5. /\ stats' \in StatsType /\ stats'.redact_bypassed = stats.redact_bypassed
        /\ stats'.assemble_bypassed = stats.assemble_bypassed /\ stats'.bytes_in = stats.bytes_in
        /\ stats'.parse_bypassed = stats.parse_bypassed /\ stats'.records_in = stats.records_in
        /\ stats'.dropped = Cardinality(sampling') /\ stats'.kept = Len(records) - Cardinality(sampling')
    BY <2>1, <2>3, <2>4 DEF StatsType
  <2>6. Types' /\ Fresh' /\ ParsedWhole'
    BY <1>6, <2>1, <2>4, <2>5 DEF Types
  <2>7. Sampled' /\ SpansFound'
    BY <1>1, <2>1, <2>2, <2>5 DEF Sampled, SpansFound
  <2> QED BY <1>2, <2>6, <2>7 DEF IInv
<1>8. ASSUME raw' = raw, records' = records, sampling' = sampling, stats'.dropped = stats.dropped, stats'.kept = stats.kept,
             pc \in {"redact", "redacting"}, pc' \in {"redact", "redacting", "assemble"}
      PROVE  Sampled'
  BY <1>1, <1>8 DEF Sampled, Drops
<1>9. CASE SkipRedaction
  <2>1. /\ pc = "redact" /\ pc' = "assemble" /\ raw' = raw /\ records' = records /\ sampling' = sampling
        /\ redactions' = redactions /\ idx' = idx /\ stats' = [stats EXCEPT !.redact_bypassed = TRUE]
    BY <1>9 DEF SkipRedaction
  <2>2. stats \in StatsType /\ ~stats.assemble_bypassed
    BY <1>1, <2>1 DEF Types
  <2>3. /\ stats' \in StatsType /\ stats'.redact_bypassed /\ stats'.assemble_bypassed = stats.assemble_bypassed
        /\ stats'.bytes_in = stats.bytes_in
        /\ stats'.parse_bypassed = stats.parse_bypassed /\ stats'.records_in = stats.records_in
        /\ stats'.dropped = stats.dropped /\ stats'.kept = stats.kept
    BY <2>1, <2>2 DEF StatsType
  <2>4. Types' /\ Fresh' /\ ParsedWhole' /\ Sampled'
    BY <1>6, <1>8, <2>1, <2>2, <2>3 DEF Types
  <2>5. SpansFound'
    BY <1>1, <1>5, <2>1, <2>3 DEF SpansFound
  <2> QED BY <1>2, <2>4, <2>5 DEF IInv
<1>10. CASE AllowRedaction
  <2>1. /\ pc = "redact" /\ pc' = "redacting" /\ raw' = raw /\ records' = records /\ sampling' = sampling
        /\ redactions' = redactions /\ idx' = idx /\ stats' = stats
    BY <1>10 DEF AllowRedaction
  <2>2. Types' /\ Fresh' /\ ParsedWhole' /\ Sampled'
    BY <1>1, <1>6, <1>8, <2>1 DEF Types
  <2>3. SpansFound'
    <3>1. idx = 1 /\ \A n \in DOMAIN records : redactions[n] = <<>>
      BY <1>1, <2>1 DEF SpansFound
    <3>2. DOMAIN records = 1 .. Len(records) /\ Len(records) \in Nat
      BY <1>5, <2>1
    <3>3. 1 \in 1 .. Len(records) + 1 /\ \A n \in 1 .. Len(records) : ~(n < 1)
      BY <3>2
    <3> QED BY <2>1, <3>1, <3>2, <3>3 DEF SpansFound
  <2> QED BY <1>2, <2>2, <2>3 DEF IInv
<1>11. CASE RedactNext
  <2>1. /\ pc = "redacting" /\ pc' = "redacting" /\ raw' = raw /\ records' = records /\ sampling' = sampling
        /\ redactions' = [redactions EXCEPT ![idx] = RedactRecord(records[idx])] /\ idx' = idx + 1 /\ stats' = stats
        /\ idx <= Len(records)
    BY <1>11 DEF RedactNext
  <2>2. DOMAIN redactions' = DOMAIN redactions
    BY <2>1
  <2>3. Types' /\ Fresh' /\ ParsedWhole' /\ Sampled'
    BY <1>1, <1>6, <1>8, <2>1, <2>2 DEF Types
  <2>4. SpansFound'
    <3>1. /\ idx \in 1 .. Len(records) + 1
          /\ \A n \in DOMAIN records : redactions[n] = IF n < idx THEN RedactRecord(records[n]) ELSE <<>>
      BY <1>1, <2>1 DEF SpansFound
    <3>2. DOMAIN records = 1 .. Len(records) /\ Len(records) \in Nat /\ DOMAIN redactions = DOMAIN records
      BY <1>5, <2>1
    <3>3. idx \in 1 .. Len(records) /\ idx + 1 \in 1 .. Len(records) + 1
      BY <2>1, <3>1, <3>2
    <3>4. ASSUME NEW n \in 1 .. Len(records)
          PROVE  redactions'[n] = IF n < idx + 1 THEN RedactRecord(records[n]) ELSE <<>>
      <4>1. CASE n = idx
        <5>1. redactions'[n] = RedactRecord(records[n])
          BY <2>1, <3>2, <4>1
        <5>2. n < idx + 1
          BY <3>3, <4>1
        <5> QED BY <5>1, <5>2
      <4>2. CASE n # idx
        <5>1. redactions'[n] = redactions[n]
          BY <2>1, <3>2, <4>2
        <5>2. n < idx + 1 <=> n < idx
          BY <3>3, <4>2
        <5> QED BY <3>1, <3>2, <5>1, <5>2
      <4> QED BY <4>1, <4>2
    <3> QED BY <2>1, <3>2, <3>3, <3>4 DEF SpansFound
  <2> QED BY <1>2, <2>3, <2>4 DEF IInv
<1>12. CASE Redacted
  <2>1. /\ pc = "redacting" /\ pc' = "assemble" /\ raw' = raw /\ records' = records /\ sampling' = sampling
        /\ redactions' = redactions /\ idx' = idx /\ stats' = stats /\ idx > Len(records)
    BY <1>12 DEF Redacted
  <2>2. Types' /\ Fresh' /\ ParsedWhole' /\ Sampled'
    BY <1>1, <1>6, <1>8, <2>1 DEF Types
  <2>3. SpansFound'
    <3>1. /\ idx \in 1 .. Len(records) + 1
          /\ \A n \in DOMAIN records : redactions[n] = IF n < idx THEN RedactRecord(records[n]) ELSE <<>>
      BY <1>1, <2>1 DEF SpansFound
    <3>2. DOMAIN records = 1 .. Len(records) /\ Len(records) \in Nat
      BY <1>5, <2>1
    <3>3. \A n \in 1 .. Len(records) : n < idx
      BY <2>1, <3>1, <3>2
    <3>4. ~stats.redact_bypassed
      BY <1>1, <2>1 DEF Types
    <3> QED BY <2>1, <3>1, <3>2, <3>3, <3>4 DEF SpansFound
  <2> QED BY <1>2, <2>2, <2>3 DEF IInv
<1>13. CASE RedactFault
  <2>1. /\ pc = "redacting" /\ pc' = "assemble" /\ raw' = raw /\ records' = records /\ sampling' = sampling
        /\ redactions' = clear_stage /\ idx' = idx /\ stats' = [stats EXCEPT !.redact_bypassed = TRUE]
    BY <1>13 DEF RedactFault
  <2>2. stats \in StatsType /\ ~stats.assemble_bypassed
    BY <1>1, <2>1 DEF Types
  <2>3. /\ stats' \in StatsType /\ stats'.redact_bypassed /\ stats'.assemble_bypassed = stats.assemble_bypassed
        /\ stats'.bytes_in = stats.bytes_in
        /\ stats'.parse_bypassed = stats.parse_bypassed /\ stats'.records_in = stats.records_in
        /\ stats'.dropped = stats.dropped /\ stats'.kept = stats.kept
    BY <2>1, <2>2 DEF StatsType
  <2>4. DOMAIN redactions' = DOMAIN redactions /\ \A n \in DOMAIN redactions : redactions'[n] = <<>>
    BY <2>1 DEF clear_stage
  <2>5. Types' /\ Fresh' /\ ParsedWhole' /\ Sampled'
    BY <1>6, <1>8, <2>1, <2>2, <2>3, <2>4 DEF Types
  <2>6. SpansFound'
    BY <1>1, <1>5, <2>1, <2>3, <2>4 DEF SpansFound
  <2> QED BY <1>2, <2>5, <2>6 DEF IInv
<1>14. CASE Return
  <2>1. Types'
    BY <1>14 DEF Types, StatsType, Return, NoStats
  <2>2. Fresh' /\ ParsedWhole' /\ Sampled' /\ SpansFound'
    BY <1>14 DEF Fresh, ParsedWhole, Sampled, SpansFound, Return, NoStats
  <2> QED BY <1>2, <2>1, <2>2 DEF IInv
<1> QED BY <1>3, <1>4, <1>7, <1>9, <1>10, <1>11, <1>12, <1>13, <1>14

\* The assembly stage keeps it, whichever way it ends.
LEMMA IInvAssembly ==
    ASSUME IInv, AssembleIdentity \/ Assemble \/ AssembleFails
    PROVE  IInv'
<1>1. Types /\ Fresh /\ ParsedWhole /\ Sampled /\ SpansFound
  BY DEF IInv
<1> DEFINE b == stats'.assemble_bypassed
<1>2. /\ pc = "assemble" /\ pc' = "done" /\ raw' = raw /\ records' = records /\ sampling' = sampling
      /\ redactions' = redactions /\ idx' = idx
  BY DEF AssembleIdentity, Assemble, AssembleFails, Finish
<1> DEFINE Ends(payload, bypassed) ==
             /\ output' = payload
             /\ stats' = [stats EXCEPT !.redactions = redaction_total, !.assemble_bypassed = bypassed,
                                       !.bytes_out = payload.size]
             /\ bypassed => ~NothingToDo
             /\ payload = IF NothingToDo \/ bypassed THEN raw ELSE After(raw, BuildRequest(raw, sampling, redactions))
<1>3. \E payload : \E bypassed \in BOOLEAN : Ends(payload, bypassed)
  <2>1. CASE AssembleIdentity
    <3>1. NothingToDo /\ Finish(raw, FALSE)
      BY <2>1 DEF AssembleIdentity
    <3>2. Ends(raw, FALSE)
      BY <3>1 DEF Finish
    <3> HIDE DEF Ends
    <3> QED BY <3>2
  <2>2. CASE AssembleFails
    <3>1. ~NothingToDo /\ Finish(raw, TRUE)
      BY <2>2 DEF AssembleFails
    <3>2. Ends(raw, TRUE)
      BY <3>1 DEF Finish
    <3> HIDE DEF Ends
    <3> QED BY <3>2
  <2>3. CASE Assemble
    <3> DEFINE built == BuildRequest(raw, sampling, redactions)
               x == IF built = Unchanged THEN raw ELSE built
    <3>1. ~NothingToDo /\ Finish(x, FALSE)
      BY <2>3 DEF Assemble
    <3>2. RequestOk(raw.fields)
      BY <1>2, <3>1, AtAssembly
    <3>3. Kept(built)
      BY <1>2, <3>2, AtAssembly
    <3>4. x = After(raw, built)
      <4> HIDE DEF built
      <4> QED BY <3>3 DEF Kept, After, Unchanged
    <3>5. Ends(x, FALSE)
      <4> HIDE DEF x
      <4> QED BY <3>1, <3>4 DEF Finish
    <3> HIDE DEF Ends, x
    <3> QED BY <3>5
  <2> QED BY <2>1, <2>2, <2>3
<1> HIDE DEF Ends
<1>11. PICK payload : \E bypassed \in BOOLEAN : Ends(payload, bypassed)
  BY <1>3
<1>12. PICK bypassed \in BOOLEAN : Ends(payload, bypassed)
  BY <1>11
<1> USE DEF Ends
<1>4. payload.size \in Nat /\ redaction_total \in Nat
  <2>1. raw \in Requests
    BY <1>1, <1>2 DEF Fresh
  <2>2. raw.size \in Nat
    BY <2>1, RequestIs
  <2>3. redaction_total \in Nat
    BY <1>2, AtAssembly
  <2>4. ASSUME ~NothingToDo PROVE After(raw, BuildRequest(raw, sampling, redactions)).size \in Nat
    <3>1. RequestOk(raw.fields)
      BY <1>2, <2>4, AtAssembly
    <3> DEFINE new == NewRequest(raw, sampling, redactions)
    <3>2. Kept(BuildRequest(raw, sampling, redactions)) /\ RequestAs(KeptRequest(raw, sampling), new)
      BY <1>2, <3>1, AtAssembly
    <3>3. KeptRequest(raw, sampling).kind = "msg"
      BY MsgIs DEF KeptRequest
    <3> HIDE DEF new
    <3>4. new.size \in Nat
      BY <3>2, <3>3 DEF RequestAs, Like, Sized
    <3> QED BY <3>4 DEF new, NewRequest
  <2> QED BY <1>12, <2>2, <2>3, <2>4
<1>5. stats \in StatsType
  BY <1>1 DEF Types
<1>6. /\ stats' \in StatsType /\ stats'.assemble_bypassed = bypassed /\ stats'.redactions = redaction_total
      /\ stats'.bytes_out = payload.size /\ stats'.redact_bypassed = stats.redact_bypassed
      /\ stats'.bytes_in = stats.bytes_in /\ stats'.parse_bypassed = stats.parse_bypassed
      /\ stats'.records_in = stats.records_in /\ stats'.dropped = stats.dropped /\ stats'.kept = stats.kept
  BY <1>12, <1>4, <1>5 DEF StatsType
<1>7. redaction_total' = redaction_total /\ NothingToDo' = NothingToDo /\ Drops' = Drops
  BY <1>2 DEF redaction_total, NothingToDo, any_dropped, Drops
<1>8. Types'
  BY <1>2, <1>6 DEF Types
<1>9. Fresh' /\ ParsedWhole' /\ Sampled' /\ SpansFound'
  <2>1. Fresh' /\ ParsedWhole'
    BY <1>1, <1>2, <1>6 DEF Fresh, ParsedWhole, ParsedRecords
  <2>2. Sampled'
    BY <1>1, <1>2, <1>6, <1>7 DEF Sampled
  <2>3. SpansFound'
    BY <1>1, <1>2, <1>6 DEF SpansFound
  <2> QED BY <2>1, <2>2, <2>3
<1>10. Assembled'
  BY <1>2, <1>12, <1>6, <1>7 DEF Assembled
<1> QED BY <1>8, <1>9, <1>10 DEF IInv

\* The decisions of every stage are those that the request alone calls for, and
\* what goes out carries them out (Pipeline::process).
THEOREM Invariant == Spec => []IInv
<1>1. ASSUME IInv, [Next]_vars PROVE IInv'
  <2>1. CASE Next
    BY <1>1, <2>1, IInvStages, IInvAssembly DEF Next
  <2>2. CASE UNCHANGED vars
    <3> USE <1>1, <2>2 DEF vars
    <3>1. Types' /\ Fresh' /\ ParsedWhole'
      BY DEF IInv, Types, Fresh, ParsedWhole, ParsedRecords
    <3>2. Sampled' /\ SpansFound'
      BY DEF IInv, Sampled, SpansFound, Drops
    <3>3. Assembled'
      BY DEF IInv, Assembled, redaction_total, NothingToDo, any_dropped
    <3> QED BY <3>1, <3>2, <3>3 DEF IInv
  <2> QED BY <1>1, <2>1, <2>2
<1> QED BY <1>1, IInvInit, PTL DEF Spec

\* The decisions are about the records that there are, whatever stage has
\* failed (clear_stage keeps the table).
THEOREM TypeCorrect == Spec => []TypeOK
<1>1. ASSUME IInv PROVE TypeOK
  <2>1. Types /\ Fresh /\ ParsedWhole /\ Sampled /\ SpansFound
    BY <1>1 DEF IInv
  <2>2. pc \in {"idle", "parse", "sample", "redact", "redacting", "assemble", "done"} /\ stats \in StatsType
    BY <2>1 DEF Types
  <2>3. /\ \A k \in {"records_in", "kept", "dropped", "redactions", "bytes_in", "bytes_out"} : stats[k] \in Nat
        /\ \A k \in {"parse_bypassed", "redact_bypassed", "assemble_bypassed"} : stats[k] \in BOOLEAN
    BY <2>2 DEF StatsType
  <2>4. DOMAIN redactions = DOMAIN records
    BY <2>1, <2>2 DEF Fresh, ParsedWhole
  <2>5. sampling \subseteq DOMAIN records
    BY <2>1 DEF Sampled, Drops
  <2>6. idx \in 1 .. Len(records) + 1
    <3>1. CASE pc \in {"idle", "parse"}
      <4>1. records = <<>> /\ idx = 1
        BY <2>1, <3>1 DEF Fresh
      <4> QED BY <4>1
    <3>2. CASE pc \in {"sample", "redact"}
      <4>1. idx = 1
        BY <2>1, <3>2 DEF SpansFound
      <4>2. Len(records) \in Nat
        BY <2>1, <2>4, <3>2, RecordsAre DEF Fresh, ParsedWhole
      <4> QED BY <4>1, <4>2
    <3>3. CASE pc \in {"redacting", "assemble", "done"}
      BY <2>1, <3>3 DEF SpansFound
    <3> QED BY <2>2, <3>1, <3>2, <3>3
  <2> QED BY <2>2, <2>3, <2>4, <2>5, <2>6 DEF TypeOK
<1> QED BY <1>1, Invariant, PTL

-----------------------------------------------------------------------------
(* What goes out. *)

\* No spans for any record.
NoSpans == [n \in DOMAIN records |-> <<>>]

\* The request that goes out is built from the drops and the spans decided, or
\* from none when a walk has failed.
LEMMA OutputIs ==
    ASSUME IInv, pc = "done"
    PROVE  /\ stats.parse_bypassed \/ stats.assemble_bypassed => output = raw
           /\ ~stats.parse_bypassed /\ ~stats.assemble_bypassed => output = NewRequest(raw, sampling, redactions)
           /\ stats.assemble_bypassed => output = NewRequest(raw, {}, NoSpans)
           /\ RequestRight(output) /\ output.size = EncodedLens(output.fields)
<1>1. /\ raw \in Requests /\ records = ParsedRecords /\ DOMAIN redactions = DOMAIN records
      /\ stats.parse_bypassed = ~RequestOk(raw.fields)
      /\ stats.assemble_bypassed => ~NothingToDo
      /\ output = IF NothingToDo \/ stats.assemble_bypassed THEN raw
                  ELSE After(raw, BuildRequest(raw, sampling, redactions))
  BY DEF IInv, Fresh, ParsedWhole, Assembled
<1>2. IsRequest(raw) /\ raw.kind = "msg" /\ RequestRight(raw) /\ raw.size = EncodedLens(raw.fields)
  BY <1>1, RequestIs
<1>3. ~RequestOk(raw.fields) => NothingToDo
  BY AtAssembly
<1>4. ASSUME RequestOk(raw.fields), ~stats.assemble_bypassed PROVE output = NewRequest(raw, sampling, redactions)
  <2>1. CASE NothingToDo
    <3>1. NewRequest(raw, sampling, redactions) = raw
      BY <1>4, <2>1, AtAssembly
    <3> QED BY <1>1, <2>1, <3>1
  <2>2. CASE ~NothingToDo
    BY <1>1, <1>4, <2>2 DEF NewRequest
  <2> QED BY <2>1, <2>2
<1>5. ASSUME stats.assemble_bypassed PROVE output = NewRequest(raw, {}, NoSpans)
  <2>1. RequestOk(raw.fields) /\ output = raw
    BY <1>1, <1>3, <1>5
  <2>2. DOMAIN records = 1 .. Len(RequestRecords(raw.fields))
    BY <1>1, <2>1, RecordsAre
  <2>3. \A n \in 1 .. Len(RequestRecords(raw.fields)) : NoSpans[n] = <<>>
    BY <2>2 DEF NoSpans
  <2>4. NewRequest(raw, {}, NoSpans) = raw
    BY <1>2, <2>3, NothingNew
  <2> QED BY <2>1, <2>4
<1>6. RequestRight(output) /\ output.size = EncodedLens(output.fields)
  <2>1. CASE NothingToDo \/ stats.assemble_bypassed
    BY <1>1, <1>2, <2>1
  <2>2. CASE ~(NothingToDo \/ stats.assemble_bypassed)
    <3>1. RequestOk(raw.fields)
      BY <1>3, <2>2
    <3> DEFINE kept == KeptRequest(raw, sampling)
    <3>2. RequestAs(kept, output)
      BY <1>4, <2>2, <3>1, AtAssembly
    <3>3. kept.kind = "msg"
      BY MsgIs DEF KeptRequest
    <3> HIDE DEF kept
    <3>4. RequestRight(output) /\ output.kind = "msg"
      BY <3>2, <3>3 DEF RequestAs, Like
    <3> QED BY <3>4 DEF RequestRight, Right
  <2> QED BY <2>1, <2>2
<1> QED BY <1>1, <1>3, <1>4, <1>5, <1>6

\* Every length prefix of what goes out is the length of what follows it, at
\* each depth (build_container, Seg sizes).
THEOREM LengthPrefixes == Spec => []PrefixesExact
<1>1. IInv => PrefixesExact
  BY OutputIs DEF PrefixesExact, Done
<1> QED BY <1>1, Invariant, PTL

\* Masks aside, what goes out is what came in without the records that the
\* policy drops (sampling, record numbers of both walkers, assemble).
THEOREM Faithful == Spec => []GovernedFaithfully
<1>1. ASSUME IInv PROVE GovernedFaithfully
  <2> SUFFICES ASSUME pc = "done", ~stats.parse_bypassed, ~stats.assemble_bypassed
               PROVE  OriginalRequest(output) = Governed(raw)
    BY <1>1, OutputIs DEF GovernedFaithfully, Done
  <2>1. /\ raw \in Requests /\ records = ParsedRecords /\ DOMAIN redactions = DOMAIN records
        /\ RequestOk(raw.fields) /\ sampling = Drops
    BY <1>1 DEF IInv, Types, Fresh, ParsedWhole, Sampled, StatsType
  <2>2. output = NewRequest(raw, sampling, redactions)
    BY <1>1, OutputIs
  <2>3. RequestAs(KeptRequest(raw, sampling), output)
    BY <1>1, <2>1, <2>2, AtAssembly
  <2>4. OriginalRequest(output) = KeptRequest(raw, sampling)
    BY <2>3 DEF RequestAs
  <2>5. records = RequestRecords(raw.fields) /\ DOMAIN records = 1 .. Len(RequestRecords(raw.fields))
    BY <2>1, RecordsAre
  <2>6. sampling = {n \in 1 .. Len(RequestRecords(raw.fields)) : ~sample_verdict(RequestRecords(raw.fields)[n])}
    BY <2>1, <2>5 DEF Drops
  <2>7. IsRequest(raw) /\ raw.kind = "msg" /\ raw.no = 0
    BY <2>1, RequestIs
  <2>8. KeptRequest(raw, sampling) = Governed(raw)
    BY <2>6, <2>7, KeptIsGoverned
  <2> QED BY <2>4, <2>8
<1> QED BY <1>1, Invariant, PTL

\* Each string that goes out and that redaction looks at: masks only for its
\* matches, all of them when redaction has run, none when it has not.
LEMMA ScannedString ==
    ASSUME IInv, pc = "done", ~stats.parse_bypassed, NEW s \in Scanned
    PROVE  /\ Tiles(s.f.parts, s.f.text.len) /\ Masks(s.f) \subseteq Matches(s)
           /\ ~stats.redact_bypassed /\ ~stats.assemble_bypassed =>
                \A m \in Matches(s) : m \in Masks(s.f) \/ \E x \in Masks(s.f) : x.lo <= m.lo /\ m.lo < x.hi
           /\ stats.redact_bypassed => Masks(s.f) = {}
<1>1. /\ raw \in Requests /\ records = ParsedRecords /\ DOMAIN redactions = DOMAIN records /\ RequestOk(raw.fields)
      /\ \A n \in DOMAIN records : redactions[n] = IF stats.redact_bypassed THEN <<>> ELSE RedactRecord(records[n])
  BY DEF IInv, Types, Fresh, ParsedWhole, SpansFound, StatsType
<1>2. IsRequest(raw) /\ raw.kind = "msg"
  BY <1>1, RequestIs
<1>3. records = RequestRecords(raw.fields) /\ DOMAIN records = 1 .. Len(RequestRecords(raw.fields))
  BY <1>1, RecordsAre
<1>4. PICK D, S :
        /\ Decided(raw, S) /\ output = NewRequest(raw, D, S)
        /\ stats.redact_bypassed => \A n \in DOMAIN records : S[n] = <<>>
        /\ ~stats.redact_bypassed /\ ~stats.assemble_bypassed => \A n \in DOMAIN records : S[n] = RedactRecord(records[n])
  <2>1. CASE stats.assemble_bypassed
    <3>1. \A n \in DOMAIN records : NoSpans[n] = <<>>
      BY DEF NoSpans
    <3>2. Decided(raw, NoSpans)
      BY <1>3, <3>1 DEF Decided
    <3> QED BY <2>1, <3>1, <3>2, OutputIs
  <2>2. CASE ~stats.assemble_bypassed
    <3>1. Decided(raw, redactions)
      BY <1>1, AtAssembly
    <3> QED BY <1>1, <2>2, <3>1, OutputIs
  <2> QED BY <2>1, <2>2
<1> DEFINE recs == RequestRecords(output.fields)
<1>5. PICK w \in Range(recs) : \E p \in Paths(w) :
          \/ p = w.body /\ s = [f |-> StrAt(w.raw, p), rules |-> BodyRules]
          \/ p \in Range(w.attrs) /\ s = [f |-> StrAt(w.raw, p), rules |-> AttrRules(KeyOf(w, p))]
  <2>1. PICK n \in DOMAIN recs :
            s \in {[f |-> StrAt(recs[n].raw, recs[n].body), rules |-> BodyRules] : x \in {recs[n].body} \ {NoView}}
                  \cup {[f |-> StrAt(recs[n].raw, a), rules |-> AttrRules(KeyOf(recs[n], a))] : a \in Range(recs[n].attrs)}
    BY DEF Scanned
  <2> DEFINE w == recs[n]
  <2>2. w \in Range(recs)
    BY DEF Range
  <2>3. \/ w.body # NoView /\ s = [f |-> StrAt(w.raw, w.body), rules |-> BodyRules]
        \/ \E a \in Range(w.attrs) : s = [f |-> StrAt(w.raw, a), rules |-> AttrRules(KeyOf(w, a))]
    BY <2>1
  <2> HIDE DEF w, recs
  <2> QED BY <2>2, <2>3 DEF Paths
<1>6. PICK p \in Paths(w) :
          \/ p = w.body /\ s = [f |-> StrAt(w.raw, p), rules |-> BodyRules]
          \/ p \in Range(w.attrs) /\ s = [f |-> StrAt(w.raw, p), rules |-> AttrRules(KeyOf(w, p))]
  BY <1>5
<1>7. /\ p \in Range(w.attrs) => p # w.body
      /\ \E n \in 1 .. Len(RequestRecords(raw.fields)) : \E v :
            /\ v = RequestRecords(raw.fields)[n] /\ SpansOfView(v, RedactRecord(v)) /\ p \in Paths(v)
            /\ IsStr(StrAt(v.raw, p)) /\ Fits(S[n], p, StrAt(v.raw, p).text)
            /\ StrAt(w.raw, p) = NewString(StrAt(v.raw, p), S[n], p)
            /\ RulesOf(w, p) = RulesOf(v, p)
  BY <1>1, <1>2, <1>4, NewStrings
<1>8. PICK n \in 1 .. Len(RequestRecords(raw.fields)) : \E v :
            /\ v = RequestRecords(raw.fields)[n] /\ SpansOfView(v, RedactRecord(v)) /\ p \in Paths(v)
            /\ IsStr(StrAt(v.raw, p)) /\ Fits(S[n], p, StrAt(v.raw, p).text)
            /\ StrAt(w.raw, p) = NewString(StrAt(v.raw, p), S[n], p)
            /\ RulesOf(w, p) = RulesOf(v, p)
  BY <1>7
<1> DEFINE v == records[n]
           f == StrAt(v.raw, p)
           g == StrAt(w.raw, p)
           spans == S[n]
           rules == RulesOf(v, p)
<1>9. /\ n \in DOMAIN records /\ SpansOfView(v, RedactRecord(v)) /\ p \in Paths(v)
      /\ IsStr(f) /\ Fits(spans, p, f.text) /\ g = NewString(f, spans, p) /\ RulesOf(w, p) = rules
  BY <1>3, <1>8
<1>10. s = [f |-> g, rules |-> rules]
  <2>1. CASE p = w.body
    <3>1. s = [f |-> g, rules |-> BodyRules]
      BY <1>6, <1>7, <2>1
    <3>2. rules = BodyRules
      BY <1>9, <2>1 DEF RulesOf
    <3> QED BY <3>1, <3>2
  <2>2. CASE p # w.body
    <3>1. s = [f |-> g, rules |-> AttrRules(KeyOf(w, p))]
      BY <1>6, <2>2
    <3>2. rules = AttrRules(KeyOf(w, p))
      BY <1>9, <2>2 DEF RulesOf
    <3> QED BY <3>1, <3>2
  <2> QED BY <2>1, <2>2
<1>11. rules \in SUBSET DOMAIN RuleSpecs
  BY RulesOfAre
<1>12. spans = <<>> \/ spans = RedactRecord(v)
  BY <1>3, <1>4, <1>9 DEF Decided
<1> HIDE DEF rules, g, spans
<1>13. \A x \in Range(spans) : x.at = p => IsMatch(x, f.text, p, rules)
  <2>1. CASE spans = <<>>
    <3>1. Range(spans) = {}
      BY <2>1 DEF Range
    <3> QED BY <3>1
  <2>2. CASE spans = RedactRecord(v)
    BY <1>9, <2>2 DEF SpansOfView, rules
  <2> QED BY <1>12, <2>1, <2>2
<1>14. AllFound(RedactRecord(v), f.text, p, rules)
  BY <1>9 DEF SpansOfView, rules
<1> HIDE DEF f, v
<1>15. /\ Tiles(g.parts, g.text.len)
       /\ Masks(g) \subseteq Matches([f |-> g, rules |-> rules])
       /\ AllFound(spans, f.text, p, rules) =>
            \A m \in Matches([f |-> g, rules |-> rules]) :
                m \in Masks(g) \/ \E x \in Masks(g) : x.lo <= m.lo /\ m.lo < x.hi
       /\ spans = <<>> => Masks(g) = {}
  BY <1>9, <1>11, <1>13, MaskedString
<1>16. s.f = g
  BY <1>10
<1>17. stats.redact_bypassed => spans = <<>>
  BY <1>4, <1>9 DEF spans
<1>18. ~stats.redact_bypassed /\ ~stats.assemble_bypassed => spans = RedactRecord(v)
  BY <1>4, <1>9 DEF spans, v
<1> QED BY <1>10, <1>14, <1>15, <1>16, <1>17, <1>18

\* Each string that goes out is the original, piece by piece, with masks only
\* for what the rules that scan it match (effective_spans, build_scalar, the
\* mask table of compile), whatever stage was skipped or has failed.
THEOREM MasksOnlyMatches == Spec => []MaskedOnlyMatches
<1>1. IInv => MaskedOnlyMatches
  BY ScannedString DEF MaskedOnlyMatches, Done
<1> QED BY <1>1, Invariant, PTL

\* Where redaction has run, every match is masked or starts inside one that is
\* (redact_field finds all of them, effective_spans keeps the first).
THEOREM FirstMatch == Spec => []FirstMatchWins
<1>1. IInv => FirstMatchWins
  BY ScannedString DEF FirstMatchWins, Done
<1> QED BY <1>1, Invariant, PTL

\* The sizes that are reported are those of the two requests, the records those
\* that came in and, unless the assembly failed, those that go out; a bypassed
\* redaction reports none and leaves no mask (Stats, clear_stage and assemble).
THEOREM Truthful == Spec => []CountsTruthful
<1>1. ASSUME IInv, pc = "done"
      PROVE  /\ stats.bytes_in = EncodedLens(raw.fields) /\ stats.bytes_out = EncodedLens(output.fields)
             /\ stats.kept + stats.dropped = stats.records_in
             /\ stats.records_in = IF stats.parse_bypassed THEN 0 ELSE RecordsWalked(raw)
             /\ ~stats.parse_bypassed =>
                   RecordsWalked(output) = IF stats.assemble_bypassed THEN stats.records_in ELSE stats.kept
             /\ stats.parse_bypassed \/ stats.redact_bypassed => stats.redactions = 0
             /\ stats.redact_bypassed /\ ~stats.parse_bypassed => \A s \in Scanned : Masks(s.f) = {}
  <2>1. /\ raw \in Requests /\ stats.bytes_in = raw.size /\ stats.bytes_out = output.size
        /\ records = ParsedRecords /\ DOMAIN redactions = DOMAIN records
        /\ stats.parse_bypassed = ~RequestOk(raw.fields) /\ stats.records_in = Len(records)
        /\ sampling = Drops /\ stats.dropped = Cardinality(sampling) /\ stats.kept = Len(records) - Cardinality(sampling)
        /\ stats.redactions = redaction_total
    BY <1>1 DEF IInv, Fresh, ParsedWhole, Sampled, Assembled
  <2>2. stats.bytes_in = EncodedLens(raw.fields) /\ stats.bytes_out = EncodedLens(output.fields)
    BY <1>1, <2>1, OutputIs, RequestIs
  <2>3. Len(records) \in Nat /\ DOMAIN records = 1 .. Len(records)
    BY <2>1, RecordsAre
  <2>4. Cardinality(Drops) \in Nat /\ Left(Drops, Len(records)) = Len(records) - Cardinality(Drops)
    BY <2>3, DropsAre
  <2>5. stats.kept + stats.dropped = stats.records_in
    BY <2>1, <2>3, <2>4
  <2>6. ASSUME RequestOk(raw.fields), ~stats.assemble_bypassed PROVE RecordsWalked(output) = stats.kept
    <3>1. output = NewRequest(raw, sampling, redactions)
      BY <1>1, <2>1, <2>6, OutputIs
    <3>2. IsRequest(raw) /\ raw.kind = "msg" /\ RequestFits(raw, sampling, redactions)
      BY <1>1, <2>1, <2>6, AtAssembly, RequestIs
    <3>3. RecordsWalked(output) = Left(sampling, RecordsWalked(raw))
      BY <3>1, <3>2, RequestLeft
    <3>4. RecordsWalked(raw) = Len(records)
      BY <2>1, <2>6, RecordsAre
    <3> QED BY <2>1, <2>4, <3>3, <3>4
  <2>7. stats.parse_bypassed \/ stats.redact_bypassed => stats.redactions = 0
    BY <1>1, <2>1, AtAssembly DEF NothingToDo
  <2>8. ASSUME stats.redact_bypassed, ~stats.parse_bypassed, NEW s \in Scanned PROVE Masks(s.f) = {}
    BY <1>1, <2>8, ScannedString
  <2>9. stats.records_in = IF stats.parse_bypassed THEN 0 ELSE RecordsWalked(raw)
    <3>1. Len(<<>>) = 0
      OBVIOUS
    <3> QED BY <2>1, <3>1, RecordsAre
  <2>10. ~stats.parse_bypassed =>
            RecordsWalked(output) = IF stats.assemble_bypassed THEN stats.records_in ELSE stats.kept
    <3>1. stats.assemble_bypassed => output = raw
      BY <1>1, OutputIs
    <3> QED BY <2>1, <2>6, <2>9, <3>1
  <2> QED BY <2>2, <2>5, <2>7, <2>8, <2>9, <2>10
<1>2. IInv => CountsTruthful
  BY <1>1 DEF CountsTruthful, Done
<1> QED BY <1>2, Invariant, PTL

-----------------------------------------------------------------------------
(* A trace is one decision. *)

\* A record has at most one trace id.
LEMMA TraceIdIs ==
    ASSUME NEW f, IsRequest(f), f.kind = "msg", RequestOk(f.fields), NEW v \in Range(RequestRecords(f.fields)),
           NEW t \in v.trace_id
    PROVE  v.trace_id = {t}
<1>1. \E i, j, k : IsRecord(f, i, j, k) /\ v = ViewOf(f, i, j, k)
  BY RequestIsSeq, ViewsAre
<1>2. PICK i, j, k : v = ViewOf(f, i, j, k)
  BY <1>1
<1> DEFINE fields == f.fields[i].fields[j].fields[k].fields
           traces == {n \in At(fields, "str", 9) : fields[n].size \in {16, 32}}
<1>3. v.trace_id = LastOf(traces, LAMBDA n : fields[n].text)
  BY <1>2 DEF ViewOf, RecordView
<1> HIDE DEF fields
<1>4. v.trace_id = IF traces = {} THEN {} ELSE {fields[Max(traces)].text}
  BY <1>3 DEF LastOf
<1> QED BY <1>4

\* The id that a record is judged by is the trace that its text names.
LEMMA NamedTrace ==
    ASSUME NEW v, NEW t, v.trace_id = {t}, NEW trace, Names(t, trace)
    PROVE  trace_id_bytes(v) = {trace}
<1> DEFINE whole == {u \in {t} : u.len = 16}
           text == {u \in {t} : u.len = 32 /\ u.id \in DOMAIN Hex}
<1>1. trace_id_bytes(v) = {u.id : u \in whole} \cup {Hex[u.id] : u \in text}
  BY DEF trace_id_bytes
<1>2. CASE t.len = 16 /\ trace = t.id
  <2>1. whole = {t} /\ text = {}
    BY <1>2
  <2> HIDE DEF whole, text
  <2> QED BY <1>1, <1>2, <2>1
<1>3. CASE t.len = 32 /\ t.id \in DOMAIN Hex /\ trace = Hex[t.id]
  <2>1. whole = {} /\ text = {t}
    BY <1>3
  <2> HIDE DEF whole, text
  <2> QED BY <1>1, <1>3, <2>1
<1> QED BY <1>2, <1>3 DEF Names

\* Records of one trace and one target are sent or dropped together, however
\* their ids are written (trace_id_bytes, keep).
THEOREM TracesWhole == Spec => []TraceWhole
<1>1. ASSUME IInv, pc = "done", NEW m \in DOMAIN records, NEW n \in DOMAIN records,
             NEW t \in records[m].trace_id, NEW u \in records[n].trace_id, NEW trace,
             Names(t, trace), Names(u, trace), resolve(records[m]) = resolve(records[n])
      PROVE  m \in sampling <=> n \in sampling
  <2>1. raw \in Requests /\ records = ParsedRecords /\ DOMAIN redactions = DOMAIN records /\ sampling = Drops
    BY <1>1 DEF IInv, Fresh, ParsedWhole, Sampled
  <2>2. RequestOk(raw.fields) /\ records = RequestRecords(raw.fields)
    <3>1. records # <<>>
      BY <1>1
    <3> QED BY <2>1, <3>1, RecordsAre
  <2>3. IsRequest(raw) /\ raw.kind = "msg"
    BY <2>1, RequestIs
  <2>4. records[m] \in Range(records) /\ records[n] \in Range(records)
    BY DEF Range
  <2>5. records[m].trace_id = {t} /\ records[n].trace_id = {u}
    BY <2>2, <2>3, <2>4, TraceIdIs
  <2>6. trace_id_bytes(records[m]) = {trace}
    BY <1>1, <2>5, NamedTrace
  <2>7. trace_id_bytes(records[n]) = {trace}
    BY <1>1, <2>5, NamedTrace
  <2>8. sample_verdict(records[m]) = sample_verdict(records[n])
    BY <1>1, <2>6, <2>7 DEF sample_verdict
  <2> QED BY <2>1, <2>8 DEF Drops
<1>2. ASSUME IInv PROVE TraceWhole
  <2> DEFINE SameTrace(m, n) == \E t \in records[m].trace_id, u \in records[n].trace_id :
                                   \E trace \in {t.id} \cup Range(Hex) : Names(t, trace) /\ Names(u, trace)
  <2> SUFFICES ASSUME pc = "done", NEW m \in DOMAIN records, NEW n \in DOMAIN records,
                      SameTrace(m, n), resolve(records[m]) = resolve(records[n])
               PROVE  m \in sampling <=> n \in sampling
    BY DEF TraceWhole, Done
  <2>1. PICK t \in records[m].trace_id, u \in records[n].trace_id :
            \E trace \in {t.id} \cup Range(Hex) : Names(t, trace) /\ Names(u, trace)
    OBVIOUS
  <2>2. PICK trace \in {t.id} \cup Range(Hex) : Names(t, trace) /\ Names(u, trace)
    BY <2>1
  <2> QED BY <1>1, <1>2, <2>2
<1> QED BY <1>2, Invariant, PTL
=============================================================================
