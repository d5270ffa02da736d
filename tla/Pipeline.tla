------------------------------ MODULE Pipeline ------------------------------
(***************************************************************************)
(* One request through the stages of Pipeline::process,                    *)
(* src/src/pipeline.rs: parse, sample, redact, assemble, with the          *)
(* fail-open guard around a stage (archiv-pipeline/src/guard.rs) and the   *)
(* decisions it clears (archiv-pipeline/src/envelope.rs).                  *)
(*                                                                         *)
(* External: the hash (a bucket for each key), regular expressions (the    *)
(* hits of a text), whether the breaker allows redaction (module Breaker). *)
(* The per-rule match counters of RedactStage, which the agent never       *)
(* reads, are left out.                                                    *)
(***************************************************************************)
EXTENDS Otlp

CONSTANTS
    Requests,         \* the requests received
    SamplingRules,    \* [namespace, severity_lte : an Option; target]
    default_target,   \* percent kept when no rule matches
    RuleSpecs,        \* redaction rules [fields, mask]; a field is "body" or a glob
    GlobMatches,      \* the pairs <<glob, string>> that match
    Hex,              \* the trace id that each hexadecimal string stands for
    TraceBucket,      \* hash % 100 of a trace id
    FallbackBucket    \* hash % 100 of <<service name, body>>

VARIABLES
    raw,          \* the request, never changed
    pc,           \* the stage that comes next
    records,      \* the views of the parse stage
    sampling,     \* numbers of the records to drop
    redactions,   \* for each record, its spans in the order they were found
    idx,          \* the record the redaction stage is at
    stats,        \* Stats
    output        \* the assembled request

vars == <<raw, pc, records, sampling, redactions, idx, stats, output>>

-----------------------------------------------------------------------------
(* Sampling *)

severity_band_max == [TRACE |-> 4, DEBUG |-> 8, INFO |-> 12, WARN |-> 16, ERROR |-> 20, FATAL |-> 24]

\* A text with, for each rule, the ranges that it finds.
IsText(t) ==
    /\ t.len \in Nat
    /\ DOMAIN t.hits = DOMAIN RuleSpecs
    /\ \A n \in DOMAIN t.hits : t.hits[n] \in Seq({h \in (0 .. t.len) \X (0 .. t.len) : h[1] <= h[2]})

\* A field as it is received, with a message only where the walkers open one.
Received(f, IsField(_)) ==
    CASE f.kind = "num" -> f = Num(f.no, f.val)
      [] f.kind = "str" -> f = Str(f.no, f.text) /\ IsText(f.text)
      [] f.kind = "msg" -> /\ f = Msg(f.no, f.fields)
                           /\ f.fields \in Seq(Range(f.fields))
                           /\ \A i \in DOMAIN f.fields : IsField(f.fields[i])
      [] OTHER          -> f = Bad

IsString(f)       == f.kind # "msg" /\ Received(f, LAMBDA g : FALSE)
IsAnyValue(f)     == Received(f, IsString)
IsKeyValue(f)     == Received(f, IsAnyValue)
IsLogRecord(f)    == Received(f, IsKeyValue)
IsScopeLogs(f)    == Received(f, IsLogRecord)
IsResourceLogs(f) == Received(f, IsScopeLogs)
IsRequest(f)      == Received(f, IsResourceLogs)

ASSUME PipelineAssumption ==
    /\ default_target \in 0 .. 100
    /\ \A n \in DOMAIN SamplingRules :
          /\ SamplingRules[n].target \in 0 .. 100
          /\ SamplingRules[n].severity_lte \subseteq DOMAIN severity_band_max
    /\ RuleSpecs \in Seq(Range(RuleSpecs))
    /\ \A n \in DOMAIN RuleSpecs : RuleSpecs[n].mask \in DOMAIN MaskLen \ {"raw"}
    /\ \A r \in Requests : r.kind = "msg" /\ r.no = 0 /\ IsRequest(r)

\* A condition on a field that the record does not have is not met.
rule_matches(rule, rec) ==
    /\ \A g \in rule.namespace : \E ns \in rec.namespace : <<g, ns>> \in GlobMatches
    /\ \A name \in rule.severity_lte : \E sev \in rec.severity : sev <= severity_band_max[name]

resolve(rec) ==
    LET matching == {n \in DOMAIN SamplingRules : rule_matches(SamplingRules[n], rec)}
    IN  IF matching = {} THEN default_target ELSE SamplingRules[Min(matching)].target

\* Mutant: a hexadecimal id is hashed as it stands.
trace_id_bytes_undecoded(rec) == {t.id : t \in rec.trace_id}

\* 16 bytes as they are, 32 decoded; no id when they are not hexadecimal.
trace_id_bytes(rec) ==
    {t.id : t \in {u \in rec.trace_id : u.len = 16}}
      \cup {Hex[t.id] : t \in {u \in rec.trace_id : u.len = 32 /\ u.id \in DOMAIN Hex}}

\* The id of the text that a view leads to.
BodyId(rec) == IF rec.body = NoView THEN "" ELSE StrAt(rec.raw, rec.body).text.id
ServiceOf(rec) == IF rec.service = {} THEN "" ELSE CHOOSE s \in rec.service : TRUE

\* The frozen rule of archiv-sampling, by the trace or, without one, by service
\* and body; a target of 100 keeps all, one of 0 none.
keep(trace_id, target_pct)              == TraceBucket[trace_id] < target_pct
keep_untraced(service, body, target_pct) == FallbackBucket[<<service, body>>] < target_pct

sample_verdict(rec) ==
    IF trace_id_bytes(rec) = {} THEN keep_untraced(ServiceOf(rec), BodyId(rec), resolve(rec))
    ELSE keep(CHOOSE id \in trace_id_bytes(rec) : TRUE, resolve(rec))

-----------------------------------------------------------------------------
(* Redaction *)

\* compile: equal masks share one entry of the mask table.
MaskTable ==
    LET masks[n \in 0 .. Len(RuleSpecs)] ==
            IF n = 0 THEN <<>>
            ELSE IF Contains(masks[n - 1], RuleSpecs[n].mask) THEN masks[n - 1]
            ELSE Append(masks[n - 1], RuleSpecs[n].mask)
    IN  masks[Len(RuleSpecs)]
MaskId(n) == CHOOSE i \in DOMAIN MaskTable : MaskTable[i] = RuleSpecs[n].mask

applies_to_body(n)      == "body" \in RuleSpecs[n].fields
applies_to_attr(n, key) == \E g \in RuleSpecs[n].fields \ {"body"} : <<g, key>> \in GlobMatches

\* redact_field: the matches of the rules that apply, rule by rule.
RedactField(f, path, applies) ==
    LET Spans(n) == IF n \in applies THEN [k \in DOMAIN f.text.hits[n] |->
                        [at |-> path, lo |-> f.text.hits[n][k][1], hi |-> f.text.hits[n][k][2],
                         mask |-> MaskTable[MaskId(n)]]]
                    ELSE <<>>
    IN  IF f.text.len = 0 THEN <<>> ELSE FlattenSeq([n \in DOMAIN RuleSpecs |-> Spans(n)])

BodyRules      == {n \in DOMAIN RuleSpecs : applies_to_body(n)}
AttrRules(key) == {n \in DOMAIN RuleSpecs : applies_to_attr(n, key)}
KeyOf(rec, path) == AttrKey(rec.raw[path[1]].fields)

RedactRecord(rec) ==
    (IF rec.body = NoView THEN <<>> ELSE RedactField(StrAt(rec.raw, rec.body), rec.body, BodyRules))
    \o FlattenSeq([a \in DOMAIN rec.attrs |->
         RedactField(StrAt(rec.raw, rec.attrs[a]), rec.attrs[a], AttrRules(KeyOf(rec, rec.attrs[a])))])

-----------------------------------------------------------------------------
NoStats == [records_in |-> 0, kept |-> 0, dropped |-> 0, redactions |-> 0,
            bytes_in |-> 0, bytes_out |-> 0,
            parse_bypassed |-> FALSE, redact_bypassed |-> FALSE, assemble_bypassed |-> FALSE]

NoRequest == Msg(0, <<>>)

Init ==
    /\ raw = NoRequest /\ pc = "idle" /\ output = NoRequest
    /\ records = <<>> /\ sampling = {} /\ redactions = <<>> /\ idx = 1
    /\ stats = NoStats

\* process starts with a new Envelope.
Receive(r) ==
    /\ pc = "idle" /\ pc' = "parse"
    /\ raw' = r /\ output' = NoRequest
    /\ records' = <<>> /\ sampling' = {} /\ redactions' = <<>> /\ idx' = 1
    /\ stats' = [NoStats EXCEPT !.bytes_in = r.size]

\* The views are kept only when the whole request parses.
Parse ==
    /\ pc = "parse" /\ pc' = "sample"
    /\ records' = IF RequestOk(raw.fields) THEN RequestRecords(raw.fields) ELSE <<>>
    /\ redactions' = [n \in DOMAIN records' |-> <<>>]
    /\ stats' = [stats EXCEPT !.parse_bypassed = ~RequestOk(raw.fields),
                              !.records_in = Len(records')]
    /\ UNCHANGED <<raw, sampling, idx, output>>

Sample ==
    /\ pc = "sample" /\ pc' = "redact"
    /\ sampling' = {n \in DOMAIN records : ~sample_verdict(records[n])}
    /\ stats' = [stats EXCEPT !.dropped = Cardinality(sampling'),
                              !.kept = Len(records) - Cardinality(sampling')]
    /\ UNCHANGED <<raw, records, redactions, idx, output>>

\* The breaker is open.
SkipRedaction ==
    /\ pc = "redact" /\ pc' = "assemble"
    /\ stats' = [stats EXCEPT !.redact_bypassed = TRUE]
    /\ UNCHANGED <<raw, records, sampling, redactions, idx, output>>

AllowRedaction ==
    /\ pc = "redact" /\ pc' = "redacting"
    /\ UNCHANGED <<raw, records, sampling, redactions, idx, stats, output>>

\* One turn of the loop of RedactStage::apply.
RedactNext ==
    /\ pc = "redacting" /\ idx <= Len(records)
    /\ redactions' = [redactions EXCEPT ![idx] = RedactRecord(records[idx])]
    /\ idx' = idx + 1
    /\ UNCHANGED <<raw, pc, records, sampling, stats, output>>

Redacted ==
    /\ pc = "redacting" /\ idx > Len(records) /\ pc' = "assemble"
    /\ UNCHANGED <<raw, records, sampling, redactions, idx, stats, output>>

\* Mutant: the spans of a stage that failed half way stay.
RedactFaultKeepsSpans ==
    /\ pc = "redacting" /\ pc' = "assemble"
    /\ stats' = [stats EXCEPT !.redact_bypassed = TRUE]
    /\ UNCHANGED <<raw, records, sampling, redactions, idx, output>>

\* Mutant: the whole table goes with the spans.
RedactFaultDropsTable ==
    /\ pc = "redacting" /\ pc' = "assemble"
    /\ redactions' = <<>>
    /\ stats' = [stats EXCEPT !.redact_bypassed = TRUE]
    /\ UNCHANGED <<raw, records, sampling, idx, output>>

\* The spans that a stage has emitted so far are discarded.
clear_stage == [n \in DOMAIN redactions |-> <<>>]

\* The stage panics: the guard clears it.
RedactFault ==
    /\ pc = "redacting" /\ pc' = "assemble"
    /\ redactions' = clear_stage
    /\ stats' = [stats EXCEPT !.redact_bypassed = TRUE]
    /\ UNCHANGED <<raw, records, sampling, idx, output>>

\* Mutant: counts the records, not the spans.
redaction_total_records == Cardinality({n \in DOMAIN redactions : redactions[n] # <<>>})

redaction_total == SumOf([n \in DOMAIN redactions |-> Len(redactions[n])])

any_dropped == sampling # {}

\* The fast path of assemble.
NothingToDo == ~any_dropped /\ redaction_total = 0

Finish(payload, bypassed) ==
    /\ pc = "assemble" /\ pc' = "done"
    /\ output' = payload
    /\ stats' = [stats EXCEPT !.redactions = redaction_total,
                              !.assemble_bypassed = bypassed, !.bytes_out = payload.size]
    /\ UNCHANGED <<raw, records, sampling, redactions, idx>>

AssembleIdentity == NothingToDo /\ Finish(raw, FALSE)

Walked == BuildRequestOk(raw, sampling) /\ RecordsWalked(raw) = Len(records)

Assemble ==
    LET built == BuildRequest(raw, sampling, redactions)
    IN  /\ ~NothingToDo /\ Walked
        /\ Finish(IF built = Unchanged THEN raw ELSE built, FALSE)

\* A walk error: the original bytes are forwarded.
AssembleFails == ~NothingToDo /\ ~Walked /\ Finish(raw, TRUE)

Return ==
    /\ pc = "done" /\ pc' = "idle"
    /\ raw' = NoRequest /\ output' = NoRequest
    /\ records' = <<>> /\ sampling' = {} /\ redactions' = <<>> /\ idx' = 1
    /\ stats' = NoStats

Next ==
    \/ \E r \in Requests : Receive(r)
    \/ Parse \/ Sample
    \/ SkipRedaction \/ AllowRedaction \/ RedactNext \/ Redacted \/ RedactFault
    \/ AssembleIdentity \/ Assemble \/ AssembleFails
    \/ Return

Spec == Init /\ [][Next]_vars

-----------------------------------------------------------------------------
(* Properties.  They compare the request that came in with the one that goes *)
(* out, by definitions of their own.                                         *)

Done == pc = "done"

\* What the stages keep has its type; the decisions are about the records.
TypeOK ==
    /\ pc \in {"idle", "parse", "sample", "redact", "redacting", "assemble", "done"}
    /\ sampling \subseteq DOMAIN records
    /\ DOMAIN redactions = DOMAIN records
    /\ idx \in 1 .. Len(records) + 1
    /\ \A k \in {"records_in", "kept", "dropped", "redactions", "bytes_in", "bytes_out"} : stats[k] \in Nat
    /\ \A k \in {"parse_bypassed", "redact_bypassed", "assemble_bypassed"} : stats[k] \in BOOLEAN

\* A field as it was received, at each depth.
Restored(f, Original(_)) ==
    CASE f.kind = "str" -> Str(f.no, f.text)
      [] f.kind = "msg" -> Msg(f.no, [i \in DOMAIN f.fields |-> Original(f.fields[i])])
      [] OTHER          -> f

OriginalString(f)       == Restored(f, LAMBDA g : g)
OriginalAnyValue(f)     == Restored(f, OriginalString)
OriginalKeyValue(f)     == Restored(f, OriginalAnyValue)
OriginalLogRecord(f)    == Restored(f, OriginalKeyValue)
OriginalScopeLogs(f)    == Restored(f, OriginalLogRecord)
OriginalResourceLogs(f) == Restored(f, OriginalScopeLogs)
OriginalRequest(f)      == Restored(f, OriginalResourceLogs)

\* The request with the records that the policy drops taken out, each judged
\* where it stands.
Governed(req) ==
    LET Children(f, no, Sub(_)) ==
            FlattenSeq([i \in DOMAIN f.fields |->
                IF i \in At(f.fields, "msg", no) THEN Sub(f.fields[i]) ELSE <<f.fields[i]>>])
        Keeps(rl, rec) == sample_verdict(RecordView(rec.fields, ResourceAttr(rl.fields, "k8s.namespace.name"),
                                                    ResourceAttr(rl.fields, "service.name")))
        Scope(rl, sl) == Msg(2, Children(sl, 2, LAMBDA rec : IF Keeps(rl, rec) THEN <<rec>> ELSE <<>>))
        Resource(rl)  == Msg(1, Children(rl, 2, LAMBDA sl : <<Scope(rl, sl)>>))
    IN  Msg(0, Children(req, 1, LAMBDA rl : <<Resource(rl)>>))

\* Masks aside, what goes out is what came in without the records that the
\* policy drops, and nothing else is added, lost or moved; a request that one
\* of the walkers cannot read goes out as it came in.
GovernedFaithfully ==
    Done => IF stats.parse_bypassed \/ stats.assemble_bypassed THEN output = raw
            ELSE OriginalRequest(output) = Governed(raw)

\* The length prefix of a field, and those of the fields in it, are right.
Right(f, IsRight(_)) ==
    CASE f.kind = "str" -> f.size = PartLens(f.parts)
      [] f.kind = "msg" -> f.size = EncodedLens(f.fields) /\ \A i \in DOMAIN f.fields : IsRight(f.fields[i])
      [] OTHER          -> TRUE

StringRight(f)       == Right(f, LAMBDA g : FALSE)
AnyValueRight(f)     == Right(f, StringRight)
KeyValueRight(f)     == Right(f, AnyValueRight)
LogRecordRight(f)    == Right(f, KeyValueRight)
ScopeLogsRight(f)    == Right(f, LogRecordRight)
ResourceLogsRight(f) == Right(f, ScopeLogsRight)
RequestRight(f)      == Right(f, ResourceLogsRight)

\* Every length prefix of the assembled request is the length of what follows
\* it, whatever masks and drops changed below (build_container, Seg sizes).
PrefixesExact == Done => RequestRight(output)

\* The strings of the output that redaction looks at, and the rules for each.
Scanned ==
    LET recs == RequestRecords(output.fields)
        Of(rec) == {[f |-> StrAt(rec.raw, rec.body), rules |-> BodyRules] : x \in {rec.body} \ {NoView}}
                   \cup {[f |-> StrAt(rec.raw, a), rules |-> AttrRules(KeyOf(rec, a))] : a \in Range(rec.attrs)}
    IN  UNION {Of(recs[n]) : n \in DOMAIN recs}

Masks(f) == {x \in Range(f.parts) : x.mask # "raw"}
Matches(s) ==
    IF s.f.text.len = 0 THEN {}
    ELSE UNION {{Mask(RuleSpecs[n].mask, h[1], h[2]) : h \in Range(s.f.text.hits[n])} : n \in s.rules}

Tiles(parts, len) ==
    /\ \A i \in DOMAIN parts : parts[i].lo = IF i = 1 THEN 0 ELSE parts[i - 1].hi
    /\ (IF parts = <<>> THEN 0 ELSE Last(parts).hi) = len

\* A spliced string is the original text, piece by piece and in order, with
\* masks only in place of matches of rules that scan it, each with the mask
\* of its rule (effective_spans, build_scalar, the mask table of compile).
MaskedOnlyMatches ==
    Done /\ ~stats.parse_bypassed =>
        \A s \in Scanned : Tiles(s.f.parts, s.f.text.len) /\ Masks(s.f) \subseteq Matches(s)

\* When redaction has run, every match is masked, or starts inside a match
\* that is: an overlap hides no start and adjacent matches are both masked.
FirstMatchWins ==
    Done /\ ~stats.parse_bypassed /\ ~stats.redact_bypassed /\ ~stats.assemble_bypassed =>
        \A s \in Scanned : \A m \in Matches(s) :
            m \in Masks(s.f) \/ \E x \in Masks(s.f) : x.lo <= m.lo /\ m.lo < x.hi

\* The trace that a text of 16 bytes, or of 32 hexadecimal digits, names.
Names(t, trace) == (t.len = 16 /\ trace = t.id) \/ (t.len = 32 /\ t.id \in DOMAIN Hex /\ trace = Hex[t.id])

\* A trace is kept or dropped as a whole under one target, whether its id is
\* sent as 16 bytes or as 32 hexadecimal digits (sampling lib.rs: "distributed
\* traces are never broken").
TraceWhole ==
    LET Sent(n) == stats.assemble_bypassed \/ n \notin sampling
        SameTrace(m, n) == \E t \in records[m].trace_id, u \in records[n].trace_id :
                              \E trace \in {t.id} \cup Range(Hex) : Names(t, trace) /\ Names(u, trace)
    IN  Done => \A m, n \in DOMAIN records :
            SameTrace(m, n) /\ resolve(records[m]) = resolve(records[n]) => (Sent(m) <=> Sent(n))

\* The numbers reported against the two requests.  The sizes are those of what
\* came in and what goes out, whatever failed.  Of a parsed request, records_in
\* counts the records that came in, and kept those that go out; when the
\* assembly fails (pipeline.rs:184) all of records_in go out, whatever kept and
\* dropped say.  A bypassed redaction reports none and leaves no mask behind
\* (clear_stage).
CountsTruthful ==
    Done =>
        /\ stats.bytes_in = EncodedLens(raw.fields) /\ stats.bytes_out = EncodedLens(output.fields)
        /\ stats.kept + stats.dropped = stats.records_in
        /\ stats.records_in = IF stats.parse_bypassed THEN 0 ELSE RecordsWalked(raw)
        /\ ~stats.parse_bypassed =>
              RecordsWalked(output) = IF stats.assemble_bypassed THEN stats.records_in ELSE stats.kept
        /\ stats.parse_bypassed \/ stats.redact_bypassed => stats.redactions = 0
        /\ stats.redact_bypassed /\ ~stats.parse_bypassed => \A s \in Scanned : Masks(s.f) = {}

\* The strings of a request that redaction looks at, record by record.
StringsOf(req) ==
    LET recs == RequestRecords(req.fields)
        Of(rec) == (IF rec.body = NoView THEN <<>> ELSE <<[f |-> StrAt(rec.raw, rec.body), rules |-> BodyRules]>>)
                   \o [a \in DOMAIN rec.attrs |->
                         [f |-> StrAt(rec.raw, rec.attrs[a]), rules |-> AttrRules(KeyOf(rec, rec.attrs[a]))]]
    IN  FlattenSeq([n \in DOMAIN recs |-> Of(recs[n])])

MasksOut(req) ==
    LET strings == StringsOf(req)
    IN  SumOf([i \in DOMAIN strings |->
            Cardinality({k \in DOMAIN strings[i].f.parts : strings[i].f.parts[k].mask # "raw"})])

MatchesFound(req) ==
    LET strings == StringsOf(req)
        Found(s) == IF s.f.text.len = 0 THEN {} ELSE UNION {{n} \X DOMAIN s.f.text.hits[n] : n \in s.rules}
    IN  SumOf([i \in DOMAIN strings |-> Cardinality(Found(strings[i]))])

\* What redactions counts: every match in the request that came in, in dropped
\* records and under other matches too, so that it is never less than the masks
\* that go out (RedactStage::apply runs over every record, redaction_total).
RedactionsReported ==
    Done /\ ~stats.parse_bypassed =>
        /\ stats.redactions = IF stats.redact_bypassed THEN 0 ELSE MatchesFound(raw)
        /\ MasksOut(output) <= stats.redactions

\* All numbers of a request: its sizes, its records and its redactions.
StatsTruthful == CountsTruthful /\ RedactionsReported

\* What the parser can walk, the re-encoder can walk ("both sides must agree
\* byte-for-byte on traversal semantics", src/crates/archiv-ingest/src/otlp.rs:43-44).
WalkersAgree == Done /\ ~stats.parse_bypassed => ~stats.assemble_bypassed
=============================================================================
