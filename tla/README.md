# A TLA+ model of archiv-agent

`archiv-agent` receives OTLP logs over HTTP and gRPC, samples and redacts them
in memory, and forwards them. When the destination does not answer, it keeps the
governed payload in a bounded directory on disk and tells the sender "accepted"
all the same. Its promises are strong: never a false accept, data delayed but
never lost, fail open in every stage, a frozen sampling decision. These modules
model the parts that carry these promises, TLC checks them on small instances,
and TLAPS proves the central ones for every instance.

Line numbers below are those of the files under `src/`.

## 1. The system

| Component | State | Operations | Talks to |
|---|---|---|---|
| Receivers, `src/server.rs`, `src/grpc.rs` | a connection per request, a bounded queue per transport | `handle`, `handle_grpc`, `submit`, `serve` | workers, by the queue and by a oneshot channel for each verdict |
| Worker pools, `src/server.rs` | what each worker runs | `spawn_pool`, `run` | pipeline (call), metrics (atomics), forwarder and spool (await) |
| Pipeline, `src/pipeline.rs`, `archiv-pipeline` | an `Envelope` per request: views, verdicts, spans | `process`, `guarded`, `clear_stage` | parser, sampling, redaction, export, breaker |
| Parser, `archiv-ingest` | none: views into the buffer | `parse_export_logs_request` and below | |
| Sampling, `archiv-sampling` | none: compiled rules | `resolve`, `keep`, `keep_untraced` | |
| Redaction, `archiv-redact` | compiled rules, mask table | `compile`, `redact_field`, `apply` | |
| Export, `archiv-export` | none | `assemble` | walks the wire format again |
| Circuit breaker, `src/breaker.rs` | window start, faults, opening time, under a mutex | `allow_at`, `record_fault_at` | called by every worker, with the time read before the stage |
| Forwarder, `src/forward.rs` | none | `forward` | the destination; no timeout |
| Spool, `src/spool.rs` | a directory; next sequence, byte total and pending files under a mutex | `open`, `push`, `drain_once`, `run_drain_loop` | file system, forwarder |
| Metrics, `archiv-metrics`, `src/metrics.rs` | eight relaxed atomics, a sequence | `record`, `drain`, `flush`, `run_flush_loop` | workers on one side, the flush task on the other |
| Wiring, `src/main.rs` | the shutdown channel | start, signal, join | all tasks |
| Configuration, `archiv-config` | none | `load`, `validate`, fingerprint | `main`, once at the start |

What is hard here:

- **Concurrency.** Several workers are inside `push`, the breaker and the
  counters at once. `push` holds its mutex for the reservation and for the
  publish, not for the file operations in between.
- **Failure.** A file operation fails, the process crashes, the power fails
  between any two steps. A stage panics half way. A worker panics. The
  destination takes a payload and its answer is lost.
- **Ordering.** fsync, rename and acknowledgement; sequences reserved in one
  order and published in another; the last flush and the requests in flight.
- **Waiting.** Receivers wait for workers, workers for the destination, and
  `main` for all of them at shutdown.
- **Two walks over the same bytes.** The parser and the re-encoder must agree on
  which record is which, and on what is well formed.

The hazards in `PROJECT.json` list these, each at its line, with the properties
that would catch it going wrong.

## 2. The modules

```
Outbox   what a spool promises          Agent    receivers, queues, workers, shutdown
  ^ implemented by                        | extends Outbox: the spool as it is promised
Spool    push, drain, crash, power        ^ proved in AgentProofs
  ^ proved in SpoolProofs               Breaker  the redaction circuit breaker
Otlp     the two walks of a request       ^ proved in BreakerProofs
  ^ extended by, proved in OtlpProofs   Metrics  counters and the flush task
Pipeline the stages of one request        ^ proved in MetricsProofs
  ^ proved in PipelineProofs            Wire     a request at the level of its bytes
Glob, Lint                                ^ proved in WireProofs
         globs, ban on nested repetition
  ^ extended by
Startup  from a configuration file to an agent that serves and governs
  ^ proved in StartupProofs, with the lemmas of OtlpProofs
```

`MCx` instantiates module `x` for TLC; `MCx_y.cfg` is one run.

### Spool and Outbox

`Outbox` has three sets: durable, accepted and delivered payloads. A payload is
stored before it is accepted and discarded only after it was delivered. A crash
is a stuttering step.

`Spool` is the code. `otlp` and `tmp` are the files of the directory; `unsynced`
and `renamed` say what a power loss may take back. `next_seq`, `total_bytes` and
`pending` are `State`. Each file operation of `push` is an action, because the
mutex is free and the process may stop between any two: `PushReserve` (and
`PushFull`), `PushCreate`, `PushWrite`, `PushSync`, `PushRename`, `PushPublish`;
`PushIoFault` and `PushRollback` are the error path. `DrainPick`, `DrainRead`,
`DrainForwardOk` or `DrainForwardErr`, `DrainRemove` and `DrainForget` are
`drain_once`. `Open` sweeps the tmp files, recounts and resumes the sequence.
`Crash`, `Exit` and `PowerLoss` end the process; a power loss also loses data that
was not synced and may undo renames, since the directory is never synced.
A payload is an identity with a size. The backoff is the time the drain stays idle.

### Breaker

Workers read the clock once, before `allow_at`, and report a fault with that
same time after the stage has run, by which time the breaker may have opened,
cooled down and closed. The state is that of `Inner`; `log`, `trippedAt` and
`warned` are history.

### Agent

A request's connection, its job in the queue, the worker that runs it and the
oneshot channel of its verdict are separate, as in the code: a client may hang up
while its job goes on. Both transports call `spawn_pool`, so each has a queue and
workers of its own. A worker that panics is not replaced, and a queue
nobody serves refuses. The spool is `Outbox`, so what is shown here holds for any
implementation of it. Two more tasks run until `main` joins all (`main.rs:178`): the
drainer (`run_drain_loop` around `drain_once`: `DrainPick`, `DrainDeliver`, `DrainRetry`,
`DrainDiscard`), which looks at the signal only between two passes (`DrainStops`), and
the flusher, whose last flush is one step here (`FlusherStops`) and several in `Metrics`.
`Exit` is that join: no connection open, the drainer and the flusher stopped.
The refusals of `handle` and `handle_grpc` (path, size,
frame) are one outcome here, `Unreadable`, and each its own in `Wire`.

### Metrics

A counter is the set of samples added to it since it was last swapped. `record`
adds to the counters one after the other and `drain` swaps them one after the
other, in any order, as relaxed atomics allow.

### Otlp and Pipeline

`Otlp` has a request as a tree of fields, with the length prefix of each, and
both walkers as operators over it: which fields the parser turns into views and
on which it stops, and how the re-encoder drops, splices and rebuilds. A text is
its length, its identity and the matches each rule finds in it. Bytes on which
the cursor fails are one kind of field, `Bad`; `Wire` says which bytes these are.

`Pipeline` runs one request through `process`, an action per stage and one per
record of the redaction stage, so that a panic can come between two records. A
severity number keeps its value where the code narrows it to an `i32` (`otlp.rs:275`). The
breaker's answer is a free choice here; `Breaker` says which are possible. The
hash is a table of buckets, glob matching a set of pairs (`Glob` says which).

### Wire

The receivers' checks (`handle`, `handle_grpc`), the cursor of `archiv-ingest`, the
headers that `archiv-export` writes, and the answer to each verdict, over
sequences of bytes. A `u64` is ten digits to the base 128, the tenth of one bit, so
that ten-byte varints, lengths near 2^64 and tags past 32 bits are exact although
TLC computes with 32-bit integers. Parser and re-encoder share one cursor and differ
in the fields they look into. In the model each length-delimited field is looked
into (`EnterField`) or passed over (`SkipField`), so one walk stands for both, and
every field that is looked into gets a new header (`LeaveField`), which is what
happens around a child that was rebuilt. The stack of windows is the recursion of
`build_container`; `MaxDepth` bounds it.

The reference, `WellFormed`, says what a run of fields is without a cursor: where
a varint ends, what it stands for, which bytes make a field.

### Glob, Lint and Startup

`Glob.matches` is the two-pointer loop of `glob.rs`, written as a recursive
function of a record of its variables, which starts at zero bytes used; `policy.rs` has the same code for
namespaces. `Means` is the definition in its doc comment. `Lint` is the scan of
`lint.rs`: a frame per open group, escapes, classes, braces.

`Startup` is `main` up to the receivers: the file is loaded and validated, its
fingerprint taken, sampling and redaction compiled, addresses parsed and bound, the
spool opened; each may fail with its own error, and ends the process. A list of checks
returns the first that fails, as `?` and the early returns do (`FirstError`). `GovernAttr` and
`GovernRecord` then ask the compiled policy what it does with an attribute key or a
record. `Stop` and another `Launch` let an operator change the file, so that
aggregates of two policies can be compared by their `policy_version`. A text that the
code takes apart (selectors, globs, patterns, what the fingerprint hashes) is the
sequence of its bytes. The instances build regular expressions from a grammar that says
of each whether it nests unbounded repetition and whether it is plain: no class in a
class, no quantifier applied to a quantified expression, no `(?x)`. The linter sees only
the bytes.

## 3. Runs

| Run | Shows |
|---|---|
| `spool_faults` | Two concurrent pushes of five payloads, the drain, two failing file operations and a crash or shutdown. Acknowledged payloads stay durable until delivered (`AcceptedDurable`), refused ones are not held (`RefusedNotHeld`), `total_bytes` is exact (`Accounting`), the directory stays under the cap but for what each failing file operation left behind (`DiskBounded`), delivery follows acknowledgement (`FifoByAcceptance`), no file is overwritten (`NoOverwrite`), and the spool implements `Outbox` (`RefinesOutbox`). |
| `spool_live` | With two crashes and a power loss: every acknowledged payload is delivered, unless the power loss took it back or one that the destination always refuses is at the head of the queue (`AckedDelivered`); published files are whole (`PublishedComplete`). |
| `breaker_safety` | Three workers, threshold 2, five faults: an opening is earned by new faults, one warning for each, no request begun after the cooldown is skipped, and `2 * threshold - 1` faults close together always leave it open (`TumblingWindow`). |
| `agent_safety` | Both transports, full queues, two workers that race for one queue and a third for the other, a malformed and an unreadable request, hang-ups, two panics, two stops, the drainer: `NoFalseAccept`, `RefusedNotHeld`, `OneOwner`. |
| `agent_live` | One worker, a queue of one, three requests, one stop: every request ends (`RequestsEnd`), and a shutdown completes although it waits for open connections, for the drainer in the middle of a pass and for the flusher (`ShutdownCompletes`). |
| `metrics_counted` | Three samples, two flushes: each contribution is in exactly one window (`CountedOnce`). |
| `pipeline_safety` | About 190 requests: what goes out is what came in without the dropped records (`GovernedFaithfully`), every length prefix is right (`PrefixesExact`), masks replace matches only (`MaskedOnlyMatches`) and every match at least starts masked (`FirstMatchWins`), a trace has one fate in both encodings of its id (`TraceWhole`), sizes and record counts are those of what came in and goes out, and the redactions reported are the matches found, never less than the masks that go out (`StatsTruthful`). |
| `startup` | Some thousands of files, sound and wrong in one place or two: no socket is bound under a configuration with any of ten defects (`FailFast`), a refusal names a defect that is there (`ErrorTruthful`), of plain patterns those that nest unbounded repetition are refused and no others (`NestingLinted`), selectors, globs and first-match rules decide as the file is written (`GovernsAsWritten`), and two policies share a version only when they are the same (`VersionTracksPolicy`). |
| `wire` | All byte strings up to three bytes over ten letters, and some ten thousand built around varints of 2 to 12 bytes, fixed-width fields at the end of a window, lengths off by one, windows in windows and bodies at the limit: the walk accepts exactly the wire format and no cursor leaves its window (`WalkExact`, `TypeOK`), what is put together again has right lengths and the same bytes (`RebuildFaithful`), and the two transports take and answer a message alike (`SameAnswer`). |

Three runs end in a violation on purpose: they state what a comment says and TLC
shows what the code does.

| Run | Finding |
|---|---|
| `spool_power_ack` | `push` does not sync the directory after the rename (`spool.rs:168`). A power loss can undo the rename of a payload whose sender was told "accepted". |
| `metrics_last` | The final flush is made when the signal arrives (`metrics.rs:83`), not when the receivers have drained: what the last requests record is never reported. |
| `pipeline_walkers` | `any_value_string` stops at the first string value (`otlp.rs:317`), `build_any_value` reads on: bytes behind the string that cannot be walked pass the parser and fail the assembly, and the request goes out unmasked and unsampled. |

Disagreements met while modelling that have no run of their own:

- `README.md:158` speaks of "oldest-first eviction"; `push` refuses and never
  evicts (`spool.rs:146`), and the sender retries.
- `breaker.rs:15` says "rolling-window"; the window tumbles, so that `threshold`
  faults within `window` may straddle a reset. `TumblingWindow` is what does hold.
- `main.rs:5` says "the shared worker pool"; there are two (`grpc.rs:141`).
- `pipeline.rs:47` and `archiv-ingest/src/lib.rs:14` say that a malformed payload
  is forwarded; `run` answers `Malformed` before the forward (`server.rs:137`).
- `archiv-metrics/src/lib.rs:6` says that flush drains atomically; it does so
  counter by counter, and an aggregate may hold one field of a request and not another.
- Of two overlapping matches the later is skipped whole (`archiv-export/src/lib.rs:210`),
  so that its tail stays in the clear.
- `archiv-metrics/src/lib.rs:52` says "Redaction spans applied"; `stats.redactions`
  (`pipeline.rs:181`) is the number of matches found in the whole request, those in
  dropped records, under other matches and in a request whose assembly fails included, of
  which no mask goes out. `RedactionsReported` says what does hold.
- When the assembly fails and the original goes out, `kept` and `dropped` keep what was
  decided and was not done (`pipeline.rs:184`), so that `events_exported` is too low;
  `StatsTruthful` says that all of `records_in` go out then.
- When write, fsync or rename fails, the reservation is released and the tmp file
  stays until the next start (`spool.rs:180`), so that the directory can go past
  `max_bytes`; `DiskBounded` says by how much.
- `glob.rs:1` says that `*` matches any run of bytes. The loop compares bytes
  before it looks for a star (`glob.rs:11`), so that a star meets a `*` in the key as
  a literal: the pattern `*` does not match the key `*a`, nor `a*` the key `a*a`. An
  attribute with such a key is not redacted. `GovernsAsWritten` leaves these keys out
  and shows that no other is missed, and that no key is ever matched wrongly.
  `policy.rs:100` is the same for namespaces.
- The fingerprint hashes an absent option and an empty string alike
  (`archiv-config/src/lib.rs:198`): a rule for every namespace and one for the empty
  namespace have one version. It ends each text with a zero byte, so that a text that
  holds one runs into the next; the policies of `startup` hold none.
- `lint.rs:8` says that classes are handled, and `lint.rs:12` that an unbounded quantifier
  applied to a group that contains one is refused. The scan ends a class at the first `]`
  (`lint.rs:33`), so that what follows a class in a class is read as pattern: the sound
  `([[:alpha:]+])+` stops the agent as `NestedRepetition`, and the nested
  `(a+[[:alpha:](])+` is served. Lines 9-10 leave "anything the scanner cannot prove safe"
  to the size limit.
- `lint.rs` looks for a quantifier right after a group and takes one only. It accepts
  `(a+){3}+` and `(a+)?+`, where a quantifier applies to a quantified group, and
  `(?x)(a+) +`, where a blank is skipped; these too are left to the size limit. `startup`
  has patterns of all these kinds, and `NestingLinted` exempts them: it is about plain
  patterns.
- The endpoint of the destination is not validated: without a scheme it starts, and
  each forward fails (`forward.rs:68`), while `archiv-config/src/lib.rs:6` says that
  "a misconfigured agent must not start silently degraded".
- `archiv-config/src/lib.rs:11` speaks of a reload by SIGHUP and file watch; nothing
  calls one.
- The tag of a field is cut to 32 bits (`otlp.rs:97`) and the high bits of a tenth byte
  of a varint are shifted out (`otlp.rs:79`), where a strict parser refuses both.
  `WellFormed` follows the code in the second.
- The sum `max + 5` (`grpc.rs:105`) wraps for a `max_body_bytes` within four of
  `usize::MAX`; the model's limits are small.
- The spool retries its oldest payload on every error, also on one that the
  destination will never accept; nothing passes it.

### Bounds

Two writers and two payloads of one byte and three of two, under a cap of two: both small
ones fit together and a large one beside none, which gives every overlap of two pushes
with the drain and a full spool; a third writer repeats these. The five come to eight
bytes, more than the three caps that two faults allow, so that `DiskBounded` can fail
before and after each. Two faults let a rollback fail into another push, and the crash
comes between, before or after them; two crashes, of which one comes in the recovery
from the other, are in `spool_live`. Three callers of the breaker are two that race and
one with a stale time; three workers of the agent are two that race for a job and one of
the other transport. One worker and a queue of one in `agent_live` make the queue fill and a receiver wait. The
constants that bound a history (`MaxFaults`, `MaxCrashes`, `MaxPowerLosses`,
`MaxStops`, `MaxPanics`, `MaxTime`, `MaxFlushes`) appear only in guards. The requests
of `pipeline_safety` put a record of each sort (each text as a body and as an
attribute, each form of trace id, each place where bytes can be bad) beside
a fixed one, in one scope, two scopes or two resources; one mask takes lengths past
127, where a prefix grows.

The configurations of `startup` are wrong in one place, or in two, so that the order of
checks matters; the regular expressions nest groups twice, with each quantifier, class
and escape at each depth, and those that are not plain have each of the three reasons; globs and keys have up to four bytes over two letters and the
star, enough for two stars to backtrack. Policies for the fingerprint differ in one text
or in where a text ends. `MaxStarts` is two: a version compares two policies. In `wire`
three windows in each other are a window, its child and a sibling's end at the same
byte; a body of 140 bytes crosses the length at which a header takes two bytes,
and the limit. The bodies of one byte string are all that `varint`, `skip` and
`len_range` can tell apart: each wire type, continuation bits, zero, one, two.

Writers, payloads of one size, breaker callers, workers of one pool and samples are symmetric
in the runs of safety properties; liveness runs use no symmetry.

Deadlock is not checked for `Agent`, `Metrics`, `Startup` and `Wire`: these stop for
good once the agent is down and the bound on stops or starts is spent, once it has
exited or failed to start, or once the request is answered.

### Fairness

The Tokio runtime polls every ready task, which gives weak fairness of the drain,
of each worker, of each receiver, of the flusher and of the join in `main`. Between two
passes the drainer selects the signal or the end of its sleep (`spool.rs:257`). With the
signal there, the sleep after a retry is not over when the two are polled; the empty one
that follows a delivery may be, and `select!` draws one of the ready branches, so that
the signal is seen if the drainer keeps coming back: strong fairness of `DrainStops`.
`Spool` also assumes that a process that
went down is started again. That a forward returns is an assumption on
the destination, and that a request is read to its end one on the client: the code
has no timeout for either (`forward.rs:81`). `AckedDelivered` assumes in addition
that the destination does not stay down for ever: strong fairness of the
successful forward for payloads it does not reject. `RequestsEnd` is checked without
panics: jobs left in the queue of a pool whose last worker panicked are never
answered.

## 4. Proofs

Every theorem is one of a specification, for every value of its constants: any set of
writers, payloads, workers, connections, callers, requests, files; any size, cap,
threshold, window and cooldown; any bound on faults, crashes, power losses, stops and
panics; for `Wire` any message and any depth. They assume only the `ASSUME`s of the
modules: naturals, markers that are no payload, typed requests and configurations, and
in `Wire` that `max_body_bytes` is less than 128^4, so that a length that fits is one of
four digits (the default is 4 MiB).

The properties are seldom inductive. For each there is an invariant that is, which TLC
checked on the instances of the runs before it was proved; then one lemma for each
action, or group of actions with the same effect.

**Spool** (`SpoolProofs`). `IInv` adds to the type invariant:

- `DownInv`: no task outlives the process;
- `SeqInv`: every sequence on disk, pending or reserved is below `next_seq`, so that the
  next reservation is fresh;
- `OwnInv`: two pushes under way share neither sequence nor payload, and the sequence of
  a push under way is not pending;
- `FileInv`: a push has a published file, its own payload, exactly when it has come to
  its publish step;
- `DrainInv`: what is pending is on disk until the drain removes it, and what the drain
  removes has been delivered;
- `SyncInv`: what is published, or about to be renamed, is synced;
- `OnceInv` and `SentInv`: a payload is published once, and what is on disk or delivered
  comes from a push that was not refused;
- without power loss, `AcceptedDurable`.

From `SpoolIInv` follow `TypeCorrect`, `AcceptedStaysDurable` (no power loss),
`NothingTorn` (power losses included), `RefusedNeverHeld`, `NeverOverwritten` and
`ImplementsOutbox` (no power loss): the spool implements the outbox that `Agent` relies
on.

`DeliveredInOrder` (no power loss) needs three more: a payload acknowledged before
another's push began has the smaller sequence (`OrderInv`), which is so because the
second reserves after the first has published; a published file is pending, about to be,
or sent (`HeldInv`), so that the drain cannot overlook it; and all that came before what
the drain has picked is delivered (`TurnInv`).

**The spool's bytes** (`SpoolProofs`, second half). `total_bytes` is a sum over the
directory and over the pushes under way, so the module first shows what the bag of charges is: one
entry for each published length and each open reservation (`ChargedExact`). Each step
then adds or takes the entry that it adds to or takes from the counter (`AccountInv`),
which is `BytesExactlyAccounted`. For `DirectoryBounded` what a failing file operation
leaves behind is set apart (`Stray`, `StrayTmp`): no file is longer than its reservation
(`SizeInv`), and each fault moves at most a cap's worth from the charged files to the
stray ones (`RoomInv`). The bound holds through restarts, which charge again for what is
there, and power losses.

**Breaker** (`BreakerProofs`). `IInv` ties the state to the history: `faults` never runs
ahead of the faults reported since the last closing (`CountInv`), and `opened_at`, a
time read before the stage ran, is no later than the moment the breaker opened
(`StampInv`). From it `BreakerTyped`, `OpensExactlyOnThreshold`, `EveryTripEarned`,
`WarnsOnce` and `OutageIsBounded`. `TumblesAtMostTwice` needs the windows: while the
breaker is closed, the current one began at the first fault it counts (`WindowInv`), and
the one before it began more than a window earlier and held fewer than `threshold`
faults (`TumbleInv`). So among the last `2 * threshold - 1` faults, either one window
held `threshold` of them, or they are not within `window`.

**Metrics** (`MetricsProofs`). A counter a flush has still to swap is empty in the
window being drained (`FreshInv`: a swap overwrites nothing), and a contribution is in
its counter, in the window being drained or in one report, and in no two of these
(`OnceInv`). `RegisterTyped` and `CountedExactlyOnce` follow.

**Agent** (`AgentProofs`). `AInv` says where a request is: its connection, its queue
slot, its worker and its oneshot channel agree on one place (`JobInv`, `QueueInv`,
`WorkerInv`, `PlaceInv`), its payload is on stable storage exactly from the push on
(`StoredInv`), and what the channel holds and the client was told is true of the outbox
(`TruthInv`), also for a client that hung up and a worker that panicked. `DrainInv`
says of the drainer that what it holds is on stable storage and no worker's, and at the
destination before it is discarded. From them
`AgentTyped`, `NeverAFalseAccept`, `RetriedNotHeld` and `ExactlyOneOwner`; and
`AgentUsesOutbox`, every step of the agent is one of the outbox or a stutter. With
`ImplementsOutbox`, what the agent relies on is what the spool does.

**Wire** (`WireProofs`). First, that the cursor computes the reference: `varint`,
`len_range`, `skip` and `next_field` succeed exactly when the bytes are a varint, a
length, a payload, a field, and stop where these end. `WInv` then says of the walk that
the open windows are nested and that what has been passed of each is a run of fields
exactly when the whole window is. From it `CursorsInBounds`, `WalkIsExact` (the walk
accepts a message exactly when it is well formed) and `TransportsAgree`. `WellFormed`
speaks of runs of any length; where a proof wants induction on it, it takes the smallest
counterexample of a set of naturals (`Smallest`, `NatInd`, from the library's `WFMin`),
which needs no operator parameter. The proof found a flaw in the reference: it let the
one-byte varint 10 stand for 138 too; `ValueAt` now compares all ten digits.

The second half of the module adds, for each open window, that what was put together so far is
`Faithful` to the bytes it stands for: a run of fields, no longer than they are, and the
same bytes when it is as long (`CopiedInv`). A header that is written again for a
shorter child may be shorter, never longer, and is the old one when the child keeps its
length and the sender's varints were minimal. `RebuiltFaithfully` follows.

**Otlp** (`OtlpProofs`). Lemmas about what the walkers compute, on which the proofs of
the pipeline rest: `SumOf` and `FlattenSeq` as recursions over a sequence and what they
give for a concatenation; `EffectiveSpans` (sorted, disjoint, each one of the
spans it was given, and each given span starts in one that stays); `Splice` (the pieces
tile the text, a mask stands for each effective span and for nothing else, and the size
is the sum of the pieces); what a rebuilt field is at each level; and how the records are
numbered: the record that the re-encoder counts as number n is the n-th view of the
parser, although the two number them in walks of their own.

**Pipeline** (`PipelineProofs`). Every decision follows from the request alone, which is
what `IInv` says:

- `Types` and `Fresh`: the request is one of `Requests`, and what a stage has not reached
  yet is as `Receive` left it;
- `ParsedWhole`: the views are those of the whole request, or there are none;
- `Sampled`: the numbers to drop are those of the records that the rules reject;
- `SpansFound`: a record's spans are those of its own text, or none;
- `Assembled`: what goes out is the request or what the re-encoder builds from it.

From it, `TypeCorrect`; `LengthPrefixes`, by going up the levels of a rebuilt request;
`Faithful`, since a rebuilt request is the received one without the rejected records,
masks aside, and so is what `Governed` computes record by record;
`MasksOnlyMatches` and `FirstMatch`, since a string that redaction scans in the output
is one that it scanned in the request (`ScannedString`), spliced with that record's
spans; `Truthful`, by counting the records on both sides, with the case of a failed
assembly apart, and because a bypassed redaction has no spans left; and `TracesWhole`, since a
verdict is a function of the trace that an id names. The theorems hold for requests of
any size: they assume typed requests (`IsRequest`: received fields, with a message
only where a walker opens one, and bad bytes anywhere), the hash as any table, globs as
any set of pairs and regular expressions as any finite list of ranges inside the text.
The first form of `TraceWhole` turned out to be false: an id of 32 bytes that are not
hexadecimal names no trace and is judged like a record without one, so that two such
records may part; it now speaks of the trace that a text `Names`.

**Startup** (`StartupProofs`). Lemmas say of each check what its answer means:
`validate` and `compile` return the name of a defect the configuration has, and return
none exactly when it has none of theirs (`ValidateIs`, `CompileIs`). The invariant
follows a start: the configuration is the default or the file's own (`OriginInv`), and
each stage passed has ruled out its defects (`StageInv`). `StartupTyped`, `FailsFast`
and `ErrorsTruthful` follow, for any patterns: for them the defect `NestedRepetition` is
that the linter refuses a rule. What that says of the pattern, `NestingLinted`, is a fact
about a recursive scan and is left to the run.

`VersionsTrackPolicies`: what `policy_fingerprint` hashes can be read back. Each text ends
at its first zero byte; a rule of redaction ends in a 254, and the sampling rules in a
255, neither a byte of UTF-8. Two lists of texts of which none begins as another goes on
are equal when they are equal joined (`ReadBack`), and the texts of two sampling rules,
whose targets may hold any byte, are told apart by their two zeros and their length. That
a sampling rule is not mistaken for the 255 needs its first byte to be below that, which
`Text` says. The hypothesis, `NoZeros`, is that no text of a policy holds a zero byte: YAML
can write one (`"\0"`), and then two policies can be hashed alike. The hash itself is
taken as injective. `VersionInv` says that the version is the configuration's from the
moment it is computed.

`PoliciesGovernAsWritten`: the loop of `matches` against `Means`. The loop ends, because
each turn passes a star, or moves the end of the last star's run on, or uses up a byte of
the key: three digits of one falling number (`LoopDescends`). So there is a function of
where the loop is that gives what it returns (`MatchesRuns`), and what holds at its ends
and before a turn when after it holds everywhere (`PlaceInduct`). `MatchesSound`: a loop
that succeeds leaves a way to match what is left from where it is, or from a longer run of
the last star. `MatchesComplete`: while the pattern since the last star has fitted byte
for byte, a match of the whole is still one from that star on, so that the runs of earlier
stars need not be tried again; this uses that the key has no star of its own.
`PolicyInv` carries it to what serves: the policy and the rules are those the configuration
compiles into (`PolicyOf`, `EngineOf`), a target of at most 100 survives its narrowing to a
byte, and `resolve` takes the first rule that covers (`ResolveIs`).

Only model-checked:

- all liveness (`AckedDelivered`, `RequestsEnd`, `ShutdownCompletes` and the like),
  since the prover has neither fairness nor `ENABLED`;
- that the linter is exact on plain patterns (`NestingLinted`), which is about what a
  recursive scan with a stack computes for every pattern;
- the half of `StatsTruthful` that is about redactions (`RedactionsReported`), a count over
  all records; `Truthful` proves the other (`CountsTruthful`).

Every other safety property of a passing run is stated by a theorem.

## 5. Not modelled

TLS and HTTP/2 themselves, YAML and its type checks, regular expressions, the hash
(libraries); log lines; window timestamps; chunks of the assembled output; the counters
per redaction rule, which only tests read; the load generator `examples/perf.rs`. The
swap of the pipeline behind `ArcSwap` has no caller in this repository. The client that
`forward.rs` builds, and the URL it posts to, are I/O.

## 6. What is left

Spool and Outbox, Breaker, Agent, Metrics, Otlp and Pipeline, Glob, Lint and Startup,
and Wire are modelled, checked and proved as said above. Two steps remain that the prover
could take: `NestingLinted` for a grammar of plain patterns, from what the scan keeps of
each open group, and `RedactionsReported`, from the count of spans record by record.
