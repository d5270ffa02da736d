------------------------------- MODULE Startup -------------------------------
(***************************************************************************)
(* From a configuration file to an agent that serves: src/src/main.rs up   *)
(* to the receivers, archiv-config, Pipeline::from_config and              *)
(* RedactEngine::compile; then what the compiled policy decides for an     *)
(* attribute key and for a record.  An operator may stop the agent, edit   *)
(* the file and start it again.                                            *)
(*                                                                         *)
(* A text that the code takes apart is the sequence of its bytes.          *)
(* External: YAML and its type checks (a file parses or not), the regex    *)
(* compiler (a pattern compiles or not) and its grammar (what a pattern    *)
(* means, which the linter guesses from the text), the hash (taken as      *)
(* injective, so that the fingerprint is what is hashed), the network.     *)
(***************************************************************************)
EXTENDS Glob, Lint

CONSTANTS
    Files,            \* the files ARCHIV_CONFIG may name
    Edits,            \* those an operator replaces by one another
    NoFile,           \* ARCHIV_CONFIG is unset or blank
    Keys,             \* attribute keys
    Namespaces,       \* values of k8s.namespace.name
    Severities,       \* severity numbers
    Sockets,          \* the texts that parse as a socket address
    Observed,         \* bound: files whose policy is watched at work
    MaxStarts         \* bound on starts

Text   == Seq(0 .. 244)   \* the bytes of UTF-8
U16Max == 65535
U16    == 0 .. U16Max
\* An Option is a set of at most one element.
IsOption(opt) == \A x, y \in opt : x = y
\* What serde makes of a file that it takes.  Of a pattern also what the regex
\* grammar makes of it: nested, when an unbounded quantifier applies to a group,
\* or to a quantified expression, that contains one; plain, when no class stands in a class, no quantifier
\* applies to a quantified expression, and blanks are not skipped ((?x)).
IsConfig(c) ==
    /\ c.default_target \in U16 /\ c.channel_capacity \in Nat /\ c.max_body_bytes \in Nat
    /\ c.rules \in Seq([namespace : SUBSET Text, severity_lte : SUBSET [upper : STRING, text : Text],
                        target : U16])
    /\ \A n \in DOMAIN c.rules : IsOption(c.rules[n].namespace) /\ IsOption(c.rules[n].severity_lte)
    /\ c.regex_rules \in Seq([name : Text, pattern : [text : Text, nested : BOOLEAN, plain : BOOLEAN, compiles : BOOLEAN],
                              mask : Text, fields : Seq(Text)])
    /\ c.set_compiles \in BOOLEAN

ASSUME StartupAssumption ==
    /\ \A f \in Files : f.kind \in {"yaml", "missing", "malformed"} /\ IsConfig(f.config)
    /\ Edits \subseteq Files /\ Observed \subseteq Files
    /\ NoFile \notin Files
    /\ Keys \subseteq Text /\ Namespaces \subseteq Text
    /\ {"0.0.0.0:4317", "0.0.0.0:4318"} \subseteq Sockets
    /\ MaxStarts \in Nat

VARIABLES
    pc, error, starts,
    source, config,       \* the file, and what is made of it
    policy_version,
    policy, engine,       \* the compiled SamplingPolicy and RedactEngine
    bound, spool,         \* listening sockets; whether a spool is open
    probe,                \* a key or a record and what the policy decides for it
    seen                  \* history: versions under which policies have served

built == <<policy_version, policy, engine>>
vars  == <<pc, error, starts, source, config, built, bound, spool, probe, seen>>

-----------------------------------------------------------------------------
(* archiv-config *)

DefaultConfig ==
    [grpc_endpoint |-> "0.0.0.0:4317", http_endpoint |-> "0.0.0.0:4318", channel_capacity |-> 8192,
     default_target |-> 100, rules |-> <<>>,
     regex_rules |-> <<>>, set_compiles |-> TRUE,
     forwarding |-> FALSE, max_body_bytes |-> 4 * 1024 * 1024]

\* The first of some results that is an error.
Check(fails, err) == IF fails THEN err ELSE "none"
FirstError(results) ==
    LET failed == {i \in DOMAIN results : results[i] # "none"}
    IN  IF failed = {} THEN "none" ELSE results[Min(failed)]

BodyText   == <<98, 111, 100, 121>>                                \* body
AttrPrefix == <<97, 116, 116, 114, 105, 98, 117, 116, 101, 115, 46>>   \* attributes.

\* FieldSelector::parse: an Option of a selector.
parse(s) ==
    IF s = BodyText THEN {[kind |-> "body", glob |-> <<>>]}
    ELSE IF IsPrefix(AttrPrefix, s) /\ Len(s) > Len(AttrPrefix)
         THEN {[kind |-> "attrs", glob |-> SubSeq(s, Len(AttrPrefix) + 1, Len(s))]}
         ELSE {}

parse_selectors(rule) ==
    FirstError(<<Check(rule.fields = <<>>, "EmptyFields"),
                 Check(\E i \in DOMAIN rule.fields : parse(rule.fields[i]) = {}, "InvalidFieldSelector")>>)

SelectorError(c) == FirstError([n \in DOMAIN c.regex_rules |-> parse_selectors(c.regex_rules[n])])

\* Mutant: only the default target is checked.
validate_default_only(c) ==
    FirstError(<<Check(c.default_target > 100, "TargetOutOfRange"),
                 Check(c.channel_capacity = 0, "ZeroChannelCapacity"),
                 Check(c.max_body_bytes = 0, "ZeroMaxBodyBytes"),
                 SelectorError(c)>>)

\* Mutant: a target of 100 is out of range.
validate_off_by_one(c) ==
    FirstError(<<Check(c.default_target >= 100, "TargetOutOfRange"),
                 Check(\E n \in DOMAIN c.rules : c.rules[n].target >= 100, "TargetOutOfRange"),
                 Check(c.channel_capacity = 0, "ZeroChannelCapacity"),
                 Check(c.max_body_bytes = 0, "ZeroMaxBodyBytes"),
                 SelectorError(c)>>)

validate(c) ==
    FirstError(<<Check(c.default_target > 100, "TargetOutOfRange"),
                 Check(\E n \in DOMAIN c.rules : c.rules[n].target > 100, "TargetOutOfRange"),
                 Check(c.channel_capacity = 0, "ZeroChannelCapacity"),
                 Check(c.max_body_bytes = 0, "ZeroMaxBodyBytes"),
                 SelectorError(c)>>)

\* policy_fingerprint: what is hashed.
Le(u16)      == <<u16 % 256, u16 \div 256>>
OrEmpty(opt) == IF opt = {} THEN <<>> ELSE CHOOSE x \in opt : TRUE
Ended(s)     == s \o <<0>>

SamplingBytes(r) ==
    Ended(OrEmpty(r.namespace)) \o Ended(OrEmpty({s.text : s \in r.severity_lte})) \o Le(r.target)

\* Mutant: nothing between two fields.
RuleBytesJoined(r) == r.name \o r.pattern.text \o r.mask \o FlattenSeq(r.fields) \o <<254>>

RuleTexts(r) == <<r.name, r.pattern.text, r.mask>> \o r.fields
RuleBytes(r) == FlattenSeq([i \in DOMAIN RuleTexts(r) |-> Ended(RuleTexts(r)[i])]) \o <<254>>

policy_fingerprint(c) ==
    Le(c.default_target) \o FlattenSeq([n \in DOMAIN c.rules |-> SamplingBytes(c.rules[n])])
      \o <<255>> \o FlattenSeq([n \in DOMAIN c.regex_rules |-> RuleBytes(c.regex_rules[n])])

-----------------------------------------------------------------------------
(* Pipeline::from_config *)

\* By the name in upper case; any other name is unknown.
severity_band_max ==
    [TRACE |-> 4, DEBUG |-> 8, INFO |-> 12, WARN |-> 16, WARNING |-> 16, ERROR |-> 20, FATAL |-> 24]

KnownSeverity(r) == \A s \in r.severity_lte : s.upper \in DOMAIN severity_band_max

\* Targets narrow from u16 to u8.
CompiledSampling(r) ==
    [namespace_glob |-> r.namespace,
     severity_lte   |-> {severity_band_max[s.upper] : s \in r.severity_lte},
     target         |-> r.target % 256]

\* RedactEngine::compile: what stops it at one rule.
RuleError(rule) ==
    FirstError(<<Check(rule.fields = <<>>, "NoFields"),
                 Check(~check_nested_repetition(rule.pattern.text), "NestedRepetition"),
                 Check(~rule.pattern.compiles, "Regex")>>)

compile(c) ==
    FirstError(<<SelectorError(c),
                 FirstError([n \in DOMAIN c.regex_rules |-> RuleError(c.regex_rules[n])]),
                 Check(~c.set_compiles, "Regex")>>)

CompiledRule(r) ==
    [pattern |-> r.pattern.text, mask |-> r.mask,
     fields  |-> UNION {parse(r.fields[i]) : i \in DOMAIN r.fields}]

-----------------------------------------------------------------------------
(* The compiled policy at work *)

applies_to_attr(rule, key) == \E f \in rule.fields : f.kind = "attrs" /\ matches(f.glob, key)

rule_matches(rule, ns, sev) ==
    /\ \A g \in rule.namespace_glob : \E n \in ns : glob_matches(g, n)
    /\ \A max \in rule.severity_lte : \E s \in sev : s <= max

resolve(p, ns, sev) ==
    LET won == {n \in DOMAIN p.rules : rule_matches(p.rules[n], ns, sev)}
    IN  IF won = {} THEN p.default_target ELSE p.rules[Min(won)].target

-----------------------------------------------------------------------------
NoPolicy == [default_target |-> 0, rules |-> <<>>]
NoProbe  == [of |-> "nothing"]

Init ==
    /\ pc = "down" /\ error = "none" /\ starts = 0
    /\ source = NoFile /\ config = DefaultConfig
    /\ policy_version = <<>> /\ policy = NoPolicy /\ engine = <<>>
    /\ bound = {} /\ spool = FALSE
    /\ probe = NoProbe /\ seen = {}

\* Mutant: leaves what it has bound.
FailKeepsSockets(err) ==
    /\ pc' = "failed" /\ error' = err
    /\ UNCHANGED <<starts, source, config, built, bound, spool, probe, seen>>

\* ExitCode::FAILURE: the sockets close with the process.
Fail(err) ==
    /\ pc' = "failed" /\ error' = err /\ bound' = {}
    /\ UNCHANGED <<starts, source, config, built, spool, probe, seen>>

\* A start; a later one comes after an edit of the file.
Launch ==
    /\ pc = "down" /\ starts < MaxStarts
    /\ pc' = "load" /\ starts' = starts + 1
    /\ source' \in (IF starts = 0 THEN Files \cup {NoFile} ELSE Edits)
    /\ config' = DefaultConfig
    /\ policy_version' = <<>> /\ policy' = NoPolicy /\ engine' = <<>>
    /\ probe' = NoProbe
    /\ UNCHANGED <<error, bound, spool, seen>>

LoadDefault ==
    /\ pc = "load" /\ source = NoFile
    /\ config' = DefaultConfig
    /\ pc' = "fingerprint"
    /\ UNCHANGED <<error, starts, source, built, bound, spool, probe, seen>>

\* AgentConfig::load: reads, parses and validates.
Load ==
    /\ pc = "load" /\ source # NoFile
    /\ source.kind = "yaml" /\ validate(source.config) = "none"
    /\ config' = source.config
    /\ pc' = "fingerprint"
    /\ UNCHANGED <<error, starts, source, built, bound, spool, probe, seen>>

LoadFails ==
    /\ pc = "load" /\ source # NoFile
    /\ \/ source.kind = "missing" /\ Fail("Io")
       \/ source.kind = "malformed" /\ Fail("Parse")
       \/ source.kind = "yaml" /\ validate(source.config) # "none" /\ Fail(validate(source.config))

Fingerprint ==
    /\ pc = "fingerprint" /\ pc' = "sampling"
    /\ policy_version' = policy_fingerprint(config)
    /\ UNCHANGED <<error, starts, source, config, policy, engine, bound, spool, probe, seen>>

BuildSampling ==
    /\ pc = "sampling"
    /\ \A n \in DOMAIN config.rules : KnownSeverity(config.rules[n])
    /\ policy' = [default_target |-> config.default_target % 256,
                  rules |-> [n \in DOMAIN config.rules |-> CompiledSampling(config.rules[n])]]
    /\ pc' = "redaction"
    /\ UNCHANGED <<error, starts, source, config, policy_version, engine, bound, spool, probe, seen>>

BuildSamplingFails ==
    /\ pc = "sampling"
    /\ \E n \in DOMAIN config.rules : ~KnownSeverity(config.rules[n])
    /\ Fail("UnknownSeverity")

BuildRedaction ==
    /\ pc = "redaction"
    /\ compile(config) = "none"
    /\ engine' = [n \in DOMAIN config.regex_rules |-> CompiledRule(config.regex_rules[n])]
    /\ pc' = "addresses"
    /\ UNCHANGED <<error, starts, source, config, policy_version, policy, bound, spool, probe, seen>>

BuildRedactionFails ==
    /\ pc = "redaction"
    /\ compile(config) # "none" /\ Fail(compile(config))

Addresses ==
    /\ pc = "addresses"
    /\ {config.http_endpoint, config.grpc_endpoint} \subseteq Sockets
    /\ pc' = "bind_http"
    /\ UNCHANGED <<error, starts, source, config, built, bound, spool, probe, seen>>

AddressesFail ==
    /\ pc = "addresses"
    /\ \/ config.http_endpoint \notin Sockets /\ Fail("http_endpoint")
       \/ config.http_endpoint \in Sockets /\ config.grpc_endpoint \notin Sockets /\ Fail("grpc_endpoint")

\* An address in use, by this process too, is not bound again.
Bind(at, endpoint, next) ==
    /\ pc = at
    /\ \/ /\ endpoint \notin bound
          /\ bound' = bound \cup {endpoint} /\ pc' = next
          /\ UNCHANGED <<error, starts, source, config, built, spool, probe, seen>>
       \/ Fail("bind")

BindHttp == Bind("bind_http", config.http_endpoint, "bind_grpc")
BindGrpc == Bind("bind_grpc", config.grpc_endpoint, "spool")

\* Best effort, and only when there is something to forward to.
OpenSpool ==
    /\ pc = "spool" /\ pc' = "serving"
    /\ spool' \in (IF config.forwarding THEN BOOLEAN ELSE {FALSE})
    /\ seen' = seen \cup {<<policy_version, config>>}
    /\ UNCHANGED <<error, starts, source, config, built, bound, probe>>

\* The redaction stage asks, for each attribute, which rules apply.
GovernAttr(key) ==
    /\ pc = "serving" /\ probe = NoProbe /\ source \in Observed
    /\ probe' = [of |-> "attr", key |-> key,
                 rules |-> {n \in DOMAIN engine : applies_to_attr(engine[n], key)}]
    /\ UNCHANGED <<pc, error, starts, source, config, built, bound, spool, seen>>

\* The sampling stage asks for the target of each record.
GovernRecord(ns, sev) ==
    /\ pc = "serving" /\ probe = NoProbe /\ source \in Observed
    /\ probe' = [of |-> "record", ns |-> ns, sev |-> sev, target |-> resolve(policy, ns, sev)]
    /\ UNCHANGED <<pc, error, starts, source, config, built, bound, spool, seen>>

\* The agent is stopped, to be started with another policy.
Stop ==
    /\ pc = "serving" /\ probe = NoProbe
    /\ source \in Edits /\ starts < MaxStarts
    /\ pc' = "down" /\ bound' = {} /\ spool' = FALSE
    /\ UNCHANGED <<error, starts, source, config, built, probe, seen>>

Next ==
    \/ Launch \/ LoadDefault \/ Load \/ LoadFails \/ Fingerprint
    \/ BuildSampling \/ BuildSamplingFails \/ BuildRedaction \/ BuildRedactionFails
    \/ Addresses \/ AddressesFail \/ BindHttp \/ BindGrpc \/ OpenSpool
    \/ \E key \in Keys : GovernAttr(key)
    \/ \E ns \in {{}} \cup {{n} : n \in Namespaces}, sev \in {{}} \cup {{s} : s \in Severities} :
          GovernRecord(ns, sev)
    \/ Stop

Spec == Init /\ [][Next]_vars

-----------------------------------------------------------------------------
(* Properties *)

PCs == {"down", "load", "fingerprint", "sampling", "redaction", "addresses",
        "bind_http", "bind_grpc", "spool", "serving", "failed"}

\* Compiled targets are percentages, and sockets are open only while the agent
\* binds, serves or has not yet given up.
TypeOK ==
    /\ pc \in PCs /\ starts \in 0 .. MaxStarts
    /\ (error # "none") <=> (pc = "failed")
    /\ policy.default_target \in 0 .. 100
    /\ \A n \in DOMAIN policy.rules : policy.rules[n].target \in 0 .. 100
    /\ bound \subseteq {config.http_endpoint, config.grpc_endpoint}
    /\ bound # {} => pc \in {"bind_grpc", "spool", "serving"}
    /\ spool => pc = "serving" /\ config.forwarding

\* What a selector means: `body`, or `attributes.` and a glob.
SelectsBody(s)      == s = BodyText
SelectsKey(s, key)  ==
    \E cut \in 1 .. Len(s) - 1 : SubSeq(s, 1, cut) = AttrPrefix /\ Means(SubSeq(s, cut + 1, Len(s)), key)
IsSelector(s)       == SelectsBody(s) \/ IsStrictPrefix(AttrPrefix, s)

\* The defects a configuration may have, each under the errors that report it.
\* That of NestedRepetition is what the linter refuses: NestingLinted says what
\* that means.
Defect(c, err) ==
    CASE err = "TargetOutOfRange"    -> c.default_target \notin 0 .. 100
                                          \/ \E n \in DOMAIN c.rules : c.rules[n].target \notin 0 .. 100
      [] err = "ZeroChannelCapacity" -> c.channel_capacity = 0
      [] err = "ZeroMaxBodyBytes"    -> c.max_body_bytes = 0
      [] err = "EmptyFields"         -> \E n \in DOMAIN c.regex_rules : Len(c.regex_rules[n].fields) = 0
      [] err = "InvalidFieldSelector" -> \E n \in DOMAIN c.regex_rules :
                                            \E i \in DOMAIN c.regex_rules[n].fields :
                                                ~IsSelector(c.regex_rules[n].fields[i])
      [] err = "UnknownSeverity"     -> \E n \in DOMAIN c.rules : ~KnownSeverity(c.rules[n])
      [] err = "NestedRepetition"    -> \E n \in DOMAIN c.regex_rules :
                                            ~check_nested_repetition(c.regex_rules[n].pattern.text)
      [] err = "Regex"               -> ~c.set_compiles \/ \E n \in DOMAIN c.regex_rules :
                                                              ~c.regex_rules[n].pattern.compiles
      [] err = "http_endpoint"       -> c.http_endpoint \notin Sockets
      [] err = "grpc_endpoint"       -> c.grpc_endpoint \notin Sockets
      [] OTHER                       -> FALSE
Errors == {"TargetOutOfRange", "ZeroChannelCapacity", "ZeroMaxBodyBytes", "EmptyFields",
           "InvalidFieldSelector", "UnknownSeverity", "NestedRepetition", "Regex",
           "http_endpoint", "grpc_endpoint"}

\* "a misconfigured agent must not start silently degraded" (archiv-config lines
\* 6-7): no socket is bound, and nothing served, under a configuration with any
\* defect, one that only a later stage looks for included.
FailFast ==
    bound # {} => /\ \A err \in Errors : ~Defect(config, err)
                  /\ source # NoFile => source.kind = "yaml" /\ config = source.config

\* An agent that does not start says why: the file it was given has the defect
\* that is reported, whichever stage finds it, and the default configuration has
\* none.  That a pattern the linter refuses does nest repetition is not claimed.
ErrorTruthful ==
    /\ error \in Errors => source # NoFile /\ Defect(source.config, error)
    /\ error = "Io" => source.kind = "missing"
    /\ error = "Parse" => source.kind = "malformed"

\* "reject them at policy validation, before they reach the fleet" (lint.rs lines
\* 5-6): no pattern that nests unbounded repetition is served, and none is refused
\* that does not, as far as the patterns are plain.
NestingLinted ==
    /\ bound # {} => \A n \in DOMAIN config.regex_rules :
          config.regex_rules[n].pattern.plain => ~config.regex_rules[n].pattern.nested
    /\ error = "NestedRepetition" =>
          \E n \in DOMAIN source.config.regex_rules :
             LET p == source.config.regex_rules[n].pattern IN p.nested \/ ~p.plain

\* A served policy decides as its file is written: the rules whose selectors
\* mean a key apply to it, and the first rule that covers a record sets its
\* target.  A key or a namespace with a `*` in it may be missed by a pattern that
\* covers it, since the matchers compare bytes before they look for a star
\* (glob.rs line 11), and is never taken by one that does not.
RulesFor(key) ==
    {n \in DOMAIN config.regex_rules :
        \E i \in DOMAIN config.regex_rules[n].fields : SelectsKey(config.regex_rules[n].fields[i], key)}
Covers(r, ns, sev) ==
    /\ r.namespace = {} \/ \E g \in r.namespace, n \in ns : Means(g, n)
    /\ r.severity_lte = {} \/ \E s \in r.severity_lte, v \in sev : v <= severity_band_max[s.upper]
TargetFor(ns, sev) ==
    {config.rules[n].target : n \in {k \in DOMAIN config.rules :
        /\ Covers(config.rules[k], ns, sev)
        /\ \A j \in 1 .. k - 1 : ~Covers(config.rules[j], ns, sev)}}
GovernsAsWritten ==
    /\ probe.of = "attr" => /\ probe.rules \subseteq RulesFor(probe.key)
                            /\ ~HasStar(probe.key) => RulesFor(probe.key) \subseteq probe.rules
    /\ probe.of = "record" /\ (\A n \in probe.ns : ~HasStar(n)) =>
          \/ TargetFor(probe.ns, probe.sev) = {probe.target}
          \/ TargetFor(probe.ns, probe.sev) = {} /\ probe.target = config.default_target

\* Aggregates tagged with one policy_version were governed by one policy
\* (archiv-config lines 186-191), but for an option that is absent in one and an
\* empty string in the other: these are hashed alike.
Governance(c) ==
    [default_target |-> c.default_target,
     rules |-> [n \in DOMAIN c.rules |-> [namespace |-> OrEmpty(c.rules[n].namespace),
                                          severity  |-> OrEmpty({s.text : s \in c.rules[n].severity_lte}),
                                          target    |-> c.rules[n].target]],
     regex_rules |-> [n \in DOMAIN c.regex_rules |-> [name |-> c.regex_rules[n].name,
                                                      pattern |-> c.regex_rules[n].pattern.text,
                                                      mask |-> c.regex_rules[n].mask,
                                                      fields |-> c.regex_rules[n].fields]]]
VersionTracksPolicy ==
    \A x, y \in seen : (x[1] = y[1]) <=> (Governance(x[2]) = Governance(y[2]))
=============================================================================
