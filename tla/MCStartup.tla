------------------------------ MODULE MCStartup ------------------------------
(* Instances of Startup for TLC. *)
EXTENDS Startup

\* Strings up to a length over a, b and the star.
Strings(n) == UNION {[1 .. m -> {97, 98, Star}] : m \in 0 .. n}

File(c) == [kind |-> "yaml", config |-> c]
Attrs(glob) == AttrPrefix \o glob

\* Regular expressions by their text, with what the grammar says of each: is it
\* a group, is it quantified, does it contain an unbounded quantifier, is one
\* applied to a group that contains one, is it plain.
Atom(text) == [text |-> text, group |-> FALSE, quantified |-> FALSE, unbounded |-> FALSE, nested |-> FALSE,
               plain |-> TRUE]
Then(x, y) == [text |-> x.text \o y.text, group |-> FALSE, quantified |-> FALSE,
               unbounded |-> x.unbounded \/ y.unbounded, nested |-> x.nested \/ y.nested,
               plain |-> x.plain /\ y.plain]
Either(x, y) == Then(Then(x, Atom(<<124>>)), y)
Group(open, x) == [x EXCEPT !.text = open \o @ \o <<41>>, !.group = TRUE, !.quantified = FALSE]
Quantified(x, q) ==
    IF q.text = <<>> THEN x
    ELSE [text |-> x.text \o q.text, group |-> FALSE, quantified |-> TRUE,
          unbounded |-> x.unbounded \/ q.unbounded,
          nested |-> x.nested \/ (x.unbounded /\ q.unbounded /\ (x.group \/ x.quantified)),
          plain |-> x.plain /\ ~x.quantified]

\* + * ? {3} {3,} {2,14} +? and none
Bounded(text) == [text |-> text, unbounded |-> FALSE]
Unbounded(text) == [text |-> text, unbounded |-> TRUE]
Quantifiers == {Bounded(<<>>), Bounded(<<63>>), Bounded(<<123, 51, 125>>),
                Bounded(<<123, 50, 44, 49, 52, 125>>), Unbounded(<<43>>),
                Unbounded(<<123, 51, 44, 125>>), Unbounded(<<42, 63>>)}

\* a \+ \( \{ [(+] []*)] [^\]+{2,}]
Atoms == {Atom(t) : t \in {<<97>>, <<92, 43>>, <<92, 40>>, <<92, 123>>, <<91, 40, 43, 93>>, <<91, 93, 42, 41, 93>>,
                           <<91, 94, 92, 93, 43, 123, 50, 44, 125, 93>>}}
Single == {Quantified(a, q) : a \in Atoms, q \in Quantifiers}
Letter == Atom(<<97>>)
Flat == Single \cup {Then(x, Letter) : x \in Single} \cup {Either(Letter, x) : x \in Single}
InGroup(S) == {Quantified(Group(o, x), q) : o \in {<<40>>, <<40, 63, 58>>}, x \in S, q \in Quantifiers}
Once == InGroup(Flat)
Deep == LET Inner == InGroup({Quantified(Letter, q) : q \in Quantifiers}
                               \cup {Quantified(Atom(<<92, 40>>), q) : q \in Quantifiers})
        IN  InGroup(Inner \cup {Then(Letter, x) : x \in Inner} \cup {Then(x, Quantified(Letter, Unbounded(<<43>>))) : x \in Inner})

\* Not plain: a class in a class, [[:alpha:]+] [[:alpha:](] [[:alpha:])*];
\* quantified twice, (a+){3}+ a*{2,14}+ ; with blanks skipped, (?x)(a+) +
ClassAtoms == {[Atom(<<91, 91, 58, 97, 108, 112, 104, 97, 58, 93>> \o t \o <<93>>) EXCEPT !.plain = FALSE] :
                  t \in {<<43>>, <<40>>, <<41, 42>>}}
InClasses == InGroup(ClassAtoms \cup {Then(Quantified(Letter, q), x) : q \in Quantifiers, x \in ClassAtoms})
Plus == Unbounded(<<43>>)
Twice == {Quantified(x, q) : x \in InGroup({Quantified(Letter, Plus)}) \cup Single, q \in {Plus, Bounded(<<123, 51, 125>>)}}
Blank(q) == [q EXCEPT !.text = <<32>> \o @]
Verbose == {[Then(Atom(<<40, 63, 120, 41>>), Quantified(Group(<<40>>, Quantified(Letter, p)), Blank(q))) EXCEPT !.plain = FALSE] :
               p \in Quantifiers, q \in Quantifiers}
Regexes == {[text |-> r.text, nested |-> r.nested, plain |-> r.plain, compiles |-> TRUE] :
               r \in Flat \cup Once \cup Deep \cup InClasses \cup Twice \cup Verbose}

Pattern(text) == [text |-> text, nested |-> FALSE, plain |-> TRUE, compiles |-> TRUE]
Rule(name, pattern, mask, fields) == [name |-> name, pattern |-> pattern, mask |-> mask, fields |-> fields]
WithRules(rs) == [DefaultConfig EXCEPT !.regex_rules = rs]
LintFiles == {File(WithRules(<<Rule(<<97>>, r, <<97>>, <<BodyText>>)>>)) : r \in Regexes}

\* A policy for each glob.
Sampled(ns, sev, target) == [namespace |-> ns, severity_lte |-> sev, target |-> target]
Debug == [upper |-> "DEBUG", text |-> <<100, 98>>]
GlobFiles ==
    {File([DefaultConfig EXCEPT
             !.default_target = 20,
             !.rules = <<Sampled({g}, {Debug}, 50), Sampled({g}, {}, 0)>>,
             !.regex_rules = <<Rule(<<97>>, Pattern(<<97>>), <<97>>, <<BodyText>>),
                               Rule(<<98>>, Pattern(<<97>>), <<98>>, <<Attrs(<<98>>), Attrs(g)>>)>>]) :
        g \in Strings(4) \ {<<>>}}

\* Configurations wrong in one place, or in two.
Wrong ==
    {[DefaultConfig EXCEPT !.default_target = 101],
     [DefaultConfig EXCEPT !.rules = <<Sampled({}, {}, 100), Sampled({}, {}, 306)>>],
     [DefaultConfig EXCEPT !.channel_capacity = 0],
     [DefaultConfig EXCEPT !.max_body_bytes = 0, !.default_target = 65535],
     [DefaultConfig EXCEPT !.http_endpoint = "localhost"],
     [DefaultConfig EXCEPT !.grpc_endpoint = "localhost"],
     [DefaultConfig EXCEPT !.grpc_endpoint = "0.0.0.0:4318", !.forwarding = TRUE],
     [DefaultConfig EXCEPT !.rules = <<Sampled({}, {[upper |-> "VERBOSE", text |-> <<118>>]}, 5)>>],
     [DefaultConfig EXCEPT !.rules = <<Sampled({}, {[upper |-> "", text |-> <<>>]}, 5)>>],
     [WithRules(<<Rule(<<97>>, Pattern(<<97>>), <<97>>, <<BodyText>>)>>) EXCEPT !.set_compiles = FALSE],
     WithRules(<<Rule(<<97>>, [Pattern(<<97>>) EXCEPT !.compiles = FALSE], <<97>>, <<BodyText>>)>>)}
    \cup {WithRules(<<Rule(<<97>>, Pattern(<<97>>), <<97>>, <<BodyText>>), Rule(<<98>>, Pattern(<<97>>), <<97>>, fs)>>) :
            fs \in {<<>>, <<BodyText, <<98>>>>, <<AttrPrefix>>, <<BodyText \o <<97>>>>, <<Attrs(<<98>>), <<>>>>}}

\* Policies that a careless fingerprint would confuse: texts that run into each
\* other, options that are absent or empty, rules in another order.
A == <<97>>
AA == <<97, 97>>
Policies ==
    {[DefaultConfig EXCEPT !.forwarding = TRUE, !.rules = <<Sampled(ns, sev, t)>>] :
        ns \in {{}, {<<>>}, {A}, {AA}}, sev \in {{}, {Debug}}, t \in {0, 97}}
    \cup {[DefaultConfig EXCEPT !.rules = rs] :
            rs \in {<<Sampled({A}, {}, 0), Sampled({AA}, {}, 9)>>, <<Sampled({AA}, {}, 9), Sampled({A}, {}, 0)>>,
                    <<Sampled({A}, {}, 0)>>, <<>>}}
    \cup {WithRules(<<Rule(name, Pattern(pat), mask, fs)>>) :
            name \in {A, AA}, pat \in {A, AA}, mask \in {<<>>, A}, fs \in {<<BodyText>>, <<Attrs(A), Attrs(A)>>}}
    \cup {WithRules(<<Rule(A, Pattern(A), A, <<BodyText>>), Rule(A, Pattern(A), A, <<BodyText>>)>>)}

MCEdits    == {File(c) : c \in Policies}
MCObserved == GlobFiles
MCFiles    == LintFiles \cup GlobFiles \cup MCEdits \cup {File(c) : c \in Wrong}
                \cup {[kind |-> k, config |-> DefaultConfig] : k \in {"missing", "malformed"}}
MCKeys     == Strings(4)
MCNamespaces == Strings(3)
MCSockets  == {"0.0.0.0:4317", "0.0.0.0:4318"}
=============================================================================
