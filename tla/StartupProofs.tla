---------------------------- MODULE StartupProofs ----------------------------
(***************************************************************************)
(* Theorems about Startup, for any set of files, any sequence of starts    *)
(* and edits, and any addresses.                                           *)
(***************************************************************************)
EXTENDS Startup, OtlpProofs

-----------------------------------------------------------------------------
(* The checks *)

\* FirstError is "none" when there is no error, and one of the errors otherwise:
\* the first.
LEMMA FirstErrorIs ==
    ASSUME NEW r, NEW n \in Nat, DOMAIN r = 1 .. n
    PROVE  \/ FirstError(r) = "none" /\ \A i \in 1 .. n : r[i] = "none"
           \/ \E i \in 1 .. n : /\ FirstError(r) = r[i] /\ r[i] # "none"
                               /\ \A j \in 1 .. n : r[j] # "none" => i <= j
<1> DEFINE failed == {i \in 1 .. n : r[i] # "none"}
<1>1. FirstError(r) = IF failed = {} THEN "none" ELSE r[Min(failed)]
  BY DEF FirstError
<1>2. CASE failed = {}
  BY <1>1, <1>2
<1>3. CASE failed # {}
  <2>1. failed \in SUBSET Nat
    OBVIOUS
  <2>2. Min(failed) \in failed /\ \A j \in failed : Min(failed) <= j
    <3> HIDE DEF failed
    <3> QED BY <1>3, <2>1, Smallest
  <2>3. PICK i \in 1 .. n : i = Min(failed) /\ r[i] # "none" /\ \A j \in failed : i <= j
    BY <2>2
  <2> QED BY <1>1, <1>3, <2>3
<1> QED BY <1>2, <1>3

\* A text that parses is a selector, and one that does not is none.
LEMMA ParseIs ==
    ASSUME NEW s \in Text
    PROVE  parse(s) = {} <=> ~IsSelector(s)
<1>1. AttrPrefix \in Seq(Nat) /\ Len(AttrPrefix) = 11 /\ s \in Seq(Nat) /\ Len(s) \in Nat
  <2>1. AttrPrefix \in Seq(Nat) /\ Len(AttrPrefix) = 11
    BY ONLY DEF AttrPrefix
  <2>2. s \in Seq(Nat)
    BY ONLY s \in Text, SeqMonotonic, 0 .. 244 \subseteq Nat DEF Text
  <2> QED BY ONLY <2>1, <2>2
<1> DEFINE a == AttrPrefix
<1>2. parse(s) = {} <=> s # BodyText /\ ~(IsPrefix(a, s) /\ Len(s) > Len(a))
  BY DEF parse
<1>3. IsSelector(s) <=> s = BodyText \/ (IsPrefix(a, s) /\ a # s)
  BY DEF IsSelector, SelectsBody, IsStrictPrefix
<1> HIDE DEF a
<1>4. a \in Seq(Nat) /\ Len(a) = 11 /\ s \in Seq(Nat) /\ Len(s) \in Nat
  BY <1>1 DEF a
<1>5. SubSeq(a, 1, Len(a)) = a /\ SubSeq(s, 1, Len(s)) = s
  BY ONLY <1>4, SubSeqFull
<1>6. IsPrefix(a, s) <=> 11 <= Len(s) /\ a = SubSeq(s, 1, 11)
  BY ONLY <1>4, <1>5 DEF IsPrefix
<1>7. PICK n \in Nat : n = Len(s)
  BY ONLY <1>4
<1>8. PICK k \in Nat : k = Len(a) /\ k = 11
  BY ONLY <1>4
<1>9. IsPrefix(a, s) => (Len(s) > 11 <=> a # s)
  <2>1. n = 11 => SubSeq(s, 1, 11) = s
    BY ONLY <1>5, <1>7
  <2>2. n > 11 => n # k
    BY ONLY <1>8, n \in Nat
  <2>3. n # k => a # s
    BY ONLY <1>7, <1>8
  <2>4. 11 <= n => n = 11 \/ n > 11
    BY ONLY n \in Nat
  <2> QED BY ONLY <1>6, <1>7, <2>1, <2>2, <2>3, <2>4
<1> QED BY ONLY <1>2, <1>3, <1>4, <1>9

\* The linter refuses the rule.
Refused(r) == ~check_nested_repetition(r.pattern.text)

\* The defects, one by one.
LEMMA DefectIs ==
    ASSUME NEW c
    PROVE  /\ Defect(c, "TargetOutOfRange") <=>
                (c.default_target \notin 0 .. 100 \/ \E n \in DOMAIN c.rules : c.rules[n].target \notin 0 .. 100)
           /\ Defect(c, "ZeroChannelCapacity") <=> c.channel_capacity = 0
           /\ Defect(c, "ZeroMaxBodyBytes") <=> c.max_body_bytes = 0
           /\ Defect(c, "EmptyFields") <=> \E n \in DOMAIN c.regex_rules : Len(c.regex_rules[n].fields) = 0
           /\ Defect(c, "InvalidFieldSelector") <=>
                \E n \in DOMAIN c.regex_rules : \E i \in DOMAIN c.regex_rules[n].fields :
                    ~IsSelector(c.regex_rules[n].fields[i])
           /\ Defect(c, "UnknownSeverity") <=> \E n \in DOMAIN c.rules : ~KnownSeverity(c.rules[n])
           /\ Defect(c, "NestedRepetition") <=> \E n \in DOMAIN c.regex_rules : Refused(c.regex_rules[n])
           /\ Defect(c, "Regex") <=>
                (~c.set_compiles \/ \E n \in DOMAIN c.regex_rules : ~c.regex_rules[n].pattern.compiles)
           /\ Defect(c, "http_endpoint") <=> c.http_endpoint \notin Sockets
           /\ Defect(c, "grpc_endpoint") <=> c.grpc_endpoint \notin Sockets
BY DEF Defect, Refused

\* What serde makes of a redaction rule, as far as the checks look at it.
IsRule(r) ==
    /\ r.fields \in Seq(Text) /\ r.pattern.text \in Text
    /\ r.pattern.compiles \in BOOLEAN

\* parse_selectors is "none" exactly for a rule with fields that are all selectors.
LEMMA ParseSelectorsIs ==
    ASSUME NEW r, IsRule(r)
    PROVE  \/ /\ parse_selectors(r) = "none" /\ Len(r.fields) # 0
              /\ \A i \in DOMAIN r.fields : IsSelector(r.fields[i])
           \/ parse_selectors(r) = "EmptyFields" /\ Len(r.fields) = 0
           \/ /\ parse_selectors(r) = "InvalidFieldSelector"
              /\ \E i \in DOMAIN r.fields : ~IsSelector(r.fields[i])
<1> DEFINE P == r.fields = <<>>
<1> DEFINE Q == \E i \in DOMAIN r.fields : parse(r.fields[i]) = {}
<1> DEFINE e == <<Check(P, "EmptyFields"), Check(Q, "InvalidFieldSelector")>>
<1>1. parse_selectors(r) = FirstError(e)
  BY DEF parse_selectors
<1>2. P <=> Len(r.fields) = 0
  BY DEF IsRule
<1>3. Q <=> \E i \in DOMAIN r.fields : ~IsSelector(r.fields[i])
  <2>1. \A i \in DOMAIN r.fields : r.fields[i] \in Text
    BY DEF IsRule
  <2> QED BY <2>1, ParseIs
<1> HIDE DEF P, Q
<1>4. /\ DOMAIN e = 1 .. 2 /\ e[1] = IF P THEN "EmptyFields" ELSE "none"
      /\ e[2] = IF Q THEN "InvalidFieldSelector" ELSE "none"
  BY DEF Check
<1> HIDE DEF e
<1>5. \/ FirstError(e) = "none" /\ e[1] = "none" /\ e[2] = "none"
      \/ FirstError(e) = e[1] /\ e[1] # "none"
      \/ FirstError(e) = e[2] /\ e[2] # "none"
  <2>1. \/ FirstError(e) = "none" /\ \A i \in 1 .. 2 : e[i] = "none"
        \/ \E i \in 1 .. 2 : FirstError(e) = e[i] /\ e[i] # "none"
    BY <1>4, FirstErrorIs
  <2> QED BY ONLY <2>1
<1>6. /\ e[1] = "none" <=> ~P
      /\ e[2] = "none" <=> ~Q
  BY ONLY <1>4
<1> QED BY ONLY <1>1, <1>2, <1>3, <1>4, <1>5, <1>6

\* What the proofs use of a configuration's type.
LEMMA ConfigTyped ==
    ASSUME NEW c, IsConfig(c)
    PROVE  /\ c.default_target \in U16 /\ c.channel_capacity \in Nat /\ c.max_body_bytes \in Nat
           /\ Len(c.rules) \in Nat /\ DOMAIN c.rules = 1 .. Len(c.rules)
           /\ \A n \in DOMAIN c.rules : c.rules[n].target \in U16
           /\ Len(c.regex_rules) \in Nat /\ DOMAIN c.regex_rules = 1 .. Len(c.regex_rules)
           /\ \A n \in DOMAIN c.regex_rules : IsRule(c.regex_rules[n])
           /\ c.set_compiles \in BOOLEAN
<1> DEFINE S == [namespace : SUBSET Text, severity_lte : SUBSET [upper : STRING, text : Text], target : U16]
<1> DEFINE R == [name : Text, pattern : [text : Text, nested : BOOLEAN, plain : BOOLEAN, compiles : BOOLEAN],
                 mask : Text, fields : Seq(Text)]
<1>1. c.rules \in Seq(S) /\ c.regex_rules \in Seq(R)
  BY DEF IsConfig
<1>2. \A r \in S : r.target \in U16
  OBVIOUS
<1>3. \A r \in R : IsRule(r)
  BY DEF IsRule
<1> HIDE DEF S, R
<1>4. /\ Len(c.rules) \in Nat /\ DOMAIN c.rules = 1 .. Len(c.rules)
      /\ \A n \in DOMAIN c.rules : c.rules[n] \in S
  BY ONLY <1>1
<1>5. /\ Len(c.regex_rules) \in Nat /\ DOMAIN c.regex_rules = 1 .. Len(c.regex_rules)
      /\ \A n \in DOMAIN c.regex_rules : c.regex_rules[n] \in R
  BY ONLY <1>1
<1> QED BY <1>2, <1>3, <1>4, <1>5 DEF IsConfig

\* The first error in the selectors, and whether there is one.
LEMMA SelectorErrorIs ==
    ASSUME NEW c, IsConfig(c)
    PROVE  \/ SelectorError(c) = "none" /\ ~Defect(c, "EmptyFields") /\ ~Defect(c, "InvalidFieldSelector")
           \/ SelectorError(c) = "EmptyFields" /\ Defect(c, "EmptyFields")
           \/ SelectorError(c) = "InvalidFieldSelector" /\ Defect(c, "InvalidFieldSelector")
<1> DEFINE D == DOMAIN c.regex_rules
<1> DEFINE e == [n \in D |-> parse_selectors(c.regex_rules[n])]
<1>1. PICK m \in Nat : D = 1 .. m
  BY ConfigTyped
<1>2. \A n \in D : \/ /\ e[n] = "none" /\ Len(c.regex_rules[n].fields) # 0
                      /\ \A i \in DOMAIN c.regex_rules[n].fields : IsSelector(c.regex_rules[n].fields[i])
                   \/ e[n] = "EmptyFields" /\ Len(c.regex_rules[n].fields) = 0
                   \/ /\ e[n] = "InvalidFieldSelector"
                      /\ \E i \in DOMAIN c.regex_rules[n].fields : ~IsSelector(c.regex_rules[n].fields[i])
  BY ConfigTyped, ParseSelectorsIs
<1>3. SelectorError(c) = FirstError(e) /\ DOMAIN e = 1 .. m
  BY <1>1 DEF SelectorError
<1> HIDE DEF e, D
<1>4. \/ FirstError(e) = "none" /\ \A n \in D : e[n] = "none"
      \/ \E n \in D : FirstError(e) = e[n] /\ e[n] # "none"
  BY ONLY <1>1, <1>3, m \in Nat, FirstErrorIs
<1>5. /\ Defect(c, "EmptyFields") <=> \E n \in D : Len(c.regex_rules[n].fields) = 0
      /\ Defect(c, "InvalidFieldSelector") <=>
           \E n \in D : \E i \in DOMAIN c.regex_rules[n].fields : ~IsSelector(c.regex_rules[n].fields[i])
  BY DefectIs DEF D
<1>6. CASE FirstError(e) = "none" /\ \A n \in D : e[n] = "none"
  <2>1. \A n \in D : /\ Len(c.regex_rules[n].fields) # 0
                     /\ \A i \in DOMAIN c.regex_rules[n].fields : IsSelector(c.regex_rules[n].fields[i])
    BY ONLY <1>2, <1>6
  <2> QED BY ONLY <1>3, <1>5, <1>6, <2>1
<1>7. CASE \E n \in D : FirstError(e) = e[n] /\ e[n] # "none"
  <2>1. PICK n \in D : FirstError(e) = e[n] /\ e[n] # "none"
    BY <1>7
  <2>2. \/ e[n] = "EmptyFields" /\ Len(c.regex_rules[n].fields) = 0
        \/ /\ e[n] = "InvalidFieldSelector"
           /\ \E i \in DOMAIN c.regex_rules[n].fields : ~IsSelector(c.regex_rules[n].fields[i])
    BY ONLY <1>2, <2>1
  <2> QED BY ONLY <1>3, <1>5, <2>1, <2>2
<1> QED BY <1>4, <1>6, <1>7

\* A target is a percentage unless it is over 100.
LEMMA Percentage ==
    ASSUME NEW x \in U16
    PROVE  x > 100 <=> x \notin 0 .. 100
<1>1. U16Max \in Nat
  BY DEF U16Max
<1>2. x \in Nat
  BY <1>1 DEF U16
<1> QED BY ONLY <1>2

\* What `validate` looks for.
Validated == {"TargetOutOfRange", "ZeroChannelCapacity", "ZeroMaxBodyBytes", "EmptyFields", "InvalidFieldSelector"}

\* A configuration that is loaded has none of the defects that `validate` looks
\* for, and one that is turned away has the one that is named.
LEMMA ValidateIs ==
    ASSUME NEW c, IsConfig(c)
    PROVE  \/ validate(c) = "none" /\ \A err \in Validated : ~Defect(c, err)
           \/ validate(c) \in Validated /\ Defect(c, validate(c))
<1> DEFINE P == c.default_target > 100
<1> DEFINE Q == \E n \in DOMAIN c.rules : c.rules[n].target > 100
<1> DEFINE A == c.channel_capacity = 0
<1> DEFINE B == c.max_body_bytes = 0
<1> DEFINE s == SelectorError(c)
<1> DEFINE e == <<Check(P, "TargetOutOfRange"), Check(Q, "TargetOutOfRange"), Check(A, "ZeroChannelCapacity"),
                  Check(B, "ZeroMaxBodyBytes"), s>>
<1>1. validate(c) = FirstError(e)
  BY DEF validate
<1>2. Defect(c, "TargetOutOfRange") <=> P \/ Q
  <2>1. c.default_target \in U16 /\ \A n \in DOMAIN c.rules : c.rules[n].target \in U16
    BY ConfigTyped
  <2>3. /\ P <=> c.default_target \notin 0 .. 100
        /\ Q <=> \E n \in DOMAIN c.rules : c.rules[n].target \notin 0 .. 100
    BY ONLY <2>1, Percentage DEF P, Q
  <2> HIDE DEF P, Q
  <2> QED BY <2>3, DefectIs
<1>3. (Defect(c, "ZeroChannelCapacity") <=> A) /\ (Defect(c, "ZeroMaxBodyBytes") <=> B)
  BY DefectIs
<1>4. \/ s = "none" /\ ~Defect(c, "EmptyFields") /\ ~Defect(c, "InvalidFieldSelector")
      \/ s = "EmptyFields" /\ Defect(c, "EmptyFields")
      \/ s = "InvalidFieldSelector" /\ Defect(c, "InvalidFieldSelector")
  BY SelectorErrorIs
<1> HIDE DEF P, Q, A, B, s
<1>5. /\ DOMAIN e = 1 .. 5
      /\ e[1] = (IF P THEN "TargetOutOfRange" ELSE "none")
      /\ e[2] = (IF Q THEN "TargetOutOfRange" ELSE "none")
      /\ e[3] = (IF A THEN "ZeroChannelCapacity" ELSE "none")
      /\ e[4] = (IF B THEN "ZeroMaxBodyBytes" ELSE "none")
      /\ e[5] = s
  BY DEF Check
<1> HIDE DEF e
<1>6. \/ FirstError(e) = "none" /\ \A i \in 1 .. 5 : e[i] = "none"
      \/ \E i \in 1 .. 5 : FirstError(e) = e[i] /\ e[i] # "none"
  BY <1>5, FirstErrorIs
<1>7. CASE FirstError(e) = "none" /\ \A i \in 1 .. 5 : e[i] = "none"
  <2>1. ~P /\ ~Q /\ ~A /\ ~B /\ s = "none"
    BY ONLY <1>5, <1>7
  <2> QED BY ONLY <1>1, <1>2, <1>3, <1>4, <1>7, <2>1 DEF Validated
<1>8. CASE \E i \in 1 .. 5 : FirstError(e) = e[i] /\ e[i] # "none"
  <2>1. \/ FirstError(e) = "TargetOutOfRange" /\ (P \/ Q)
        \/ FirstError(e) = "ZeroChannelCapacity" /\ A
        \/ FirstError(e) = "ZeroMaxBodyBytes" /\ B
        \/ FirstError(e) = s /\ s # "none"
    BY ONLY <1>5, <1>8
  <2> QED BY ONLY <1>1, <1>2, <1>3, <1>4, <2>1 DEF Validated
<1> QED BY ONLY <1>6, <1>7, <1>8

\* What one rule is turned away for.
LEMMA RuleErrorIs ==
    ASSUME NEW r, IsRule(r)
    PROVE  \/ RuleError(r) = "none" /\ Len(r.fields) # 0 /\ ~Refused(r) /\ r.pattern.compiles
           \/ RuleError(r) = "NoFields" /\ Len(r.fields) = 0
           \/ RuleError(r) = "NestedRepetition" /\ Refused(r)
           \/ RuleError(r) = "Regex" /\ ~r.pattern.compiles
<1> DEFINE P == r.fields = <<>>
<1> DEFINE Q == Refused(r)
<1> DEFINE A == ~r.pattern.compiles
<1> DEFINE e == <<Check(P, "NoFields"), Check(Q, "NestedRepetition"), Check(A, "Regex")>>
<1>1. RuleError(r) = FirstError(e)
  BY DEF RuleError, Refused
<1>2. P <=> Len(r.fields) = 0
  BY DEF IsRule
<1>3. (Q <=> Refused(r)) /\ (A <=> ~r.pattern.compiles)
  OBVIOUS
<1> HIDE DEF P, Q, A
<1>4. /\ DOMAIN e = 1 .. 3
      /\ e[1] = IF P THEN "NoFields" ELSE "none"
      /\ e[2] = IF Q THEN "NestedRepetition" ELSE "none"
      /\ e[3] = IF A THEN "Regex" ELSE "none"
  BY DEF Check
<1> HIDE DEF e
<1>5. \/ FirstError(e) = "none" /\ \A i \in 1 .. 3 : e[i] = "none"
      \/ \E i \in 1 .. 3 : FirstError(e) = e[i] /\ e[i] # "none"
  BY <1>4, FirstErrorIs
<1>6. \/ FirstError(e) = "none" /\ ~P /\ ~Q /\ ~A
      \/ FirstError(e) = "NoFields" /\ P
      \/ FirstError(e) = "NestedRepetition" /\ Q
      \/ FirstError(e) = "Regex" /\ A
  BY ONLY <1>4, <1>5
<1> QED BY ONLY <1>1, <1>2, <1>3, <1>6

\* What `compile` looks for.
Compiled == {"EmptyFields", "InvalidFieldSelector", "NestedRepetition", "Regex"}

\* A policy that compiles has none of the defects of its rules, and one that does
\* not has the one that is named.  A rule without fields is found before, by the
\* selectors, so that NoFields is never the answer.
LEMMA CompileIs ==
    ASSUME NEW c, IsConfig(c)
    PROVE  \/ compile(c) = "none" /\ \A err \in Compiled : ~Defect(c, err)
           \/ compile(c) \in Compiled /\ Defect(c, compile(c))
<1> DEFINE D == DOMAIN c.regex_rules
<1> DEFINE g == [n \in D |-> RuleError(c.regex_rules[n])]
<1> DEFINE s == SelectorError(c)
<1> DEFINE t == FirstError(g)
<1> DEFINE A == ~c.set_compiles
<1> DEFINE e == <<s, t, Check(A, "Regex")>>
<1>1. compile(c) = FirstError(e)
  BY DEF compile
<1>2. PICK m \in Nat : D = 1 .. m
  BY ConfigTyped
<1>3. \A n \in D :
         \/ /\ g[n] = "none" /\ Len(c.regex_rules[n].fields) # 0 
            /\ ~Refused(c.regex_rules[n]) /\ c.regex_rules[n].pattern.compiles
         \/ g[n] = "NoFields" /\ Len(c.regex_rules[n].fields) = 0
         \/ g[n] = "NestedRepetition" /\ Refused(c.regex_rules[n])
         \/ g[n] = "Regex" /\ ~c.regex_rules[n].pattern.compiles
  BY ConfigTyped, RuleErrorIs
<1>4. DOMAIN g = 1 .. m
  BY <1>2
<1>5. /\ Defect(c, "EmptyFields") <=> \E n \in D : Len(c.regex_rules[n].fields) = 0
      /\ Defect(c, "NestedRepetition") <=> \E n \in D : Refused(c.regex_rules[n])
      /\ Defect(c, "Regex") <=> (A \/ \E n \in D : ~c.regex_rules[n].pattern.compiles)
  BY DefectIs
<1>6. \/ s = "none" /\ ~Defect(c, "EmptyFields") /\ ~Defect(c, "InvalidFieldSelector")
      \/ s = "EmptyFields" /\ Defect(c, "EmptyFields")
      \/ s = "InvalidFieldSelector" /\ Defect(c, "InvalidFieldSelector")
  BY SelectorErrorIs
<1> HIDE DEF D, g, s
<1>7. \/ t = "none" /\ \A n \in D : ~Refused(c.regex_rules[n]) /\ c.regex_rules[n].pattern.compiles
      \/ t = "NoFields" /\ Defect(c, "EmptyFields")
      \/ t = "NestedRepetition" /\ Defect(c, "NestedRepetition")
      \/ t = "Regex" /\ Defect(c, "Regex")
  <2>1. \/ t = "none" /\ \A n \in D : g[n] = "none"
        \/ \E n \in D : t = g[n] /\ g[n] # "none"
    BY <1>2, <1>4, FirstErrorIs
  <2> HIDE DEF t, A
  <2> QED BY ONLY <1>3, <1>5, <2>1
<1> HIDE DEF t, A
<1>8. /\ DOMAIN e = 1 .. 3 /\ e[1] = s /\ e[2] = t
      /\ e[3] = IF A THEN "Regex" ELSE "none"
  BY DEF Check
<1> HIDE DEF e
<1>9. \/ FirstError(e) = "none" /\ \A i \in 1 .. 3 : e[i] = "none"
      \/ \E i \in 1 .. 3 : FirstError(e) = e[i] /\ e[i] # "none"
  BY <1>8, FirstErrorIs
<1>10. CASE s # "none"
  <2>1. \/ FirstError(e) = "none" /\ \A i \in 1 .. 3 : e[i] = "none"
        \/ \E i \in 1 .. 3 : FirstError(e) = e[i] /\ \A j \in 1 .. 3 : e[j] # "none" => i <= j
    BY <1>8, FirstErrorIs
  <2>2. FirstError(e) = s
    BY ONLY <1>8, <1>10, <2>1
  <2> QED BY ONLY <1>1, <1>6, <1>10, <2>2 DEF Compiled
<1>11. CASE s = "none"
  <2>1. ~Defect(c, "EmptyFields") /\ ~Defect(c, "InvalidFieldSelector")
    BY ONLY <1>6, <1>11
  <2>2. \/ FirstError(e) = "none" /\ t = "none" /\ ~A
        \/ FirstError(e) = t /\ t # "none"
        \/ FirstError(e) = "Regex" /\ A
    BY ONLY <1>8, <1>9, <1>11
  <2>3. Defect(c, "NestedRepetition") => t # "none"
    BY ONLY <1>5, <1>7
  <2>4. t = "none" /\ ~A => ~Defect(c, "Regex")
    BY ONLY <1>5, <1>7
  <2> QED BY ONLY <1>1, <1>5, <1>7, <2>1, <2>2, <2>3, <2>4 DEF Compiled
<1> QED BY ONLY <1>10, <1>11

\* The configuration the agent starts with when no file is named is sound.
LEMMA DefaultSound ==
    /\ IsConfig(DefaultConfig) /\ validate(DefaultConfig) = "none"
    /\ \A err \in Errors : ~Defect(DefaultConfig, err)
<1> DEFINE d == DefaultConfig
<1>1. /\ d.default_target = 100 /\ d.rules = <<>> /\ d.regex_rules = <<>> /\ d.set_compiles = TRUE
      /\ d.channel_capacity = 8192 /\ d.max_body_bytes = 4 * 1024 * 1024
      /\ d.http_endpoint \in Sockets /\ d.grpc_endpoint \in Sockets
  BY StartupAssumption DEF DefaultConfig
<1> HIDE DEF d
<1>2. IsConfig(d)
  <2>1. U16Max \in Nat /\ 100 <= U16Max
    BY DEF U16Max
  <2>2. 100 \in U16 /\ 8192 \in Nat /\ 4 * 1024 * 1024 \in Nat
    BY <2>1 DEF U16
  <2>3. d.default_target \in U16
    BY ONLY <1>1, <2>2
  <2>4. d.channel_capacity \in Nat
    BY ONLY <1>1, <2>2
  <2>5. d.max_body_bytes \in Nat
    BY ONLY <1>1, <2>2
  <2>6. d.set_compiles \in BOOLEAN
    BY DEF d, DefaultConfig
  <2>7. \A S : d.rules \in Seq(S) /\ d.regex_rules \in Seq(S)
    BY ONLY <1>1
  <2>8. DOMAIN d.rules = {}
    BY ONLY <1>1
  <2> QED BY ONLY <2>3, <2>4, <2>5, <2>6, <2>7, <2>8 DEF IsConfig
<1>3. DOMAIN d.rules = {} /\ DOMAIN d.regex_rules = {}
  BY ONLY <1>1
<1>4. \A err \in Errors : ~Defect(d, err)
  BY <1>1, <1>3, DefectIs DEF Errors
<1>5. validate(d) = "none"
  BY <1>2, <1>4, ValidateIs DEF Validated, Errors
<1> QED BY <1>2, <1>4, <1>5 DEF d

-----------------------------------------------------------------------------
(* What the fingerprint tells *)

\* Two texts that are equal as far as the shorter one goes.
Agree(u, v) == \A k \in 1 .. Len(u) : k <= Len(v) => u[k] = v[k]

\* The texts of s stand in W one after the other, and stop after the last one.
LaidOut(W, s, n, stop, U) ==
    /\ U \in [0 .. n -> Nat] /\ U[0] = 0
    /\ \A i \in 1 .. n : /\ U[i] = U[i - 1] + Len(s[i])
                         /\ \A k \in 1 .. Len(s[i]) : W[U[i - 1] + k] = s[i][k]
    /\ W[U[n] + 1] = stop

\* What is flattened is laid out.
LEMMA Laid ==
    ASSUME NEW A, NEW n \in Nat, NEW s \in [1 .. n -> Seq(A)], NEW stop \in A, NEW x \in Seq(A)
    PROVE  \E U : LaidOut((FlattenSeq(s) \o <<stop>>) \o x, s, n, stop, U)
<1> DEFINE f == FlattenSeq(s)
           c == Lens(s)
           U == [i \in 0 .. n |-> Upto(c, i)]
           W == (f \o <<stop>>) \o x
<1>1. Flattened(f, s, n, A)
  BY FlattenAt
<1>2. \A i \in 1 .. n : c[i] = Len(s[i])
  BY DEF Lens
<1>3. /\ c \in [1 .. n -> Nat] /\ f \in Seq(A) /\ Len(f) = SumOf(c)
      /\ \A i \in 1 .. n : \A j \in 1 .. Len(s[i]) :
            Upto(c, i - 1) + j \in 1 .. Len(f) /\ f[Upto(c, i - 1) + j] = s[i][j]
  BY <1>1 DEF Flattened
<1> HIDE DEF f, c
<1>4. /\ \A i \in 0 .. n : Upto(c, i) \in Nat
      /\ Upto(c, 0) = 0 /\ Upto(c, n) = SumOf(c)
      /\ \A i \in 1 .. n : Upto(c, i) = Upto(c, i - 1) + c[i]
  BY <1>3, SumPrefix
<1>5. U \in [0 .. n -> Nat] /\ \A i \in 0 .. n : U[i] = Upto(c, i)
  BY <1>4
<1> HIDE DEF U
<1>6. /\ Len(f) \in Nat /\ f \o <<stop>> \in Seq(A) /\ Len(f \o <<stop>>) = Len(f) + 1
      /\ \A k \in 1 .. Len(f) : (f \o <<stop>>)[k] = f[k]
      /\ (f \o <<stop>>)[Len(f) + 1] = stop
  <2>1. <<stop>> \in Seq(A) /\ Len(<<stop>>) = 1 /\ <<stop>>[1] = stop /\ 1 \in 1 .. 1
    OBVIOUS
  <2> QED BY ONLY <1>3, <2>1, ConcatAt
<1>7. /\ \A k \in 1 .. Len(f) : W[k] = f[k]
      /\ W[Len(f) + 1] = stop
  <2>1. PICK g \in Seq(A) : g = f \o <<stop>>
    BY <1>6
  <2>2. \A k \in 1 .. Len(g) : (g \o x)[k] = g[k]
    BY ONLY g \in Seq(A), x \in Seq(A), ConcatAt
  <2>3. W = g \o x
    BY <2>1
  <2> HIDE DEF W
  <2>4. \A k \in 1 .. Len(f) + 1 : W[k] = g[k]
    BY ONLY <1>6, <2>1, <2>2, <2>3
  <2> QED BY ONLY <1>6, <2>1, <2>4
<1> HIDE DEF W
<1>8. ASSUME NEW i \in 1 .. n
      PROVE  U[i] = U[i - 1] + Len(s[i]) /\ \A k \in 1 .. Len(s[i]) : W[U[i - 1] + k] = s[i][k]
  <2>1. i \in 0 .. n /\ i - 1 \in 0 .. n
    OBVIOUS
  <2>2. U[i] = Upto(c, i) /\ U[i - 1] = Upto(c, i - 1)
    BY <1>5, <2>1
  <2>3. U[i] = U[i - 1] + Len(s[i])
    BY <1>2, <1>4, <2>2
  <2> QED BY <1>3, <1>7, <2>2, <2>3
<1>9. U[0] = 0 /\ U[n] = Len(f)
  BY <1>3, <1>4, <1>5
<1>10. LaidOut(W, s, n, stop, U)
  BY <1>5, <1>7, <1>8, <1>9 DEF LaidOut
<1> QED BY <1>10 DEF W, f

\* Two lists of texts laid out in the same bytes are the same list, if no text
\* starts with the stop, and two that agree as far as both go are equal.
LEMMA SameTexts ==
    ASSUME NEW W, NEW n \in Nat, NEW m \in Nat, NEW A, NEW s \in [1 .. n -> Seq(A)], NEW t \in [1 .. m -> Seq(A)],
           NEW stop, NEW U, NEW V, LaidOut(W, s, n, stop, U), LaidOut(W, t, m, stop, V),
           \A i \in 1 .. n : Len(s[i]) >= 1 /\ s[i][1] # stop,
           \A i \in 1 .. m : Len(t[i]) >= 1 /\ t[i][1] # stop,
           \A i \in 1 .. n, j \in 1 .. m : Agree(s[i], t[j]) => s[i] = t[j]
    PROVE  s = t
<1>1. /\ U \in [0 .. n -> Nat] /\ U[0] = 0
      /\ \A i \in 1 .. n : U[i] = U[i - 1] + Len(s[i])
      /\ \A i \in 1 .. n : \A k \in 1 .. Len(s[i]) : W[U[i - 1] + k] = s[i][k]
      /\ W[U[n] + 1] = stop
  BY DEF LaidOut
<1>2. /\ V \in [0 .. m -> Nat] /\ V[0] = 0
      /\ \A i \in 1 .. m : V[i] = V[i - 1] + Len(t[i])
      /\ \A i \in 1 .. m : \A k \in 1 .. Len(t[i]) : W[V[i - 1] + k] = t[i][k]
      /\ W[V[m] + 1] = stop
  BY DEF LaidOut
<1>3. /\ \A i \in 1 .. n : Len(s[i]) \in Nat /\ s[i] \in Seq(A)
      /\ \A i \in 1 .. m : Len(t[i]) \in Nat /\ t[i] \in Seq(A)
  BY LenProperties
<1>4. \A i \in 1 .. n : W[U[i - 1] + 1] # stop
  <2> SUFFICES ASSUME NEW i \in 1 .. n PROVE W[U[i - 1] + 1] # stop
    OBVIOUS
  <2>1. 1 \in 1 .. Len(s[i])
    BY <1>3
  <2> QED BY <1>1, <2>1
<1>5. \A i \in 1 .. m : W[V[i - 1] + 1] # stop
  <2> SUFFICES ASSUME NEW i \in 1 .. m PROVE W[V[i - 1] + 1] # stop
    OBVIOUS
  <2>1. 1 \in 1 .. Len(t[i])
    BY <1>3
  <2> QED BY <1>2, <2>1
<1> DEFINE P(i) == i <= m /\ U[i] = V[i] /\ \A j \in 1 .. i : s[j] = t[j]
           S == {i \in Nat : i <= n => P(i)}
<1>6. 0 \in S
  BY <1>1, <1>2
<1>7. ASSUME NEW i \in S PROVE i + 1 \in S
  <2> SUFFICES ASSUME i + 1 <= n PROVE P(i + 1)
    OBVIOUS
  <2>1. i \in Nat /\ i + 1 \in 1 .. n /\ (i + 1) - 1 = i /\ i \in 0 .. n
    OBVIOUS
  <2>2. i <= m /\ U[i] = V[i] /\ \A j \in 1 .. i : s[j] = t[j]
    BY <2>1
  <2> HIDE DEF P, S
  <2>3. i # m
    BY <1>2, <1>4, <2>1, <2>2
  <2>4. i + 1 \in 1 .. m
    BY <2>1, <2>2, <2>3
  <2>5. PICK u \in Seq(A), v \in Seq(A) : u = s[i + 1] /\ v = t[i + 1]
    BY <2>1, <2>4
  <2>6. ASSUME NEW k \in 1 .. Len(u), k <= Len(v) PROVE u[k] = v[k]
    <3>1. k \in 1 .. Len(v)
      BY <2>6, <2>5, LenProperties
    <3>2. W[U[i] + k] = u[k]
      <4>1. \A l \in 1 .. Len(s[i + 1]) : W[U[(i + 1) - 1] + l] = s[i + 1][l]
        BY <1>1, <2>1
      <4> QED BY ONLY <2>1, <2>5, <4>1, k \in 1 .. Len(u)
    <3>3. W[V[i] + k] = v[k]
      <4>1. \A l \in 1 .. Len(t[i + 1]) : W[V[(i + 1) - 1] + l] = t[i + 1][l]
        BY <1>2, <2>4
      <4> QED BY ONLY <2>1, <2>5, <3>1, <4>1
    <3> QED BY <2>2, <3>2, <3>3
  <2>7. s[i + 1] = t[i + 1]
    <3>1. Agree(u, v)
      BY <2>6 DEF Agree
    <3> QED BY <2>1, <2>4, <2>5, <3>1
  <2>8. U[i + 1] = V[i + 1]
    BY <1>1, <1>2, <2>1, <2>2, <2>4, <2>7
  <2>9. \A j \in 1 .. i + 1 : s[j] = t[j]
    <3> SUFFICES ASSUME NEW j \in 1 .. i + 1 PROVE s[j] = t[j]
      OBVIOUS
    <3>1. j = i + 1 \/ j \in 1 .. i
      BY <2>1
    <3> QED BY <2>2, <2>7, <3>1
  <2> QED BY <2>4, <2>8, <2>9 DEF P
<1>8. S = Nat
  <2> HIDE DEF S
  <2>1. S \in SUBSET Nat
    BY DEF S
  <2> QED BY <1>6, <1>7, <2>1, NatInd
<1>9. P(n)
  <2>1. n \in S
    BY <1>8
  <2> QED BY <2>1
<1>10. n = m
  <2> SUFFICES ASSUME n # m PROVE FALSE
    OBVIOUS
  <2>1. n + 1 \in 1 .. m /\ (n + 1) - 1 = n
    BY <1>9
  <2>2. W[V[n] + 1] # stop
    BY <1>5, <2>1
  <2> QED BY <1>1, <1>9, <2>2
<1> QED BY <1>9, <1>10

\* What comes after a part of a known length is determined with it.
LEMMA Cancel ==
    ASSUME NEW A, NEW a \in Seq(A), NEW b \in Seq(A), NEW x \in Seq(A), NEW y \in Seq(A),
           Len(a) = Len(b), a \o x = b \o y
    PROVE  a = b /\ x = y
<1>1. /\ Len(a) \in Nat /\ Len(x) \in Nat /\ Len(a \o x) = Len(a) + Len(x)
      /\ \A k \in 1 .. Len(a) : (a \o x)[k] = a[k]
      /\ \A k \in 1 .. Len(x) : (a \o x)[Len(a) + k] = x[k]
  BY ONLY a \in Seq(A), x \in Seq(A), ConcatAt
<1>2. /\ Len(b) \in Nat /\ Len(y) \in Nat /\ Len(b \o y) = Len(b) + Len(y)
      /\ \A k \in 1 .. Len(b) : (b \o y)[k] = b[k]
      /\ \A k \in 1 .. Len(y) : (b \o y)[Len(b) + k] = y[k]
  BY ONLY b \in Seq(A), y \in Seq(A), ConcatAt
<1>3. PICK W : W = a \o x /\ W = b \o y
  OBVIOUS
<1>4. Len(x) = Len(y)
  BY ONLY <1>1, <1>2, <1>3, Len(a) = Len(b)
<1>5. \A k \in 1 .. Len(a) : a[k] = b[k]
  BY ONLY <1>1, <1>2, <1>3, Len(a) = Len(b)
<1>6. \A k \in 1 .. Len(x) : x[k] = y[k]
  BY ONLY <1>1, <1>2, <1>3, <1>4, Len(a) = Len(b)
<1>7. a = b
  BY ONLY <1>5, a \in Seq(A), b \in Seq(A), Len(a) = Len(b), SeqEqual
<1>8. x = y
  BY ONLY <1>6, x \in Seq(A), y \in Seq(A), <1>4, SeqEqual
<1> QED BY <1>7, <1>8

\* No text of s or t starts with the stop, and none of s starts as one of t goes,
\* but for equal ones.
Distinct(s, n, t, m, stop, A) ==
    /\ n \in Nat /\ m \in Nat /\ s \in [1 .. n -> Seq(A)] /\ t \in [1 .. m -> Seq(A)] /\ stop \in A
    /\ \A i \in 1 .. n : Len(s[i]) >= 1 /\ s[i][1] # stop
    /\ \A i \in 1 .. m : Len(t[i]) >= 1 /\ t[i][1] # stop
    /\ \A i \in 1 .. n, j \in 1 .. m : Agree(s[i], t[j]) => s[i] = t[j]

StoppedBy(s, stop, x) == (FlattenSeq(s) \o <<stop>>) \o x

\* A list of texts and what comes after it can be read back.
LEMMA ReadBack ==
    ASSUME NEW A, NEW n, NEW m, NEW s, NEW t, NEW stop, Distinct(s, n, t, m, stop, A),
           NEW x \in Seq(A), NEW y \in Seq(A),
           StoppedBy(s, stop, x) = StoppedBy(t, stop, y)
    PROVE  s = t /\ x = y
<1>0. /\ n \in Nat /\ m \in Nat /\ s \in [1 .. n -> Seq(A)] /\ t \in [1 .. m -> Seq(A)] /\ stop \in A
      /\ \A i \in 1 .. n : Len(s[i]) >= 1 /\ s[i][1] # stop
      /\ \A i \in 1 .. m : Len(t[i]) >= 1 /\ t[i][1] # stop
      /\ \A i \in 1 .. n, j \in 1 .. m : Agree(s[i], t[j]) => s[i] = t[j]
  BY DEF Distinct
<1>1. PICK W : W = (FlattenSeq(s) \o <<stop>>) \o x /\ W = (FlattenSeq(t) \o <<stop>>) \o y
  BY DEF StoppedBy
<1>2. PICK U : LaidOut(W, s, n, stop, U)
  <2>0. n \in Nat /\ s \in [1 .. n -> Seq(A)] /\ stop \in A
    BY <1>0
  <2>1. \E U : LaidOut((FlattenSeq(s) \o <<stop>>) \o x, s, n, stop, U)
    BY ONLY <2>0, x \in Seq(A), Laid
  <2> QED BY <1>1, <2>1
<1>3. PICK V : LaidOut(W, t, m, stop, V)
  <2>0. m \in Nat /\ t \in [1 .. m -> Seq(A)] /\ stop \in A
    BY <1>0
  <2>1. \E V : LaidOut((FlattenSeq(t) \o <<stop>>) \o y, t, m, stop, V)
    BY ONLY <2>0, y \in Seq(A), Laid
  <2> QED BY <1>1, <2>1
<1>4. s = t
  BY <1>0, <1>2, <1>3, SameTexts
<1>5. FlattenSeq(s) \in Seq(A)
  BY <1>0, FlattenAt DEF Flattened
<1>6. PICK h \in Seq(A) : h = FlattenSeq(s) \o <<stop>> /\ h = FlattenSeq(t) \o <<stop>>
  <2>1. <<stop>> \in Seq(A)
    BY <1>0
  <2>2. FlattenSeq(s) \o <<stop>> \in Seq(A)
    BY <1>5, <2>1, ConcatAt
  <2> QED BY <1>4, <2>2
<1>7. h \o x = h \o y
  BY <1>1, <1>6
<1>8. x = y
  BY ONLY <1>7, h \in Seq(A), x \in Seq(A), y \in Seq(A), Cancel
<1> QED BY <1>4, <1>8

Byte == 0 .. 255

\* A text with no zero byte in it.
Plain(s) == \A k \in DOMAIN s : s[k] # 0

\* A text with the zero that ends it.
LEMMA EndedIs ==
    ASSUME NEW s \in Text, Plain(s)
    PROVE  /\ Ended(s) \in Seq(Byte) /\ Len(s) \in Nat /\ Len(Ended(s)) = Len(s) + 1
           /\ \A k \in 1 .. Len(s) : Ended(s)[k] = s[k] /\ s[k] \in 1 .. 244
           /\ Ended(s)[Len(s) + 1] = 0
<1>1. s \in Seq(Byte) /\ <<0>> \in Seq(Byte)
  <2>1. s \in Seq(Byte)
    BY SeqMonotonic, 0 .. 244 \subseteq Byte DEF Text, Byte
  <2> QED BY <2>1 DEF Byte
<1>2. /\ Ended(s) \in Seq(Byte) /\ Len(s) \in Nat /\ Len(Ended(s)) = Len(s) + 1
      /\ \A k \in 1 .. Len(s) : Ended(s)[k] = s[k]
      /\ Ended(s)[Len(s) + 1] = 0
  <2>1. Len(<<0>>) = 1 /\ <<0>>[1] = 0 /\ 1 \in 1 .. 1
    OBVIOUS
  <2>2. Ended(s) = s \o <<0>>
    BY DEF Ended
  <2>3. /\ s \o <<0>> \in Seq(Byte) /\ Len(s) \in Nat /\ Len(s \o <<0>>) = Len(s) + Len(<<0>>)
        /\ \A k \in 1 .. Len(s) : (s \o <<0>>)[k] = s[k]
        /\ \A k \in 1 .. Len(<<0>>) : (s \o <<0>>)[Len(s) + k] = <<0>>[k]
    BY ONLY <1>1, ConcatAt
  <2> QED BY ONLY <2>1, <2>2, <2>3
<1>3. \A k \in 1 .. Len(s) : s[k] \in 1 .. 244
  <2> SUFFICES ASSUME NEW k \in 1 .. Len(s) PROVE s[k] \in 1 .. 244
    OBVIOUS
  <2>1. s[k] \in 0 .. 244
    BY ElementOfSeq DEF Text
  <2>2. s[k] # 0
    BY LenProperties DEF Plain, Text
  <2> QED BY ONLY <2>1, <2>2
<1> QED BY <1>2, <1>3

\* Two texts with their ends, where one starts as the other goes, are the same.
LEMMA EndedApart ==
    ASSUME NEW s \in Text, NEW t \in Text, Plain(s), Plain(t), Agree(Ended(s), Ended(t))
    PROVE  s = t
<1>1. /\ Len(s) \in Nat /\ Len(Ended(s)) = Len(s) + 1 /\ Ended(s)[Len(s) + 1] = 0
      /\ \A k \in 1 .. Len(s) : Ended(s)[k] = s[k] /\ s[k] \in 1 .. 244
  BY EndedIs
<1>2. /\ Len(t) \in Nat /\ Len(Ended(t)) = Len(t) + 1 /\ Ended(t)[Len(t) + 1] = 0
      /\ \A k \in 1 .. Len(t) : Ended(t)[k] = t[k] /\ t[k] \in 1 .. 244
  BY EndedIs
<1>3. PICK u, v : u = Ended(s) /\ v = Ended(t)
  OBVIOUS
<1>4. \A k \in 1 .. Len(s) + 1 : k <= Len(t) + 1 => u[k] = v[k]
  BY <1>1, <1>2, <1>3 DEF Agree
<1>5. /\ u[Len(s) + 1] = 0 /\ \A k \in 1 .. Len(s) : u[k] = s[k] /\ u[k] # 0
      /\ v[Len(t) + 1] = 0 /\ \A k \in 1 .. Len(t) : v[k] = t[k] /\ v[k] # 0
  <2>1. ASSUME NEW k \in 1 .. Len(s) PROVE u[k] = s[k] /\ u[k] # 0
    <3>1. Ended(s)[k] = s[k] /\ s[k] \in 1 .. 244
      BY <1>1
    <3>2. s[k] # 0
      <4>1. \A x \in 1 .. 244 : x # 0
        BY ONLY TRUE
      <4> QED BY ONLY <3>1, <4>1
    <3> QED BY ONLY <1>3, <3>1, <3>2
  <2>2. ASSUME NEW k \in 1 .. Len(t) PROVE v[k] = t[k] /\ v[k] # 0
    <3>1. Ended(t)[k] = t[k] /\ t[k] \in 1 .. 244
      BY <1>2
    <3>2. t[k] # 0
      <4>1. \A x \in 1 .. 244 : x # 0
        BY ONLY TRUE
      <4> QED BY ONLY <3>1, <4>1
    <3> QED BY ONLY <1>3, <3>1, <3>2
  <2> QED BY ONLY <1>1, <1>2, <1>3, <2>1, <2>2
<1>6. ~(Len(s) < Len(t))
  <2> SUFFICES ASSUME Len(s) < Len(t) PROVE FALSE
    OBVIOUS
  <2>1. Len(s) + 1 \in 1 .. Len(t) /\ Len(s) + 1 \in 1 .. Len(s) + 1 /\ Len(s) + 1 <= Len(t) + 1
    BY ONLY <1>1, <1>2, Len(s) < Len(t)
  <2> QED BY ONLY <1>4, <1>5, <2>1
<1>7. ~(Len(t) < Len(s))
  <2> SUFFICES ASSUME Len(t) < Len(s) PROVE FALSE
    OBVIOUS
  <2>1. Len(t) + 1 \in 1 .. Len(s) /\ Len(t) + 1 \in 1 .. Len(s) + 1 /\ Len(t) + 1 <= Len(t) + 1
    BY ONLY <1>1, <1>2, Len(t) < Len(s)
  <2> QED BY ONLY <1>4, <1>5, <2>1
<1>8. Len(s) = Len(t)
  BY ONLY <1>1, <1>2, <1>6, <1>7
<1>9. \A k \in 1 .. Len(s) : s[k] = t[k]
  <2> SUFFICES ASSUME NEW k \in 1 .. Len(s) PROVE s[k] = t[k]
    OBVIOUS
  <2>1. k \in 1 .. Len(s) + 1 /\ k <= Len(t) + 1 /\ k \in 1 .. Len(t)
    BY ONLY <1>1, <1>8, k \in 1 .. Len(s)
  <2> QED BY ONLY <1>4, <1>5, <2>1, k \in 1 .. Len(s)
<1>10. s \in Seq(Nat) /\ t \in Seq(Nat)
  BY SeqMonotonic, 0 .. 244 \subseteq Nat DEF Text
<1> QED BY ONLY <1>8, <1>9, <1>10, SeqEqual

\* A rule of redaction whose texts are plain.
PlainRule(r) ==
    /\ r.name \in Text /\ r.pattern.text \in Text /\ r.mask \in Text /\ r.fields \in Seq(Text)
    /\ Plain(r.name) /\ Plain(r.pattern.text) /\ Plain(r.mask)
    /\ \A i \in DOMAIN r.fields : Plain(r.fields[i])

\* The texts of a rule, in the order in which they are hashed.
LEMMA RuleTextsAre ==
    ASSUME NEW r, PlainRule(r)
    PROVE  /\ Len(r.fields) \in Nat /\ DOMAIN RuleTexts(r) = 1 .. 3 + Len(r.fields)
           /\ \A i \in 1 .. 3 + Len(r.fields) : RuleTexts(r)[i] \in Text /\ Plain(RuleTexts(r)[i])
           /\ RuleTexts(r)[1] = r.name /\ RuleTexts(r)[2] = r.pattern.text /\ RuleTexts(r)[3] = r.mask
           /\ \A i \in 1 .. Len(r.fields) : RuleTexts(r)[3 + i] = r.fields[i]
<1> DEFINE h == <<r.name, r.pattern.text, r.mask>>
<1>1. h \in Seq(Text) /\ Len(h) = 3 /\ h[1] = r.name /\ h[2] = r.pattern.text /\ h[3] = r.mask
  BY DEF PlainRule
<1>2. r.fields \in Seq(Text)
  BY DEF PlainRule
<1>3. RuleTexts(r) = h \o r.fields
  BY DEF RuleTexts
<1>4. Plain(h[1]) /\ Plain(h[2]) /\ Plain(h[3]) /\ \A i \in 1 .. Len(r.fields) : Plain(r.fields[i])
  <2>1. \A i \in 1 .. Len(r.fields) : Plain(r.fields[i])
    BY LenProperties DEF PlainRule
  <2> QED BY <2>1, <1>1 DEF PlainRule
<1> HIDE DEF h
<1>5. PICK f \in Seq(Text) : f = r.fields
  BY <1>2
<1>6. /\ h \o f \in Seq(Text) /\ Len(f) \in Nat /\ Len(h \o f) = Len(h) + Len(f)
      /\ \A k \in 1 .. Len(h) : (h \o f)[k] = h[k]
      /\ \A k \in 1 .. Len(f) : (h \o f)[Len(h) + k] = f[k]
  <2>1. h \in Seq(Text)
    BY <1>1
  <2> QED BY ONLY <2>1, f \in Seq(Text), ConcatAt
<1>7. PICK w \in Seq(Text) : w = h \o f /\ w = RuleTexts(r)
  BY <1>3, <1>5, <1>6
<1>8. DOMAIN w = 1 .. 3 + Len(f) /\ \A i \in 1 .. 3 + Len(f) : w[i] \in Text
  <2>1. Len(w) = 3 + Len(f)
    BY ONLY <1>1, <1>6, <1>7
  <2> QED BY ONLY <2>1, w \in Seq(Text), LenProperties, ElementOfSeq
<1>9. w[1] = h[1] /\ w[2] = h[2] /\ w[3] = h[3] /\ \A i \in 1 .. Len(f) : w[3 + i] = f[i]
  BY ONLY <1>1, <1>6, <1>7
<1>10. \A i \in 1 .. 3 + Len(f) : Plain(w[i])
  <2> SUFFICES ASSUME NEW i \in 1 .. 3 + Len(f) PROVE Plain(w[i])
    OBVIOUS
  <2>1. i = 1 \/ i = 2 \/ i = 3 \/ \E j \in 1 .. Len(f) : i = 3 + j
    <3>1. i > 3 => i - 3 \in 1 .. Len(f) /\ i = 3 + (i - 3)
      BY ONLY <1>6, i \in 1 .. 3 + Len(f)
    <3> QED BY ONLY <3>1, i \in 1 .. 3 + Len(f), <1>6
  <2> QED BY ONLY <1>4, <1>5, <1>9, <2>1
<1> QED BY ONLY <1>1, <1>5, <1>6, <1>7, <1>8, <1>9, <1>10

\* No sequence of ss has x.
Avoid(ss, N, A, x) ==
    /\ N \in Nat /\ ss \in [1 .. N -> Seq(A)]
    /\ \A i \in 1 .. N : \A j \in 1 .. Len(ss[i]) : ss[i][j] # x

\* What none of the sequences has, they do not have together.
LEMMA FlattenAvoids ==
    ASSUME NEW A, NEW N, NEW ss, NEW x, Avoid(ss, N, A, x)
    PROVE  \A k \in 1 .. Len(FlattenSeq(ss)) : FlattenSeq(ss)[k] # x
<1>0. /\ N \in Nat /\ ss \in [1 .. N -> Seq(A)]
      /\ \A i \in 1 .. N : \A j \in 1 .. Len(ss[i]) : ss[i][j] # x
  BY DEF Avoid
<1> SUFFICES ASSUME NEW k \in 1 .. Len(FlattenSeq(ss)) PROVE FlattenSeq(ss)[k] # x
  OBVIOUS
<1>1. Flattened(FlattenSeq(ss), ss, N, A)
  BY <1>0, FlattenAt
<1>2. PICK i \in 1 .. N : \E j \in 1 .. Len(ss[i]) : k = Upto(Lens(ss), i - 1) + j
  BY <1>1 DEF Flattened
<1>3. PICK j \in 1 .. Len(ss[i]) : k = Upto(Lens(ss), i - 1) + j
  BY <1>2
<1>4. FlattenSeq(ss)[Upto(Lens(ss), i - 1) + j] = ss[i][j]
  BY <1>1 DEF Flattened
<1> QED BY <1>0, <1>3, <1>4

\* Lists of texts that make the same bytes up to the stop are the same.
LEMMA ListReadBack ==
    ASSUME NEW A, NEW n, NEW m, NEW s, NEW t, NEW stop, Distinct(s, n, t, m, stop, A),
           FlattenSeq(s) \o <<stop>> = FlattenSeq(t) \o <<stop>>
    PROVE  s = t
<1>0. /\ n \in Nat /\ m \in Nat /\ s \in [1 .. n -> Seq(A)] /\ t \in [1 .. m -> Seq(A)] /\ stop \in A
      /\ \A i \in 1 .. n : Len(s[i]) >= 1 /\ s[i][1] # stop
      /\ \A i \in 1 .. m : Len(t[i]) >= 1 /\ t[i][1] # stop
      /\ \A i \in 1 .. n, j \in 1 .. m : Agree(s[i], t[j]) => s[i] = t[j]
  BY DEF Distinct
<1>1. PICK x : x \in Seq(A) /\ x = <<>>
  <2>1. <<>> \in Seq(A)
    OBVIOUS
  <2> QED BY <2>1
<1>2. PICK W : W = (FlattenSeq(s) \o <<stop>>) \o x /\ W = (FlattenSeq(t) \o <<stop>>) \o x
  OBVIOUS
<1>3. PICK U : LaidOut(W, s, n, stop, U)
  <2>0. n \in Nat /\ s \in [1 .. n -> Seq(A)] /\ stop \in A /\ x \in Seq(A)
    BY <1>0, <1>1
  <2>1. \E U : LaidOut((FlattenSeq(s) \o <<stop>>) \o x, s, n, stop, U)
    BY ONLY <2>0, Laid
  <2> QED BY <1>2, <2>1
<1>4. PICK V : LaidOut(W, t, m, stop, V)
  <2>0. m \in Nat /\ t \in [1 .. m -> Seq(A)] /\ stop \in A /\ x \in Seq(A)
    BY <1>0, <1>1
  <2>1. \E V : LaidOut((FlattenSeq(t) \o <<stop>>) \o x, t, m, stop, V)
    BY ONLY <2>0, Laid
  <2> QED BY <1>2, <2>1
<1> QED BY <1>0, <1>3, <1>4, SameTexts

\* The text of a rule ends in the only 254 that it has, and starts with no 255.
LEMMA RuleWord ==
    ASSUME NEW r, PlainRule(r)
    PROVE  /\ RuleBytes(r) \in Seq(Byte) /\ Len(RuleBytes(r)) \in Nat \ {0}
           /\ RuleBytes(r)[Len(RuleBytes(r))] = 254 /\ RuleBytes(r)[1] # 255
           /\ \A k \in 1 .. Len(RuleBytes(r)) - 1 : RuleBytes(r)[k] # 254
<1> DEFINE n == 3 + Len(r.fields)
           ts == RuleTexts(r)
           e == [i \in DOMAIN ts |-> Ended(ts[i])]
           f == FlattenSeq(e)
<1>1. n \in Nat /\ DOMAIN ts = 1 .. n /\ \A i \in 1 .. n : ts[i] \in Text /\ Plain(ts[i])
  BY RuleTextsAre
<1>2. RuleBytes(r) = f \o <<254>>
  BY DEF RuleBytes
<1> HIDE DEF n, ts
<1>3. \A i \in 1 .. n : /\ Ended(ts[i]) \in Seq(Byte)
                        /\ \A k \in 1 .. Len(Ended(ts[i])) : Ended(ts[i])[k] # 254 /\ Ended(ts[i])[k] # 255
  <2> SUFFICES ASSUME NEW i \in 1 .. n
               PROVE  /\ Ended(ts[i]) \in Seq(Byte)
                      /\ \A k \in 1 .. Len(Ended(ts[i])) : Ended(ts[i])[k] # 254 /\ Ended(ts[i])[k] # 255
    OBVIOUS
  <2>1. PICK s \in Text : s = ts[i] /\ Plain(s)
    BY <1>1
  <2>2. /\ Ended(s) \in Seq(Byte) /\ Len(s) \in Nat /\ Len(Ended(s)) = Len(s) + 1
        /\ \A k \in 1 .. Len(s) : Ended(s)[k] = s[k] /\ s[k] \in 1 .. 244
        /\ Ended(s)[Len(s) + 1] = 0
    BY <2>1, EndedIs
  <2>3. \A x \in 1 .. 244 : x # 254 /\ x # 255
    BY ONLY TRUE
  <2>4. ASSUME NEW k \in 1 .. Len(Ended(s)) PROVE Ended(s)[k] # 254 /\ Ended(s)[k] # 255
    <3>1. k \in 1 .. Len(s) \/ k = Len(s) + 1
      BY ONLY <2>2, k \in 1 .. Len(Ended(s))
    <3>2. ASSUME k \in 1 .. Len(s) PROVE Ended(s)[k] # 254 /\ Ended(s)[k] # 255
      BY <2>2, <2>3, <3>2
    <3> QED BY <2>2, <3>1, <3>2
  <2> QED BY <2>1, <2>2, <2>4
<1>4. e \in [1 .. n -> Seq(Byte)] /\ \A i \in 1 .. n : e[i] = Ended(ts[i])
  BY <1>1, <1>3
<1> HIDE DEF e
<1>5. /\ f \in Seq(Byte)
      /\ \A k \in 1 .. Len(f) : f[k] # 254 /\ f[k] # 255
  <2>1. f \in Seq(Byte)
    BY <1>1, <1>4, FlattenAt DEF Flattened
  <2>2. n \in Nat /\ e \in [1 .. n -> Seq(Byte)]
    BY <1>1, <1>4
  <2>3. \A i \in 1 .. n : \A j \in 1 .. Len(e[i]) : e[i][j] # 254 /\ e[i][j] # 255
    BY <1>3, <1>4
  <2>4. \A k \in 1 .. Len(FlattenSeq(e)) : FlattenSeq(e)[k] # 254
    <3>1. Avoid(e, n, Byte, 254)
      BY <2>2, <2>3 DEF Avoid
    <3> QED BY <3>1, FlattenAvoids
  <2>5. \A k \in 1 .. Len(FlattenSeq(e)) : FlattenSeq(e)[k] # 255
    <3>1. Avoid(e, n, Byte, 255)
      BY <2>2, <2>3 DEF Avoid
    <3> QED BY <3>1, FlattenAvoids
  <2> QED BY <2>1, <2>4, <2>5 DEF f
<1> HIDE DEF f
<1>6. 254 \in Byte /\ <<254>> \in Seq(Byte) /\ Len(<<254>>) = 1 /\ <<254>>[1] = 254 /\ 1 \in 1 .. 1
  BY DEF Byte
<1>7. PICK p \in Seq(Byte) : p = <<254>>
  BY <1>6
<1>8. /\ f \o p \in Seq(Byte) /\ Len(f) \in Nat /\ Len(f \o p) = Len(f) + Len(p)
      /\ \A k \in 1 .. Len(f) : (f \o p)[k] = f[k]
      /\ \A k \in 1 .. Len(p) : (f \o p)[Len(f) + k] = p[k]
  <2>1. f \in Seq(Byte)
    BY <1>5
  <2> QED BY ONLY <2>1, p \in Seq(Byte), ConcatAt
<1>9. PICK w \in Seq(Byte) : w = f \o p /\ w = RuleBytes(r)
  BY <1>2, <1>7, <1>8
<1>10. Len(w) = Len(f) + 1 /\ w[Len(f) + 1] = 254
  BY ONLY <1>6, <1>7, <1>8, <1>9
<1>11. \A k \in 1 .. Len(f) : w[k] # 254 /\ w[k] # 255
  BY ONLY <1>5, <1>8, <1>9
<1>12. w[1] # 255
  <2>1. 1 \in 1 .. Len(f) \/ Len(f) + 1 = 1
    BY ONLY <1>8
  <2>2. 254 # 255
    OBVIOUS
  <2> QED BY ONLY <1>10, <1>11, <2>1, <2>2
<1>13. Len(w) \in Nat \ {0} /\ w[Len(w)] = 254 /\ \A k \in 1 .. Len(w) - 1 : w[k] # 254
  <2>1. Len(w) - 1 = Len(f) /\ Len(w) \in Nat \ {0}
    BY ONLY <1>8, <1>10
  <2> QED BY ONLY <1>10, <1>11, <2>1
<1> QED BY ONLY <1>9, <1>12, <1>13

\* Texts that end in a mark they have nowhere else, and agree as far as both go,
\* are equal.
LEMMA MarkedApart ==
    ASSUME NEW A, NEW u \in Seq(A), NEW v \in Seq(A), NEW mark, Len(u) \in Nat \ {0}, Len(v) \in Nat \ {0},
           u[Len(u)] = mark, v[Len(v)] = mark,
           \A k \in 1 .. Len(u) - 1 : u[k] # mark, \A k \in 1 .. Len(v) - 1 : v[k] # mark,
           Agree(u, v)
    PROVE  u = v
<1>1. \A k \in 1 .. Len(u) : k <= Len(v) => u[k] = v[k]
  BY DEF Agree
<1>2. ~(Len(u) < Len(v))
  <2> SUFFICES ASSUME Len(u) < Len(v) PROVE FALSE
    OBVIOUS
  <2>1. Len(u) \in 1 .. Len(u) /\ Len(u) <= Len(v) /\ Len(u) \in 1 .. Len(v) - 1
    OBVIOUS
  <2> QED BY <1>1, <2>1
<1>3. ~(Len(v) < Len(u))
  <2> SUFFICES ASSUME Len(v) < Len(u) PROVE FALSE
    OBVIOUS
  <2>1. Len(v) \in 1 .. Len(u) /\ Len(v) <= Len(v) /\ Len(v) \in 1 .. Len(u) - 1
    OBVIOUS
  <2> QED BY <1>1, <2>1
<1>4. Len(u) = Len(v)
  BY <1>2, <1>3
<1>5. \A k \in 1 .. Len(u) : u[k] = v[k]
  BY <1>1, <1>4
<1> QED BY ONLY <1>4, <1>5, u \in Seq(A), v \in Seq(A), SeqEqual

\* What is hashed of a rule tells what the rule is.
LEMMA RuleReadBack ==
    ASSUME NEW r, NEW q, PlainRule(r), PlainRule(q), RuleBytes(r) = RuleBytes(q)
    PROVE  r.name = q.name /\ r.pattern.text = q.pattern.text /\ r.mask = q.mask /\ r.fields = q.fields
<1> DEFINE n == 3 + Len(r.fields)
           m == 3 + Len(q.fields)
           ts == RuleTexts(r)
           us == RuleTexts(q)
           e == [i \in DOMAIN ts |-> Ended(ts[i])]
           d == [i \in DOMAIN us |-> Ended(us[i])]
<1>1. /\ Len(r.fields) \in Nat /\ n \in Nat
      /\ DOMAIN ts = 1 .. n /\ \A i \in 1 .. n : ts[i] \in Text /\ Plain(ts[i])
  BY RuleTextsAre
<1>2. /\ Len(q.fields) \in Nat /\ m \in Nat
      /\ DOMAIN us = 1 .. m /\ \A i \in 1 .. m : us[i] \in Text /\ Plain(us[i])
  BY RuleTextsAre
<1>3. FlattenSeq(e) \o <<254>> = FlattenSeq(d) \o <<254>>
  BY DEF RuleBytes
<1> HIDE DEF ts, us
<1>4. \A s \in Text : Plain(s) => /\ Ended(s) \in Seq(Byte) /\ Len(Ended(s)) >= 1
                                  /\ Ended(s)[1] # 254
  <2> SUFFICES ASSUME NEW s \in Text, Plain(s)
               PROVE  Ended(s) \in Seq(Byte) /\ Len(Ended(s)) >= 1 /\ Ended(s)[1] # 254
    OBVIOUS
  <2>1. /\ Ended(s) \in Seq(Byte) /\ Len(s) \in Nat /\ Len(Ended(s)) = Len(s) + 1
        /\ \A k \in 1 .. Len(s) : Ended(s)[k] = s[k] /\ s[k] \in 1 .. 244
        /\ Ended(s)[Len(s) + 1] = 0
    BY EndedIs
  <2>2. 1 \in 1 .. Len(s) \/ Len(s) + 1 = 1
    BY ONLY <2>1
  <2>3. \A x \in 1 .. 244 : x # 254
    BY ONLY TRUE
  <2>4. Len(Ended(s)) >= 1
    BY ONLY <2>1
  <2>5. ASSUME 1 \in 1 .. Len(s) PROVE Ended(s)[1] # 254
    BY <2>1, <2>3, <2>5
  <2>6. ASSUME Len(s) + 1 = 1 PROVE Ended(s)[1] # 254
    BY ONLY <2>1, <2>6
  <2> QED BY <2>1, <2>2, <2>4, <2>5, <2>6
<1>5. e \in [1 .. n -> Seq(Byte)] /\ \A i \in 1 .. n : e[i] = Ended(ts[i])
  BY <1>1, <1>4
<1>6. d \in [1 .. m -> Seq(Byte)] /\ \A i \in 1 .. m : d[i] = Ended(us[i])
  BY <1>2, <1>4
<1> HIDE DEF e, d
<1>7. e = d
  <2>5. \A i \in 1 .. n : Len(e[i]) >= 1 /\ e[i][1] # 254
    BY <1>1, <1>4, <1>5
  <2>6. \A i \in 1 .. m : Len(d[i]) >= 1 /\ d[i][1] # 254
    BY <1>2, <1>4, <1>6
  <2>7. \A i \in 1 .. n, j \in 1 .. m : Agree(e[i], d[j]) => e[i] = d[j]
    BY <1>1, <1>2, <1>5, <1>6, EndedApart
  <2>8. n \in Nat /\ m \in Nat /\ 254 \in Byte
    BY <1>1, <1>2 DEF Byte
  <2>9. e \in [1 .. n -> Seq(Byte)] /\ d \in [1 .. m -> Seq(Byte)]
    BY <1>5, <1>6
  <2> HIDE DEF n, m
  <2>10. Distinct(e, n, d, m, 254, Byte)
    BY ONLY <2>5, <2>6, <2>7, <2>8, <2>9 DEF Distinct
  <2> QED BY <1>3, <2>10, ListReadBack
<1>8. n = m
  <2>1. DOMAIN e = 1 .. n /\ DOMAIN d = 1 .. m
    BY <1>5, <1>6
  <2>2. 1 .. n = 1 .. m
    BY <1>7, <2>1
  <2> HIDE DEF n, m
  <2>3. n \in 1 .. n \/ n = 0
    BY <1>1
  <2>4. m \in 1 .. m \/ m = 0
    BY <1>2
  <2> QED BY ONLY <1>1, <1>2, <2>2, <2>3, <2>4
<1>9. \A i \in 1 .. n : ts[i] = us[i]
  <2> SUFFICES ASSUME NEW i \in 1 .. n PROVE ts[i] = us[i]
    OBVIOUS
  <2>1. i \in 1 .. m /\ Ended(ts[i]) = Ended(us[i])
    BY <1>5, <1>6, <1>7, <1>8
  <2>2. Agree(Ended(ts[i]), Ended(us[i]))
    BY <2>1 DEF Agree
  <2> QED BY <1>1, <1>2, <2>1, <2>2, EndedApart
<1>10. /\ ts[1] = r.name /\ ts[2] = r.pattern.text /\ ts[3] = r.mask
       /\ \A i \in 1 .. Len(r.fields) : ts[3 + i] = r.fields[i]
  BY RuleTextsAre DEF ts
<1>11. /\ us[1] = q.name /\ us[2] = q.pattern.text /\ us[3] = q.mask
       /\ \A i \in 1 .. Len(q.fields) : us[3 + i] = q.fields[i]
  BY RuleTextsAre DEF us
<1>12. Len(r.fields) = Len(q.fields)
  BY ONLY <1>1, <1>2, <1>8
<1>13. \A i \in 1 .. Len(r.fields) : r.fields[i] = q.fields[i]
  <2> SUFFICES ASSUME NEW i \in 1 .. Len(r.fields) PROVE r.fields[i] = q.fields[i]
    OBVIOUS
  <2>1. 3 + i \in 1 .. n
    BY ONLY <1>1, i \in 1 .. Len(r.fields)
  <2> QED BY <1>9, <1>10, <1>11, <1>12, <2>1
<1>14. r.fields = q.fields
  <2>1. r.fields \in Seq(Text) /\ q.fields \in Seq(Text)
    BY DEF PlainRule
  <2> QED BY ONLY <1>12, <1>13, <2>1, SeqEqual
<1>15. 1 \in 1 .. n /\ 2 \in 1 .. n /\ 3 \in 1 .. n
  BY ONLY <1>1
<1> QED BY <1>9, <1>10, <1>11, <1>14, <1>15

\* After place o, the next zero of u is i places on, before p.
NextZero(u, p, o, i) ==
    /\ p \in Nat /\ o \in Nat /\ i \in Nat /\ o + i < p
    /\ \A k \in 1 .. i : u[o + k] # 0
    /\ u[o + i + 1] = 0

\* Where two texts agree, their next zeros are at the same place.
LEMMA SameZero ==
    ASSUME NEW u, NEW v, NEW p, NEW q, NEW o, NEW i, NEW j, NextZero(u, p, o, i), NextZero(v, q, o, j),
           \A k \in 1 .. p : k <= q => u[k] = v[k]
    PROVE  i = j
<1>0. /\ p \in Nat /\ q \in Nat /\ o \in Nat /\ i \in Nat /\ j \in Nat /\ o + i < p /\ o + j < q
      /\ \A k \in 1 .. i : u[o + k] # 0
      /\ u[o + i + 1] = 0
      /\ \A k \in 1 .. j : v[o + k] # 0
      /\ v[o + j + 1] = 0
  BY DEF NextZero
<1>1. ASSUME i < j PROVE FALSE
  <2>1. i + 1 \in 1 .. j /\ o + i + 1 \in 1 .. p /\ o + i + 1 <= q /\ o + (i + 1) = o + i + 1
    BY <1>0, <1>1
  <2> QED BY <1>0, <2>1
<1>2. ASSUME j < i PROVE FALSE
  <2>1. j + 1 \in 1 .. i /\ o + j + 1 \in 1 .. p /\ o + j + 1 <= q /\ o + (j + 1) = o + j + 1
    BY <1>0, <1>2
  <2> QED BY <1>0, <2>1
<1> QED BY <1>0, <1>1, <1>2

\* A sampling rule whose texts are plain.
Ns(r)  == OrEmpty(r.namespace)
Sev(r) == OrEmpty({s.text : s \in r.severity_lte})
PlainSampling(r) ==
    Ns(r) \in Text /\ Plain(Ns(r)) /\ Sev(r) \in Text /\ Plain(Sev(r)) /\ r.target \in U16

\* A number of 16 bits is two bytes, and these tell which.
LEMMA LeIs ==
    ASSUME NEW x \in U16
    PROVE  /\ Le(x) \in Seq(Byte) /\ Len(Le(x)) = 2
           /\ Le(x)[1] = x % 256 /\ Le(x)[2] = x \div 256 /\ x = 256 * (x \div 256) + (x % 256)
<1>1. x \in Nat /\ x <= 65535
  BY DEF U16, U16Max
<1>2. x % 256 \in Byte /\ x \div 256 \in Byte /\ x = 256 * (x \div 256) + (x % 256)
  BY <1>1 DEF Byte
<1> QED BY <1>2 DEF Le

\* What is hashed of a sampling rule, place by place.
LEMMA SamplingWord ==
    ASSUME NEW r, PlainSampling(r)
    PROVE  /\ Len(Ns(r)) \in Nat /\ Len(Sev(r)) \in Nat
           /\ SamplingBytes(r) \in Seq(Byte) /\ Len(SamplingBytes(r)) = Len(Ns(r)) + Len(Sev(r)) + 4
           /\ \A k \in 1 .. Len(Ns(r)) : SamplingBytes(r)[k] = Ns(r)[k] /\ Ns(r)[k] \in 1 .. 244
           /\ SamplingBytes(r)[Len(Ns(r)) + 1] = 0
           /\ \A k \in 1 .. Len(Sev(r)) : /\ SamplingBytes(r)[Len(Ns(r)) + 1 + k] = Sev(r)[k]
                                          /\ Sev(r)[k] \in 1 .. 244
           /\ SamplingBytes(r)[Len(Ns(r)) + 1 + Len(Sev(r)) + 1] = 0
           /\ SamplingBytes(r)[Len(Ns(r)) + Len(Sev(r)) + 3] = r.target % 256
           /\ SamplingBytes(r)[Len(Ns(r)) + Len(Sev(r)) + 4] = r.target \div 256
<1>1. PICK a \in Text, b \in Text : a = Ns(r) /\ b = Sev(r) /\ Plain(a) /\ Plain(b)
  BY DEF PlainSampling
<1>2. /\ Ended(a) \in Seq(Byte) /\ Len(a) \in Nat /\ Len(Ended(a)) = Len(a) + 1
      /\ \A k \in 1 .. Len(a) : Ended(a)[k] = a[k] /\ a[k] \in 1 .. 244
      /\ Ended(a)[Len(a) + 1] = 0
  BY <1>1, EndedIs
<1>3. /\ Ended(b) \in Seq(Byte) /\ Len(b) \in Nat /\ Len(Ended(b)) = Len(b) + 1
      /\ \A k \in 1 .. Len(b) : Ended(b)[k] = b[k] /\ b[k] \in 1 .. 244
      /\ Ended(b)[Len(b) + 1] = 0
  BY <1>1, EndedIs
<1>4. PICK x \in Seq(Byte), y \in Seq(Byte) : x = Ended(a) /\ y = Ended(b)
  BY <1>2, <1>3
<1>5. PICK z \in Seq(Byte) : z = Le(r.target) /\ Len(z) = 2 /\ z[1] = r.target % 256 /\ z[2] = r.target \div 256
  BY LeIs DEF PlainSampling
<1>6. /\ x \o y \in Seq(Byte) /\ Len(x) \in Nat /\ Len(y) \in Nat /\ Len(x \o y) = Len(x) + Len(y)
      /\ \A k \in 1 .. Len(x) : (x \o y)[k] = x[k]
      /\ \A k \in 1 .. Len(y) : (x \o y)[Len(x) + k] = y[k]
  BY ONLY x \in Seq(Byte), y \in Seq(Byte), ConcatAt
<1>7. PICK g \in Seq(Byte) : g = x \o y
  BY <1>6
<1>8. /\ g \o z \in Seq(Byte) /\ Len(g) \in Nat /\ Len(z) \in Nat /\ Len(g \o z) = Len(g) + Len(z)
      /\ \A k \in 1 .. Len(g) : (g \o z)[k] = g[k]
      /\ \A k \in 1 .. Len(z) : (g \o z)[Len(g) + k] = z[k]
  BY ONLY g \in Seq(Byte), z \in Seq(Byte), ConcatAt
<1>9. PICK w \in Seq(Byte) : w = g \o z /\ w = SamplingBytes(r)
  <2>1. SamplingBytes(r) = (x \o y) \o z
    BY <1>1, <1>4, <1>5 DEF SamplingBytes, Ns, Sev
  <2> QED BY <1>7, <1>8, <2>1
<1>10. Len(x) = Len(a) + 1 /\ Len(y) = Len(b) + 1 /\ Len(g) = Len(a) + Len(b) + 2
  <2>1. Len(x) = Len(a) + 1
    BY <1>2, <1>4
  <2>2. Len(y) = Len(b) + 1
    BY <1>3, <1>4
  <2>3. Len(g) = Len(x) + Len(y)
    BY <1>6, <1>7
  <2>4. Len(a) \in Nat /\ Len(b) \in Nat
    BY <1>2, <1>3
  <2> QED BY ONLY <2>1, <2>2, <2>3, <2>4
<1>11. Len(w) = Len(a) + Len(b) + 4
  BY ONLY <1>2, <1>3, <1>5, <1>8, <1>9, <1>10
<1>12. \A k \in 1 .. Len(x) : w[k] = x[k]
  <2> SUFFICES ASSUME NEW k \in 1 .. Len(x) PROVE w[k] = x[k]
    OBVIOUS
  <2>1. k \in 1 .. Len(g)
    BY ONLY <1>2, <1>3, <1>10, k \in 1 .. Len(x)
  <2> QED BY <1>6, <1>7, <1>8, <1>9, <2>1
<1>13. \A k \in 1 .. Len(y) : w[Len(x) + k] = y[k]
  <2> SUFFICES ASSUME NEW k \in 1 .. Len(y) PROVE w[Len(x) + k] = y[k]
    OBVIOUS
  <2>1. Len(x) + k \in 1 .. Len(g)
    BY ONLY <1>2, <1>3, <1>10, k \in 1 .. Len(y)
  <2> QED BY <1>6, <1>7, <1>8, <1>9, <2>1
<1>14. w[Len(g) + 1] = z[1] /\ w[Len(g) + 2] = z[2]
  BY <1>5, <1>8, <1>9
<1>15. \A k \in 1 .. Len(a) : w[k] = a[k]
  BY ONLY <1>2, <1>4, <1>10, <1>12
<1>16. w[Len(a) + 1] = 0
  <2>1. Len(a) + 1 \in 1 .. Len(x)
    BY ONLY <1>2, <1>10
  <2> QED BY <1>2, <1>4, <1>12, <2>1
<1>17. \A k \in 1 .. Len(b) : w[Len(a) + 1 + k] = b[k]
  <2> SUFFICES ASSUME NEW k \in 1 .. Len(b) PROVE w[Len(a) + 1 + k] = b[k]
    OBVIOUS
  <2>1. k \in 1 .. Len(y) /\ Ended(b)[k] = b[k]
    BY <1>3, <1>10
  <2> QED BY <1>4, <1>10, <1>13, <2>1
<1>18. w[Len(a) + 1 + Len(b) + 1] = 0
  <2>1. Len(b) + 1 \in 1 .. Len(y) /\ Len(a) + 1 + Len(b) + 1 = Len(x) + (Len(b) + 1)
    BY ONLY <1>2, <1>3, <1>10
  <2>2. w[Len(x) + (Len(b) + 1)] = y[Len(b) + 1]
    BY <1>13, <2>1
  <2> QED BY <1>3, <1>4, <2>1, <2>2
<1>19. w[Len(a) + Len(b) + 3] = z[1] /\ w[Len(a) + Len(b) + 4] = z[2]
  <2>1. Len(g) + 1 = Len(a) + Len(b) + 3 /\ Len(g) + 2 = Len(a) + Len(b) + 4
    BY ONLY <1>2, <1>3, <1>10
  <2> QED BY ONLY <1>14, <2>1
<1> QED BY ONLY <1>1, <1>2, <1>3, <1>5, <1>9, <1>11, <1>15, <1>16, <1>17, <1>18, <1>19

\* Sampling rules hashed to texts that agree as far as both go are the same.
LEMMA SamplingApart ==
    ASSUME NEW r, NEW q, PlainSampling(r), PlainSampling(q), Agree(SamplingBytes(r), SamplingBytes(q))
    PROVE  Ns(r) = Ns(q) /\ Sev(r) = Sev(q) /\ r.target = q.target
<1>1. PICK a \in Text, b \in Text : a = Ns(r) /\ b = Sev(r)
  BY DEF PlainSampling
<1>2. PICK c \in Text, d \in Text : c = Ns(q) /\ d = Sev(q)
  BY DEF PlainSampling
<1>3. PICK u, v : u = SamplingBytes(r) /\ v = SamplingBytes(q)
  OBVIOUS
<1>4. /\ Len(a) \in Nat /\ Len(b) \in Nat /\ Len(u) = Len(a) + Len(b) + 4
      /\ \A k \in 1 .. Len(a) : u[k] = a[k] /\ a[k] \in 1 .. 244
      /\ u[Len(a) + 1] = 0
      /\ \A k \in 1 .. Len(b) : u[Len(a) + 1 + k] = b[k] /\ b[k] \in 1 .. 244
      /\ u[Len(a) + 1 + Len(b) + 1] = 0
      /\ u[Len(a) + Len(b) + 3] = r.target % 256
      /\ u[Len(a) + Len(b) + 4] = r.target \div 256
  <2>1. /\ Len(Ns(r)) \in Nat /\ Len(Sev(r)) \in Nat
        /\ Len(SamplingBytes(r)) = Len(Ns(r)) + Len(Sev(r)) + 4
        /\ \A k \in 1 .. Len(Ns(r)) : SamplingBytes(r)[k] = Ns(r)[k] /\ Ns(r)[k] \in 1 .. 244
        /\ SamplingBytes(r)[Len(Ns(r)) + 1] = 0
        /\ \A k \in 1 .. Len(Sev(r)) : /\ SamplingBytes(r)[Len(Ns(r)) + 1 + k] = Sev(r)[k]
                                       /\ Sev(r)[k] \in 1 .. 244
        /\ SamplingBytes(r)[Len(Ns(r)) + 1 + Len(Sev(r)) + 1] = 0
        /\ SamplingBytes(r)[Len(Ns(r)) + Len(Sev(r)) + 3] = r.target % 256
        /\ SamplingBytes(r)[Len(Ns(r)) + Len(Sev(r)) + 4] = r.target \div 256
    BY SamplingWord
  <2> QED BY ONLY <1>1, <1>3, <2>1
<1>5. /\ Len(c) \in Nat /\ Len(d) \in Nat /\ Len(v) = Len(c) + Len(d) + 4
      /\ \A k \in 1 .. Len(c) : v[k] = c[k] /\ c[k] \in 1 .. 244
      /\ v[Len(c) + 1] = 0
      /\ \A k \in 1 .. Len(d) : v[Len(c) + 1 + k] = d[k] /\ d[k] \in 1 .. 244
      /\ v[Len(c) + 1 + Len(d) + 1] = 0
      /\ v[Len(c) + Len(d) + 3] = q.target % 256
      /\ v[Len(c) + Len(d) + 4] = q.target \div 256
  <2>1. /\ Len(Ns(q)) \in Nat /\ Len(Sev(q)) \in Nat
        /\ Len(SamplingBytes(q)) = Len(Ns(q)) + Len(Sev(q)) + 4
        /\ \A k \in 1 .. Len(Ns(q)) : SamplingBytes(q)[k] = Ns(q)[k] /\ Ns(q)[k] \in 1 .. 244
        /\ SamplingBytes(q)[Len(Ns(q)) + 1] = 0
        /\ \A k \in 1 .. Len(Sev(q)) : /\ SamplingBytes(q)[Len(Ns(q)) + 1 + k] = Sev(q)[k]
                                       /\ Sev(q)[k] \in 1 .. 244
        /\ SamplingBytes(q)[Len(Ns(q)) + 1 + Len(Sev(q)) + 1] = 0
        /\ SamplingBytes(q)[Len(Ns(q)) + Len(Sev(q)) + 3] = q.target % 256
        /\ SamplingBytes(q)[Len(Ns(q)) + Len(Sev(q)) + 4] = q.target \div 256
    BY SamplingWord
  <2> QED BY ONLY <1>2, <1>3, <2>1
<1>6. \A k \in 1 .. Len(u) : k <= Len(v) => u[k] = v[k]
  BY <1>3 DEF Agree
<1>7. \A x \in 1 .. 244 : x # 0
  BY ONLY TRUE
<1>8. PICK p \in Nat, o \in Nat : p = Len(u) /\ o = Len(v)
  BY <1>4, <1>5
<1>9. Len(a) = Len(c)
  <2>1. ASSUME NEW k \in 1 .. Len(a) PROVE u[0 + k] # 0
    <3>1. u[k] = a[k] /\ a[k] \in 1 .. 244
      BY <1>4
    <3>2. u[k] # 0
      BY ONLY <1>7, <3>1
    <3>3. 0 + k = k
      BY <1>4
    <3> QED BY <3>2, <3>3
  <2>2. ASSUME NEW k \in 1 .. Len(c) PROVE v[0 + k] # 0
    <3>1. v[k] = c[k] /\ c[k] \in 1 .. 244
      BY <1>5
    <3>2. v[k] # 0
      BY ONLY <1>7, <3>1
    <3>3. 0 + k = k
      BY <1>5
    <3> QED BY <3>2, <3>3
  <2>3. 0 + Len(a) + 1 = Len(a) + 1 /\ 0 + Len(c) + 1 = Len(c) + 1 /\ 0 + Len(a) < p /\ 0 + Len(c) < o
    BY ONLY <1>4, <1>5, <1>8
  <2>4. NextZero(u, p, 0, Len(a))
    BY <1>4, <1>8, <2>1, <2>3 DEF NextZero
  <2>5. NextZero(v, o, 0, Len(c))
    BY <1>5, <1>8, <2>2, <2>3 DEF NextZero
  <2> QED BY <1>6, <1>8, <2>4, <2>5, SameZero
<1>10. Len(b) = Len(d)
  <2>1. PICK e \in Nat : e = Len(a) + 1 /\ e = Len(c) + 1
    BY <1>4, <1>5, <1>9
  <2>2. ASSUME NEW k \in 1 .. Len(b) PROVE u[e + k] # 0
    <3>1. u[Len(a) + 1 + k] = b[k] /\ b[k] \in 1 .. 244
      BY <1>4
    <3>2. u[Len(a) + 1 + k] # 0
      BY ONLY <1>7, <3>1
    <3> QED BY ONLY <2>1, <3>2
  <2>3. ASSUME NEW k \in 1 .. Len(d) PROVE v[e + k] # 0
    <3>1. v[Len(c) + 1 + k] = d[k] /\ d[k] \in 1 .. 244
      BY <1>5
    <3>2. v[Len(c) + 1 + k] # 0
      BY ONLY <1>7, <3>1
    <3> QED BY ONLY <2>1, <3>2
  <2>4. u[e + Len(b) + 1] = 0 /\ v[e + Len(d) + 1] = 0 /\ e + Len(b) < p /\ e + Len(d) < o
    <3>1. u[Len(a) + 1 + Len(b) + 1] = 0 /\ v[Len(c) + 1 + Len(d) + 1] = 0
      BY <1>4, <1>5
    <3>2. p = Len(a) + Len(b) + 4 /\ o = Len(c) + Len(d) + 4
      BY <1>4, <1>5, <1>8
    <3>3. Len(a) \in Nat /\ Len(b) \in Nat /\ Len(c) \in Nat /\ Len(d) \in Nat
      BY <1>4, <1>5
    <3> QED BY ONLY <2>1, <3>1, <3>2, <3>3
  <2>5. NextZero(u, p, e, Len(b))
    BY <1>4, <1>8, <2>2, <2>4 DEF NextZero
  <2>6. NextZero(v, o, e, Len(d))
    BY <1>5, <1>8, <2>3, <2>4 DEF NextZero
  <2> QED BY <1>6, <1>8, <2>5, <2>6, SameZero
<1>11. Len(u) = Len(v) /\ \A k \in 1 .. Len(u) : u[k] = v[k]
  BY ONLY <1>4, <1>5, <1>6, <1>9, <1>10
<1>12. \A k \in 1 .. Len(a) : a[k] = c[k]
  <2> SUFFICES ASSUME NEW k \in 1 .. Len(a) PROVE a[k] = c[k]
    OBVIOUS
  <2>1. k \in 1 .. Len(u) /\ k \in 1 .. Len(c)
    BY ONLY <1>4, <1>9, k \in 1 .. Len(a)
  <2> QED BY <1>4, <1>5, <1>11, <2>1
<1>13. \A k \in 1 .. Len(b) : b[k] = d[k]
  <2> SUFFICES ASSUME NEW k \in 1 .. Len(b) PROVE b[k] = d[k]
    OBVIOUS
  <2>1. Len(a) + 1 + k \in 1 .. Len(u) /\ k \in 1 .. Len(d) /\ Len(a) + 1 + k = Len(c) + 1 + k
    BY ONLY <1>4, <1>9, <1>10, k \in 1 .. Len(b)
  <2> QED BY <1>4, <1>5, <1>11, <2>1
<1>14. a \in Seq(Nat) /\ b \in Seq(Nat) /\ c \in Seq(Nat) /\ d \in Seq(Nat)
  <2>1. Text \subseteq Seq(Nat)
    BY SeqMonotonic, 0 .. 244 \subseteq Nat DEF Text
  <2> QED BY <2>1
<1>15. a = c
  BY ONLY <1>9, <1>12, <1>14, SeqEqual
<1>16. b = d
  BY ONLY <1>10, <1>13, <1>14, SeqEqual
<1>17. r.target % 256 = q.target % 256 /\ r.target \div 256 = q.target \div 256
  <2>1. /\ Len(a) + Len(b) + 3 \in 1 .. Len(u) /\ Len(a) + Len(b) + 4 \in 1 .. Len(u)
        /\ Len(a) + Len(b) + 3 = Len(c) + Len(d) + 3 /\ Len(a) + Len(b) + 4 = Len(c) + Len(d) + 4
    BY ONLY <1>4, <1>9, <1>10
  <2> QED BY ONLY <1>4, <1>5, <1>11, <2>1
<1>18. r.target = q.target
  <2>1. r.target \in U16 /\ q.target \in U16
    BY DEF PlainSampling
  <2>2. /\ r.target = 256 * (r.target \div 256) + (r.target % 256)
        /\ q.target = 256 * (q.target \div 256) + (q.target % 256)
    BY <2>1, LeIs
  <2> QED BY ONLY <1>17, <2>2
<1> QED BY <1>1, <1>2, <1>15, <1>16, <1>18

\* A policy whose texts are plain.
PlainPolicy(c) ==
    /\ \A n \in DOMAIN c.rules : Plain(Ns(c.rules[n])) /\ Plain(Sev(c.rules[n]))
    /\ \A n \in DOMAIN c.regex_rules :
          /\ Plain(c.regex_rules[n].name) /\ Plain(c.regex_rules[n].pattern.text) /\ Plain(c.regex_rules[n].mask)
          /\ \A i \in DOMAIN c.regex_rules[n].fields : Plain(c.regex_rules[n].fields[i])

\* An option of a text, or the empty text.
LEMMA OrEmptyIs == ASSUME NEW opt \in SUBSET Text PROVE OrEmpty(opt) \in Text
<1>1. <<>> \in Text
  BY DEF Text
<1>2. CASE opt = {}
  BY <1>1, <1>2 DEF OrEmpty
<1>3. CASE opt # {}
  <2>1. (CHOOSE x \in opt : TRUE) \in opt
    BY <1>3
  <2> QED BY <1>3, <2>1 DEF OrEmpty
<1> QED BY <1>2, <1>3

\* The rules of a configuration with a plain policy.
LEMMA PolicyTyped ==
    ASSUME NEW c, IsConfig(c), PlainPolicy(c)
    PROVE  /\ c.default_target \in U16
           /\ Len(c.rules) \in Nat /\ DOMAIN c.rules = 1 .. Len(c.rules)
           /\ \A n \in 1 .. Len(c.rules) : PlainSampling(c.rules[n])
           /\ Len(c.regex_rules) \in Nat /\ DOMAIN c.regex_rules = 1 .. Len(c.regex_rules)
           /\ \A n \in 1 .. Len(c.regex_rules) : PlainRule(c.regex_rules[n])
<1> DEFINE S == [namespace : SUBSET Text, severity_lte : SUBSET [upper : STRING, text : Text], target : U16]
           R == [name : Text, pattern : [text : Text, nested : BOOLEAN, plain : BOOLEAN, compiles : BOOLEAN],
                 mask : Text, fields : Seq(Text)]
<1>1. c.rules \in Seq(S) /\ c.regex_rules \in Seq(R) /\ c.default_target \in U16
  BY DEF IsConfig
<1>2. \A r \in S : r.target \in U16 /\ Ns(r) \in Text /\ Sev(r) \in Text
  <2> SUFFICES ASSUME NEW r \in S PROVE r.target \in U16 /\ Ns(r) \in Text /\ Sev(r) \in Text
    OBVIOUS
  <2>1. r.namespace \in SUBSET Text /\ {s.text : s \in r.severity_lte} \in SUBSET Text
    OBVIOUS
  <2> QED BY <2>1, OrEmptyIs DEF Ns, Sev
<1>3. \A r \in R : r.name \in Text /\ r.pattern.text \in Text /\ r.mask \in Text /\ r.fields \in Seq(Text)
  OBVIOUS
<1> HIDE DEF S, R
<1>4. /\ Len(c.rules) \in Nat /\ DOMAIN c.rules = 1 .. Len(c.rules)
      /\ \A n \in 1 .. Len(c.rules) : c.rules[n] \in S
  BY ONLY <1>1
<1>5. /\ Len(c.regex_rules) \in Nat /\ DOMAIN c.regex_rules = 1 .. Len(c.regex_rules)
      /\ \A n \in 1 .. Len(c.regex_rules) : c.regex_rules[n] \in R
  BY ONLY <1>1
<1>6. \A n \in 1 .. Len(c.rules) : PlainSampling(c.rules[n])
  BY <1>2, <1>4 DEF PlainPolicy, PlainSampling
<1>7. \A n \in 1 .. Len(c.regex_rules) : PlainRule(c.regex_rules[n])
  BY <1>3, <1>5 DEF PlainPolicy, PlainRule
<1> QED BY <1>1, <1>4, <1>5, <1>6, <1>7

\* Four sequences over one set.
Four(A, a, f, p, g) == a \in Seq(A) /\ f \in Seq(A) /\ p \in Seq(A) /\ g \in Seq(A)

\* Three sequences over one set.
Three(A, a, f, p) == a \in Seq(A) /\ f \in Seq(A) /\ p \in Seq(A)

\* Three sequences are joined to the right as well as to the left.
LEMMA Rejoin ==
    ASSUME NEW A, NEW a, NEW f, NEW p, Three(A, a, f, p)
    PROVE  (a \o f) \o p = a \o (f \o p)
<1>1. a \in Seq(A) /\ f \in Seq(A) /\ p \in Seq(A)
  BY DEF Three
<1> QED BY ONLY <1>1, ConcatAssociative

\* And so are four.
LEMMA Regroup ==
    ASSUME NEW A, NEW a, NEW f, NEW p, NEW g, Four(A, a, f, p, g)
    PROVE  ((a \o f) \o p) \o g = a \o ((f \o p) \o g)
<1>1. a \in Seq(A) /\ f \in Seq(A) /\ p \in Seq(A) /\ g \in Seq(A)
  BY DEF Four
<1>2. (a \o f) \o p = a \o (f \o p)
  <2>1. Three(A, a, f, p)
    BY ONLY <1>1 DEF Three
  <2> QED BY ONLY <2>1, Rejoin
<1>3. PICK h \in Seq(A) : h = f \o p
  <2>1. f \o p \in Seq(A)
    BY ONLY <1>1, ConcatProperties
  <2> QED BY <2>1
<1>4. (a \o h) \o g = a \o (h \o g)
  <2>1. Three(A, a, h, g)
    BY ONLY <1>1, h \in Seq(A) DEF Three
  <2> QED BY ONLY <2>1, Rejoin
<1> QED BY ONLY <1>2, <1>3, <1>4

SamplingTexts(c) == [n \in DOMAIN c.rules |-> SamplingBytes(c.rules[n])]
RedactTexts(c)   == [n \in DOMAIN c.regex_rules |-> RuleBytes(c.regex_rules[n])]

\* What is hashed of a policy: its default target, its sampling rules up to a 255,
\* its rules of redaction.
LEMMA FingerprintIs ==
    ASSUME NEW c, IsConfig(c), PlainPolicy(c)
    PROVE  /\ SamplingTexts(c) \in [1 .. Len(c.rules) -> Seq(Byte)]
           /\ RedactTexts(c) \in [1 .. Len(c.regex_rules) -> Seq(Byte)]
           /\ FlattenSeq(RedactTexts(c)) \in Seq(Byte)
           /\ StoppedBy(SamplingTexts(c), 255, FlattenSeq(RedactTexts(c))) \in Seq(Byte)
           /\ policy_fingerprint(c)
                = Le(c.default_target) \o StoppedBy(SamplingTexts(c), 255, FlattenSeq(RedactTexts(c)))
<1> DEFINE n == Len(c.rules)
           m == Len(c.regex_rules)
           s == SamplingTexts(c)
           t == RedactTexts(c)
<1>1. /\ c.default_target \in U16 /\ n \in Nat /\ DOMAIN c.rules = 1 .. n
      /\ \A i \in 1 .. n : PlainSampling(c.rules[i])
      /\ m \in Nat /\ DOMAIN c.regex_rules = 1 .. m
      /\ \A i \in 1 .. m : PlainRule(c.regex_rules[i])
  BY PolicyTyped
<1>2. s \in [1 .. n -> Seq(Byte)]
  <2>1. \A i \in 1 .. n : SamplingBytes(c.rules[i]) \in Seq(Byte)
    BY <1>1, SamplingWord
  <2> QED BY <1>1, <2>1 DEF SamplingTexts
<1>3. t \in [1 .. m -> Seq(Byte)]
  <2>1. \A i \in 1 .. m : RuleBytes(c.regex_rules[i]) \in Seq(Byte)
    BY <1>1, RuleWord
  <2> QED BY <1>1, <2>1 DEF RedactTexts
<1>4. policy_fingerprint(c) = ((Le(c.default_target) \o FlattenSeq(s)) \o <<255>>) \o FlattenSeq(t)
  BY DEF policy_fingerprint, SamplingTexts, RedactTexts
<1> HIDE DEF s, t, n, m
<1>5. FlattenSeq(s) \in Seq(Byte) /\ FlattenSeq(t) \in Seq(Byte)
  BY <1>1, <1>2, <1>3, FlattenAt DEF Flattened
<1>6. PICK a \in Seq(Byte), f \in Seq(Byte), g \in Seq(Byte), p \in Seq(Byte) :
          a = Le(c.default_target) /\ f = FlattenSeq(s) /\ g = FlattenSeq(t) /\ p = <<255>>
  <2>1. Le(c.default_target) \in Seq(Byte)
    BY <1>1, LeIs
  <2>2. <<255>> \in Seq(Byte)
    BY DEF Byte
  <2> QED BY <1>5, <2>1, <2>2
<1>7. ((a \o f) \o p) \o g = a \o ((f \o p) \o g)
  <2>1. Four(Byte, a, f, p, g)
    BY ONLY a \in Seq(Byte), f \in Seq(Byte), p \in Seq(Byte), g \in Seq(Byte) DEF Four
  <2> QED BY ONLY <2>1, Regroup
<1>8. StoppedBy(s, 255, FlattenSeq(t)) = (f \o p) \o g
  BY <1>6 DEF StoppedBy
<1>9. (f \o p) \o g \in Seq(Byte)
  <2>1. f \o p \in Seq(Byte)
    BY ONLY f \in Seq(Byte), p \in Seq(Byte), ConcatProperties
  <2> QED BY ONLY <2>1, g \in Seq(Byte), ConcatProperties
<1>10. policy_fingerprint(c) = Le(c.default_target) \o StoppedBy(s, 255, FlattenSeq(t))
  BY ONLY <1>4, <1>6, <1>7, <1>8
<1> QED BY <1>2, <1>3, <1>5, <1>8, <1>9, <1>10 DEF s, t, n, m

\* Policies with one fingerprint have the same sampling and redaction texts.
LEMMA FingerprintTells ==
    ASSUME NEW c, NEW d, IsConfig(c), IsConfig(d), PlainPolicy(c), PlainPolicy(d),
           policy_fingerprint(c) = policy_fingerprint(d)
    PROVE  /\ c.default_target = d.default_target
           /\ SamplingTexts(c) = SamplingTexts(d) /\ RedactTexts(c) = RedactTexts(d)
<1>1. PICK s : s = SamplingTexts(c)
  OBVIOUS
<1>2. PICK t : t = SamplingTexts(d)
  OBVIOUS
<1>3. PICK e : e = RedactTexts(c)
  OBVIOUS
<1>4. PICK h : h = RedactTexts(d)
  OBVIOUS
<1>5. PICK n \in Nat, m \in Nat, k \in Nat, l \in Nat :
          n = Len(c.rules) /\ m = Len(d.rules) /\ k = Len(c.regex_rules) /\ l = Len(d.regex_rules)
  BY PolicyTyped
<1>6. /\ s \in [1 .. n -> Seq(Byte)] /\ e \in [1 .. k -> Seq(Byte)] /\ FlattenSeq(e) \in Seq(Byte)
      /\ StoppedBy(s, 255, FlattenSeq(e)) \in Seq(Byte)
      /\ policy_fingerprint(c) = Le(c.default_target) \o StoppedBy(s, 255, FlattenSeq(e))
  BY <1>1, <1>3, <1>5, FingerprintIs
<1>7. /\ t \in [1 .. m -> Seq(Byte)] /\ h \in [1 .. l -> Seq(Byte)] /\ FlattenSeq(h) \in Seq(Byte)
      /\ StoppedBy(t, 255, FlattenSeq(h)) \in Seq(Byte)
      /\ policy_fingerprint(d) = Le(d.default_target) \o StoppedBy(t, 255, FlattenSeq(h))
  BY <1>2, <1>4, <1>5, FingerprintIs
<1>8. /\ \A i \in 1 .. n : s[i] = SamplingBytes(c.rules[i]) /\ PlainSampling(c.rules[i])
      /\ \A i \in 1 .. k : e[i] = RuleBytes(c.regex_rules[i]) /\ PlainRule(c.regex_rules[i])
  BY <1>1, <1>3, <1>5, PolicyTyped DEF SamplingTexts, RedactTexts
<1>9. /\ \A i \in 1 .. m : t[i] = SamplingBytes(d.rules[i]) /\ PlainSampling(d.rules[i])
      /\ \A i \in 1 .. l : h[i] = RuleBytes(d.regex_rules[i]) /\ PlainRule(d.regex_rules[i])
  BY <1>2, <1>4, <1>5, PolicyTyped DEF SamplingTexts, RedactTexts
<1>10. /\ Le(c.default_target) = Le(d.default_target)
       /\ StoppedBy(s, 255, FlattenSeq(e)) = StoppedBy(t, 255, FlattenSeq(h))
  <2>1. c.default_target \in U16 /\ d.default_target \in U16
    BY PolicyTyped
  <2>2. PICK a \in Seq(Byte), b \in Seq(Byte) :
            a = Le(c.default_target) /\ b = Le(d.default_target) /\ Len(a) = Len(b)
    BY <2>1, LeIs
  <2>3. PICK x \in Seq(Byte), y \in Seq(Byte) :
            x = StoppedBy(s, 255, FlattenSeq(e)) /\ y = StoppedBy(t, 255, FlattenSeq(h))
    BY <1>6, <1>7
  <2>4. a \o x = b \o y
    BY <1>6, <1>7, <2>2, <2>3
  <2>5. Len(a) = Len(b)
    BY <2>2
  <2>6. a = b /\ x = y
    BY ONLY <2>4, <2>5, a \in Seq(Byte), b \in Seq(Byte), x \in Seq(Byte), y \in Seq(Byte), Cancel
  <2> QED BY <2>2, <2>3, <2>6
<1>11. c.default_target = d.default_target
  <2>1. c.default_target \in U16 /\ d.default_target \in U16
    BY PolicyTyped
  <2>2. PICK x \in U16, y \in U16 : x = c.default_target /\ y = d.default_target /\ Le(x) = Le(y)
    BY <1>10, <2>1
  <2>3. /\ Le(x)[1] = x % 256 /\ Le(x)[2] = x \div 256 /\ x = 256 * (x \div 256) + (x % 256)
        /\ Le(y)[1] = y % 256 /\ Le(y)[2] = y \div 256 /\ y = 256 * (y \div 256) + (y % 256)
    BY LeIs
  <2>4. x = y
    BY ONLY <2>2, <2>3
  <2> QED BY <2>2, <2>4
<1>12. s = t /\ FlattenSeq(e) = FlattenSeq(h)
  <2>1. ASSUME NEW r, PlainSampling(r)
        PROVE  Len(SamplingBytes(r)) >= 1 /\ SamplingBytes(r)[1] # 255
    <3>1. PICK a : a = Ns(r)
      OBVIOUS
    <3>2. PICK w : w = SamplingBytes(r)
      OBVIOUS
    <3>3. /\ Len(a) \in Nat /\ Len(Sev(r)) \in Nat /\ Len(w) = Len(a) + Len(Sev(r)) + 4
          /\ \A i \in 1 .. Len(a) : w[i] = a[i] /\ a[i] \in 1 .. 244
          /\ w[Len(a) + 1] = 0
      <4>1. /\ Len(Ns(r)) \in Nat /\ Len(Sev(r)) \in Nat
            /\ Len(SamplingBytes(r)) = Len(Ns(r)) + Len(Sev(r)) + 4
            /\ \A i \in 1 .. Len(Ns(r)) : SamplingBytes(r)[i] = Ns(r)[i] /\ Ns(r)[i] \in 1 .. 244
            /\ SamplingBytes(r)[Len(Ns(r)) + 1] = 0
        BY <2>1, SamplingWord
      <4> QED BY ONLY <3>1, <3>2, <4>1
    <3>4. Len(w) >= 1
      BY ONLY <3>3
    <3>5. 1 \in 1 .. Len(a) \/ Len(a) + 1 = 1
      BY ONLY <3>3
    <3>6. \A x \in 1 .. 244 : x # 255
      BY ONLY TRUE
    <3>7. ASSUME 1 \in 1 .. Len(a) PROVE w[1] # 255
      <4>1. w[1] = a[1] /\ a[1] \in 1 .. 244
        BY <3>3, <3>7
      <4> QED BY ONLY <3>6, <4>1
    <3>8. ASSUME Len(a) + 1 = 1 PROVE w[1] # 255
      BY ONLY <3>3, <3>8
    <3> QED BY <3>2, <3>4, <3>5, <3>7, <3>8
  <2>2. ASSUME NEW r, NEW q, PlainSampling(r), PlainSampling(q), Agree(SamplingBytes(r), SamplingBytes(q))
        PROVE  SamplingBytes(r) = SamplingBytes(q)
    <3>1. Ns(r) = Ns(q) /\ Sev(r) = Sev(q) /\ r.target = q.target
      BY <2>2, SamplingApart
    <3> QED BY <3>1 DEF SamplingBytes, Ns, Sev
  <2>3. Distinct(s, n, t, m, 255, Byte)
    <3>1. 255 \in Byte
      BY DEF Byte
    <3>2. \A i \in 1 .. n : Len(s[i]) >= 1 /\ s[i][1] # 255
      BY <1>8, <2>1
    <3>3. \A i \in 1 .. m : Len(t[i]) >= 1 /\ t[i][1] # 255
      BY <1>9, <2>1
    <3>4. \A i \in 1 .. n, j \in 1 .. m : Agree(s[i], t[j]) => s[i] = t[j]
      BY <1>8, <1>9, <2>2
    <3> QED BY <1>6, <1>7, <3>1, <3>2, <3>3, <3>4 DEF Distinct
  <2> QED BY <1>6, <1>7, <1>10, <2>3, ReadBack
<1>13. e = h
  <2>1. ASSUME NEW r, PlainRule(r) PROVE Len(RuleBytes(r)) >= 1 /\ RuleBytes(r)[1] # 255
    BY <2>1, RuleWord
  <2>2. ASSUME NEW r, NEW q, PlainRule(r), PlainRule(q), Agree(RuleBytes(r), RuleBytes(q))
        PROVE  RuleBytes(r) = RuleBytes(q)
    <3>1. PICK u \in Seq(Byte), v \in Seq(Byte) : u = RuleBytes(r) /\ v = RuleBytes(q)
      BY <2>2, RuleWord
    <3>2. /\ Len(u) \in Nat \ {0} /\ u[Len(u)] = 254 /\ \A i \in 1 .. Len(u) - 1 : u[i] # 254
          /\ Len(v) \in Nat \ {0} /\ v[Len(v)] = 254 /\ \A i \in 1 .. Len(v) - 1 : v[i] # 254
      BY <2>2, <3>1, RuleWord
    <3>3. Agree(u, v)
      BY <2>2, <3>1
    <3>4. u = v
      BY ONLY <3>2, <3>3, u \in Seq(Byte), v \in Seq(Byte), MarkedApart
    <3> QED BY <3>1, <3>4
  <2>3. Distinct(e, k, h, l, 255, Byte)
    <3>1. 255 \in Byte
      BY DEF Byte
    <3>2. \A i \in 1 .. k : Len(e[i]) >= 1 /\ e[i][1] # 255
      BY <1>8, <2>1
    <3>3. \A i \in 1 .. l : Len(h[i]) >= 1 /\ h[i][1] # 255
      BY <1>9, <2>1
    <3>4. \A i \in 1 .. k, j \in 1 .. l : Agree(e[i], h[j]) => e[i] = h[j]
      BY <1>8, <1>9, <2>2
    <3> QED BY <1>6, <1>7, <3>1, <3>2, <3>3, <3>4 DEF Distinct
  <2>4. FlattenSeq(e) \o <<255>> = FlattenSeq(h) \o <<255>>
    BY <1>12
  <2> QED BY <2>3, <2>4, ListReadBack
<1> QED BY <1>1, <1>2, <1>3, <1>4, <1>11, <1>12, <1>13

\* Two policies have one fingerprint exactly when they are one policy.
LEMMA FingerprintExact ==
    ASSUME NEW c, NEW d, IsConfig(c), IsConfig(d), PlainPolicy(c), PlainPolicy(d)
    PROVE  (policy_fingerprint(c) = policy_fingerprint(d)) <=> (Governance(c) = Governance(d))
<1> DEFINE S(x) == [n \in DOMAIN x.rules |-> [namespace |-> Ns(x.rules[n]), severity |-> Sev(x.rules[n]),
                                              target |-> x.rules[n].target]]
           R(x) == [n \in DOMAIN x.regex_rules |->
                       [name |-> x.regex_rules[n].name, pattern |-> x.regex_rules[n].pattern.text,
                        mask |-> x.regex_rules[n].mask, fields |-> x.regex_rules[n].fields]]
<1>1. ASSUME NEW x
      PROVE  Governance(x) = [default_target |-> x.default_target, rules |-> S(x), regex_rules |-> R(x)]
  BY DEF Governance, Ns, Sev
<1>2. Governance(c) = Governance(d)
        <=> c.default_target = d.default_target /\ S(c) = S(d) /\ R(c) = R(d)
  <2> HIDE DEF S, R
  <2> QED BY <1>1
<1>3. ASSUME NEW x, IsConfig(x), PlainPolicy(x)
      PROVE  /\ \A n \in DOMAIN x.rules : PlainSampling(x.rules[n])
             /\ \A n \in DOMAIN x.regex_rules : PlainRule(x.regex_rules[n])
  BY <1>3, PolicyTyped
<1>4. SamplingTexts(c) = SamplingTexts(d) <=> S(c) = S(d)
  <2>1. ASSUME SamplingTexts(c) = SamplingTexts(d) PROVE S(c) = S(d)
    <3>1. DOMAIN c.rules = DOMAIN d.rules
      BY <2>1 DEF SamplingTexts
    <3>2. ASSUME NEW n \in DOMAIN c.rules
          PROVE  /\ Ns(c.rules[n]) = Ns(d.rules[n]) /\ Sev(c.rules[n]) = Sev(d.rules[n])
                 /\ c.rules[n].target = d.rules[n].target
      <4>1. SamplingTexts(c)[n] = SamplingTexts(d)[n]
        BY <2>1
      <4>2. SamplingBytes(c.rules[n]) = SamplingBytes(d.rules[n])
        BY <3>1, <4>1 DEF SamplingTexts
      <4>3. Agree(SamplingBytes(c.rules[n]), SamplingBytes(d.rules[n]))
        BY <4>2 DEF Agree
      <4> QED BY <1>3, <3>1, <4>3, SamplingApart
    <3> QED BY <3>1, <3>2
  <2>2. ASSUME S(c) = S(d) PROVE SamplingTexts(c) = SamplingTexts(d)
    <3>1. DOMAIN c.rules = DOMAIN d.rules
      BY <2>2
    <3>2. ASSUME NEW n \in DOMAIN c.rules
          PROVE  SamplingBytes(c.rules[n]) = SamplingBytes(d.rules[n])
      <4>1. S(c)[n] = S(d)[n]
        BY <2>2
      <4>2. /\ Ns(c.rules[n]) = Ns(d.rules[n]) /\ Sev(c.rules[n]) = Sev(d.rules[n])
            /\ c.rules[n].target = d.rules[n].target
        BY <3>1, <4>1
      <4> QED BY <4>2 DEF SamplingBytes, Ns, Sev
    <3> QED BY <3>1, <3>2 DEF SamplingTexts
  <2> QED BY <2>1, <2>2
<1>5. RedactTexts(c) = RedactTexts(d) <=> R(c) = R(d)
  <2>1. ASSUME RedactTexts(c) = RedactTexts(d) PROVE R(c) = R(d)
    <3>1. DOMAIN c.regex_rules = DOMAIN d.regex_rules
      BY <2>1 DEF RedactTexts
    <3>2. ASSUME NEW n \in DOMAIN c.regex_rules
          PROVE  /\ c.regex_rules[n].name = d.regex_rules[n].name
                 /\ c.regex_rules[n].pattern.text = d.regex_rules[n].pattern.text
                 /\ c.regex_rules[n].mask = d.regex_rules[n].mask
                 /\ c.regex_rules[n].fields = d.regex_rules[n].fields
      <4>1. RedactTexts(c)[n] = RedactTexts(d)[n]
        BY <2>1
      <4>2. RuleBytes(c.regex_rules[n]) = RuleBytes(d.regex_rules[n])
        BY <3>1, <4>1 DEF RedactTexts
      <4> QED BY <1>3, <3>1, <4>2, RuleReadBack
    <3> QED BY <3>1, <3>2
  <2>2. ASSUME R(c) = R(d) PROVE RedactTexts(c) = RedactTexts(d)
    <3>1. DOMAIN c.regex_rules = DOMAIN d.regex_rules
      BY <2>2
    <3>2. ASSUME NEW n \in DOMAIN c.regex_rules
          PROVE  RuleBytes(c.regex_rules[n]) = RuleBytes(d.regex_rules[n])
      <4>1. R(c)[n] = R(d)[n]
        BY <2>2
      <4>2. /\ c.regex_rules[n].name = d.regex_rules[n].name
            /\ c.regex_rules[n].pattern.text = d.regex_rules[n].pattern.text
            /\ c.regex_rules[n].mask = d.regex_rules[n].mask
            /\ c.regex_rules[n].fields = d.regex_rules[n].fields
        BY <3>1, <4>1
      <4>3. RuleTexts(c.regex_rules[n]) = RuleTexts(d.regex_rules[n])
        BY ONLY <4>2 DEF RuleTexts
      <4> QED BY ONLY <4>3 DEF RuleBytes
    <3> QED BY <3>1, <3>2 DEF RedactTexts
  <2> QED BY <2>1, <2>2
<1> HIDE DEF S, R
<1>6. ASSUME policy_fingerprint(c) = policy_fingerprint(d) PROVE Governance(c) = Governance(d)
  BY <1>2, <1>4, <1>5, <1>6, FingerprintTells
<1>7. ASSUME Governance(c) = Governance(d) PROVE policy_fingerprint(c) = policy_fingerprint(d)
  <2>1. c.default_target = d.default_target /\ SamplingTexts(c) = SamplingTexts(d) /\ RedactTexts(c) = RedactTexts(d)
    BY <1>2, <1>4, <1>5, <1>7
  <2> QED BY <2>1, FingerprintIs
<1> QED BY <1>6, <1>7

\* No text of a policy has a byte that is zero, which YAML allows in a quoted text
\* and the hashing puts after each.
NoZeros == \A f \in Files : PlainPolicy(f.config)

-----------------------------------------------------------------------------
(* What a glob means *)

\* Outside `last`, each step lowers a rank that has a bound.
Descends(T, N, rank, last, val, next) ==
    /\ N \in Nat /\ rank \in [T -> 0 .. N] /\ val \in [T -> BOOLEAN] /\ next \in [T -> T]
    /\ \A s \in T : s \notin last => rank[next[s]] < rank[s]

\* Steps that each lower a rank lead somewhere: there is a function of where they
\* start that gives what is found at the end.
LEMMA TurnsEnd ==
    ASSUME NEW T, NEW N, NEW rank, NEW last, NEW val, NEW next, Descends(T, N, rank, last, val, next)
    PROVE  \E f \in [T -> BOOLEAN] : \A s \in T : f[s] = IF s \in last THEN val[s] ELSE f[next[s]]
<1>0. /\ N \in Nat /\ rank \in [T -> 0 .. N] /\ val \in [T -> BOOLEAN] /\ next \in [T -> T]
      /\ \A s \in T : s \notin last => rank[next[s]] < rank[s]
  BY DEF Descends
<1> USE <1>0
<1> DEFINE Upward(f, n) == \A s \in T : rank[s] <= n => f[s] = IF s \in last THEN val[s] ELSE f[next[s]]
           S == {n \in Nat : \E f \in [T -> BOOLEAN] : Upward(f, n)}
<1>1. ASSUME NEW f \in [T -> BOOLEAN], NEW n \in Nat \cup {-1}, Upward(f, n)
      PROVE  \E g \in [T -> BOOLEAN] : Upward(g, n + 1)
  <2> DEFINE g == [s \in T |-> IF rank[s] <= n THEN f[s] ELSE IF s \in last THEN val[s] ELSE f[next[s]]]
  <2>1. g \in [T -> BOOLEAN]
    OBVIOUS
  <2>2. ASSUME NEW s \in T, rank[s] <= n + 1
        PROVE  g[s] = IF s \in last THEN val[s] ELSE g[next[s]]
    <3>1. rank[s] \in Int /\ next[s] \in T /\ rank[next[s]] \in Int
      OBVIOUS
    <3>2. g[s] = IF s \in last THEN val[s] ELSE f[next[s]]
      BY <1>1, <3>1
    <3>3. CASE s \in last
      BY <3>2, <3>3
    <3>4. CASE s \notin last
      <4>1. rank[next[s]] <= n
        BY <2>2, <3>1, <3>4
      <4>2. g[next[s]] = f[next[s]]
        BY <3>1, <4>1
      <4> QED BY <3>2, <3>4, <4>2
    <3> QED BY <3>3, <3>4
  <2> QED BY <2>1, <2>2
<1>2. 0 \in S
  <2> DEFINE f == [s \in T |-> FALSE]
  <2>1. f \in [T -> BOOLEAN] /\ Upward(f, -1)
    <3>1. \A s \in T : ~(rank[s] <= -1)
      OBVIOUS
    <3> QED BY <3>1
  <2>2. -1 \in Nat \cup {-1} /\ -1 + 1 = 0
    OBVIOUS
  <2> HIDE DEF f, Upward
  <2> QED BY <1>1, <2>1, <2>2
<1>3. ASSUME NEW n \in S PROVE n + 1 \in S
  <2> HIDE DEF Upward
  <2> QED BY <1>1
<1>4. N \in S
  <2> HIDE DEF S
  <2>1. S \in SUBSET Nat
    BY DEF S
  <2> QED BY <1>2, <1>3, <2>1, NatInd
<1>5. PICK f \in [T -> BOOLEAN] : Upward(f, N)
  BY <1>4
<1>6. \A s \in T : rank[s] <= N
  OBVIOUS
<1> QED BY <1>5, <1>6

\* Two numbers of two digits, the first digit of one below that of the other.
TwoDigits(B, a, x, b, y) ==
    B \in Nat /\ a \in Nat /\ b \in Nat /\ x \in 0 .. B - 1 /\ y \in 0 .. B - 1 /\ a < b

\* Two numbers are in the order of their first digits.
LEMMA DigitsOrder ==
    ASSUME NEW B, NEW a, NEW x, NEW b, NEW y, TwoDigits(B, a, x, b, y)
    PROVE  a * B + x < b * B + y
<1>0. B \in Nat /\ a \in Nat /\ b \in Nat /\ x \in 0 .. B - 1 /\ y \in 0 .. B - 1 /\ a < b
  BY DEF TwoDigits
<1>1. PICK c \in Nat : b = a + 1 + c
  <2>1. b - a - 1 \in Nat /\ b = a + 1 + (b - a - 1)
    BY ONLY <1>0
  <2> QED BY <2>1
<1>2. (a + 1 + c) * B = a * B + B + c * B /\ c * B \in Nat /\ a * B \in Nat /\ b * B \in Nat
  BY ONLY <1>0, c \in Nat
<1>3. PICK u \in Nat, v \in Nat, w \in Nat : u = a * B /\ v = c * B /\ w = b * B /\ w = u + B + v
  <2>1. b * B = a * B + B + c * B
    BY ONLY <1>1, <1>2
  <2> QED BY ONLY <1>2, <2>1
<1>4. u + x < w + y
  BY ONLY <1>0, <1>3, u \in Nat, v \in Nat, w \in Nat
<1> QED BY ONLY <1>3, <1>4

\* How far a place of the loop is from the last: three digits in base B.
Third(B, a, b, c) == (a * B + b) * B + c
Digit3(B, a, b, c) == B \in Nat /\ a \in 0 .. B - 1 /\ b \in 0 .. B - 1 /\ c \in 0 .. B - 1

\* The first of three digits that differs orders two numbers.
LEMMA RankFalls ==
    ASSUME NEW B, NEW a, NEW b, NEW c, NEW d, NEW e, NEW f, Digit3(B, a, b, c), Digit3(B, d, e, f),
           a < d \/ (a = d /\ b < e) \/ (a = d /\ b = e /\ c < f)
    PROVE  Third(B, a, b, c) < Third(B, d, e, f)
<1>0. /\ B \in Nat /\ a \in 0 .. B - 1 /\ b \in 0 .. B - 1 /\ c \in 0 .. B - 1
      /\ d \in 0 .. B - 1 /\ e \in 0 .. B - 1 /\ f \in 0 .. B - 1
  BY DEF Digit3
<1>1. a * B \in Nat /\ d * B \in Nat /\ a \in Nat /\ d \in Nat
  BY ONLY <1>0
<1>2. PICK u \in Nat, v \in Nat : u = a * B + b /\ v = d * B + e
  <2>1. a * B + b \in Nat /\ d * B + e \in Nat
    BY ONLY <1>0, <1>1
  <2> QED BY <2>1
<1>3. CASE u < v
  <2>1. TwoDigits(B, u, c, v, f)
    BY ONLY <1>0, <1>3, u \in Nat, v \in Nat DEF TwoDigits
  <2>2. u * B + c < v * B + f
    BY ONLY <2>1, DigitsOrder
  <2> QED BY ONLY <1>2, <2>2 DEF Third
<1>4. a < d => u < v
  <2> SUFFICES ASSUME a < d PROVE u < v
    OBVIOUS
  <2>1. TwoDigits(B, a, b, d, e)
    BY ONLY <1>0, <1>1, a < d DEF TwoDigits
  <2>2. a * B + b < d * B + e
    BY ONLY <2>1, DigitsOrder
  <2> QED BY ONLY <1>2, <2>2
<1>5. a = d /\ b < e => u < v
  <2> SUFFICES ASSUME a = d, b < e PROVE u < v
    OBVIOUS
  <2>1. PICK w \in Nat : w = a * B /\ w = d * B
    BY ONLY <1>1, a = d
  <2>2. w + b < w + e
    BY ONLY <1>0, w \in Nat, b < e
  <2> QED BY ONLY <1>2, <2>1, <2>2
<1>6. CASE a = d /\ b = e /\ c < f
  <2>1. PICK w \in Nat : w = u * B /\ w = v * B
    <3>1. u = v
      BY ONLY <1>2, <1>6
    <3>2. u * B \in Nat
      BY ONLY <1>0, u \in Nat
    <3> QED BY ONLY <3>1, <3>2
  <2>2. w + c < w + f
    BY ONLY <1>0, <1>6, w \in Nat
  <2>3. u * B + c < v * B + f
    BY ONLY <2>1, <2>2
  <2> QED BY ONLY <1>2, <2>3 DEF Third
<1> QED BY <1>3, <1>4, <1>5, <1>6

\* Three digits make a number below that of the base and two zeros.
LEMMA RankBound ==
    ASSUME NEW B, NEW a, NEW b, NEW c, Digit3(B, a, b, c)
    PROVE  Third(B, a, b, c) \in 0 .. Third(B, B, 0, 0)
<1>0. B \in Nat /\ a \in 0 .. B - 1 /\ b \in 0 .. B - 1 /\ c \in 0 .. B - 1 /\ a \in Nat /\ a < B /\ 0 \in 0 .. B - 1
  BY DEF Digit3
<1>1. TwoDigits(B, a, b, B, 0)
  BY ONLY <1>0 DEF TwoDigits
<1>2. a * B + b < B * B + 0
  BY ONLY <1>1, DigitsOrder
<1>3. PICK u \in Nat, v \in Nat : u = a * B + b /\ v = B * B + 0
  <2>1. a * B \in Nat /\ B * B \in Nat
    BY ONLY <1>0
  <2>2. a * B + b \in Nat /\ B * B + 0 \in Nat
    BY ONLY <1>0, <2>1
  <2> QED BY <2>2
<1>4. TwoDigits(B, u, c, v, 0)
  BY ONLY <1>0, <1>2, <1>3, u \in Nat, v \in Nat DEF TwoDigits
<1>5. u * B + c < v * B + 0
  BY ONLY <1>4, DigitsOrder
<1>6. PICK w \in Nat, z \in Nat : w = u * B /\ z = v * B
  <2>1. u * B \in Nat /\ v * B \in Nat
    BY ONLY <1>0, u \in Nat, v \in Nat
  <2> QED BY <2>1
<1>7. w + c < z + 0
  BY ONLY <1>5, <1>6
<1>8. w + c \in 0 .. z + 0
  BY ONLY <1>0, <1>7, w \in Nat, z \in Nat
<1>9. Third(B, a, b, c) = w + c /\ Third(B, B, 0, 0) = z + 0
  BY ONLY <1>3, <1>6 DEF Third
<1> QED BY ONLY <1>8, <1>9

\* Where two texts may be compared from.
Tails(a, b) == (0 .. Len(a)) \X (0 .. Len(b))

\* One line of the table of what is left of a glob a and of a text b.
Row(M, a, b, i, j) ==
    IF i = Len(a) THEN j = Len(b)
    ELSE IF a[i + 1] = Star THEN \E l \in j .. Len(b) : M[<<i + 1, l>>]
    ELSE j < Len(b) /\ a[i + 1] = b[j + 1] /\ M[<<i + 1, j + 1>>]

\* The whole table.
IsTable(M, a, b) ==
    /\ M \in [Tails(a, b) -> BOOLEAN]
    /\ \A i \in 0 .. Len(a), j \in 0 .. Len(b) : M[<<i, j>>] = Row(M, a, b, i, j)

\* There is such a table, and Means is what it says of the two texts.
LEMMA MeansTable ==
    ASSUME NEW a \in Seq(Nat), NEW b \in Seq(Nat)
    PROVE  \E M : IsTable(M, a, b) /\ (Means(a, b) <=> M[<<0, 0>>])
<1> DEFINE T == Tails(a, b)
<1>1. PICK n \in Nat, m \in Nat : n = Len(a) /\ m = Len(b)
  OBVIOUS
<1>2. T = (0 .. n) \X (0 .. m)
  BY <1>1 DEF Tails
<1> DEFINE Below(M, d) == \A i \in 0 .. n, j \in 0 .. m : n - i <= d => M[<<i, j>>] = Row(M, a, b, i, j)
           S == {d \in Nat : \E M \in [T -> BOOLEAN] : Below(M, d)}
<1> HIDE DEF T
<1>3. ASSUME NEW i \in 0 .. n, NEW j \in 0 .. m, NEW M, NEW W,
             i < n => \A l \in 0 .. m : M[<<i + 1, l>>] = W[<<i + 1, l>>]
      PROVE  Row(M, a, b, i, j) = Row(W, a, b, i, j)
  <2>1. i # n => i < n
    OBVIOUS
  <2>2. j < m => j + 1 \in 0 .. m
    OBVIOUS
  <2>3. \A l \in j .. m : l \in 0 .. m
    OBVIOUS
  <2> QED BY ONLY <1>1, <1>3, <2>1, <2>2, <2>3 DEF Row
<1>4. ASSUME NEW M, NEW i \in 0 .. n, NEW j \in 0 .. m
      PROVE  Row(M, a, b, i, j) \in BOOLEAN
  BY DEF Row
<1>5. ASSUME NEW d \in Nat \cup {-1}, NEW M \in [T -> BOOLEAN], Below(M, d)
      PROVE  \E W \in [T -> BOOLEAN] : Below(W, d + 1)
  <2> DEFINE W == [x \in T |-> IF n - x[1] <= d THEN M[x] ELSE Row(M, a, b, x[1], x[2])]
  <2>1. W \in [T -> BOOLEAN]
    BY <1>2, <1>4
  <2>2. ASSUME NEW i \in 0 .. n, NEW j \in 0 .. m
        PROVE  W[<<i, j>>] = IF n - i <= d THEN M[<<i, j>>] ELSE Row(M, a, b, i, j)
    <3>1. <<i, j>> \in T /\ <<i, j>>[1] = i /\ <<i, j>>[2] = j
      BY <1>2
    <3> QED BY <3>1
  <2> HIDE DEF W
  <2>3. ASSUME NEW i \in 0 .. n, NEW j \in 0 .. m, n - i <= d + 1
        PROVE  W[<<i, j>>] = Row(W, a, b, i, j)
    <3>1. W[<<i, j>>] = Row(M, a, b, i, j)
      BY <1>5, <2>2
    <3>2. i < n => \A l \in 0 .. m : M[<<i + 1, l>>] = W[<<i + 1, l>>]
      <4>1. i < n => i + 1 \in 0 .. n /\ n - (i + 1) <= d
        BY <2>3
      <4> QED BY <2>2, <4>1
    <3> QED BY <1>3, <3>1, <3>2
  <2> QED BY <2>1, <2>3
<1>6. 0 \in S
  <2> DEFINE M == [x \in T |-> FALSE]
  <2>1. M \in [T -> BOOLEAN] /\ Below(M, -1)
    <3>1. \A i \in 0 .. n : ~(n - i <= -1)
      OBVIOUS
    <3> QED BY <3>1
  <2>2. -1 \in Nat \cup {-1} /\ -1 + 1 = 0
    OBVIOUS
  <2> HIDE DEF M, Below
  <2> QED BY <1>5, <2>1, <2>2
<1>7. ASSUME NEW d \in S PROVE d + 1 \in S
  <2> HIDE DEF Below
  <2> QED BY <1>5
<1>8. n \in S
  <2> HIDE DEF S
  <2>1. S \in SUBSET Nat
    BY DEF S
  <2> QED BY <1>6, <1>7, <2>1, NatInd
<1>9. PICK M \in [T -> BOOLEAN] : Below(M, n)
  BY <1>8
<1>10. \A i \in 0 .. n, j \in 0 .. m : M[<<i, j>>] = Row(M, a, b, i, j)
  <2>1. \A i \in 0 .. n : n - i <= n
    OBVIOUS
  <2> QED BY <1>9, <2>1
<1> DEFINE F(W) == [at \in (0 .. Len(a)) \X (0 .. Len(b)) |->
                       IF at[1] = Len(a) THEN at[2] = Len(b)
                       ELSE IF a[at[1] + 1] = Star THEN \E l \in at[2] .. Len(b) : W[<<at[1] + 1, l>>]
                       ELSE at[2] < Len(b) /\ a[at[1] + 1] = b[at[2] + 1] /\ W[<<at[1] + 1, at[2] + 1>>]]
           table == CHOOSE W : W = F(W)
<1>11. Means(a, b) = table[<<0, 0>>]
  BY DEF Means
<1>12. ASSUME NEW W
       PROVE  /\ DOMAIN F(W) = Tails(a, b)
              /\ \A i \in 0 .. Len(a), j \in 0 .. Len(b) : F(W)[<<i, j>>] = Row(W, a, b, i, j)
  <2>1. DOMAIN F(W) = Tails(a, b)
    BY DEF Tails
  <2>2. ASSUME NEW i \in 0 .. Len(a), NEW j \in 0 .. Len(b)
        PROVE  F(W)[<<i, j>>] = Row(W, a, b, i, j)
    BY DEF Row
  <2> QED BY <2>1, <2>2
<1>13. ASSUME NEW W, NEW V, DOMAIN W = Tails(a, b), W = [x \in Tails(a, b) |-> W[x]],
              \A x \in Tails(a, b) : W[x] = F(V)[x]
       PROVE  W = F(V)
  BY <1>13 DEF Tails
<1> HIDE DEF F
<1>14. M = F(M)
  <2>1. ASSUME NEW x \in Tails(a, b) PROVE M[x] = F(M)[x]
    <3>1. PICK i \in 0 .. n, j \in 0 .. m : x = <<i, j>>
      BY <1>1 DEF Tails
    <3>2. F(M)[<<i, j>>] = Row(M, a, b, i, j)
      BY <1>1, <1>12
    <3> QED BY <1>10, <3>1, <3>2
  <2>2. DOMAIN M = Tails(a, b) /\ M = [x \in Tails(a, b) |-> M[x]]
    BY <1>9 DEF T
  <2> QED BY <1>13, <2>1, <2>2
<1>15. table = F(table)
  BY <1>14
<1> HIDE DEF table
<1>16. IsTable(table, a, b)
  <2>1. PICK W : W = F(table) /\ W = table
    BY <1>15
  <2>2. /\ DOMAIN W = Tails(a, b)
        /\ \A i \in 0 .. Len(a), j \in 0 .. Len(b) : W[<<i, j>>] = Row(W, a, b, i, j)
    BY <1>12, <2>1
  <2>3. W = [x \in Tails(a, b) |-> W[x]]
    BY <1>12, <2>1 DEF F
  <2>4. \A x \in Tails(a, b) : W[x] \in BOOLEAN
    <3>1. \A i \in 0 .. n, j \in 0 .. m : W[<<i, j>>] \in BOOLEAN
      BY <1>1, <1>4, <2>2
    <3> QED BY <1>1, <3>1 DEF Tails
  <2>5. W \in [Tails(a, b) -> BOOLEAN]
    BY ONLY <2>3, <2>4
  <2> QED BY <2>1, <2>2, <2>5 DEF IsTable
<1> QED BY <1>11, <1>16

\* The byte of the glob a after the first p is that of b after the first k, or a star.
Literal(a, b, p, k) == p < Len(a) /\ a[p + 1] = b[k + 1]
Starred(a, p)       == p < Len(a) /\ a[p + 1] = Star

\* One turn of the loop over a glob a and a text b.
Turn(f, a, b, p, k, sp, sk) ==
    IF k = Len(b) THEN AtEnd(a, p)
    ELSE IF Literal(a, b, p, k) THEN f[Place(p + 1, k + 1, sp, sk)]
    ELSE IF Starred(a, p) THEN f[Place(p + 1, k, p + 1, k)]
    ELSE sp > 0 /\ f[Place(sp, sk + 1, sp, sk + 1)]

\* f gives what the loop says from every place.
IsRun(f, a, b) ==
    \A p \in 0 .. Len(a), k \in 0 .. Len(b) : \A sp \in 0 .. p, sk \in 0 .. k :
        f[Place(p, k, sp, sk)] = Turn(f, a, b, p, k, sp, sk)

\* The places, by their parts.
LEMMA PlacesAre ==
    ASSUME NEW a \in Seq(Nat), NEW b \in Seq(Nat)
    PROVE  /\ \A p \in 0 .. Len(a), k \in 0 .. Len(b) : \A sp \in 0 .. p, sk \in 0 .. k :
                  /\ Place(p, k, sp, sk) \in Places(a, b)
                  /\ Place(p, k, sp, sk).p = p /\ Place(p, k, sp, sk).k = k
                  /\ Place(p, k, sp, sk).sp = sp /\ Place(p, k, sp, sk).sk = sk
           /\ \A s \in Places(a, b) :
                  /\ s.p \in 0 .. Len(a) /\ s.k \in 0 .. Len(b) /\ s.sp \in 0 .. s.p /\ s.sk \in 0 .. s.k
                  /\ s = Place(s.p, s.k, s.sp, s.sk)
<1>1. ASSUME NEW p \in 0 .. Len(a), NEW k \in 0 .. Len(b), NEW sp \in 0 .. p, NEW sk \in 0 .. k
      PROVE  /\ Place(p, k, sp, sk) \in Places(a, b)
             /\ Place(p, k, sp, sk).p = p /\ Place(p, k, sp, sk).k = k
             /\ Place(p, k, sp, sk).sp = sp /\ Place(p, k, sp, sk).sk = sk
  <2>1. sp \in 0 .. Len(a) /\ sk \in 0 .. Len(b) /\ sp <= p /\ sk <= k
    OBVIOUS
  <2> QED BY <2>1 DEF Places, Place
<1>2. ASSUME NEW s \in Places(a, b)
      PROVE  /\ s.p \in 0 .. Len(a) /\ s.k \in 0 .. Len(b) /\ s.sp \in 0 .. s.p /\ s.sk \in 0 .. s.k
             /\ s = Place(s.p, s.k, s.sp, s.sk)
  <2>1. /\ s \in [p : 0 .. Len(a), k : 0 .. Len(b), sp : 0 .. Len(a), sk : 0 .. Len(b)]
        /\ s.sp <= s.p /\ s.sk <= s.k
    BY DEF Places
  <2> QED BY <2>1 DEF Place
<1> QED BY <1>1, <1>2

\* Where the loop does not turn again: the text is used up, or nothing fits and
\* there is no star to go back to.
Stuck(a, b) ==
    {s \in Places(a, b) : s.k = Len(b) \/ (~Literal(a, b, s.p, s.k) /\ ~Starred(a, s.p) /\ s.sp = 0)}

\* Where it goes otherwise.
Onward(a, b, s) ==
    IF Literal(a, b, s.p, s.k) THEN Place(s.p + 1, s.k + 1, s.sp, s.sk)
    ELSE IF Starred(a, s.p) THEN Place(s.p + 1, s.k, s.p + 1, s.k)
    ELSE Place(s.sp, s.sk + 1, s.sp, s.sk + 1)

\* The same for every place, and what is found where the loop ends.
Onwards(a, b) == [s \in Places(a, b) |-> IF s \in Stuck(a, b) THEN s ELSE Onward(a, b, s)]
Ends(a, b)   == [s \in Places(a, b) |-> s.k = Len(b) /\ AtEnd(a, s.p)]

\* Each turn passes a star, or moves the end of the last one's run, or moves on.
LEMMA LoopDescends ==
    ASSUME NEW a \in Seq(Nat), NEW b \in Seq(Nat)
    PROVE  \E N, rank : Descends(Places(a, b), N, rank, Stuck(a, b), Ends(a, b), Onwards(a, b))
<1>1. PICK n \in Nat, m \in Nat : n = Len(a) /\ m = Len(b)
  OBVIOUS
<1>2. PICK T : T = Places(a, b)
  OBVIOUS
<1>3. \A p \in 0 .. n, k \in 0 .. m : \A sp \in 0 .. p, sk \in 0 .. k :
         /\ Place(p, k, sp, sk) \in T
         /\ Place(p, k, sp, sk).p = p /\ Place(p, k, sp, sk).k = k
         /\ Place(p, k, sp, sk).sp = sp /\ Place(p, k, sp, sk).sk = sk
  BY <1>1, <1>2, PlacesAre
<1>4. \A s \in T : /\ s.p \in 0 .. n /\ s.k \in 0 .. m /\ s.sp \in 0 .. s.p /\ s.sk \in 0 .. s.k
                   /\ s = Place(s.p, s.k, s.sp, s.sk)
  BY <1>1, <1>2, PlacesAre
<1>5. PICK B \in Nat : B = n + m + 1
  OBVIOUS
<1> DEFINE Rank(s) == Third(B, n - s.sp, m - s.sk, m - s.k)
           N == Third(B, B, 0, 0)
           last == Stuck(a, b)
           rank == [s \in T |-> Rank(s)]
<1>6. ASSUME NEW s \in T PROVE Digit3(B, n - s.sp, m - s.sk, m - s.k)
  <2>1. s.sp \in 0 .. n /\ s.sk \in 0 .. m /\ s.k \in 0 .. m
    <3>1. PICK p \in 0 .. n, k \in 0 .. m : p = s.p /\ k = s.k /\ s.sp \in 0 .. p /\ s.sk \in 0 .. k
      BY <1>4
    <3>2. 0 .. p \subseteq 0 .. n /\ 0 .. k \subseteq 0 .. m
      BY ONLY n \in Nat, m \in Nat, p \in 0 .. n, k \in 0 .. m
    <3> QED BY ONLY <3>1, <3>2
  <2>2. PICK x \in 0 .. n, y \in 0 .. m, z \in 0 .. m : x = s.sp /\ y = s.sk /\ z = s.k
    BY ONLY <2>1
  <2>3. n - x \in 0 .. B - 1 /\ m - y \in 0 .. B - 1 /\ m - z \in 0 .. B - 1
    BY ONLY <1>5, n \in Nat, m \in Nat, x \in 0 .. n, y \in 0 .. m, z \in 0 .. m
  <2> QED BY ONLY <2>2, <2>3, B \in Nat DEF Digit3
<1>7. ASSUME NEW s \in T, s \notin last
      PROVE  /\ Onward(a, b, s) \in T
             /\ \/ n - Onward(a, b, s).sp < n - s.sp
                \/ n - Onward(a, b, s).sp = n - s.sp /\ m - Onward(a, b, s).sk < m - s.sk
                \/ n - Onward(a, b, s).sp = n - s.sp /\ m - Onward(a, b, s).sk = m - s.sk /\ m - Onward(a, b, s).k < m - s.k
  <2>1. s.p \in 0 .. n /\ s.k \in 0 .. m /\ s.sp \in 0 .. s.p /\ s.sk \in 0 .. s.k /\ s.k # m
    BY <1>1, <1>2, <1>4, <1>7 DEF Stuck
  <2>2. CASE Literal(a, b, s.p, s.k)
    <3>1. s.p + 1 \in 0 .. n /\ s.k + 1 \in 0 .. m /\ s.sp \in 0 .. s.p + 1 /\ s.sk \in 0 .. s.k + 1
      <4>1. s.p < n
        BY <1>1, <2>2 DEF Literal
      <4> QED BY ONLY <2>1, <4>1, n \in Nat, m \in Nat
    <3>2. PICK t : t = Place(s.p + 1, s.k + 1, s.sp, s.sk)
      OBVIOUS
    <3>3. t \in T /\ t.sp = s.sp /\ t.sk = s.sk /\ t.k = s.k + 1
      BY <1>3, <3>1, <3>2
    <3>4. m - (s.k + 1) < m - s.k
      BY <2>1
    <3> QED BY <2>2, <3>2, <3>3, <3>4 DEF Onward
  <2>3. CASE ~Literal(a, b, s.p, s.k) /\ Starred(a, s.p)
    <3>1. s.p + 1 \in 0 .. n /\ s.p + 1 \in 0 .. s.p + 1 /\ s.k \in 0 .. s.k
      BY <1>1, <2>1, <2>3 DEF Starred
    <3>2. PICK t : t = Place(s.p + 1, s.k, s.p + 1, s.k)
      OBVIOUS
    <3>3. t \in T /\ t.sp = s.p + 1 /\ t.sk = s.k /\ t.k = s.k
      BY <1>3, <2>1, <3>1, <3>2
    <3>4. n - (s.p + 1) < n - s.sp
      BY <2>1
    <3> QED BY <2>3, <3>2, <3>3, <3>4 DEF Onward
  <2>4. CASE ~Literal(a, b, s.p, s.k) /\ ~Starred(a, s.p)
    <3>1. s.sp \in 0 .. n /\ s.sk + 1 \in 0 .. m /\ s.sp \in 0 .. s.sp /\ s.sk + 1 \in 0 .. s.sk + 1
      BY <2>1
    <3>2. PICK t : t = Place(s.sp, s.sk + 1, s.sp, s.sk + 1)
      OBVIOUS
    <3>3. t \in T /\ t.sp = s.sp /\ t.sk = s.sk + 1
      BY <1>3, <3>1, <3>2
    <3>4. m - (s.sk + 1) < m - s.sk
      BY <2>1
    <3> QED BY <2>4, <3>2, <3>3, <3>4 DEF Onward
  <2> QED BY <2>2, <2>3, <2>4
<1>8. ASSUME NEW s \in T, s \notin last PROVE Rank(Onward(a, b, s)) < Rank(s)
  <2>1. PICK t \in T : t = Onward(a, b, s)
    BY <1>7, <1>8
  <2>2. PICK x, y, z : x = n - s.sp /\ y = m - s.sk /\ z = m - s.k
    OBVIOUS
  <2>3. PICK u, v, w : u = n - t.sp /\ v = m - t.sk /\ w = m - t.k
    OBVIOUS
  <2>4. u < x \/ (u = x /\ v < y) \/ (u = x /\ v = y /\ w < z)
    BY ONLY <1>7, <1>8, s \in T, <2>1, <2>2, <2>3
  <2>5. Digit3(B, x, y, z) /\ Digit3(B, u, v, w)
    BY ONLY <1>6, s \in T, t \in T, <2>2, <2>3
  <2>6. Third(B, u, v, w) < Third(B, x, y, z)
    BY ONLY <2>4, <2>5, RankFalls
  <2>7. Rank(s) = Third(B, x, y, z) /\ Rank(t) = Third(B, u, v, w)
    BY ONLY <2>2, <2>3
  <2> HIDE DEF Rank
  <2> QED BY ONLY <2>1, <2>6, <2>7
<1>9. N \in Nat /\ \A s \in T : Rank(s) \in 0 .. N
  <2>1. B * B \in Nat
    OBVIOUS
  <2>2. PICK w \in Nat : w = B * B + 0
    BY <2>1
  <2>3. w * B + 0 \in Nat
    BY ONLY w \in Nat, B \in Nat
  <2>4. N \in Nat
    BY ONLY <2>2, <2>3 DEF Third
  <2>5. \A s \in T : Rank(s) \in 0 .. N
    BY ONLY <1>6, RankBound
  <2> QED BY <2>4, <2>5
<1> HIDE DEF Rank, N
<1>10. Descends(T, N, rank, last, Ends(a, b), Onwards(a, b))
  <2>1. rank \in [T -> 0 .. N]
    BY <1>9
  <2>2. Ends(a, b) \in [T -> BOOLEAN]
    BY <1>2 DEF Ends
  <2>3. Onwards(a, b) \in [T -> T]
    BY <1>2, <1>7 DEF Onwards
  <2>4. \A s \in T : s \notin last => rank[Onwards(a, b)[s]] < rank[s]
    <3>1. \A s \in T : s \notin last => Onwards(a, b)[s] = Onward(a, b, s)
      BY <1>2 DEF Onwards
    <3> QED BY <1>7, <1>8, <3>1
  <2> HIDE DEF rank, last
  <2> QED BY <1>9, <2>1, <2>2, <2>3, <2>4 DEF Descends
<1> QED BY <1>2, <1>10

\* What holds where the loop ends, and before a turn when it does after it, holds
\* everywhere.
LEMMA PlaceInduct ==
    ASSUME NEW a \in Seq(Nat), NEW b \in Seq(Nat), NEW G,
           \A s \in Places(a, b) : s \in Stuck(a, b) \/ Onward(a, b, s) \in G => s \in G
    PROVE  \A s \in Places(a, b) : s \in G
<1>1. PICK N, rank : Descends(Places(a, b), N, rank, Stuck(a, b), Ends(a, b), Onwards(a, b))
  BY LoopDescends
<1>2. PICK T : T = Places(a, b)
  OBVIOUS
<1>3. /\ N \in Nat /\ rank \in [T -> 0 .. N] /\ Onwards(a, b) \in [T -> T]
      /\ \A s \in T : s \notin Stuck(a, b) => rank[Onwards(a, b)[s]] < rank[s]
  BY <1>1, <1>2 DEF Descends
<1>4. \A s \in T : s \notin Stuck(a, b) => Onwards(a, b)[s] = Onward(a, b, s)
  BY <1>2 DEF Onwards
<1>5. \A s \in T : s \in Stuck(a, b) \/ Onward(a, b, s) \in G => s \in G
  BY <1>2
<1> DEFINE R == {rank[s] : s \in T \ G}
<1>6. R \in SUBSET Nat
  BY <1>3
<1>7. CASE R # {}
  <2>1. Min(R) \in R /\ \A y \in R : Min(R) <= y
    <3> HIDE DEF R
    <3> QED BY <1>6, <1>7, Smallest
  <2>2. PICK s \in T \ G : Min(R) = rank[s]
    BY <2>1
  <2>3. PICK t \in T : t = Onward(a, b, s) /\ s \notin Stuck(a, b) /\ t \notin G /\ rank[t] < rank[s]
    BY <1>3, <1>4, <1>5
  <2>4. rank[s] <= rank[t] /\ rank[s] \in Nat /\ rank[t] \in Nat
    BY <1>3, <2>1, <2>2, <2>3
  <2> QED BY <2>3, <2>4
<1>8. CASE R = {}
  BY <1>2, <1>8
<1> QED BY <1>7, <1>8

\* The loop ends wherever it starts, and gives what `matches` says.
LEMMA MatchesRuns ==
    ASSUME NEW a \in Seq(Nat), NEW b \in Seq(Nat)
    PROVE  \E f : IsRun(f, a, b) /\ matches(a, b) = f[Place(0, 0, 0, 0)]
<1>1. PICK n \in Nat, m \in Nat : n = Len(a) /\ m = Len(b)
  OBVIOUS
<1>2. PICK T : T = Places(a, b)
  OBVIOUS
<1>3. \A p \in 0 .. n, k \in 0 .. m : \A sp \in 0 .. p, sk \in 0 .. k :
         /\ Place(p, k, sp, sk) \in T
         /\ Place(p, k, sp, sk).p = p /\ Place(p, k, sp, sk).k = k
         /\ Place(p, k, sp, sk).sp = sp /\ Place(p, k, sp, sk).sk = sk
  BY <1>1, <1>2, PlacesAre
<1>4. \A s \in T : /\ s.p \in 0 .. n /\ s.k \in 0 .. m /\ s.sp \in 0 .. s.p /\ s.sk \in 0 .. s.k
                   /\ s = Place(s.p, s.k, s.sp, s.sk)
  BY <1>1, <1>2, PlacesAre
<1>5. PICK N, rank : Descends(T, N, rank, Stuck(a, b), Ends(a, b), Onwards(a, b))
  BY <1>2, LoopDescends
<1>6. PICK f \in [T -> BOOLEAN] :
         \A s \in T : f[s] = IF s \in Stuck(a, b) THEN Ends(a, b)[s] ELSE f[Onwards(a, b)[s]]
  BY ONLY <1>5, TurnsEnd
<1>7. \A s \in T : /\ s \in Stuck(a, b) => f[s] = (s.k = m /\ AtEnd(a, s.p))
                   /\ s \notin Stuck(a, b) => f[s] = f[Onward(a, b, s)]
  BY <1>1, <1>2, <1>6 DEF Ends, Onwards
<1> DEFINE F(g) == [s \in T |->
                       IF s.k = Len(b) THEN AtEnd(a, s.p)
                       ELSE IF s.p < Len(a) /\ a[s.p + 1] = b[s.k + 1] THEN g[Place(s.p + 1, s.k + 1, s.sp, s.sk)]
                       ELSE IF s.p < Len(a) /\ a[s.p + 1] = Star THEN g[Place(s.p + 1, s.k, s.p + 1, s.k)]
                       ELSE s.sp > 0 /\ g[Place(s.sp, s.sk + 1, s.sp, s.sk + 1)]]
           run == CHOOSE g : g = F(g)
<1>11. matches(a, b) = run[Place(0, 0, 0, 0)]
  BY <1>2 DEF matches
<1>12. ASSUME NEW g, NEW s \in T PROVE F(g)[s] = Turn(g, a, b, s.p, s.k, s.sp, s.sk)
  BY DEF Turn, Literal, Starred
<1>13. f = F(f)
  <2>1. ASSUME NEW s \in T PROVE f[s] = F(f)[s]
    <3>1. F(f)[s] = Turn(f, a, b, s.p, s.k, s.sp, s.sk)
      BY <1>12
    <3> HIDE DEF F
    <3>2. CASE s \in Stuck(a, b)
      <4>1. f[s] = (s.k = m /\ AtEnd(a, s.p))
        BY <1>7, <3>2
      <4>2. CASE s.k = m
        <5>1. Turn(f, a, b, s.p, s.k, s.sp, s.sk) = AtEnd(a, s.p) /\ AtEnd(a, s.p) \in BOOLEAN
          BY <1>1, <4>2 DEF Turn, AtEnd
        <5> QED BY ONLY <3>1, <4>1, <4>2, <5>1
      <4>3. CASE s.k # m
        <5>1. ~Literal(a, b, s.p, s.k) /\ ~Starred(a, s.p) /\ s.sp = 0
          BY <1>1, <3>2, <4>3 DEF Stuck
        <5>2. Turn(f, a, b, s.p, s.k, s.sp, s.sk) = FALSE
          BY <1>1, <4>3, <5>1 DEF Turn
        <5> QED BY ONLY <3>1, <4>1, <4>3, <5>2
      <4> QED BY <4>2, <4>3
    <3>3. CASE s \notin Stuck(a, b)
      <4>1. f[s] = f[Onward(a, b, s)]
        BY <1>7, <3>3
      <4>2. s.sp > 0 \/ Literal(a, b, s.p, s.k) \/ Starred(a, s.p)
        BY <1>2, <1>4, <3>3 DEF Stuck
      <4>3. s.k # m
        BY <1>1, <1>2, <3>3 DEF Stuck
      <4>4. f[Onward(a, b, s)] \in BOOLEAN
        <5>1. f[s] \in BOOLEAN
          BY <1>6
        <5> QED BY <4>1, <5>1
      <4> QED BY <1>1, <3>1, <4>1, <4>2, <4>3, <4>4 DEF Turn, Onward
    <3> QED BY <3>2, <3>3
  <2> QED BY <2>1
<1> HIDE DEF F
<1>14. run = F(run)
  BY <1>13
<1> HIDE DEF run
<1>15. IsRun(run, a, b)
  <2>1. ASSUME NEW p \in 0 .. Len(a), NEW k \in 0 .. Len(b), NEW sp \in 0 .. p, NEW sk \in 0 .. k
        PROVE  run[Place(p, k, sp, sk)] = Turn(run, a, b, p, k, sp, sk)
    <3>1. PICK s \in T : s = Place(p, k, sp, sk) /\ s.p = p /\ s.k = k /\ s.sp = sp /\ s.sk = sk
      BY <1>1, <1>3
    <3> QED BY <1>12, <1>14, <3>1
  <2> QED BY <2>1 DEF IsRun
<1> QED BY <1>11, <1>15

\* Nothing is left of a text, so that only stars may be left of the glob.
LEMMA StarsLeft ==
    ASSUME NEW a \in Seq(Nat), NEW b \in Seq(Nat), NEW M, IsTable(M, a, b), NEW p \in 0 .. Len(a)
    PROVE  M[<<p, Len(b)>>] <=> AtEnd(a, p)
<1>1. PICK n \in Nat, m \in Nat : n = Len(a) /\ m = Len(b)
  OBVIOUS
<1>2. \A i \in 0 .. n : M[<<i, m>>] = Row(M, a, b, i, m)
  <2>1. m \in 0 .. m
    OBVIOUS
  <2> QED BY <1>1, <2>1 DEF IsTable
<1>3. ASSUME NEW i \in 0 .. n, i < n
      PROVE  /\ M[<<i, m>>] <=> a[i + 1] = Star /\ M[<<i + 1, m>>]
             /\ AtEnd(a, i) <=> a[i + 1] = Star /\ AtEnd(a, i + 1)
  <2>1. M[<<i, m>>] <=> a[i + 1] = Star /\ M[<<i + 1, m>>]
    <3>1. \A l : l \in m .. m <=> l = m
      OBVIOUS
    <3>2. ~(m < m)
      OBVIOUS
    <3>3. i # n
      BY <1>3
    <3>4. M[<<i, m>>] = Row(M, a, b, i, m)
      BY <1>2
    <3>5. CASE a[i + 1] = Star
      <4>1. Row(M, a, b, i, m) = \E l \in m .. m : M[<<i + 1, l>>]
        BY ONLY <1>1, <3>3, <3>5 DEF Row
      <4>2. (\E l \in m .. m : M[<<i + 1, l>>]) <=> M[<<i + 1, m>>]
        BY ONLY <3>1
      <4> QED BY ONLY <3>4, <3>5, <4>1, <4>2
    <3>6. CASE a[i + 1] # Star
      <4>1. Row(M, a, b, i, m) = FALSE
        BY ONLY <1>1, <3>2, <3>3, <3>6 DEF Row
      <4> QED BY ONLY <3>4, <3>6, <4>1
    <3> QED BY <3>5, <3>6
  <2>2. AtEnd(a, i) <=> a[i + 1] = Star /\ AtEnd(a, i + 1)
    <3>1. \A j : j \in i + 1 .. n <=> (j = i + 1 \/ j \in (i + 1) + 1 .. n)
      BY <1>3
    <3> QED BY <1>1, <3>1 DEF AtEnd
  <2> QED BY <2>1, <2>2
<1>4. M[<<n, m>>] /\ AtEnd(a, n)
  <2>1. n \in 0 .. n
    OBVIOUS
  <2>2. n + 1 .. n = {}
    OBVIOUS
  <2> QED BY <1>1, <1>2, <2>1, <2>2 DEF Row, AtEnd
<1> DEFINE S == {d \in Nat : d <= n => (M[<<n - d, m>>] <=> AtEnd(a, n - d))}
<1>5. 0 \in S
  BY <1>4
<1>6. ASSUME NEW d \in S PROVE d + 1 \in S
  <2> SUFFICES ASSUME d + 1 <= n PROVE M[<<n - (d + 1), m>>] <=> AtEnd(a, n - (d + 1))
    OBVIOUS
  <2>1. PICK i \in 0 .. n : i = n - (d + 1) /\ i < n /\ i + 1 = n - d /\ d <= n
    <3>1. n - (d + 1) \in 0 .. n /\ n - (d + 1) < n /\ n - (d + 1) + 1 = n - d /\ d <= n
      OBVIOUS
    <3> QED BY <3>1
  <2>2. M[<<i + 1, m>>] <=> AtEnd(a, i + 1)
    BY <2>1
  <2> QED BY <1>3, <2>1, <2>2
<1>7. S = Nat
  <2> HIDE DEF S
  <2>1. S \in SUBSET Nat
    BY DEF S
  <2> QED BY <1>5, <1>6, <2>1, NatInd
<1>8. PICK d \in Nat : d = n - p /\ d <= n /\ n - d = p
  <2>1. n - p \in Nat /\ n - p <= n /\ n - (n - p) = p
    BY <1>1
  <2> QED BY <2>1
<1>9. d \in S
  BY <1>7
<1> QED BY <1>1, <1>8, <1>9

\* Between p and q the glob a has no star.
Plainly(a, p, q) == \A i \in p + 1 .. q : a[i] # Star

\* A glob without stars up to q takes what it has of bytes.
LEMMA LiteralRun ==
    ASSUME NEW a \in Seq(Nat), NEW b \in Seq(Nat), NEW M, IsTable(M, a, b),
           NEW p \in 0 .. Len(a), NEW q \in p .. Len(a), NEW l \in 0 .. Len(b), Plainly(a, p, q),
           M[<<p, l>>]
    PROVE  l + (q - p) \in 0 .. Len(b) /\ M[<<q, l + (q - p)>>]
<1>1. PICK n \in Nat, m \in Nat : n = Len(a) /\ m = Len(b)
  OBVIOUS
<1> DEFINE S == {d \in Nat : p + d <= q => l + d \in 0 .. m /\ M[<<p + d, l + d>>]}
<1>2. 0 \in S
  <2>1. p + 0 = p /\ l + 0 = l
    OBVIOUS
  <2> QED BY <1>1, <2>1
<1>3. ASSUME NEW d \in S PROVE d + 1 \in S
  <2> SUFFICES ASSUME p + (d + 1) <= q PROVE l + (d + 1) \in 0 .. m /\ M[<<p + (d + 1), l + (d + 1)>>]
    OBVIOUS
  <2>1. PICK i \in 0 .. n, j \in Nat : i = p + d /\ j = l + d /\ i + 1 = p + (d + 1) /\ j + 1 = l + (d + 1)
                                       /\ i < q /\ i < n /\ i + 1 \in p + 1 .. q
    <3>1. /\ p + d \in 0 .. n /\ l + d \in Nat /\ (p + d) + 1 = p + (d + 1) /\ (l + d) + 1 = l + (d + 1)
          /\ p + d < q /\ p + d < n /\ (p + d) + 1 \in p + 1 .. q
      BY <1>1
    <3> QED BY <3>1
  <2>2. j \in 0 .. m /\ M[<<i, j>>]
    BY <2>1
  <2>3. M[<<i, j>>] = Row(M, a, b, i, j)
    BY <1>1, <2>2 DEF IsTable
  <2>4. a[i + 1] # Star /\ i # n
    <3>1. i + 1 \in p + 1 .. q /\ i # n
      BY <2>1
    <3>2. PICK x \in p + 1 .. q : x = i + 1
      BY <3>1
    <3>3. a[x] # Star
      BY ONLY Plainly(a, p, q), x \in p + 1 .. q DEF Plainly
    <3> QED BY ONLY <3>1, <3>2, <3>3
  <2>5. j < m /\ M[<<i + 1, j + 1>>]
    BY <1>1, <2>2, <2>3, <2>4 DEF Row
  <2>6. j + 1 \in 0 .. m
    BY ONLY <2>2, <2>5, j \in Nat, m \in Nat
  <2> QED BY ONLY <2>1, <2>5, <2>6
<1>4. S = Nat
  <2> HIDE DEF S
  <2>1. S \in SUBSET Nat
    BY DEF S
  <2> QED BY <1>2, <1>3, <2>1, NatInd
<1>5. PICK d \in Nat : d = q - p /\ p + d = q
  <2>1. q - p \in Nat /\ p + (q - p) = q
    BY <1>1
  <2> QED BY <2>1
<1>6. d \in S
  BY <1>4
<1> QED BY <1>1, <1>5, <1>6

\* What is left at a place means what is left of the text, or the run of the last
\* star may be longer.
Hope(M, m, s) == M[<<s.p, s.k>>] \/ (s.sp > 0 /\ \E l \in s.sk + 1 .. m : M[<<s.sp, l>>])

\* What the loop takes, the glob means.
LEMMA MatchesSound ==
    ASSUME NEW a \in Seq(Nat), NEW b \in Seq(Nat), matches(a, b)
    PROVE  Means(a, b)
<1>1. PICK n \in Nat, m \in Nat : n = Len(a) /\ m = Len(b)
  OBVIOUS
<1>2. PICK M : IsTable(M, a, b) /\ (Means(a, b) <=> M[<<0, 0>>])
  BY MeansTable
<1>3. \A i \in 0 .. n, j \in 0 .. m : M[<<i, j>>] = Row(M, a, b, i, j)
  BY <1>1, <1>2 DEF IsTable
<1>4. PICK f : IsRun(f, a, b) /\ matches(a, b) = f[Place(0, 0, 0, 0)]
  BY MatchesRuns
<1>5. PICK T : T = Places(a, b)
  OBVIOUS
<1>6. /\ \A p \in 0 .. n, k \in 0 .. m : \A sp \in 0 .. p, sk \in 0 .. k :
            /\ Place(p, k, sp, sk) \in T
            /\ Place(p, k, sp, sk).p = p /\ Place(p, k, sp, sk).k = k
            /\ Place(p, k, sp, sk).sp = sp /\ Place(p, k, sp, sk).sk = sk
      /\ \A s \in T : /\ s.p \in 0 .. n /\ s.k \in 0 .. m /\ s.sp \in 0 .. s.p /\ s.sk \in 0 .. s.k
                      /\ s = Place(s.p, s.k, s.sp, s.sk)
  BY <1>1, <1>5, PlacesAre
<1> DEFINE G == {s \in T : f[s] => Hope(M, m, s)}
<1>7. ASSUME NEW s \in T PROVE f[s] = Turn(f, a, b, s.p, s.k, s.sp, s.sk)
  <2>1. PICK p \in 0 .. n, k \in 0 .. m : p = s.p /\ k = s.k
    BY <1>6
  <2>2. PICK sp \in 0 .. p, sk \in 0 .. k : sp = s.sp /\ sk = s.sk
    BY <1>6, <2>1
  <2> QED BY <1>1, <1>4, <1>6, <2>1, <2>2 DEF IsRun
<1>8. ASSUME NEW s \in T, s \in Stuck(a, b) \/ Onward(a, b, s) \in G PROVE s \in G
  <2> SUFFICES ASSUME f[s] PROVE Hope(M, m, s)
    OBVIOUS
  <2>1. PICK p \in 0 .. n, k \in 0 .. m : p = s.p /\ k = s.k
    BY <1>6
  <2>2. PICK sp \in 0 .. p, sk \in 0 .. k : sp = s.sp /\ sk = s.sk
    BY <1>6, <2>1
  <2>3. Turn(f, a, b, p, k, sp, sk)
    BY <1>7, <2>1, <2>2
  <2>4. SUFFICES M[<<p, k>>] \/ (sp > 0 /\ \E l \in sk + 1 .. m : M[<<sp, l>>])
    BY <2>1, <2>2 DEF Hope
  <2>5. CASE k = m
    <3>1. AtEnd(a, p)
      BY <1>1, <2>3, <2>5 DEF Turn
    <3> QED BY <1>1, <1>2, <2>5, <3>1, StarsLeft
  <2>6. CASE k # m
    <3>1. s \notin Stuck(a, b)
      <4>1. sp > 0 \/ Literal(a, b, p, k) \/ Starred(a, p)
        BY <1>1, <2>3, <2>6 DEF Turn
      <4>2. s.sp = 0 <=> ~(sp > 0)
        BY <2>2
      <4> QED BY <1>1, <2>1, <2>6, <4>1, <4>2 DEF Stuck
    <3>2. PICK t \in T : t = Onward(a, b, s) /\ (f[t] => Hope(M, m, t))
      BY <1>8, <3>1
    <3>3. CASE Literal(a, b, p, k)
      <4>1. t = Place(p + 1, k + 1, sp, sk) /\ f[t]
        BY <1>1, <2>1, <2>2, <2>3, <2>6, <3>2, <3>3 DEF Onward, Turn
      <4>2. p < n /\ a[p + 1] = b[k + 1]
        BY <1>1, <3>3 DEF Literal
      <4>3. p + 1 \in 0 .. n /\ k + 1 \in 0 .. m /\ sp \in 0 .. p + 1 /\ sk \in 0 .. k + 1
        BY <2>6, <4>2
      <4>4. t.p = p + 1 /\ t.k = k + 1 /\ t.sp = sp /\ t.sk = sk
        BY <1>6, <4>1, <4>3
      <4>5. M[<<p + 1, k + 1>>] \/ (sp > 0 /\ \E l \in sk + 1 .. m : M[<<sp, l>>])
        BY <3>2, <4>1, <4>4 DEF Hope
      <4>6. M[<<p + 1, k + 1>>] => M[<<p, k>>]
        <5>1. k < m /\ k + 1 \in k .. m /\ p # n
          BY <2>6, <4>2
        <5> QED BY <1>1, <1>3, <4>2, <5>1 DEF Row
      <4> QED BY <4>5, <4>6
    <3>4. CASE ~Literal(a, b, p, k) /\ Starred(a, p)
      <4>1. t = Place(p + 1, k, p + 1, k) /\ f[t]
        BY <1>1, <2>1, <2>2, <2>3, <2>6, <3>2, <3>4 DEF Onward, Turn
      <4>2. p < n /\ a[p + 1] = Star
        BY <1>1, <3>4 DEF Starred
      <4>3. p + 1 \in 0 .. n /\ k \in 0 .. m /\ p + 1 \in 0 .. p + 1 /\ k \in 0 .. k
        BY <4>2
      <4>4. t.p = p + 1 /\ t.k = k /\ t.sp = p + 1 /\ t.sk = k
        BY <1>6, <4>1, <4>3
      <4>5. M[<<p + 1, k>>] \/ \E l \in k + 1 .. m : M[<<p + 1, l>>]
        BY <3>2, <4>1, <4>4 DEF Hope
      <4>6. PICK l \in k .. m : M[<<p + 1, l>>]
        <5>1. k \in k .. m /\ \A l \in k + 1 .. m : l \in k .. m
          OBVIOUS
        <5> QED BY <4>5, <5>1
      <4>7. p # n
        BY <4>2
      <4> QED BY <1>1, <1>3, <4>2, <4>6, <4>7 DEF Row
    <3>5. CASE ~Literal(a, b, p, k) /\ ~Starred(a, p)
      <4>1. t = Place(sp, sk + 1, sp, sk + 1) /\ f[t] /\ sp > 0
        BY <1>1, <2>1, <2>2, <2>3, <2>6, <3>2, <3>5 DEF Onward, Turn
      <4>2. sp \in 0 .. n /\ sk + 1 \in 0 .. m /\ sp \in 0 .. sp /\ sk + 1 \in 0 .. sk + 1
        BY <2>6
      <4>3. t.p = sp /\ t.k = sk + 1 /\ t.sp = sp /\ t.sk = sk + 1
        <5>1. PICK x \in 0 .. n, y \in 0 .. m : x = sp /\ y = sk + 1
          BY <4>2
        <5>2. x \in 0 .. x /\ y \in 0 .. y
          OBVIOUS
        <5>3. Place(x, y, x, y).p = x /\ Place(x, y, x, y).k = y /\ Place(x, y, x, y).sp = x /\ Place(x, y, x, y).sk = y
          BY ONLY <1>6, <5>2, x \in 0 .. n, y \in 0 .. m
        <5> QED BY ONLY <4>1, <5>1, <5>3
      <4>4. M[<<sp, sk + 1>>] \/ \E l \in (sk + 1) + 1 .. m : M[<<sp, l>>]
        BY <3>2, <4>1, <4>3 DEF Hope
      <4>5. sk + 1 \in sk + 1 .. m /\ \A l \in (sk + 1) + 1 .. m : l \in sk + 1 .. m
        BY <4>2
      <4> QED BY <4>1, <4>4, <4>5
    <3> QED BY <3>3, <3>4, <3>5
  <2> QED BY <2>5, <2>6
<1>9. \A s \in T : s \in G
  <2> HIDE DEF G
  <2> QED BY <1>5, <1>8, PlaceInduct
<1>10. PICK s \in T : s = Place(0, 0, 0, 0) /\ s.p = 0 /\ s.k = 0 /\ s.sp = 0 /\ s.sk = 0
  BY <1>6
<1>11. f[s] /\ s \in G
  BY <1>4, <1>9, <1>10
<1>12. Hope(M, m, s)
  BY <1>11
<1>13. M[<<0, 0>>]
  <2>1. M[<<s.p, s.k>>]
    BY ONLY <1>10, <1>12 DEF Hope
  <2> QED BY ONLY <1>10, <2>1
<1> QED BY <1>2, <1>13

\* The run of the last star ends at sk, and what follows it has fitted so far.
Fitting(a, b, s) ==
    /\ s.k - s.sk = s.p - s.sp
    /\ Plainly(a, s.sp, s.p)

\* What a glob means, the loop takes, for a text without a star: going back to the
\* last star loses nothing.
LEMMA MatchesComplete ==
    ASSUME NEW a \in Seq(Nat), NEW b \in Seq(Nat), ~HasStar(b), Means(a, b)
    PROVE  matches(a, b)
<1>1. PICK n \in Nat, m \in Nat : n = Len(a) /\ m = Len(b)
  OBVIOUS
<1>2. PICK M : IsTable(M, a, b) /\ (Means(a, b) <=> M[<<0, 0>>])
  BY MeansTable
<1>3. \A i \in 0 .. n, j \in 0 .. m : M[<<i, j>>] = Row(M, a, b, i, j)
  BY <1>1, <1>2 DEF IsTable
<1>4. PICK f : IsRun(f, a, b) /\ matches(a, b) = f[Place(0, 0, 0, 0)]
  BY MatchesRuns
<1>5. PICK T : T = Places(a, b)
  OBVIOUS
<1>6. /\ \A p \in 0 .. n, k \in 0 .. m : \A sp \in 0 .. p, sk \in 0 .. k :
            /\ Place(p, k, sp, sk) \in T
            /\ Place(p, k, sp, sk).p = p /\ Place(p, k, sp, sk).k = k
            /\ Place(p, k, sp, sk).sp = sp /\ Place(p, k, sp, sk).sk = sk
      /\ \A s \in T : /\ s.p \in 0 .. n /\ s.k \in 0 .. m /\ s.sp \in 0 .. s.p /\ s.sk \in 0 .. s.k
                      /\ s = Place(s.p, s.k, s.sp, s.sk)
  BY <1>1, <1>5, PlacesAre
<1>7. ASSUME NEW s \in T PROVE f[s] = Turn(f, a, b, s.p, s.k, s.sp, s.sk)
  <2>1. PICK p \in 0 .. n, k \in 0 .. m : p = s.p /\ k = s.k
    BY <1>6
  <2>2. PICK sp \in 0 .. p, sk \in 0 .. k : sp = s.sp /\ sk = s.sk
    BY <1>6, <2>1
  <2> QED BY <1>1, <1>4, <1>6, <2>1, <2>2 DEF IsRun
<1> DEFINE Hoped(s) == IF s.sp = 0 THEN M[<<s.p, s.k>>] ELSE \E l \in s.sk .. m : M[<<s.sp, l>>]
           G == {s \in T : Fitting(a, b, s) /\ Hoped(s) => f[s]}
<1>8. \A k \in 1 .. m : b[k] # Star
  BY <1>1 DEF HasStar
<1>9. ASSUME NEW s \in T, s \in Stuck(a, b) \/ Onward(a, b, s) \in G PROVE s \in G
  <2> SUFFICES ASSUME Fitting(a, b, s), Hoped(s) PROVE f[s]
    OBVIOUS
  <2>1. PICK p \in 0 .. n, k \in 0 .. m : p = s.p /\ k = s.k
    BY <1>6
  <2>2. PICK sp \in 0 .. p, sk \in 0 .. k : sp = s.sp /\ sk = s.sk
    BY <1>6, <2>1
  <2>3. k - sk = p - sp /\ Plainly(a, sp, p)
    BY <2>1, <2>2 DEF Fitting
  <2>4. sp = 0 => M[<<p, k>>]
    BY <2>1, <2>2
  <2>5. sp > 0 => \E l \in sk .. m : M[<<sp, l>>] /\ M[<<p, l + (p - sp)>>] /\ l + (p - sp) \in k .. m
    <3> SUFFICES ASSUME sp > 0
                 PROVE  \E l \in sk .. m : M[<<sp, l>>] /\ M[<<p, l + (p - sp)>>] /\ l + (p - sp) \in k .. m
      OBVIOUS
    <3>1. PICK l \in sk .. m : M[<<sp, l>>]
      BY <2>2
    <3>2. sp \in 0 .. Len(a) /\ p \in sp .. Len(a) /\ l \in 0 .. Len(b)
      BY <1>1
    <3>3. l + (p - sp) \in 0 .. m /\ M[<<p, l + (p - sp)>>]
      BY <1>1, <1>2, <2>3, <3>1, <3>2, LiteralRun
    <3>4. l + (p - sp) >= k
      BY <2>3
    <3>5. PICK e \in Nat : e = l + (p - sp) /\ e \in 0 .. m /\ M[<<p, e>>] /\ e >= k
      <4>1. l + (p - sp) \in Nat
        BY ONLY <3>3, m \in Nat
      <4> QED BY ONLY <3>3, <3>4, <4>1
    <3>6. e \in k .. m
      BY ONLY <3>5, e \in Nat, k \in 0 .. m
    <3>7. M[<<sp, l>>] /\ M[<<p, l + (p - sp)>>] /\ l + (p - sp) \in k .. m
      BY ONLY <3>1, <3>5, <3>6
    <3> QED BY ONLY <3>7, l \in sk .. m
  <2> HIDE DEF Hoped
  <2>6. f[s] = Turn(f, a, b, p, k, sp, sk)
    BY <1>7, <2>1, <2>2
  <2>7. CASE k = m
    <3>1. M[<<p, m>>]
      <4>1. CASE sp = 0
        BY <2>4, <2>7, <4>1
      <4>2. CASE sp > 0
        <5>1. PICK l \in sk .. m : M[<<p, l + (p - sp)>>] /\ l + (p - sp) \in k .. m
          BY <2>5, <4>2
        <5>2. l + (p - sp) = m
          BY <2>7, <5>1
        <5> QED BY <5>1, <5>2
      <4> QED BY <4>1, <4>2
    <3>2. AtEnd(a, p)
      BY <1>1, <1>2, <3>1, StarsLeft
    <3>3. Turn(f, a, b, p, k, sp, sk) = AtEnd(a, p)
      BY <1>1, <2>7 DEF Turn
    <3> QED BY <2>6, <3>2, <3>3
  <2>8. CASE k # m
    <3>1. k < m /\ k + 1 \in 1 .. m
      BY <2>8
    <3>2. sp > 0 \/ Literal(a, b, p, k) \/ Starred(a, p)
      <4> SUFFICES ASSUME ~(sp > 0), ~Literal(a, b, p, k), ~Starred(a, p) PROVE FALSE
        OBVIOUS
      <4>1. Row(M, a, b, p, k)
        BY <1>3, <2>4
      <4> QED BY <1>1, <2>8, <4>1 DEF Row, Literal, Starred
    <3>3. s \notin Stuck(a, b)
      <4>1. s.sp = 0 <=> ~(sp > 0)
        BY <2>2
      <4> QED BY <1>1, <2>1, <2>8, <3>2, <4>1 DEF Stuck
    <3>4. PICK t \in T : t = Onward(a, b, s) /\ (Fitting(a, b, t) /\ Hoped(t) => f[t])
      BY <1>9, <3>3
    <3>5. CASE Literal(a, b, p, k)
      <4>1. t = Place(p + 1, k + 1, sp, sk) /\ f[s] = f[t]
        BY <1>1, <2>1, <2>2, <2>6, <2>8, <3>4, <3>5 DEF Onward, Turn
      <4>2. p < n /\ a[p + 1] = b[k + 1] /\ a[p + 1] # Star
        BY <1>1, <1>8, <3>1, <3>5 DEF Literal
      <4>3. p + 1 \in 0 .. n /\ k + 1 \in 0 .. m /\ sp \in 0 .. p + 1 /\ sk \in 0 .. k + 1
        BY ONLY <3>1, <4>2, n \in Nat, m \in Nat, p \in 0 .. n, k \in 0 .. m, sp \in 0 .. p, sk \in 0 .. k
      <4>4. t.p = p + 1 /\ t.k = k + 1 /\ t.sp = sp /\ t.sk = sk
        BY ONLY <1>6, <4>1, <4>3
      <4>5. Fitting(a, b, t)
        <5>1. (k + 1) - sk = (p + 1) - sp
          BY <2>3
        <5>2. \A i \in sp + 1 .. p + 1 : i = p + 1 \/ i \in sp + 1 .. p
          OBVIOUS
        <5>3. Plainly(a, sp, p + 1)
          BY <2>3, <4>2, <5>2 DEF Plainly
        <5> QED BY <4>4, <5>1, <5>3 DEF Fitting
      <4>6. Hoped(t)
        <5>1. CASE sp = 0
          <6>1. Row(M, a, b, p, k)
            BY <1>3, <2>4, <5>1
          <6>2. p # n
            BY <4>2
          <6>3. M[<<p + 1, k + 1>>]
            BY <1>1, <4>2, <6>1, <6>2 DEF Row
          <6> QED BY <4>4, <5>1, <6>3 DEF Hoped
        <5>2. CASE sp > 0
          <6>1. \E l \in sk .. m : M[<<sp, l>>]
            BY <2>5, <5>2
          <6>2. sp # 0
            BY <5>2
          <6> QED BY <4>4, <6>1, <6>2 DEF Hoped
        <5> QED BY <5>1, <5>2
      <4> QED BY <3>4, <4>1, <4>5, <4>6
    <3>6. CASE ~Literal(a, b, p, k) /\ Starred(a, p)
      <4>1. t = Place(p + 1, k, p + 1, k) /\ f[s] = f[t]
        BY <1>1, <2>1, <2>2, <2>6, <2>8, <3>4, <3>6 DEF Onward, Turn
      <4>2. p < n /\ a[p + 1] = Star
        BY <1>1, <3>6 DEF Starred
      <4>3. p + 1 \in 0 .. n /\ k \in 0 .. m /\ p + 1 \in 0 .. p + 1 /\ k \in 0 .. k
        BY <4>2
      <4>4. t.p = p + 1 /\ t.k = k /\ t.sp = p + 1 /\ t.sk = k
        BY <1>6, <4>1, <4>3
      <4>5. Fitting(a, b, t)
        <5>1. k - k = (p + 1) - (p + 1) /\ (p + 1) + 1 .. p + 1 = {}
          OBVIOUS
        <5> QED BY <4>4, <5>1 DEF Fitting, Plainly
      <4>6. PICK j \in k .. m : M[<<p, j>>]
        <5>1. CASE sp = 0
          <6>1. k \in k .. m
            BY <3>1
          <6> QED BY <2>4, <5>1, <6>1
        <5>2. CASE sp > 0
          BY <2>5, <5>2
        <5> QED BY <5>1, <5>2
      <4>7. PICK l \in j .. m : M[<<p + 1, l>>]
        <5>1. j \in 0 .. m /\ p # n
          BY <4>2
        <5>2. Row(M, a, b, p, j)
          BY <1>3, <4>6, <5>1
        <5> QED BY <1>1, <4>2, <5>1, <5>2 DEF Row
      <4>8. l \in k .. m /\ p + 1 # 0
        OBVIOUS
      <4>9. Hoped(t)
        BY <4>4, <4>7, <4>8 DEF Hoped
      <4> QED BY <3>4, <4>1, <4>5, <4>9
    <3>7. CASE ~Literal(a, b, p, k) /\ ~Starred(a, p)
      <4>1. t = Place(sp, sk + 1, sp, sk + 1) /\ sp > 0 /\ (f[s] <=> f[t])
        BY <1>1, <2>1, <2>2, <2>6, <2>8, <3>2, <3>4, <3>7 DEF Onward, Turn
      <4>2. t.p = sp /\ t.k = sk + 1 /\ t.sp = sp /\ t.sk = sk + 1
        <5>1. PICK x \in 0 .. n, y \in 0 .. m : x = sp /\ y = sk + 1
          <6>1. sp \in 0 .. n /\ sk + 1 \in 0 .. m
            BY <3>1
          <6> QED BY <6>1
        <5>2. x \in 0 .. x /\ y \in 0 .. y
          OBVIOUS
        <5>3. Place(x, y, x, y).p = x /\ Place(x, y, x, y).k = y /\ Place(x, y, x, y).sp = x /\ Place(x, y, x, y).sk = y
          BY ONLY <1>6, <5>2, x \in 0 .. n, y \in 0 .. m
        <5> QED BY ONLY <4>1, <5>1, <5>3
      <4>3. Fitting(a, b, t)
        <5>1. (sk + 1) - (sk + 1) = sp - sp /\ sp + 1 .. sp = {}
          OBVIOUS
        <5> QED BY <4>2, <5>1 DEF Fitting, Plainly
      <4>4. PICK l \in sk .. m : M[<<sp, l>>] /\ M[<<p, l + (p - sp)>>] /\ l + (p - sp) \in k .. m
        BY <2>5, <4>1
      <4>5. l # sk
        <5> SUFFICES ASSUME l = sk PROVE FALSE
          OBVIOUS
        <5>1. l + (p - sp) = k
          BY <2>3
        <5>2. M[<<p, k>>]
          BY <4>4, <5>1
        <5>3. Row(M, a, b, p, k)
          BY <1>3, <5>2
        <5> QED BY <1>1, <2>8, <3>7, <5>3 DEF Row, Literal, Starred
      <4>6. l \in sk + 1 .. m /\ sp # 0
        BY <4>1, <4>5
      <4>7. Hoped(t)
        BY <4>2, <4>4, <4>6 DEF Hoped
      <4> QED BY <3>4, <4>1, <4>3, <4>7
    <3> QED BY <3>5, <3>6, <3>7
  <2> QED BY <2>7, <2>8
<1>10. \A s \in T : s \in G
  <2> HIDE DEF G
  <2> QED BY <1>5, <1>9, PlaceInduct
<1>11. PICK s \in T : s = Place(0, 0, 0, 0) /\ s.p = 0 /\ s.k = 0 /\ s.sp = 0 /\ s.sk = 0
  BY <1>6
<1>12. Fitting(a, b, s) /\ Hoped(s)
  <2>1. Hoped(s)
    <3>1. M[<<s.p, s.k>>]
      BY ONLY <1>2, <1>11, Means(a, b)
    <3> QED BY ONLY <1>11, <3>1
  <2>2. 0 - 0 = 0 - 0 /\ 0 + 1 .. 0 = {}
    OBVIOUS
  <2>3. Fitting(a, b, s)
    BY ONLY <1>11, <2>2 DEF Fitting, Plainly
  <2> QED BY <2>1, <2>3
<1>13. f[s]
  BY <1>10, <1>12
<1> QED BY <1>4, <1>11, <1>13

-----------------------------------------------------------------------------
(* What the policy decides *)

\* A text is a sequence of numbers.
LEMMA TextIs == ASSUME NEW s \in Text PROVE s \in Seq(Nat) /\ Len(s) \in Nat
<1>1. s \in Seq(Nat)
  BY ONLY s \in Text, SeqMonotonic, 0 .. 244 \subseteq Nat DEF Text
<1> QED BY ONLY <1>1

\* A selector of attributes is the prefix and a glob, which parse takes apart.
LEMMA SelectsIs ==
    ASSUME NEW s \in Text, NEW key
    PROVE  /\ IsPrefix(AttrPrefix, s) /\ Len(s) > 11 => parse(s) = {[kind |-> "attrs", glob |-> SubSeq(s, 12, Len(s))]}
           /\ ~(IsPrefix(AttrPrefix, s) /\ Len(s) > 11) => \A f \in parse(s) : f.kind # "attrs"
           /\ SelectsKey(s, key) <=> /\ IsPrefix(AttrPrefix, s) /\ Len(s) > 11
                                     /\ Means(SubSeq(s, 12, Len(s)), key)
<1>1. AttrPrefix \in Seq(Nat) /\ Len(AttrPrefix) = 11 /\ Len(BodyText) = 4
  BY ONLY DEF AttrPrefix, BodyText
<1>2. s \in Seq(Nat) /\ Len(s) \in Nat
  BY TextIs
<1> DEFINE a == AttrPrefix
<1>3. Len(s) > 11 => s # BodyText
  <2>1. PICK n \in Nat : n = Len(s)
    BY <1>2
  <2>2. s = BodyText => n = 4
    BY ONLY <1>1, <2>1
  <2> QED BY ONLY <2>1, <2>2, n \in Nat
<1>4. IsPrefix(a, s) /\ Len(s) > 11 => parse(s) = {[kind |-> "attrs", glob |-> SubSeq(s, 12, Len(s))]}
  <2>1. Len(a) + 1 = 12
    BY <1>1
  <2> HIDE DEF a
  <2>2. Len(a) = 11
    BY <1>1 DEF a
  <2> QED BY ONLY <1>3, <2>1, <2>2 DEF parse, a
<1>5. ~(IsPrefix(a, s) /\ Len(s) > 11) => \A f \in parse(s) : f.kind # "attrs"
  <2>1. Len(a) = 11
    BY <1>1
  <2> QED BY ONLY <2>1 DEF parse
<1> HIDE DEF a
<1>6. a \in Seq(Nat) /\ Len(a) = 11
  BY <1>1 DEF a
<1>7. SubSeq(a, 1, Len(a)) = a /\ SubSeq(s, 1, Len(s)) = s
  BY ONLY <1>2, <1>6, SubSeqFull
<1>8. IsPrefix(a, s) <=> 11 <= Len(s) /\ a = SubSeq(s, 1, 11)
  BY ONLY <1>2, <1>6, <1>7 DEF IsPrefix
<1>9. SelectsKey(s, key) <=> /\ IsPrefix(a, s) /\ Len(s) > 11
                             /\ Means(SubSeq(s, 12, Len(s)), key)
  <2>1. ASSUME SelectsKey(s, key)
        PROVE  IsPrefix(a, s) /\ Len(s) > 11 /\ Means(SubSeq(s, 12, Len(s)), key)
    <3>1. PICK cut \in 1 .. Len(s) - 1 : SubSeq(s, 1, cut) = a /\ Means(SubSeq(s, cut + 1, Len(s)), key)
      BY <2>1 DEF SelectsKey, a
    <3>2. Len(SubSeq(s, 1, cut)) = cut
      BY ONLY <1>2, cut \in 1 .. Len(s) - 1
    <3>3. cut = 11 /\ cut + 1 = 12 /\ Len(s) > 11
      <4>1. cut = 11
        BY ONLY <1>6, <3>1, <3>2
      <4>2. PICK n \in Nat : n = Len(s)
        BY <1>2
      <4>3. cut \in 1 .. n - 1
        BY ONLY <4>2, cut \in 1 .. Len(s) - 1
      <4>4. n > 11
        BY ONLY <4>1, <4>3, n \in Nat
      <4> QED BY ONLY <4>1, <4>2, <4>4
    <3>4. SubSeq(s, 1, 11) = a /\ Means(SubSeq(s, 12, Len(s)), key)
      BY ONLY <3>1, <3>3
    <3>5. 11 <= Len(s)
      BY ONLY <1>2, <3>3
    <3> QED BY ONLY <1>8, <3>3, <3>4, <3>5
  <2>2. ASSUME IsPrefix(a, s), Len(s) > 11, Means(SubSeq(s, 12, Len(s)), key)
        PROVE  SelectsKey(s, key)
    <3>1. PICK cut \in 1 .. Len(s) - 1 : cut = 11 /\ cut + 1 = 12
      <4>1. 11 \in 1 .. Len(s) - 1 /\ 11 + 1 = 12
        BY ONLY <1>2, <2>2
      <4> QED BY <4>1
    <3>2. SubSeq(s, 1, cut) = a /\ Means(SubSeq(s, cut + 1, Len(s)), key)
      BY ONLY <1>8, <2>2, <3>1
    <3> QED BY ONLY <3>2, cut \in 1 .. Len(s) - 1 DEF SelectsKey, a
  <2> QED BY ONLY <2>1, <2>2
<1> QED BY ONLY <1>4, <1>5, <1>9 DEF a

\* A compiled rule applies to a key that one of its selectors means, and to no
\* other, but that it may miss a key with a star in it.
LEMMA AppliesIs ==
    ASSUME NEW r, r.fields \in Seq(Text), NEW key \in Text
    PROVE  LET written == \E i \in DOMAIN r.fields : SelectsKey(r.fields[i], key)
           IN  /\ applies_to_attr(CompiledRule(r), key) => written
               /\ ~HasStar(key) /\ written => applies_to_attr(CompiledRule(r), key)
<1>1. \A i \in DOMAIN r.fields : r.fields[i] \in Text
  OBVIOUS
<1>2. key \in Seq(Nat)
  BY TextIs
<1> DEFINE Takes(s) == \E f \in parse(s) : f.kind = "attrs" /\ matches(f.glob, key)
<1>3. ASSUME NEW s \in Text
      PROVE  /\ Takes(s) => SelectsKey(s, key)
             /\ ~HasStar(key) /\ SelectsKey(s, key) => Takes(s)
  <2>1. CASE IsPrefix(AttrPrefix, s) /\ Len(s) > 11
    <3>1. PICK g : g = SubSeq(s, 12, Len(s))
      OBVIOUS
    <3>2. g \in Seq(Nat)
      <4>1. s \in Seq(Nat) /\ Len(s) \in Nat
        BY TextIs
      <4> QED BY ONLY <3>1, <4>1
    <3>3. parse(s) = {[kind |-> "attrs", glob |-> g]} /\ (SelectsKey(s, key) <=> Means(g, key))
      BY <2>1, <3>1, SelectsIs
    <3>4. Takes(s) <=> matches(g, key)
      BY <3>3
    <3> QED BY <1>2, <3>2, <3>3, <3>4, MatchesSound, MatchesComplete
  <2>2. CASE ~(IsPrefix(AttrPrefix, s) /\ Len(s) > 11)
    BY <2>2, SelectsIs
  <2> QED BY <2>1, <2>2
<1>4. applies_to_attr(CompiledRule(r), key) <=> \E i \in DOMAIN r.fields : Takes(r.fields[i])
  BY DEF applies_to_attr, CompiledRule
<1> HIDE DEF Takes
<1> QED BY <1>1, <1>3, <1>4

\* A compiled sampling rule matches the records that the rule covers.
LEMMA CoversIs ==
    ASSUME NEW r, r.namespace \in SUBSET Text, IsOption(r.namespace), IsOption(r.severity_lte),
           NEW ns \in SUBSET Text, \A n \in ns : ~HasStar(n), NEW sev
    PROVE  rule_matches(CompiledSampling(r), ns, sev) <=> Covers(r, ns, sev)
<1>1. ASSUME NEW g \in r.namespace, NEW n \in ns PROVE glob_matches(g, n) <=> Means(g, n)
  <2>1. g \in Seq(Nat) /\ n \in Seq(Nat) /\ ~HasStar(n)
    BY TextIs
  <2> QED BY <2>1, MatchesSound, MatchesComplete DEF glob_matches
<1>2. (\A g \in r.namespace : \E n \in ns : glob_matches(g, n))
        <=> r.namespace = {} \/ \E g \in r.namespace, n \in ns : Means(g, n)
  BY <1>1 DEF IsOption
<1>3. (\A max \in {severity_band_max[s.upper] : s \in r.severity_lte} : \E v \in sev : v <= max)
        <=> r.severity_lte = {} \/ \E s \in r.severity_lte, v \in sev : v <= severity_band_max[s.upper]
  BY DEF IsOption
<1>4. /\ CompiledSampling(r).namespace_glob = r.namespace
      /\ CompiledSampling(r).severity_lte = {severity_band_max[s.upper] : s \in r.severity_lte}
  BY DEF CompiledSampling
<1> QED BY ONLY <1>2, <1>3, <1>4 DEF rule_matches, Covers

\* The policy and the rules of redaction that a configuration compiles into.
PolicyOf(c) ==
    [default_target |-> c.default_target % 256,
     rules |-> [n \in DOMAIN c.rules |-> CompiledSampling(c.rules[n])]]
EngineOf(c) == [n \in DOMAIN c.regex_rules |-> CompiledRule(c.regex_rules[n])]

\* An element of a sequence.
LEMMA Within ==
    ASSUME NEW R, NEW s \in Seq(R), NEW n \in DOMAIN s
    PROVE  s[n] \in R
OBVIOUS

\* What the rules of a configuration are made of.
LEMMA RulesAre ==
    ASSUME NEW c, IsConfig(c)
    PROVE  /\ \A n \in DOMAIN c.rules : /\ c.rules[n].namespace \in SUBSET Text
                                        /\ IsOption(c.rules[n].namespace) /\ IsOption(c.rules[n].severity_lte)
           /\ \A n \in DOMAIN c.regex_rules : c.regex_rules[n].fields \in Seq(Text)
<1>1. ASSUME NEW n \in DOMAIN c.rules
      PROVE  c.rules[n] \in [namespace : SUBSET Text, severity_lte : SUBSET [upper : STRING, text : Text],
                            target : U16]
  BY Within DEF IsConfig
<1>2. ASSUME NEW n \in DOMAIN c.regex_rules
      PROVE  c.regex_rules[n] \in
                 [name : Text, pattern : [text : Text, nested : BOOLEAN, plain : BOOLEAN, compiles : BOOLEAN],
                  mask : Text, fields : Seq(Text)]
  BY Within DEF IsConfig
<1>3. ASSUME NEW n \in DOMAIN c.rules PROVE c.rules[n].namespace \in SUBSET Text
  BY <1>1
<1>4. ASSUME NEW n \in DOMAIN c.regex_rules PROVE c.regex_rules[n].fields \in Seq(Text)
  BY <1>2
<1> QED BY <1>3, <1>4 DEF IsConfig

\* The first rule that covers a record sets its target, or else the default does.
LEMMA ResolveIs ==
    ASSUME IsConfig(config), ~Defect(config, "TargetOutOfRange"),
           NEW ns \in SUBSET Text, \A n \in ns : ~HasStar(n), NEW sev
    PROVE  \/ TargetFor(ns, sev) = {resolve(PolicyOf(config), ns, sev)}
           \/ TargetFor(ns, sev) = {} /\ resolve(PolicyOf(config), ns, sev) = config.default_target
<1> DEFINE p == PolicyOf(config)
           taken == {n \in DOMAIN config.rules : Covers(config.rules[n], ns, sev)}
           first == {k \in DOMAIN config.rules : /\ Covers(config.rules[k], ns, sev)
                                                 /\ \A j \in 1 .. k - 1 : ~Covers(config.rules[j], ns, sev)}
<1>1. /\ p.default_target = config.default_target % 256
      /\ DOMAIN p.rules = DOMAIN config.rules
      /\ \A n \in DOMAIN config.rules : p.rules[n] = CompiledSampling(config.rules[n])
  BY DEF PolicyOf
<1>2. /\ config.default_target \in 0 .. 100
      /\ \A n \in DOMAIN config.rules : config.rules[n].target \in 0 .. 100
  BY DefectIs
<1>3. \A x \in 0 .. 100 : x % 256 = x
  OBVIOUS
<1>4. PICK len \in Nat : DOMAIN config.rules = 1 .. len
  BY DEF IsConfig
<1>5. ASSUME NEW n \in DOMAIN config.rules
      PROVE  rule_matches(p.rules[n], ns, sev) <=> Covers(config.rules[n], ns, sev)
  <2>1. PICK r : r = config.rules[n]
    OBVIOUS
  <2>2. r.namespace \in SUBSET Text /\ IsOption(r.namespace) /\ IsOption(r.severity_lte)
    BY <2>1, RulesAre
  <2>3. rule_matches(CompiledSampling(r), ns, sev) <=> Covers(r, ns, sev)
    BY <2>2, CoversIs
  <2> QED BY <1>1, <2>1, <2>3
<1>6. ASSUME NEW n \in DOMAIN config.rules PROVE p.rules[n].target = config.rules[n].target
  <2>1. p.rules[n].target = config.rules[n].target % 256
    <3>1. PICK r : r = config.rules[n]
      OBVIOUS
    <3>2. CompiledSampling(r).target = r.target % 256
      BY ONLY DEF CompiledSampling
    <3> QED BY ONLY <1>1, <3>1, <3>2, n \in DOMAIN config.rules
  <2> QED BY <1>2, <1>3, <2>1
<1> HIDE DEF p
<1>7. {n \in DOMAIN p.rules : rule_matches(p.rules[n], ns, sev)} = taken
  BY <1>1, <1>5
<1>8. resolve(p, ns, sev) = IF taken = {} THEN p.default_target ELSE p.rules[Min(taken)].target
  BY <1>7 DEF resolve
<1>9. TargetFor(ns, sev) = {config.rules[n].target : n \in first}
  BY DEF TargetFor
<1>10. CASE taken = {}
  <2>1. first = {}
    BY ONLY <1>10
  <2>2. resolve(p, ns, sev) = config.default_target
    BY ONLY <1>1, <1>2, <1>3, <1>8, <1>10
  <2> QED BY <1>9, <2>1, <2>2 DEF p
<1>11. CASE taken # {}
  <2>1. taken \in SUBSET Nat
    BY <1>4
  <2>2. PICK m : m = Min(taken)
    OBVIOUS
  <2>3. m \in taken /\ \A y \in taken : m <= y
    <3> HIDE DEF taken
    <3> QED BY <1>11, <2>1, <2>2, Smallest
  <2>4. m \in DOMAIN config.rules /\ m \in Nat
    BY <2>1, <2>3
  <2>5. m \in first
    <3>1. ASSUME NEW j \in 1 .. m - 1 PROVE ~Covers(config.rules[j], ns, sev)
      <4>1. m \in 1 .. len
        BY <1>4, <2>4
      <4>2. j \in 1 .. len /\ ~(m <= j)
        BY ONLY <4>1, len \in Nat, j \in 1 .. m - 1
      <4> QED BY <1>4, <2>3, <4>2
    <3> QED BY <2>3, <3>1
  <2>6. ASSUME NEW k \in first PROVE k = m
    <3>1. m <= k /\ k \in 1 .. len /\ m \in 1 .. len
      BY <1>4, <2>3, <2>4
    <3>2. ~(m \in 1 .. k - 1)
      BY <2>3
    <3> QED BY ONLY <3>1, <3>2, len \in Nat
  <2>7. first = {m}
    <3> HIDE DEF first
    <3> QED BY ONLY <2>5, <2>6
  <2>8. TargetFor(ns, sev) = {config.rules[m].target}
    BY ONLY <1>9, <2>7
  <2>9. resolve(p, ns, sev) = config.rules[m].target
    BY ONLY <1>6, <1>8, <1>11, <2>2, <2>4
  <2> QED BY <2>8, <2>9 DEF p
<1> QED BY <1>10, <1>11

\* The rules that apply to a key are those whose selectors mean it.
LEMMA EngineIs ==
    ASSUME IsConfig(config), NEW key \in Text
    PROVE  LET taken == {n \in DOMAIN EngineOf(config) : applies_to_attr(EngineOf(config)[n], key)}
           IN  /\ taken \subseteq RulesFor(key)
               /\ ~HasStar(key) => RulesFor(key) \subseteq taken
<1>1. /\ DOMAIN EngineOf(config) = DOMAIN config.regex_rules
      /\ \A n \in DOMAIN config.regex_rules : EngineOf(config)[n] = CompiledRule(config.regex_rules[n])
  BY DEF EngineOf
<1>2. ASSUME NEW n \in DOMAIN config.regex_rules
      PROVE  /\ applies_to_attr(EngineOf(config)[n], key) => n \in RulesFor(key)
             /\ ~HasStar(key) /\ n \in RulesFor(key) => applies_to_attr(EngineOf(config)[n], key)
  <2>1. PICK r : r = config.regex_rules[n]
    OBVIOUS
  <2>2. r.fields \in Seq(Text)
    BY <2>1, RulesAre
  <2>3. n \in RulesFor(key) <=> \E i \in DOMAIN r.fields : SelectsKey(r.fields[i], key)
    BY <2>1 DEF RulesFor
  <2>4. EngineOf(config)[n] = CompiledRule(r)
    BY <1>1, <2>1
  <2> QED BY <2>2, <2>3, <2>4, AppliesIs
<1>3. RulesFor(key) \subseteq DOMAIN config.regex_rules
  BY DEF RulesFor
<1> QED BY <1>1, <1>2, <1>3

-----------------------------------------------------------------------------
(* The inductive invariant *)

\* How far a start has come: there is a configuration, its severities are known,
\* its redaction policy has compiled, its addresses have been read.
Running   == pc \notin {"down", "load", "failed"}
Sampling  == pc \in {"redaction", "addresses", "bind_http", "bind_grpc", "spool", "serving"}
Redacting == pc \in {"addresses", "bind_http", "bind_grpc", "spool", "serving"}
Addressed == pc \in {"bind_http", "bind_grpc", "spool", "serving"}

\* What the agent runs under is the default, or what its file says, and has been
\* validated.
OriginInv ==
    /\ source \in Files \cup {NoFile} /\ IsConfig(config)
    /\ Running => /\ source = NoFile => config = DefaultConfig
                  /\ source # NoFile => source.kind = "yaml" /\ config = source.config
                  /\ \A err \in Validated : ~Defect(config, err)

\* Each stage passed has ruled out its defects.
StageInv ==
    /\ Sampling => ~Defect(config, "UnknownSeverity")
    /\ Redacting => \A err \in Compiled : ~Defect(config, err)
    /\ Addressed => ~Defect(config, "http_endpoint") /\ ~Defect(config, "grpc_endpoint")

\* Failing, which the agent does only on its way up, takes the sockets with it.
LEMMA FailIs ==
    ASSUME TypeOK, OriginInv, NEW err, err # "none", pc # "serving", Fail(err)
    PROVE  TypeOK' /\ OriginInv'
<1>1. TypeOK'
  BY DEF TypeOK, Fail, built, PCs
<1>2. OriginInv'
  BY DEF OriginInv, Fail, Running, built
<1> QED BY <1>1, <1>2

\* A percentage keeps its value when it narrows to a byte.
LEMMA Narrowed ==
    ASSUME NEW c, IsConfig(c), ~Defect(c, "TargetOutOfRange")
    PROVE  /\ c.default_target % 256 \in 0 .. 100
           /\ \A n \in DOMAIN c.rules : c.rules[n].target % 256 \in 0 .. 100
<1>1. c.default_target \in 0 .. 100 /\ \A n \in DOMAIN c.rules : c.rules[n].target \in 0 .. 100
  BY DefectIs
<1>2. \A x \in 0 .. 100 : x % 256 \in 0 .. 100
  OBVIOUS
<1> QED BY ONLY <1>1, <1>2

\* Every step keeps the types, and keeps to what the file says.
LEMMA OriginStep ==
    ASSUME TypeOK, OriginInv, [Next]_vars
    PROVE  TypeOK' /\ OriginInv'
<1>1. \A f \in Files : f # NoFile /\ IsConfig(f.config)
  BY StartupAssumption
<1>2. CASE UNCHANGED vars
  <2>1. TypeOK'
    BY <1>2 DEF TypeOK, vars, built
  <2>2. OriginInv'
    BY <1>2 DEF OriginInv, Running, vars, built
  <2> QED BY <2>1, <2>2
<1>3. CASE Launch
  <2>1. source' \in Files \cup {NoFile}
    BY <1>3, StartupAssumption DEF Launch
  <2>2. OriginInv'
    BY <1>3, <2>1, DefaultSound DEF OriginInv, Running, Launch
  <2>3. starts' \in 0 .. MaxStarts
    BY <1>3, StartupAssumption DEF Launch, TypeOK
  <2>4. /\ policy'.default_target \in 0 .. 100
        /\ \A n \in DOMAIN policy'.rules : policy'.rules[n].target \in 0 .. 100
    BY <1>3 DEF Launch, NoPolicy
  <2>5. TypeOK'
    BY <1>3, <2>3, <2>4 DEF Launch, TypeOK, PCs
  <2> QED BY <2>2, <2>5
<1>4. CASE LoadDefault
  <2>1. TypeOK'
    BY <1>4 DEF LoadDefault, TypeOK, PCs, built
  <2>2. \A err \in Validated : ~Defect(DefaultConfig, err)
    BY DefaultSound DEF Validated, Errors
  <2>3. OriginInv'
    BY <1>4, <2>2, DefaultSound DEF LoadDefault, OriginInv, Running
  <2> QED BY <2>1, <2>3
<1>5. CASE Load
  <2>1. TypeOK'
    BY <1>5 DEF Load, TypeOK, PCs, built
  <2>2. source \in Files /\ IsConfig(source.config)
    BY <1>1, <1>5 DEF Load, OriginInv
  <2>3. \A err \in Validated : ~Defect(source.config, err)
    BY <1>5, <2>2, ValidateIs DEF Load, Validated
  <2>4. OriginInv'
    BY <1>5, <2>2, <2>3 DEF Load, OriginInv, Running
  <2> QED BY <2>1, <2>4
<1>6. CASE LoadFails
  <2>1. PICK err : err # "none" /\ Fail(err)
    BY <1>6 DEF LoadFails
  <2> QED BY <1>6, <2>1, FailIs DEF LoadFails
<1>7. CASE Fingerprint
  <2>1. TypeOK'
    BY <1>7 DEF Fingerprint, TypeOK, PCs
  <2>2. OriginInv'
    BY <1>7 DEF Fingerprint, OriginInv, Running
  <2> QED BY <2>1, <2>2
<1>8. CASE BuildSampling
  <2>1. ~Defect(config, "TargetOutOfRange") /\ IsConfig(config)
    BY <1>8 DEF BuildSampling, OriginInv, Running, Validated
  <2>2. /\ policy'.default_target \in 0 .. 100
        /\ \A n \in DOMAIN policy'.rules : policy'.rules[n].target \in 0 .. 100
    <3> DEFINE r == [n \in DOMAIN config.rules |-> CompiledSampling(config.rules[n])]
    <3>1. policy' = [default_target |-> config.default_target % 256, rules |-> r]
      BY <1>8 DEF BuildSampling
    <3>2. \A n \in DOMAIN config.rules : r[n].target = config.rules[n].target % 256
      BY DEF CompiledSampling
    <3>3. DOMAIN r = DOMAIN config.rules
      OBVIOUS
    <3> HIDE DEF r
    <3>4. policy'.default_target = config.default_target % 256 /\ policy'.rules = r
      BY ONLY <3>1
    <3>5. /\ config.default_target % 256 \in 0 .. 100
          /\ \A n \in DOMAIN config.rules : config.rules[n].target % 256 \in 0 .. 100
      BY <2>1, Narrowed
    <3> QED BY ONLY <3>2, <3>3, <3>4, <3>5
  <2>3. TypeOK'
    BY <1>8, <2>2 DEF BuildSampling, TypeOK, PCs
  <2>4. OriginInv'
    BY <1>8 DEF BuildSampling, OriginInv, Running
  <2> QED BY <2>3, <2>4
<1>9. CASE BuildSamplingFails
  BY <1>9, FailIs DEF BuildSamplingFails
<1>10. CASE BuildRedaction
  <2>1. TypeOK'
    BY <1>10 DEF BuildRedaction, TypeOK, PCs
  <2>2. OriginInv'
    BY <1>10 DEF BuildRedaction, OriginInv, Running
  <2> QED BY <2>1, <2>2
<1>11. CASE BuildRedactionFails
  BY <1>11, FailIs DEF BuildRedactionFails
<1>12. CASE Addresses
  <2>1. TypeOK'
    BY <1>12 DEF Addresses, TypeOK, PCs, built
  <2>2. OriginInv'
    BY <1>12 DEF Addresses, OriginInv, Running
  <2> QED BY <2>1, <2>2
<1>13. CASE AddressesFail
  BY <1>13, FailIs DEF AddressesFail
<1>14. CASE BindHttp
  <2>1. CASE Fail("bind")
    BY <1>14, <2>1, FailIs DEF BindHttp, Bind
  <2>2. CASE bound' = bound \cup {config.http_endpoint} /\ pc' = "bind_grpc"
                /\ UNCHANGED <<error, starts, source, config, built, spool, probe, seen>>
    <3>1. TypeOK'
      BY <1>14, <2>2 DEF BindHttp, Bind, TypeOK, PCs, built
    <3>2. OriginInv'
      BY <1>14, <2>2 DEF BindHttp, Bind, OriginInv, Running
    <3> QED BY <3>1, <3>2
  <2> QED BY <1>14, <2>1, <2>2 DEF BindHttp, Bind
<1>15. CASE BindGrpc
  <2>1. CASE Fail("bind")
    BY <1>15, <2>1, FailIs DEF BindGrpc, Bind
  <2>2. CASE bound' = bound \cup {config.grpc_endpoint} /\ pc' = "spool"
                /\ UNCHANGED <<error, starts, source, config, built, spool, probe, seen>>
    <3>1. TypeOK'
      BY <1>15, <2>2 DEF BindGrpc, Bind, TypeOK, PCs, built
    <3>2. OriginInv'
      BY <1>15, <2>2 DEF BindGrpc, Bind, OriginInv, Running
    <3> QED BY <3>1, <3>2
  <2> QED BY <1>15, <2>1, <2>2 DEF BindGrpc, Bind
<1>16. CASE OpenSpool
  <2>1. TypeOK'
    BY <1>16 DEF OpenSpool, TypeOK, PCs, built
  <2>2. OriginInv'
    BY <1>16 DEF OpenSpool, OriginInv, Running
  <2> QED BY <2>1, <2>2
<1>17. ASSUME NEW key \in Keys, GovernAttr(key) PROVE TypeOK' /\ OriginInv'
  <2>1. TypeOK'
    BY <1>17 DEF GovernAttr, TypeOK, built
  <2>2. OriginInv'
    BY <1>17 DEF GovernAttr, OriginInv, Running
  <2> QED BY <2>1, <2>2
<1>18. ASSUME NEW ns, NEW sev, GovernRecord(ns, sev) PROVE TypeOK' /\ OriginInv'
  <2>1. TypeOK'
    BY <1>18 DEF GovernRecord, TypeOK, built
  <2>2. OriginInv'
    BY <1>18 DEF GovernRecord, OriginInv, Running
  <2> QED BY <2>1, <2>2
<1>19. CASE Stop
  <2>1. TypeOK'
    BY <1>19 DEF Stop, TypeOK, PCs, built
  <2>2. OriginInv'
    BY <1>19 DEF Stop, OriginInv, Running
  <2> QED BY <2>1, <2>2
<1> QED
  BY <1>2, <1>3, <1>4, <1>5, <1>6, <1>7, <1>8, <1>9, <1>10, <1>11, <1>12, <1>13, <1>14, <1>15,
     <1>16, <1>17, <1>18, <1>19 DEF Next

\* A defect of a running configuration is one of the file's.
LEMMA InTheFile ==
    ASSUME OriginInv, Running, NEW err \in Errors, Defect(config, err)
    PROVE  source # NoFile /\ Defect(source.config, err)
BY DefaultSound DEF OriginInv

\* Failing for a reason the file gives.
LEMMA FailTruthfully ==
    ASSUME StageInv, NEW err, Fail(err),
           err \in Errors => source # NoFile /\ Defect(source.config, err),
           err = "Io" => source.kind = "missing", err = "Parse" => source.kind = "malformed"
    PROVE  StageInv' /\ ErrorTruthful'
<1>1. StageInv'
  BY DEF Fail, StageInv, Sampling, Redacting, Addressed
<1>2. ErrorTruthful'
  BY DEF Fail, ErrorTruthful
<1> QED BY <1>1, <1>2

\* The redaction policy of a running configuration compiles if it has no defect,
\* and is turned away for one it has.
LEMMA CompileRunning ==
    ASSUME OriginInv, Running
    PROVE  \/ compile(config) = "none" /\ \A err \in Compiled : ~Defect(config, err)
           \/ compile(config) \in Compiled /\ Defect(config, compile(config))
BY CompileIs DEF OriginInv

\* Every step that passes a stage has ruled out its defects, and every step that
\* fails names one.
LEMMA StageStep ==
    ASSUME TypeOK, OriginInv, StageInv, ErrorTruthful, [Next]_vars
    PROVE  StageInv' /\ ErrorTruthful'
<1> DEFINE Same == error' = error /\ source' = source
<1>1. Same => ErrorTruthful'
  BY DEF ErrorTruthful
<1>2. CASE UNCHANGED vars
  BY <1>1, <1>2 DEF StageInv, Sampling, Redacting, Addressed, vars, built
<1>3. CASE Launch
  <2>1. StageInv'
    BY <1>3 DEF Launch, StageInv, Sampling, Redacting, Addressed
  <2>2. error' = "none"
    BY <1>3 DEF Launch, TypeOK
  <2> QED BY <2>1, <2>2 DEF ErrorTruthful, Errors
<1>4. CASE LoadDefault
  BY <1>1, <1>4 DEF LoadDefault, StageInv, Sampling, Redacting, Addressed
<1>5. CASE Load
  BY <1>1, <1>5 DEF Load, StageInv, Sampling, Redacting, Addressed
<1>6. CASE LoadFails
  <2>1. source \in Files /\ IsConfig(source.config)
    BY <1>6, StartupAssumption DEF LoadFails, OriginInv
  <2>2. CASE source.kind = "missing" /\ Fail("Io")
    BY <2>2, FailTruthfully DEF Errors
  <2>3. CASE source.kind = "malformed" /\ Fail("Parse")
    BY <2>3, FailTruthfully DEF Errors
  <2>4. CASE validate(source.config) # "none" /\ Fail(validate(source.config))
    <3>1. PICK err : err = validate(source.config)
      OBVIOUS
    <3>2. err \in Validated /\ Defect(source.config, err)
      BY <2>1, <2>4, <3>1, ValidateIs
    <3>3. err # "Io" /\ err # "Parse"
      BY <3>2 DEF Validated
    <3> QED BY <1>6, <2>4, <3>1, <3>2, <3>3, FailTruthfully DEF LoadFails
  <2> QED BY <1>6, <2>2, <2>3, <2>4 DEF LoadFails
<1>7. CASE Fingerprint
  BY <1>1, <1>7 DEF Fingerprint, StageInv, Sampling, Redacting, Addressed
<1>8. CASE BuildSampling
  <2>1. ~Defect(config, "UnknownSeverity")
    BY <1>8, DefectIs DEF BuildSampling
  <2> QED BY <1>1, <1>8, <2>1 DEF BuildSampling, StageInv, Sampling, Redacting, Addressed
<1>9. CASE BuildSamplingFails
  <2>1. Fail("UnknownSeverity") /\ Running /\ Defect(config, "UnknownSeverity")
    BY <1>9, DefectIs DEF BuildSamplingFails, Running
  <2>2. source # NoFile /\ Defect(source.config, "UnknownSeverity")
    BY <2>1, InTheFile DEF Errors
  <2> QED BY <2>1, <2>2, FailTruthfully
<1>10. CASE BuildRedaction
  <2>1. \A err \in Compiled : ~Defect(config, err)
    BY <1>10, CompileRunning DEF BuildRedaction, Running, Compiled
  <2> QED BY <1>1, <1>10, <2>1 DEF BuildRedaction, StageInv, Sampling, Redacting, Addressed
<1>11. CASE BuildRedactionFails
  <2>1. PICK err : err = compile(config)
    OBVIOUS
  <2>2. Running /\ Fail(err) /\ err # "none"
    BY <1>11, <2>1 DEF BuildRedactionFails, Running
  <2>3. err \in Compiled /\ Defect(config, err)
    BY <2>1, <2>2, CompileRunning
  <2>4. err \in Errors /\ err # "Io" /\ err # "Parse"
    BY <2>3 DEF Compiled, Errors
  <2>5. source # NoFile /\ Defect(source.config, err)
    BY <2>2, <2>3, <2>4, InTheFile
  <2> QED BY <2>2, <2>4, <2>5, FailTruthfully
<1>12. CASE Addresses
  <2>1. ~Defect(config, "http_endpoint") /\ ~Defect(config, "grpc_endpoint")
    BY <1>12, DefectIs DEF Addresses
  <2> QED BY <1>1, <1>12, <2>1 DEF Addresses, StageInv, Sampling, Redacting, Addressed
<1>13. CASE AddressesFail
  <2>1. PICK err \in {"http_endpoint", "grpc_endpoint"} : Fail(err) /\ Defect(config, err)
    BY <1>13, DefectIs DEF AddressesFail
  <2>2. source # NoFile /\ Defect(source.config, err)
    BY <1>13, <2>1, InTheFile DEF AddressesFail, Running, Errors
  <2> QED BY <2>1, <2>2, FailTruthfully
<1>14. CASE BindHttp
  <2>1. CASE Fail("bind")
    BY <2>1, FailTruthfully DEF Errors
  <2>2. CASE pc' = "bind_grpc" /\ UNCHANGED <<error, starts, source, config, built, spool, probe, seen>>
    BY <1>1, <1>14, <2>2 DEF BindHttp, Bind, StageInv, Sampling, Redacting, Addressed
  <2> QED BY <1>14, <2>1, <2>2 DEF BindHttp, Bind
<1>15. CASE BindGrpc
  <2>1. CASE Fail("bind")
    BY <2>1, FailTruthfully DEF Errors
  <2>2. CASE pc' = "spool" /\ UNCHANGED <<error, starts, source, config, built, spool, probe, seen>>
    BY <1>1, <1>15, <2>2 DEF BindGrpc, Bind, StageInv, Sampling, Redacting, Addressed
  <2> QED BY <1>15, <2>1, <2>2 DEF BindGrpc, Bind
<1>16. CASE OpenSpool
  BY <1>1, <1>16 DEF OpenSpool, StageInv, Sampling, Redacting, Addressed
<1>17. ASSUME NEW key \in Keys, GovernAttr(key) PROVE StageInv' /\ ErrorTruthful'
  BY <1>1, <1>17 DEF GovernAttr, StageInv, Sampling, Redacting, Addressed
<1>18. ASSUME NEW ns, NEW sev, GovernRecord(ns, sev) PROVE StageInv' /\ ErrorTruthful'
  BY <1>1, <1>18 DEF GovernRecord, StageInv, Sampling, Redacting, Addressed
<1>19. CASE Stop
  BY <1>1, <1>19 DEF Stop, StageInv, Sampling, Redacting, Addressed
<1> QED
  BY <1>2, <1>3, <1>4, <1>5, <1>6, <1>7, <1>8, <1>9, <1>10, <1>11, <1>12, <1>13, <1>14, <1>15,
     <1>16, <1>17, <1>18, <1>19 DEF Next

\* The version is the fingerprint of the configuration from its computation on,
\* and of every policy that has served.
Versioned == pc \in {"sampling", "redaction", "addresses", "bind_http", "bind_grpc", "spool"}
VersionInv ==
    /\ Versioned => policy_version = policy_fingerprint(config)
    /\ \A x \in seen : IsConfig(x[2]) /\ PlainPolicy(x[2]) /\ x[1] = policy_fingerprint(x[2])

\* The configuration that runs is plain, the default one included.
LEMMA RunsPlain ==
    ASSUME NoZeros, OriginInv, Running
    PROVE  IsConfig(config) /\ PlainPolicy(config)
<1>1. CASE source = NoFile
  <2>1. config.rules = <<>> /\ config.regex_rules = <<>>
    BY <1>1 DEF OriginInv, DefaultConfig
  <2>2. DOMAIN config.rules = {} /\ DOMAIN config.regex_rules = {}
    BY <2>1
  <2> QED BY <2>2 DEF PlainPolicy, OriginInv
<1>2. CASE source # NoFile
  BY <1>2 DEF OriginInv, NoZeros
<1> QED BY <1>1, <1>2

\* Every step keeps the version of the running policy, and of those before it.
LEMMA VersionStep ==
    ASSUME NoZeros, OriginInv, VersionInv, [Next]_vars
    PROVE  VersionInv'
<1>1. ASSUME UNCHANGED <<pc, config, policy_version, seen>> PROVE VersionInv'
  BY <1>1 DEF VersionInv, Versioned
<1>2. ASSUME UNCHANGED seen, pc' \notin {"sampling", "redaction", "addresses", "bind_http", "bind_grpc", "spool"}
      PROVE  VersionInv'
  BY <1>2 DEF VersionInv, Versioned
<1>3. ASSUME Versioned, UNCHANGED <<config, policy_version, seen>> PROVE VersionInv'
  BY <1>3 DEF VersionInv
<1>4. ASSUME NEW err, Fail(err) PROVE VersionInv'
  BY <1>2, <1>4 DEF Fail
<1>5. CASE UNCHANGED vars
  BY <1>1, <1>5 DEF vars, built
<1>6. CASE Launch \/ LoadDefault \/ Load \/ Stop
  BY <1>2, <1>6 DEF Launch, LoadDefault, Load, Stop
<1>7. CASE LoadFails
  BY <1>4, <1>7 DEF LoadFails
<1>8. CASE Fingerprint
  BY <1>8 DEF Fingerprint, VersionInv
<1>9. CASE BuildSampling
  BY <1>3, <1>9 DEF BuildSampling, Versioned
<1>10. CASE BuildSamplingFails \/ BuildRedactionFails \/ AddressesFail
  BY <1>4, <1>10 DEF BuildSamplingFails, BuildRedactionFails, AddressesFail
<1>11. CASE BuildRedaction \/ Addresses
  BY <1>3, <1>11 DEF BuildRedaction, Addresses, Versioned, built
<1>12. CASE BindHttp \/ BindGrpc
  BY <1>3, <1>4, <1>12 DEF BindHttp, BindGrpc, Bind, Versioned, built
<1>13. CASE OpenSpool
  <2>1. /\ pc = "spool" /\ pc' = "serving" /\ seen' = seen \cup {<<policy_version, config>>}
    BY <1>13 DEF OpenSpool
  <2>2. policy_version = policy_fingerprint(config)
    BY <2>1 DEF VersionInv, Versioned
  <2>3. IsConfig(config) /\ PlainPolicy(config)
    BY <2>1, RunsPlain DEF Running
  <2>4. \A x \in seen' : IsConfig(x[2]) /\ PlainPolicy(x[2]) /\ x[1] = policy_fingerprint(x[2])
    BY <2>1, <2>2, <2>3 DEF VersionInv
  <2> QED BY <2>1, <2>4 DEF VersionInv, Versioned
<1>14. ASSUME NEW key \in Keys, GovernAttr(key) PROVE VersionInv'
  BY <1>1, <1>14 DEF GovernAttr, built
<1>15. ASSUME NEW ns, NEW sev, GovernRecord(ns, sev) PROVE VersionInv'
  BY <1>1, <1>15 DEF GovernRecord, built
<1> QED
  BY <1>5, <1>6, <1>7, <1>8, <1>9, <1>10, <1>11, <1>12, <1>13, <1>14, <1>15 DEF Next

\* What serves is compiled from the configuration, and nothing is decided before.
PolicyInv ==
    /\ Sampling => policy = PolicyOf(config)
    /\ Redacting => engine = EngineOf(config)
    /\ pc # "serving" => probe = NoProbe
    /\ GovernsAsWritten

\* Before anything is decided there is nothing to hold.
LEMMA NothingDecided ==
    ASSUME probe' = NoProbe
    PROVE  GovernsAsWritten'
BY DEF GovernsAsWritten, NoProbe

\* Every step keeps the policy to the configuration, and decides by it.
LEMMA PolicyStep ==
    ASSUME TypeOK, OriginInv, PolicyInv, [Next]_vars
    PROVE  PolicyInv'
<1>1. ASSUME UNCHANGED <<pc, config, policy, engine, probe>> PROVE PolicyInv'
  <2>1. GovernsAsWritten'
    BY <1>1 DEF PolicyInv, GovernsAsWritten, RulesFor, TargetFor
  <2> QED BY <1>1, <2>1 DEF PolicyInv, Sampling, Redacting
<1>2. ASSUME probe' = NoProbe, pc' \in {"down", "load", "fingerprint", "sampling", "failed"} PROVE PolicyInv'
  BY <1>2, NothingDecided DEF PolicyInv, Sampling, Redacting
<1>3. ASSUME probe' = NoProbe, Redacting, pc' # "failed", UNCHANGED <<config, policy, engine>> PROVE PolicyInv'
  BY <1>3, NothingDecided DEF PolicyInv, Sampling, Redacting
<1>4. ASSUME NEW err, Fail(err), pc # "serving" PROVE PolicyInv'
  BY <1>2, <1>4 DEF Fail, PolicyInv
<1>5. CASE UNCHANGED vars
  BY <1>1, <1>5 DEF vars, built
<1>6. CASE Launch \/ LoadDefault \/ Load \/ Fingerprint \/ Stop
  BY <1>2, <1>6 DEF Launch, LoadDefault, Load, Fingerprint, Stop, PolicyInv
<1>7. CASE LoadFails
  BY <1>4, <1>7 DEF LoadFails
<1>8. CASE BuildSampling
  <2>1. pc' = "redaction" /\ policy' = PolicyOf(config) /\ config' = config /\ probe' = NoProbe
    BY <1>8 DEF BuildSampling, PolicyOf, PolicyInv
  <2> QED BY <2>1, NothingDecided DEF PolicyInv, Redacting
<1>9. CASE BuildSamplingFails \/ BuildRedactionFails \/ AddressesFail
  BY <1>4, <1>9 DEF BuildSamplingFails, BuildRedactionFails, AddressesFail
<1>10. CASE BuildRedaction
  <2>1. /\ pc' = "addresses" /\ engine' = EngineOf(config) /\ config' = config /\ probe' = NoProbe
        /\ policy' = policy /\ Sampling
    BY <1>10 DEF BuildRedaction, EngineOf, PolicyInv, Sampling
  <2> QED BY <2>1, NothingDecided DEF PolicyInv
<1>11. CASE Addresses
  BY <1>3, <1>11 DEF Addresses, Redacting, PolicyInv, built
<1>12. CASE BindHttp \/ BindGrpc
  BY <1>3, <1>4, <1>12 DEF BindHttp, BindGrpc, Bind, Redacting, PolicyInv, built
<1>13. CASE OpenSpool
  BY <1>3, <1>13 DEF OpenSpool, Redacting, PolicyInv, built
<1>14. ASSUME NEW key \in Keys, GovernAttr(key) PROVE PolicyInv'
  <2>1. /\ pc = "serving" /\ UNCHANGED <<pc, config, policy, engine>>
        /\ probe' = [of |-> "attr", key |-> key,
                     rules |-> {n \in DOMAIN engine : applies_to_attr(engine[n], key)}]
    BY <1>14 DEF GovernAttr, built
  <2>2. engine = EngineOf(config) /\ IsConfig(config) /\ key \in Text
    BY <2>1, StartupAssumption DEF PolicyInv, Redacting, OriginInv
  <2>3. /\ probe'.rules \subseteq RulesFor(key)
        /\ ~HasStar(key) => RulesFor(key) \subseteq probe'.rules
    BY <2>1, <2>2, EngineIs
  <2>4. probe'.of = "attr" /\ probe'.key = key /\ RulesFor(key)' = RulesFor(key)
    BY <2>1 DEF RulesFor
  <2>5. GovernsAsWritten'
    BY <2>3, <2>4 DEF GovernsAsWritten, RulesFor
  <2> QED BY <2>1, <2>5 DEF PolicyInv, Sampling, Redacting
<1>15. ASSUME NEW ns \in {{}} \cup {{n} : n \in Namespaces}, NEW sev, GovernRecord(ns, sev) PROVE PolicyInv'
  <2>1. /\ pc = "serving" /\ UNCHANGED <<pc, config, policy, engine>>
        /\ probe' = [of |-> "record", ns |-> ns, sev |-> sev, target |-> resolve(policy, ns, sev)]
    BY <1>15 DEF GovernRecord, built
  <2>2. policy = PolicyOf(config) /\ IsConfig(config) /\ ~Defect(config, "TargetOutOfRange")
    BY <2>1 DEF PolicyInv, Sampling, OriginInv, Running, Validated
  <2>3. ns \in SUBSET Text
    BY StartupAssumption
  <2>4. ASSUME \A n \in ns : ~HasStar(n)
        PROVE  \/ TargetFor(ns, sev) = {probe'.target}
               \/ TargetFor(ns, sev) = {} /\ probe'.target = config.default_target
    BY <2>1, <2>2, <2>3, <2>4, ResolveIs
  <2>5. probe'.of = "record" /\ probe'.ns = ns /\ probe'.sev = sev
    BY <2>1
  <2>6. GovernsAsWritten'
    BY <2>1, <2>4, <2>5 DEF GovernsAsWritten, TargetFor
  <2> QED BY <2>1, <2>6 DEF PolicyInv, Sampling, Redacting
<1> QED
  BY <1>5, <1>6, <1>7, <1>8, <1>9, <1>10, <1>11, <1>12, <1>13, <1>14, <1>15 DEF Next

-----------------------------------------------------------------------------
(* The theorems *)

\* The agent starts in the invariant.
LEMMA StartsSound == Init => TypeOK /\ OriginInv /\ StageInv /\ ErrorTruthful
<1> SUFFICES ASSUME Init PROVE TypeOK /\ OriginInv /\ StageInv /\ ErrorTruthful
  OBVIOUS
<1>1. TypeOK
  BY StartupAssumption DEF Init, TypeOK, PCs, NoPolicy
<1>2. OriginInv
  BY DefaultSound DEF Init, OriginInv, Running
<1>3. StageInv /\ ErrorTruthful
  BY DEF Init, StageInv, Sampling, Redacting, Addressed, ErrorTruthful, Errors
<1> QED BY <1>1, <1>2, <1>3

\* Compiled targets are percentages although they narrow from 16 bits to 8, and
\* sockets and spool are open only while the agent binds or serves.
THEOREM StartupTyped == Spec => []TypeOK
<1>1. Init => TypeOK /\ OriginInv
  BY StartsSound
<1>2. TypeOK /\ OriginInv /\ [Next]_vars => TypeOK' /\ OriginInv'
  BY OriginStep
<1> QED BY <1>1, <1>2, PTL DEF Spec

\* What the stages have ruled out, and what an error says, at every step.
LEMMA Inductive == Spec => [](TypeOK /\ OriginInv /\ StageInv /\ ErrorTruthful)
<1>1. TypeOK /\ OriginInv /\ StageInv /\ ErrorTruthful /\ [Next]_vars
        => TypeOK' /\ OriginInv' /\ StageInv' /\ ErrorTruthful'
  BY OriginStep, StageStep
<1> QED BY <1>1, StartsSound, PTL DEF Spec

\* "a misconfigured agent must not start silently degraded": whatever the file,
\* and however often it is edited, no socket is open under a configuration with
\* one of the ten defects, the ones that only a later stage looks for included:
\* none that the linter refuses, whatever the linter makes of a pattern.
THEOREM FailsFast == Spec => []FailFast
<1>1. TypeOK /\ OriginInv /\ StageInv => FailFast
  <2> SUFFICES ASSUME TypeOK, OriginInv, StageInv, bound # {} PROVE FailFast
    BY DEF FailFast
  <2>1. Running /\ Sampling /\ Redacting /\ Addressed
    BY DEF TypeOK, Running, Sampling, Redacting, Addressed
  <2>2. \A err \in Errors : ~Defect(config, err)
    BY <2>1 DEF OriginInv, StageInv, Errors, Validated, Compiled
  <2> QED BY <2>1, <2>2 DEF FailFast, OriginInv
<1> QED BY <1>1, Inductive, PTL

\* An agent that refuses to start names a defect its file has, so that a file
\* without one, and the default, is turned away for an address that is taken or
\* not at all; for NestedRepetition the defect is that the linter refuses a rule.
THEOREM ErrorsTruthful == Spec => []ErrorTruthful
BY Inductive, PTL

\* Whatever the files and however often they are edited, aggregates that two
\* starts tag with one policy_version were governed by one policy, and two starts
\* of one policy tag theirs alike (policy_fingerprint): the separators keep the
\* hashed texts apart as long as none of them contains a zero byte.
THEOREM VersionsTrackPolicies ==
    ASSUME NoZeros
    PROVE  Spec => []VersionTracksPolicy
<1>1. Init => OriginInv /\ VersionInv
  <2>1. Init => VersionInv
    BY DEF Init, VersionInv, Versioned
  <2> QED BY <2>1, StartsSound
<1>2. TypeOK /\ OriginInv /\ VersionInv /\ [Next]_vars => TypeOK' /\ OriginInv' /\ VersionInv'
  BY OriginStep, VersionStep
<1>3. VersionInv => VersionTracksPolicy
  <2> SUFFICES ASSUME VersionInv, NEW x \in seen, NEW y \in seen
               PROVE  (x[1] = y[1]) <=> (Governance(x[2]) = Governance(y[2]))
    BY DEF VersionTracksPolicy
  <2>1. PICK c, d : c = x[2] /\ d = y[2]
    OBVIOUS
  <2>2. /\ IsConfig(c) /\ PlainPolicy(c) /\ x[1] = policy_fingerprint(c)
        /\ IsConfig(d) /\ PlainPolicy(d) /\ y[1] = policy_fingerprint(d)
    BY <2>1 DEF VersionInv
  <2>3. (policy_fingerprint(c) = policy_fingerprint(d)) <=> (Governance(c) = Governance(d))
    BY <2>2, FingerprintExact
  <2> QED BY <2>1, <2>2, <2>3
<1>4. Init => TypeOK
  BY StartsSound
<1> QED BY <1>1, <1>2, <1>3, <1>4, PTL DEF Spec

\* Whatever the file, the served policy decides as it is written: a redaction rule
\* applies to an attribute key only if one of its selectors means the key, and to
\* every such key without a star in it; and the first sampling rule that covers a
\* record sets its target (applies_to_attr, SamplingPolicy::resolve).  The greedy
\* match that goes back to its last star alone is as good as a search of all runs.
THEOREM PoliciesGovernAsWritten == Spec => []GovernsAsWritten
<1>1. Init => TypeOK /\ OriginInv /\ PolicyInv
  <2>1. Init => PolicyInv
    BY DEF Init, PolicyInv, Sampling, Redacting, GovernsAsWritten, NoProbe
  <2> QED BY <2>1, StartsSound
<1>2. TypeOK /\ OriginInv /\ PolicyInv /\ [Next]_vars => TypeOK' /\ OriginInv' /\ PolicyInv'
  BY OriginStep, PolicyStep
<1>3. PolicyInv => GovernsAsWritten
  BY DEF PolicyInv
<1> QED BY <1>1, <1>2, <1>3, PTL DEF Spec
=============================================================================
