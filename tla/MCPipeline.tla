----------------------------- MODULE MCPipeline -----------------------------
(* Instances of Pipeline for TLC. *)
EXTENDS Pipeline, TLC

\* Two rules share a mask; `card` scans bodies and attributes, `user` only
\* attributes under user.*.
MCRuleSpecs == <<[fields |-> {"body", "attrs.*"}, mask |-> "card"],
                 [fields |-> {"body"}, mask |-> "mail"],
                 [fields |-> {"user.*"}, mask |-> "card"]>>
MCMaskLen == [card |-> 3, mail |-> 40]

NoHits == <<<<>>, <<>>, <<>>>>
T(id, len, hits) == [id |-> id, len |-> len, hits |-> hits]
Plain(id, len) == T(id, len, NoHits)

\* Bodies: no match, adjacent matches, overlapping ones, an empty match, and a
\* text whose masking takes its length, and that of all around it, past 127.
Texts == {Plain("b0", 8), Plain("", 0),
          T("b1", 8, <<<<<<0, 4>>>>, <<<<4, 8>>>>, <<<<1, 2>>>>>>),
          T("b2", 8, <<<<<<2, 6>>>>, <<<<0, 3>>, <<6, 7>>>>, <<>>>>),
          T("b3", 8, <<<<<<3, 3>>>>, <<<<3, 5>>>>, <<>>>>),
          T("b4", 100, <<<<>>, <<<<0, 5>>>>, <<<<0, 9>>>>>>)}

AnyString(no, t) == Msg(no, <<Str(1, t)>>)
KeyValue(no, key, value) == Msg(no, <<Str(1, Plain(key, 6)), value>>)
Body(t) == AnyString(5, t)
Attr(key, t) == KeyValue(6, key, AnyString(2, t))

Trace(id, len) == Str(9, Plain(id, len))
Level(n) == Num(2, n)

\* Records by what they are for: every text as a body and as an attribute,
\* traces in each form, a body sent twice, and bytes that stop a walker at
\* each depth, after the string value too.
ByText == {<<Body(t), Attr(k, t), Trace("t1", 16)>> : t \in Texts, k \in {"attrs.a", "user.n"}}
Traced == {<<Trace(id.id, id.len), Body(Plain(b, 8)), Level(n)>> :
             id \in {Plain("t1", 16), Plain("t2", 16), Plain("h2", 32), Plain("xx", 32), Plain("t2", 8)},
             b \in {"b0", "b5"}, n \in {8, 9}}
Odd == {<<>>,
        <<Body(T("b1", 8, <<<<<<0, 4>>>>, <<>>, <<>>>>)), Body(Plain("b0", 8)), Num(11, 1)>>,
        <<Msg(5, <<Num(3, 1)>>), KeyValue(6, "user.n", Msg(2, <<Num(3, 1)>>)), Num(11, 1)>>,
        <<Msg(5, <<Num(3, 1), Str(1, T("b1", 8, <<<<>>, <<<<1, 8>>>>, <<>>>>)), Str(1, Plain("b0", 8))>>)>>}
Broken == {<<Body(Plain("b0", 8)), Bad>>,
           <<Msg(5, <<Bad>>)>>,
           <<Msg(5, <<Str(1, T("b1", 8, <<<<<<0, 4>>>>, <<>>, <<>>>>)), Bad>>)>>,
           <<KeyValue(6, "attrs.a", Msg(2, <<Str(1, Plain("b0", 8)), Bad>>)), Level(8)>>,
           <<KeyValue(6, "attrs.a", Bad)>>}
AllRecords == ByText \cup Traced \cup Odd \cup Broken

Resource(ns) == Msg(1, <<KeyValue(1, "k8s.namespace.name", AnyString(2, Plain(ns, 6))),
                         KeyValue(1, "service.name", AnyString(2, Plain("svc", 3)))>>)
Scope(recs) == Msg(2, <<Str(1, Plain("scope", 5))>> \o [i \in DOMAIN recs |-> Msg(2, recs[i])])
Request(rls) == Msg(0, rls)

\* One record of each sort beside a fixed one, in one scope, in two scopes and
\* under two resources, the second of which comes after its scopes.
Fixed == <<Trace("h2", 32), Body(T("b2", 8, <<<<<<2, 6>>>>, <<<<0, 3>>>>, <<>>>>)), Level(9)>>
MCRequests ==
    {Request(<<Msg(1, <<Resource(ns), Scope(<<Fixed, r>>)>>)>>) : r \in AllRecords, ns \in {"dev", "prod"}}
    \cup {Request(<<Msg(1, <<Resource("dev"), Scope(<<r>>), Scope(<<Fixed, r>>)>>), Num(9, 1)>>) : r \in AllRecords}
    \cup {Request(<<Msg(1, <<Resource("prod"), Scope(<<Fixed>>)>>),
                    Msg(1, <<Scope(<<r>>), Resource("dev"), Resource("none")>>)>>) : r \in AllRecords}
    \cup {Request(<<Msg(1, <<Scope(<<r, Fixed>>), bad>>)>>) : r \in ByText, bad \in {Bad, Msg(1, <<Bad>>)}}
    \cup {Request(<<>>), Request(<<Msg(1, <<Scope(<<>>)>>)>>)}

MCSamplingRules == <<[namespace |-> {"d*"}, severity_lte |-> {"DEBUG"}, target |-> 0],
                     [namespace |-> {"prod"}, severity_lte |-> {}, target |-> 100],
                     [namespace |-> {}, severity_lte |-> {"INFO"}, target |-> 50]>>
MCGlobMatches == {<<"d*", "dev">>, <<"prod", "prod">>, <<"attrs.*", "attrs.a">>, <<"user.*", "user.n">>}
MCHex == [h2 |-> "t2"]
MCTraceBucket == [t1 |-> 10, t2 |-> 49, h2 |-> 50, xx |-> 50]
MCFallbackBucket == [x \in {"svc", ""} \X {"", "b0", "b1", "b2", "b3", "b4", "b5"} |->
                       IF x[2] \in {"b0", "b1"} THEN 99 ELSE 20]
=============================================================================
