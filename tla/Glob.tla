-------------------------------- MODULE Glob --------------------------------
(***************************************************************************)
(* The `*` globs over bytes: archiv-redact/src/glob.rs for attribute keys, *)
(* archiv-sampling/src/policy.rs for namespaces.  A string is the sequence *)
(* of its bytes.                                                           *)
(***************************************************************************)
EXTENDS Integers, Sequences

Star == 42   \* b'*'

\* Mutant: a pattern that has more left than the key does not match.
AtEndExactly(pattern, p) == p = Len(pattern)

\* The key is used up: only stars may be left of the pattern.
AtEnd(pattern, p) == \A i \in p + 1 .. Len(pattern) : pattern[i] = Star

\* Where the loop of `matches` may be: p bytes of the pattern and k of the key are
\* used up, and so were sp and sk where the run of the last star ends; sp is 0 as
\* long as there is no star.
Places(pattern, key) ==
    {s \in [p : 0 .. Len(pattern), k : 0 .. Len(key), sp : 0 .. Len(pattern), sk : 0 .. Len(key)] :
        s.sp <= s.p /\ s.sk <= s.k}

Place(p, k, sp, sk) == [p |-> p, k |-> k, sp |-> sp, sk |-> sk]

matches(pattern, key) ==
    LET Run[s \in Places(pattern, key)] ==
            IF s.k = Len(key) THEN AtEnd(pattern, s.p)
            ELSE IF s.p < Len(pattern) /\ pattern[s.p + 1] = key[s.k + 1]
                 THEN Run[Place(s.p + 1, s.k + 1, s.sp, s.sk)]
            ELSE IF s.p < Len(pattern) /\ pattern[s.p + 1] = Star
                 THEN Run[Place(s.p + 1, s.k, s.p + 1, s.k)]
            ELSE s.sp > 0 /\ Run[Place(s.sp, s.sk + 1, s.sp, s.sk + 1)]
    IN  Run[Place(0, 0, 0, 0)]

\* The same code again, over namespaces.
glob_matches(pattern, key) == matches(pattern, key)

\* What a glob means (glob.rs lines 1-3): a star stands for any run of bytes,
\* every other byte for itself.
Means(pattern, key) ==
    LET \* of what is left after i bytes of the pattern and j of the key
        M[at \in (0 .. Len(pattern)) \X (0 .. Len(key))] ==
            LET i == at[1]
                j == at[2]
            IN  IF i = Len(pattern) THEN j = Len(key)
                ELSE IF pattern[i + 1] = Star THEN \E l \in j .. Len(key) : M[<<i + 1, l>>]
                ELSE j < Len(key) /\ pattern[i + 1] = key[j + 1] /\ M[<<i + 1, j + 1>>]
    IN  M[<<0, 0>>]

HasStar(key) == \E i \in DOMAIN key : key[i] = Star
=============================================================================
