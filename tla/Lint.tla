-------------------------------- MODULE Lint --------------------------------
(***************************************************************************)
(* The scan that bans nested repetition: archiv-redact/src/lint.rs.        *)
(* A pattern is the sequence of its bytes.                                 *)
(***************************************************************************)
EXTENDS Integers, Sequences, SequencesExt

LOCAL Backslash == 92
LOCAL Opening == 40     \* (
LOCAL Closing == 41     \* )
LOCAL Brace == 123      \* {
LOCAL EndBrace == 125
LOCAL Bracket == 91     \* [
LOCAL EndBracket == 93
LOCAL Caret == 94
LOCAL Comma == 44
LOCAL Question == 63
LOCAL Repeats == {42, 43}    \* * and +
LOCAL Digits == 48 .. 57

LOCAL ByteAt(bytes, i) == IF i \in DOMAIN bytes THEN bytes[i] ELSE -1

\* Mutant: {n,m} counts as unbounded.
brace_quantifier_any_comma(bytes, i) ==
    LET other == {j \in i + 1 .. Len(bytes) : bytes[j] \notin {Comma} \cup Digits}
    IN  IF other # {} /\ bytes[Min(other)] = EndBrace
        THEN [unbounded |-> \E j \in i .. Min(other) : bytes[j] = Comma, len |-> Min(other) - i + 1]
        ELSE [unbounded |-> FALSE, len |-> 1]

\* {n}, {n,} or {n,m} at i; anything else is a literal brace.  The flag
\* saw_comma_last says that a comma stands before the closing brace.
brace_quantifier(bytes, i) ==
    LET other == {j \in i + 1 .. Len(bytes) : bytes[j] \notin {Comma} \cup Digits}
    IN  IF other # {} /\ bytes[Min(other)] = EndBrace
        THEN [unbounded |-> bytes[Min(other) - 1] = Comma, len |-> Min(other) - i + 1]
        ELSE [unbounded |-> FALSE, len |-> 1]

quantifier_at(bytes, i) ==
    CASE ByteAt(bytes, i) \in Repeats  -> [unbounded |-> TRUE, len |-> 1]
      [] ByteAt(bytes, i) = Question   -> [unbounded |-> FALSE, len |-> 1]
      [] ByteAt(bytes, i) = Brace      -> brace_quantifier(bytes, i)
      [] OTHER                         -> [unbounded |-> FALSE, len |-> 0]

\* Where the class that opens at i closes; ']' as its first member is literal.
ClassEnd(bytes, i) ==
    LET first == IF ByteAt(bytes, i + 1) = Caret THEN i + 2 ELSE i + 1
        from  == IF ByteAt(bytes, first) = EndBracket THEN first + 1 ELSE first
        Skip[j \in Nat] ==
            IF ByteAt(bytes, j) \in {-1, EndBracket} THEN j
            ELSE Skip[IF bytes[j] = Backslash THEN j + 2 ELSE j + 1]
    IN  Skip[from]

\* The innermost open group contains what the flag says.
Fold(frames, unbounded) ==
    IF frames = <<>> THEN <<>> ELSE Append(Front(frames), Last(frames) \/ unbounded)

\* No unbounded quantifier is applied to a group that contains one.  A frame
\* for each open group, the first for the top level.
check_nested_repetition(bytes) ==
    LET Scan[i \in Nat, frames \in Seq(BOOLEAN)] ==
            CASE i > Len(bytes)        -> TRUE
              [] ByteAt(bytes, i) = Backslash -> Scan[i + 2, frames]
              [] ByteAt(bytes, i) = Bracket   -> Scan[ClassEnd(bytes, i) + 1, frames]
              [] ByteAt(bytes, i) = Opening   -> Scan[i + 1, Append(frames, FALSE)]
              [] ByteAt(bytes, i) = Closing   ->
                    LET inner == frames # <<>> /\ Last(frames)
                        outer == quantifier_at(bytes, i + 1)
                    IN  /\ ~(inner /\ outer.unbounded)
                        /\ Scan[i + 1 + outer.len,
                                Fold(IF frames = <<>> THEN <<>> ELSE Front(frames), inner \/ outer.unbounded)]
              [] ByteAt(bytes, i) \in Repeats -> Scan[i + 1, Fold(frames, TRUE)]
              [] ByteAt(bytes, i) = Brace     ->
                    LET q == brace_quantifier(bytes, i) IN Scan[i + q.len, Fold(frames, q.unbounded)]
              [] OTHER                        -> Scan[i + 1, frames]
    IN  Scan[1, <<FALSE>>]
=============================================================================
