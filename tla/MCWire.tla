------------------------------- MODULE MCWire -------------------------------
(* Instances of Wire for TLC. *)
EXTENDS Wire

\* 8 9 10 11 13: field 1 with each wire type in use, and one that is not.
Letters == {0, 1, 2, 8, 9, 10, 11, 13, 128, 255}
Short(n) == UNION {[1 .. m -> Letters] : m \in 0 .. n}

Times(n, byte) == [k \in 1 .. n |-> byte]
Len1(body) == <<10, Len(body)>> \o body
Long(body) == <<18>> \o put_varint(U64(Len(body))) \o body

\* A varint of n bytes that stands for 1 (its tenth byte is 0 or has high bits).
Padded(n) == <<129>> \o Times(n - 2, 128) \o <<0>>
\* As many bytes, and the highest bits set.
Huge(n) == Times(n - 1, 255) \o <<1>>

Varints == {Padded(n) : n \in 2 .. 11} \cup {Huge(n) : n \in 2 .. 11}
             \cup {Times(n, 255) : n \in 9 .. 12} \cup {Times(n, 128) : n \in 9 .. 12}
             \cup {<<129>> \o Times(8, 128) \o <<b>> : b \in {1, 2, 126, 127}}

\* As a value, as a length, as a tag; cut off at each byte, or followed by more.
Around(v) == {<<8>> \o v, <<8>> \o v \o <<8, 0>>, <<10>> \o v, <<10>> \o v \o <<0>>, <<10>> \o v \o <<8, 0>>,
              v \o <<0>>, <<v[1] - 1>> \o Tail(v) \o <<0>>, v \o Times(8, 7),
              <<138>> \o Tail(v) \o <<2, 8, 0>>, <<138>> \o Tail(v) \o <<0>>}
Odd == UNION {Around(v) : v \in Varints}

\* Fields of fixed width, at and past the end of their window.
Fixed == {<<9>> \o Times(n, 1) : n \in 6 .. 9} \cup {<<13>> \o Times(n, 1) : n \in 3 .. 5}
           \cup {<<13>> \o Times(4, 255) \o <<9>> \o Times(n, 255) : n \in 7 .. 8}

\* One window in another, whose length is short by one, right, long by one.
Inner == Short(2) \cup Odd \cup Fixed
Nested == {<<8, 1, 10, Len(b) + d>> \o b \o <<8, 1>> : b \in {x \in Inner : Len(x) > 0}, d \in {-1, 0, 1}}
            \cup {Len1(Len1(b) \o <<8, 0>>) \o Len1(b) : b \in Fixed \cup Short(1)}
            \cup {Len1(Len1(b)) : b \in Inner}
            \cup {Len1(b \o Len1(b)) : b \in Fixed \cup {<<138, 128, 0, 130, 0, 8, 0>>}}

\* Windows on both sides of a length that takes two bytes, and one that falls
\* to a length of one byte when the header inside it gets shorter.
Wide == {Long(<<10>> \o put_varint(U64(n)) \o Times(n, 1) \o tail) : n \in 121 .. 128, tail \in {<<>>, <<8, 0>>}}
          \cup {Long(<<138, 0, 128 + n, 0>> \o (IF n % 2 = 0 THEN Times(n, 0) ELSE <<8, 128, 0>> \o Times(n - 3, 0))) :
                    n \in 122 .. 127}

\* At the limit, and one over it.
Limit == 140
AtLimit == {Long(Times(n, 1)) : n \in Limit - 4 .. Limit - 2} \cup {Long(<<18, 0>> \o Times(n, 0)) : n \in Limit - 6 .. Limit - 4}

Bodies == Short(3) \cup Odd \cup Fixed \cup Nested \cup Wide \cup AtLimit

Http(body) == [transport |-> "http", route |-> TRUE, typed |-> TRUE, body |-> body]
Grpc(body) == [transport |-> "grpc", route |-> TRUE, typed |-> TRUE, body |-> body]

Head4(n) == <<0, 0, n \div 256, n % 256>>
Framed(m, flag, n) == <<flag>> \o Head4(n) \o m
SomeBodies == Short(2) \cup AtLimit \cup Fixed
BadFrames ==
    {Framed(m, 0, Len(m) + d) : m \in {x \in SomeBodies : Len(x) > 0}, d \in {-1, 1, 255}}
      \cup {Framed(m, 1, Len(m)) : m \in SomeBodies} \cup Short(4)
      \cup {Framed(m, 0, Len(m)) \o <<0>> : m \in SomeBodies} \cup {<<0, 127, 0, 0, 0, 8, 0>>, <<0, 1, 0, 0, 0, 8>>}

Good == {Http(b) : b \in Bodies} \cup {Grpc(Frame(b)) : b \in SomeBodies \cup Odd}
MCRequests ==
    Good \cup {Grpc(b) : b \in BadFrames}
      \cup {[r EXCEPT !.route = FALSE] : r \in {Http(<<8, 0>>), Grpc(Frame(<<8, 0>>))}}
      \cup {[r EXCEPT !.typed = FALSE] : r \in {Http(<<8, 0>>), Grpc(Frame(<<8, 0>>)), Grpc(<<>>)}}
=============================================================================
