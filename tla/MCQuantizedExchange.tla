------------------------ MODULE MCQuantizedExchange ------------------------
(* Instances of QuantizedExchange for TLC. *)
EXTENDS QuantizedExchange

CONSTANTS w1, w2

\* Five elements, three LTUs: the workers have the larger exponent in turn, and
\* a value next to a power of two.  Then integers, and a slice without elements.
FloatTensor == w1 :> [x \in 0 .. 4 |-> <<100, -3, 1, 0, 127>>[x + 1]] @@
               w2 :> [x \in 0 .. 4 |-> <<-2, 1, 64, -5, 126>>[x + 1]]
IntTensor   == w1 :> [x \in 0 .. 1 |-> <<7, -1>>[x + 1]] @@
               w2 :> [x \in 0 .. 1 |-> <<-9, 5>>[x + 1]]
NoTensor    == [w \in {w1, w2} |-> <<>>]

FloatsThenInts == << [type |-> "FLOAT32", tensor |-> FloatTensor],
                     [type |-> "FLOAT32", tensor |-> NoTensor],
                     [type |-> "INT32",   tensor |-> IntTensor] >>
=============================================================================
