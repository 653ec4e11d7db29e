---------------------------- MODULE Polynomials -----------------------------
(***************************************************************************)
(* Words and polynomials over two elements as sets of bit positions, and   *)
(* the remainder of a division, which is what a CRC is by definition.      *)
(***************************************************************************)
EXTENDS Integers

Xor(a, b) == (a \ b) \cup (b \ a)

\* a << k and a >> k
Shl(a, k) == {i + k : i \in a}
Shr(a, k) == {i - k : i \in {j \in a : j >= k}}

\* The word of the n lowest bits.
Low(a, n) == a \cap 0..n-1

\* The remainder of a after division by g, of degree d, when a has a degree
\* below n: from the top, each term left is cancelled by a multiple of g.
Remainder(a, g, d, n) ==
  LET rem[k \in d..n] == IF k = n THEN a
                         ELSE LET r == rem[k + 1]
                              IN  IF k \in r THEN Xor(r, Shl(g, k - d)) ELSE r
  IN  rem[d]
=============================================================================
