--------------------------- MODULE SecretSharing ---------------------------
(***************************************************************************)
(* Shamir sharing of a secret over GF(2^FieldBits)                         *)
(* (crates/rebyte-chain/src/secret_sharing.rs).  The code shares the bytes *)
(* of a 32-byte secret independently, each over GF(2^8) with the reduction *)
(* 16#1b#; here a secret is one element.  A share is its abscissa x and    *)
(* its value y.                                                            *)
(***************************************************************************)
EXTENDS Integers, SequencesExt, Checks

CONSTANTS FieldBits, Reduction, MaxShares

FieldSize == 2^FieldBits
Element == 0..(FieldSize - 1)

ASSUME FieldAssumption ==
  FieldBits \in Nat \ {0} /\ Reduction \in Element /\ MaxShares \in 1..(FieldSize - 1)

Bit(a, i) == (a \div 2^i) % 2
Xor(a, b) == FoldLeft(LAMBDA sum, i : sum + ((Bit(a, i - 1) + Bit(b, i - 1)) % 2) * 2^(i - 1), 0,
                      [i \in 1..FieldBits |-> i])

\* One round of gf_mul: add left if the low bit of right is set, double left.
MulRound(s, i) ==
  [product |-> IF s.right % 2 = 1 THEN Xor(s.product, s.left) ELSE s.product,
   left |-> Xor((2 * s.left) % FieldSize, IF 2 * s.left >= FieldSize THEN Reduction ELSE 0),
   right |-> s.right \div 2]
gf_mul ==
  [p \in Element \X Element |->
     FoldLeft(MulRound, [product |-> 0, left |-> p[1], right |-> p[2]], [i \in 1..FieldBits |-> i]).product]
Product(s) == FoldLeft(LAMBDA a, b : gf_mul[a, b], 1, s)

\* The power 2^FieldBits - 2, by squaring (gf_inverse is called on no zero).
gf_inverse ==
  [v \in Element |-> Product([i \in 1..(FieldSize - 2) |-> v])]

validate_parameters(count, threshold) ==
  <<count = 0 \/ count > MaxShares \/ threshold = 0 \/ threshold > count, "InvalidThreshold">>

\* evaluate_polynomial, by Horner's rule from the last coefficient.
evaluate_polynomial(constant, coefficients, x) ==
  Xor(gf_mul[FoldLeft(LAMBDA value, c : Xor(gf_mul[value, x], c), 0, Reverse(coefficients)), x], constant)

\* split_with_coefficients: the shares 1..count.
split_secret(secret, count, coefficients) ==
  [x \in 1..count |-> [x |-> x, y |-> evaluate_polynomial(secret, coefficients, x)]]

CombineError(shares, threshold) ==
  FirstError(<< validate_parameters(Len(shares), threshold),
                <<Len(shares) # threshold, "InvalidShare">>,
                <<\E i \in 1..Len(shares) : shares[i].x = 0, "InvalidShare">>,
                <<\E i, j \in 1..Len(shares) : i < j /\ shares[i].x = shares[j].x, "InvalidShare">> >>)

\* The Lagrange coefficient of share i at zero.
LagrangeAtZero(shares, i) ==
  LET others == SelectSeq(shares, LAMBDA s : s.x # shares[i].x)
      xs == [k \in 1..Len(others) |-> others[k].x]
      differences == [k \in 1..Len(others) |-> Xor(others[k].x, shares[i].x)]
  IN gf_mul[Product(xs), gf_inverse[Product(differences)]]

combine_shares(shares) ==
  FoldLeft(LAMBDA value, i : Xor(value, gf_mul[shares[i].y, LagrangeAtZero(shares, i)]), 0,
           [i \in 1..Len(shares) |-> i])

\* Interpolation works in the field: as many distinct shares of a polynomial as
\* it has coefficients give back its constant term.
ASSUME SharingAssumption ==
  \A threshold \in 1..MaxShares :
    \A secret \in Element, coefficients \in [1..(threshold - 1) -> Element],
       xs \in [1..threshold -> 1..MaxShares] :
      (\A i, j \in 1..threshold : xs[i] = xs[j] => i = j) =>
        combine_shares([i \in 1..threshold |->
          [x |-> xs[i], y |-> evaluate_polynomial(secret, coefficients, xs[i])]]) = secret

=============================================================================
