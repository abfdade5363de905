--------------------------- MODULE PositionProofs ---------------------------
(***************************************************************************)
(* What Position guarantees for every price, quantity, leverage, number of *)
(* payouts and error of the spline that the code can turn into CETs.       *)
(*                                                                         *)
(* Quotients are compared by what they are rounded from: each \div is      *)
(* replaced by the two products it lies between, and the products by what  *)
(* they have in common.                                                    *)
(***************************************************************************)

EXTENDS Position, WellFoundedInduction, TLAPS

-----------------------------------------------------------------------------
(* Numbers.                                                                *)

Positive == Nat \ {0}

(* A set of natural numbers that is not empty has a least element.         *)
LEMMA Least ==
    ASSUME NEW T \in SUBSET Nat, T # {}
    PROVE  \E x \in T : \A y \in T : x <= y
  <1> DEFINE R == OpToRel(<, Nat)
  <1>1. IsWellFoundedOn(R, Nat)
    BY NatLessThanWellFounded
  <1>2. \A x, y \in Nat : x < y => <<x, y>> \in R
    BY DEF OpToRel
  <1> HIDE DEF R
  <1>3. PICK x \in T : \A y \in T : <<y, x>> \notin R
    BY <1>1, WFMin, Zenon
  <1>4. ASSUME NEW y \in T
        PROVE  x <= y
    <2>1. x \in Nat /\ y \in Nat
      OBVIOUS
    <2>2. ~(y < x)
      BY <1>2, <1>3, <2>1
    <2> QED BY <2>1, <2>2
  <1> QED BY <1>4

LEMMA Quotient ==
    ASSUME NEW a \in Int, NEW b \in Positive
    PROVE  /\ a \div b \in Int
           /\ b * (a \div b) <= a /\ a < b * (a \div b) + b
  BY DEF Positive

LEMMA Between ==
    ASSUME NEW d \in Positive, NEW x \in Int, NEW y \in Int, d * x < d * y
    PROVE  x < y
  BY DEF Positive

LEMMA Product ==
    ASSUME NEW a \in Positive, NEW b \in Positive
    PROVE  a * b \in Positive
  BY DEF Positive

LEMMA Scaled ==
    ASSUME NEW a \in Nat, NEW x \in Int, NEW y \in Int, x <= y
    PROVE  a * x \in Int /\ a * y \in Int /\ a * x <= a * y
  OBVIOUS

(* Rounding to whole satoshis.                                             *)
LEMMA SatsBounds ==
    ASSUME NEW n \in Nat, NEW d \in Positive
    PROVE  /\ Sats(n, d) \in Nat
           /\ d * (2 * Sats(n, d) - 1) <= 2 * n
           /\ 2 * n < d * (2 * Sats(n, d) + 1)
  <1> DEFINE s == Sats(n, d)
  <1>1. 2 * n + d \in Positive /\ 2 * d \in Positive
    BY DEF Positive
  <1>2. s \in Int /\ (2 * d) * s <= 2 * n + d /\ 2 * n + d < (2 * d) * s + 2 * d
    <2> DEFINE a == 2 * n + d
               b == 2 * d
    <2>1. a \in Int /\ b \in Positive /\ s = a \div b
      BY <1>1 DEF Positive, Sats
    <2> HIDE DEF a, b, s
    <2>2. s \in Int /\ b * s <= a /\ a < b * s + b
      BY <2>1, Quotient
    <2> QED BY <2>2 DEF a, b
  <1>3. (2 * d) * s = 2 * (d * s) /\ d * (2 * s - 1) = 2 * (d * s) - d
        /\ d * (2 * s + 1) = 2 * (d * s) + d /\ d * s \in Int
    BY <1>2 DEF Positive
  <1>4. d * (-1) < d * s
    BY <1>2, <1>3 DEF Positive
  <1>5. s >= 0
    BY <1>2, <1>4, Between
  <1> QED BY <1>2, <1>3, <1>5 DEF Positive

(* What is divided by more is rounded to no more.                          *)
LEMMA SatsFalls ==
    ASSUME NEW n \in Nat, NEW c \in Positive, NEW d \in Positive, c <= d
    PROVE  Sats(n, d) <= Sats(n, c)
  <1> DEFINE s == Sats(n, c)
             t == Sats(n, d)
  <1>1. /\ s \in Nat /\ 2 * n < c * (2 * s + 1)
        /\ t \in Nat /\ d * (2 * t - 1) <= 2 * n
    BY SatsBounds
  <1> HIDE DEF s, t
  <1>2. SUFFICES ASSUME s < t
                 PROVE  FALSE
    BY <1>1 DEF s, t
  <1>3. c * (2 * s + 1) <= c * (2 * t - 1)
    BY <1>1, <1>2, Scaled DEF Positive
  <1>4. (2 * t - 1) * c <= (2 * t - 1) * d
    BY <1>1, <1>2, Scaled DEF Positive
  <1>5. (2 * t - 1) * c = c * (2 * t - 1) /\ (2 * t - 1) * d = d * (2 * t - 1)
    BY <1>1 DEF Positive
  <1> QED BY <1>1, <1>3, <1>4, <1>5 DEF Positive

-----------------------------------------------------------------------------
(* The samples and the ranges around them.                                 *)

Orders == [price : Positive, quantity : Positive]
Indices == 1..(NPayouts + 1)

LEMMA Parameters ==
    /\ Coin \in Positive /\ Leverage \in Positive /\ NPayouts \in Positive
    /\ NPayouts >= 3 /\ Grain \in Positive /\ FitError \in Nat
  BY CoinAssumption, LeverageAssumption, PayoutsAssumption DEF Positive, Grain

LEMMA Corners ==
    ASSUME NEW o \in Orders
    PROVE  /\ LowerCorner(o) \in Positive /\ UpperCorner(o) \in Positive
           /\ Delta(o) \in Nat /\ Delta(o) \div 2 \in Nat
           /\ Delta(o) \div 2 <= Delta(o)
           /\ NPayouts * Delta(o) <= UpperCorner(o) - LowerCorner(o)
  <1> DEFINE P == o.price
             N == NPayouts
             L == Leverage
  <1>1. P \in Positive /\ N \in Positive /\ L \in Positive
    BY Parameters DEF Orders
  <1>2. LowerCorner(o) = 4 * N * P * L /\ UpperCorner(o) = 2 * P * (4 * N * (L + 1))
    BY DEF LowerCorner, UpperCorner, Grain
  <1>3. N * P \in Positive /\ (N * P) * L \in Positive
    BY <1>1, Product
  <1> HIDE DEF P, N, L
  <1>4. LowerCorner(o) = 4 * ((N * P) * L) /\ UpperCorner(o) = 8 * ((N * P) * L) + 8 * (N * P)
    BY <1>1, <1>2 DEF Positive
  <1>5. LowerCorner(o) \in Positive /\ UpperCorner(o) \in Positive
        /\ LowerCorner(o) <= UpperCorner(o)
    BY <1>3, <1>4 DEF Positive
  <1>6. /\ Delta(o) \in Int /\ N * Delta(o) <= UpperCorner(o) - LowerCorner(o)
        /\ UpperCorner(o) - LowerCorner(o) < N * Delta(o) + N
    BY <1>1, <1>5, Quotient DEF Delta, Positive, N
  <1>7. N * (-1) < N * Delta(o)
    BY <1>1, <1>5, <1>6 DEF Positive
  <1>8. Delta(o) >= 0
    BY <1>1, <1>6, <1>7, Between
  <1> QED BY <1>5, <1>6, <1>8 DEF N

LEMMA Samples ==
    ASSUME NEW o \in Orders
    PROVE  /\ \A i \in Indices : Sample(o, i) \in Positive
           /\ \A i \in 1..NPayouts : Sample(o, i) <= Sample(o, i + 1)
           /\ \A i \in Indices : LowerCorner(o) <= Sample(o, i)
           /\ Sample(o, NPayouts + 1) = UpperCorner(o)
  <1> DEFINE D == Delta(o)
             H == Delta(o) \div 2
             A == LowerCorner(o)
             B == UpperCorner(o)
             N == NPayouts
  <1>1. /\ A \in Positive /\ B \in Positive /\ D \in Nat /\ H \in Nat /\ H <= D
        /\ N * D <= B - A /\ N \in Positive /\ N >= 3
    BY Corners, Parameters
  <1>2. /\ Sample(o, 1) = A /\ Sample(o, N + 1) = B
        /\ \A i \in 2..N : Sample(o, i) = A + H + (i - 2) * D
    BY <1>1 DEF Sample, Positive
  <1> HIDE DEF D, H, A, B, N
  <1>3. \A j \in Nat : j * D \in Nat /\ (j + 1) * D = j * D + D
    BY <1>1
  <1>4. \A i \in 2..N : i - 2 \in Nat /\ (i - 2) * D \in Nat
    BY <1>1, <1>3 DEF Positive
  <1>5. \A i \in 2..N : Sample(o, i) \in Positive /\ A <= Sample(o, i)
    BY <1>1, <1>2, <1>4 DEF Positive
  <1>6. \A i \in 2..(N - 1) : Sample(o, i + 1) = Sample(o, i) + D
    <2> SUFFICES ASSUME NEW i \in 2..(N - 1)
                 PROVE  Sample(o, i + 1) = Sample(o, i) + D
      OBVIOUS
    <2>1. i \in 2..N /\ i + 1 \in 2..N /\ i - 2 \in Nat /\ (i + 1) - 2 = (i - 2) + 1
      BY <1>1 DEF Positive
    <2> QED BY <1>1, <1>2, <1>3, <2>1 DEF Positive
  <1>7. Sample(o, N) <= B
    <2>1. N - 2 \in Nat /\ N \in 2..N /\ N = (N - 2) + 2
      BY <1>1 DEF Positive
    <2>2. N * D = (N - 2) * D + D + D
      BY <1>1, <2>1 DEF Positive
    <2> QED BY <1>1, <1>2, <1>4, <2>1, <2>2 DEF Positive
  <1>8. A <= B
    BY <1>1, <1>5, <1>7 DEF Positive
  <1>9. \A i \in 1..(N + 1) : i = 1 \/ i = N + 1 \/ i \in 2..N
    BY <1>1 DEF Positive
  <1>10. \A i \in 1..(N + 1) : Sample(o, i) \in Positive /\ A <= Sample(o, i)
    BY <1>1, <1>2, <1>5, <1>8, <1>9 DEF Positive
  <1>11. \A i \in 1..N : Sample(o, i) <= Sample(o, i + 1)
    <2> SUFFICES ASSUME NEW i \in 1..N
                 PROVE  Sample(o, i) <= Sample(o, i + 1)
      OBVIOUS
    <2>1. CASE i = 1
      BY <2>1, <1>1, <1>2, <1>5 DEF Positive
    <2>2. CASE i = N
      BY <2>2, <1>2, <1>7
    <2>3. CASE i \in 2..(N - 1)
      <3>1. i \in 2..N
        BY <2>3, <1>1 DEF Positive
      <3> QED BY <2>3, <3>1, <1>1, <1>5, <1>6 DEF Positive
    <2> QED BY <1>1, <2>1, <2>2, <2>3 DEF Positive
  <1> QED BY <1>2, <1>10, <1>11 DEF A, B, N, Indices

LEMMA RoundBounds ==
    ASSUME NEW x \in Int
    PROVE  /\ Round(x) \in Int
           /\ 2 * (Grain * Round(x)) <= 2 * x + Grain
           /\ 2 * x < 2 * (Grain * Round(x)) + Grain
  <1> DEFINE a == 2 * x + Grain
             b == 2 * Grain
             r == Round(x)
  <1>1. Grain \in Positive
    BY Parameters
  <1>2. a \in Int /\ b \in Positive /\ r = a \div b
    BY <1>1 DEF Positive, Round
  <1> HIDE DEF a, b, r
  <1>3. r \in Int /\ b * r <= a /\ a < b * r + b
    BY <1>2, Quotient
  <1>4. b * r = 2 * (Grain * r) /\ Grain * r \in Int
    BY <1>1, <1>3 DEF b, Positive
  <1> QED BY <1>1, <1>3, <1>4 DEF a, b, r, Positive

LEMMA Middles ==
    ASSUME NEW o \in Orders, NEW i \in 1..NPayouts
    PROVE  /\ Middle(o, i) \in Int
           /\ Sample(o, i) <= Middle(o, i) /\ Middle(o, i) <= Sample(o, i + 1)
  <1> DEFINE x == Sample(o, i)
             y == Sample(o, i + 1)
  <1>1. x \in Int /\ y \in Int /\ x <= y
    BY Samples, Parameters DEF Indices, Positive
  <1> QED BY <1>1 DEF Middle

(* Each range begins where the one before it ended; the first at 0, and    *)
(* the last ends at twice the initial price.                               *)
LEMMA Ends ==
    ASSUME NEW o \in Orders
    PROVE  /\ \A i \in Indices : LeftOf(o, i) \in Int /\ RightOf(o, i) \in Int
           /\ LeftOf(o, 1) = 0 /\ RightOf(o, NPayouts + 1) = 2 * o.price
           /\ \A i \in 1..NPayouts : LeftOf(o, i + 1) = RightOf(o, i) + 1
  <1>1. NPayouts \in Positive /\ NPayouts >= 3
    BY Parameters
  <1>2. /\ \A i \in Indices : Round(Sample(o, i)) \in Int
        /\ \A i \in 1..NPayouts : Round(Middle(o, i)) \in Int
    BY Samples, Middles, RoundBounds DEF Positive
  <1>3. LeftOf(o, 1) = 0 /\ LeftOf(o, 2) = Round(Sample(o, 1)) + 1
        /\ \A i \in 3..(NPayouts + 1) : LeftOf(o, i) = Round(Middle(o, i - 1)) + 1
    BY <1>1 DEF LeftOf, Positive
  <1>4. /\ RightOf(o, 1) = Round(Sample(o, 1))
        /\ RightOf(o, NPayouts + 1) = Round(Sample(o, NPayouts + 1))
        /\ \A i \in 2..NPayouts : RightOf(o, i) = Round(Middle(o, i))
    BY <1>1 DEF RightOf, Positive
  <1>5. \A i \in Indices : i = 1 \/ i = 2 \/ i \in 3..(NPayouts + 1)
    BY <1>1 DEF Indices, Positive
  <1>6. \A i \in 3..(NPayouts + 1) : i - 1 \in 1..NPayouts
    BY <1>1 DEF Positive
  <1>7. \A i \in Indices : LeftOf(o, i) \in Int
    BY <1>1, <1>2, <1>3, <1>5, <1>6 DEF Indices, Positive
  <1>8. \A i \in Indices : RightOf(o, i) \in Int
    BY <1>1, <1>2 DEF RightOf, Indices, Positive
  <1>9. \A i \in 1..NPayouts : LeftOf(o, i + 1) = RightOf(o, i) + 1
    <2> SUFFICES ASSUME NEW i \in 1..NPayouts
                 PROVE  LeftOf(o, i + 1) = RightOf(o, i) + 1
      OBVIOUS
    <2>1. CASE i = 1
      BY <2>1, <1>3, <1>4
    <2>2. CASE i \in 2..NPayouts
      <3>1. i + 1 \in 3..(NPayouts + 1) /\ (i + 1) - 1 = i
        BY <2>2, <1>1 DEF Positive
      <3> QED BY <2>2, <3>1, <1>3, <1>4
    <2> QED BY <2>1, <2>2, <1>1 DEF Positive
  <1>10. RightOf(o, NPayouts + 1) = 2 * o.price
    <2> DEFINE r == RightOf(o, NPayouts + 1)
               p == o.price
    <2>1. /\ r \in Int
          /\ 2 * (Grain * r) <= 2 * UpperCorner(o) + Grain
          /\ 2 * UpperCorner(o) < 2 * (Grain * r) + Grain
      BY <1>4, Samples, Corners, RoundBounds DEF Positive
    <2>2. p \in Positive /\ Grain \in Positive /\ UpperCorner(o) = 2 * p * Grain
      BY Parameters DEF Orders, UpperCorner
    <2> HIDE DEF r, p
    <2>3. Grain * (2 * p) = 2 * p * Grain /\ Grain * (2 * p) \in Int /\ Grain * r \in Int
          /\ Grain * (r - 1) = Grain * r - Grain /\ Grain * (2 * p - 1) = Grain * (2 * p) - Grain
      BY <2>1, <2>2 DEF Positive
    <2>4. Grain * (r - 1) < Grain * (2 * p) /\ Grain * (2 * p - 1) < Grain * r
      BY <2>1, <2>2, <2>3 DEF Positive
    <2>5. r - 1 < 2 * p /\ 2 * p - 1 < r
      BY <2>1, <2>2, <2>4, Between DEF Positive
    <2> QED BY <2>1, <2>2, <2>5 DEF r, p, Positive
  <1> QED BY <1>3, <1>7, <1>8, <1>9, <1>10

(* Every sample lies in its range, but for the rounding of the ends.       *)
LEMMA Around ==
    ASSUME NEW o \in Orders, NEW i \in 2..(NPayouts + 1)
    PROVE  /\ Grain * (LeftOf(o, i) - 2) <= Sample(o, i)
           /\ Sample(o, i) < Grain * (RightOf(o, i) + 1)
  <1> DEFINE x == Sample(o, i)
  <1>1. NPayouts \in Positive /\ NPayouts >= 3 /\ Grain \in Positive
    BY Parameters
  <1>2. i \in Indices /\ i - 1 \in 1..NPayouts /\ (i - 1) + 1 = i
    BY <1>1 DEF Indices, Positive
  <1>3. x \in Positive
    BY <1>2, Samples
  <1>4. PICK y \in Int : y <= x /\ LeftOf(o, i) = Round(y) + 1
    <2>1. CASE i = 2
      <3>1. Sample(o, 1) \in Positive /\ Sample(o, 1) <= Sample(o, 2)
        BY <1>1, Samples DEF Indices, Positive
      <3> QED BY <2>1, <3>1 DEF LeftOf, Positive
    <2>2. CASE i \in 3..(NPayouts + 1)
      <3>1. Middle(o, i - 1) \in Int /\ Middle(o, i - 1) <= x
        BY <1>2, Middles
      <3>2. LeftOf(o, i) = Round(Middle(o, i - 1)) + 1
        BY <2>2 DEF LeftOf
      <3> QED BY <3>1, <3>2
    <2> QED BY <2>1, <2>2, <1>1 DEF Positive
  <1>5. PICK z \in Int : x <= z /\ RightOf(o, i) = Round(z)
    <2>1. CASE i = NPayouts + 1
      BY <2>1, <1>3 DEF RightOf, Positive
    <2>2. CASE i \in 2..NPayouts
      <3>1. Middle(o, i) \in Int /\ x <= Middle(o, i)
        BY <2>2, <1>1, Middles DEF Positive
      <3>2. RightOf(o, i) = Round(Middle(o, i))
        BY <2>2, <1>1 DEF RightOf, Positive
      <3> QED BY <3>1, <3>2
    <2> QED BY <2>1, <2>2, <1>1 DEF Positive
  <1> DEFINE a == Round(y)
             b == Round(z)
  <1>6. /\ a \in Int /\ 2 * (Grain * a) <= 2 * y + Grain
        /\ b \in Int /\ 2 * z < 2 * (Grain * b) + Grain
    BY RoundBounds
  <1> HIDE DEF a, b, x
  <1>7. /\ Grain * ((a + 1) - 2) = Grain * a - Grain /\ Grain * a \in Int
        /\ Grain * (b + 1) = Grain * b + Grain /\ Grain * b \in Int
    BY <1>1, <1>6 DEF Positive
  <1>8. Grain * a - Grain <= x /\ x < Grain * b + Grain
    BY <1>1, <1>3, <1>4, <1>5, <1>6, <1>7 DEF Positive
  <1> QED BY <1>4, <1>5, <1>7, <1>8 DEF a, b, x

-----------------------------------------------------------------------------
(* Which CET pays a price.                                                 *)

Ranges(o, i) == LeftOf(o, i)..RightOf(o, i)

RangeAt(o, e, i) ==
    [left  |-> LeftOf(o, i),     right |-> RightOf(o, i),
     taker |-> LongAt(o, e, i),  maker |-> ShortAt(o, e, i)]

LEMMA PayoutsAre ==
    ASSUME NEW o, NEW e
    PROVE  /\ \A i \in Indices : RangeAt(o, e, i) \in Payouts(o, e)
           /\ \A r \in Payouts(o, e) : \E i \in Indices : r = RangeAt(o, e, i)
  BY DEF Payouts, RangeAt, Indices

(* Of a curve that generate_payouts and to_sats accept no range is empty   *)
(* and no payout is below zero.                                            *)
LEMMA NotEmpty ==
    ASSUME NEW o, NEW e, Payable(o, e), NEW i \in Indices
    PROVE  /\ LeftOf(o, i) <= RightOf(o, i)
           /\ LongAt(o, e, i) >= 0 /\ ShortAt(o, e, i) >= 0
  <1>1. RangeAt(o, e, i) \in Payouts(o, e)
    BY PayoutsAre
  <1> QED BY <1>1 DEF Payable, RangeAt

LEMMA Ordered ==
    ASSUME NEW o \in Orders, NEW e, Payable(o, e)
    PROVE  \A i, j \in Indices : i < j => RightOf(o, i) < LeftOf(o, j)
  <1> DEFINE Bad == {j \in Indices : \E i \in Indices : i < j /\ ~(RightOf(o, i) < LeftOf(o, j))}
  <1>1. SUFFICES ASSUME Bad # {}
                 PROVE  FALSE
    OBVIOUS
  <1>2. Bad \in SUBSET Nat
    BY DEF Indices
  <1>3. PICK j \in Bad : \A k \in Bad : j <= k
    BY <1>1, <1>2, Least
  <1>4. PICK i \in Indices : i < j /\ ~(RightOf(o, i) < LeftOf(o, j))
    OBVIOUS
  <1>5. /\ NPayouts \in Positive /\ j \in Indices /\ j - 1 \in Indices
        /\ j - 1 \in 1..NPayouts /\ (j - 1) + 1 = j
    BY <1>4, Parameters DEF Indices, Positive
  <1>6. LeftOf(o, j) = RightOf(o, j - 1) + 1
    BY <1>5, Ends
  <1>7. /\ LeftOf(o, j) \in Int /\ RightOf(o, i) \in Int
        /\ LeftOf(o, j - 1) \in Int /\ RightOf(o, j - 1) \in Int
        /\ LeftOf(o, j - 1) <= RightOf(o, j - 1)
    BY <1>5, Ends, NotEmpty
  <1>8. CASE i = j - 1
    BY <1>4, <1>6, <1>7, <1>8
  <1>9. CASE i # j - 1
    <2>1. i < j - 1
      BY <1>4, <1>5, <1>9 DEF Indices
    <2>2. j - 1 \notin Bad
      BY <1>3, <1>5 DEF Indices
    <2>3. RightOf(o, i) < LeftOf(o, j - 1)
      BY <1>5, <2>1, <2>2
    <2> QED BY <1>4, <1>6, <1>7, <2>3
  <1> QED BY <1>8, <1>9

LEMMA OneRange ==
    ASSUME NEW o \in Orders, NEW e, Payable(o, e), NEW price \in Int,
           NEW i \in Indices, NEW j \in Indices,
           price \in Ranges(o, i), price \in Ranges(o, j)
    PROVE  i = j
  <1>1. /\ LeftOf(o, i) \in Int /\ RightOf(o, i) \in Int
        /\ LeftOf(o, j) \in Int /\ RightOf(o, j) \in Int
    BY Ends
  <1>2. /\ i < j => RightOf(o, i) < LeftOf(o, j)
        /\ j < i => RightOf(o, j) < LeftOf(o, i)
    BY Ordered
  <1> QED BY <1>1, <1>2 DEF Ranges, Indices

LEMMA SomeRange ==
    ASSUME NEW o \in Orders, NEW e, Payable(o, e), NEW price \in 0..(2 * o.price)
    PROVE  \E i \in Indices : price \in Ranges(o, i)
  <1> DEFINE Above == {j \in Indices : price <= RightOf(o, j)}
  <1>1. NPayouts \in Positive /\ NPayouts + 1 \in Indices /\ price \in Nat
    BY Parameters DEF Orders, Indices, Positive
  <1>2. NPayouts + 1 \in Above
    BY <1>1, Ends DEF Orders, Positive
  <1>3. Above \in SUBSET Nat
    BY DEF Indices
  <1>4. PICK j \in Above : \A k \in Above : j <= k
    BY <1>2, <1>3, Least
  <1>5. j \in Indices /\ LeftOf(o, j) \in Int /\ RightOf(o, j) \in Int
    BY Ends
  <1>6. CASE j = 1
    BY <1>1, <1>5, <1>6, Ends DEF Ranges
  <1>7. CASE j # 1
    <2>1. j - 1 \in Indices /\ j - 1 \in 1..NPayouts /\ (j - 1) + 1 = j
      BY <1>1, <1>5, <1>7 DEF Indices, Positive
    <2>2. j - 1 \notin Above
      BY <1>4, <1>5, <2>1 DEF Indices
    <2>3. LeftOf(o, j) = RightOf(o, j - 1) + 1 /\ RightOf(o, j - 1) \in Int
      BY <2>1, Ends
    <2>4. RightOf(o, j - 1) < price
      BY <1>1, <2>1, <2>2, <2>3
    <2> QED BY <1>1, <1>5, <2>3, <2>4 DEF Ranges
  <1> QED BY <1>6, <1>7

LEMMA NoneAbove ==
    ASSUME NEW o \in Orders, NEW e, Payable(o, e), NEW i \in Indices,
           NEW price \in Ranges(o, i)
    PROVE  price \in 0..(2 * o.price)
  <1>1. NPayouts \in Positive /\ NPayouts + 1 \in Indices /\ 1 \in Indices
    BY Parameters DEF Indices, Positive
  <1>2. /\ LeftOf(o, i) \in Int /\ RightOf(o, i) \in Int
        /\ LeftOf(o, 1) = 0 /\ RightOf(o, 1) \in Int
        /\ LeftOf(o, NPayouts + 1) \in Int /\ RightOf(o, NPayouts + 1) = 2 * o.price
    BY <1>1, Ends
  <1>3. /\ LeftOf(o, 1) <= RightOf(o, 1)
        /\ LeftOf(o, NPayouts + 1) <= RightOf(o, NPayouts + 1)
    BY <1>1, NotEmpty
  <1>4. /\ 1 < i => RightOf(o, 1) < LeftOf(o, i)
        /\ i < NPayouts + 1 => RightOf(o, i) < LeftOf(o, NPayouts + 1)
    BY <1>1, Ordered
  <1>5. price \in Int /\ LeftOf(o, i) <= price /\ price <= RightOf(o, i) /\ o.price \in Nat
    BY <1>2 DEF Ranges, Orders, Positive
  <1>6. 0 <= price
    BY <1>2, <1>3, <1>4, <1>5 DEF Indices
  <1>7. price <= 2 * o.price
    BY <1>1, <1>2, <1>3, <1>4, <1>5 DEF Indices, Positive
  <1> QED BY <1>5, <1>6, <1>7

-----------------------------------------------------------------------------
(* What is locked and what is paid.                                        *)

Worth(o) == o.quantity * Coin            \* satoshis times dollars
LockOf(o) == LongMargin(o) + ShortMargin(o)

LEMMA Amounts ==
    ASSUME NEW o \in Orders
    PROVE  /\ Worth(o) \in Positive /\ o.price \in Positive
           /\ PoolDen(o) = o.price * Leverage /\ PoolDen(o) \in Positive
           /\ LongMargin(o) = Sats(Worth(o), PoolDen(o))
           /\ ShortMargin(o) = Sats(Worth(o), o.price)
           /\ LongMargin(o) \in Nat /\ ShortMargin(o) \in Nat /\ LockOf(o) \in Nat
           /\ PoolNum(o) = Worth(o) * (Leverage + 1)
  <1>1. /\ Worth(o) \in Positive /\ o.price \in Positive
        /\ PoolDen(o) = o.price * Leverage /\ PoolDen(o) \in Positive
    BY Parameters, Product DEF Worth, Orders, PoolDen
  <1>2. /\ LongMargin(o) = Sats(Worth(o), PoolDen(o))
        /\ ShortMargin(o) = Sats(Worth(o), o.price)
    BY DEF LongMargin, ShortMargin, Worth, PoolDen
  <1>3. LongMargin(o) \in Nat /\ ShortMargin(o) \in Nat
    BY <1>1, <1>2, SatsBounds DEF Positive
  <1>4. PoolNum(o) = Worth(o) * (Leverage + 1)
    BY DEF PoolNum, Worth
  <1> QED BY <1>1, <1>2, <1>3, <1>4 DEF LockOf

(* The two margins, rounded each on its own, are the pool to a satoshi.    *)
LEMMA LockIsPool ==
    ASSUME NEW o \in Orders
    PROVE  /\ PoolDen(o) * (LockOf(o) - 1) <= PoolNum(o)
           /\ PoolNum(o) < PoolDen(o) * (LockOf(o) + 1)
  <1> DEFINE n == Worth(o)
             p == o.price
             l == Leverage
             m == PoolDen(o)
             a == LongMargin(o)
             b == ShortMargin(o)
  <1>1. /\ n \in Positive /\ p \in Positive /\ l \in Positive /\ m \in Positive
        /\ m = p * l /\ PoolNum(o) = n * (l + 1) /\ LockOf(o) = a + b
        /\ a \in Nat /\ b \in Nat
    BY Amounts, Parameters DEF LockOf
  <1>2. /\ m * (2 * a - 1) <= 2 * n /\ 2 * n < m * (2 * a + 1)
        /\ p * (2 * b - 1) <= 2 * n /\ 2 * n < p * (2 * b + 1)
    BY Amounts, SatsBounds DEF Positive
  <1> HIDE DEF n, p, l, m, a, b
  <1>3. p * (2 * b - 1) \in Int /\ p * (2 * b + 1) \in Int /\ 2 * n + 1 <= p * (2 * b + 1)
    BY <1>1, <1>2 DEF Positive
  <1>4. l * (p * (2 * b - 1)) <= l * (2 * n) /\ l * (2 * n + 1) <= l * (p * (2 * b + 1))
    BY <1>1, <1>2, <1>3, Scaled DEF Positive
  <1>5. /\ l * (p * (2 * b - 1)) = 2 * (m * b) - m
        /\ l * (p * (2 * b + 1)) = 2 * (m * b) + m
        /\ l * (2 * n) = 2 * (n * l) /\ l * (2 * n + 1) = 2 * (n * l) + l
        /\ m * (2 * a - 1) = 2 * (m * a) - m /\ m * (2 * a + 1) = 2 * (m * a) + m
        /\ m * ((a + b) - 1) = m * a + m * b - m /\ m * ((a + b) + 1) = m * a + m * b + m
        /\ n * (l + 1) = n * l + n
        /\ m * a \in Int /\ m * b \in Int /\ n * l \in Int
    BY <1>1 DEF Positive
  <1>6. m * a + m * b - m <= n * l + n /\ n * l + n < m * a + m * b + m
    BY <1>1, <1>2, <1>4, <1>5 DEF Positive
  <1>7. m * ((a + b) - 1) <= n * (l + 1) /\ n * (l + 1) < m * ((a + b) + 1)
    BY <1>5, <1>6
  <1> QED BY <1>1, <1>7 DEF m

(* The payouts of a range beyond the first, before the spline's error.     *)
LongCurve(o, i) ==
    (Worth(o) * ((Leverage + 1) * Sample(o, i) - PoolDen(o) * Grain))
        \div (PoolDen(o) * Sample(o, i))
ShortCurve(o, i) == (Worth(o) * Grain) \div Sample(o, i)

Errors == [2..NPayouts -> {-FitError, 0, FitError}]

LEMMA CurvePays ==
    ASSUME NEW o \in Orders, NEW e \in Errors, NEW i \in 2..(NPayouts + 1)
    PROVE  \E err \in (-FitError)..FitError :
               /\ LongAt(o, e, i) = LongCurve(o, i) + err
               /\ ShortAt(o, e, i) = ShortCurve(o, i) - err
  <1> DEFINE err == IF i \in DOMAIN e THEN e[i] ELSE 0
  <1>1. err \in (-FitError)..FitError
    <2>1. CASE i \in DOMAIN e
      <3>1. e[i] \in {-FitError, 0, FitError}
        BY <2>1 DEF Errors
      <3> QED BY <2>1, <3>1, Parameters
    <2>2. CASE i \notin DOMAIN e
      BY <2>2, Parameters
    <2> QED BY <2>1, <2>2
  <1>2. i # 1
    BY Parameters DEF Positive
  <1>3. LongAt(o, e, i) = LongCurve(o, i) + err
    BY <1>2 DEF LongAt, LongCurve, Worth
  <1>4. ShortAt(o, e, i) = ShortCurve(o, i) - err
    BY <1>2 DEF ShortAt, ShortCurve, Worth
  <1> QED BY <1>1, <1>3, <1>4

LEMMA FirstPays ==
    ASSUME NEW o, NEW e
    PROVE  LongAt(o, e, 1) = 0 /\ ShortAt(o, e, 1) = PoolNum(o) \div PoolDen(o)
  BY DEF LongAt, ShortAt

LEMMA CurveBounds ==
    ASSUME NEW o \in Orders, NEW i \in 2..(NPayouts + 1)
    PROVE  LET x == Sample(o, i)
               n == Worth(o)
               m == PoolDen(o)
               k == LongCurve(o, i)
               j == ShortCurve(o, i)
           IN  /\ x \in Positive /\ n \in Positive /\ m \in Positive /\ Grain \in Positive
               /\ k \in Int /\ j \in Int /\ PoolNum(o) \in Int
               /\ (m * x) * k <= PoolNum(o) * x - m * (n * Grain)
               /\ PoolNum(o) * x - m * (n * Grain) < (m * x) * k + m * x
               /\ x * j <= n * Grain /\ n * Grain < x * j + x
  <1> DEFINE x == Sample(o, i)
             n == Worth(o)
             m == PoolDen(o)
             l == Leverage + 1
             g == Grain
             k == LongCurve(o, i)
             j == ShortCurve(o, i)
  <1>1. /\ x \in Positive /\ n \in Positive /\ m \in Positive /\ g \in Positive
        /\ l \in Positive /\ PoolNum(o) = n * l
    <2>1. i \in Indices
      BY Parameters DEF Indices, Positive
    <2> QED BY <2>1, Samples, Amounts, Parameters DEF Positive
  <1>2. k = (n * (l * x - m * g)) \div (m * x) /\ j = (n * g) \div x
    BY DEF LongCurve, ShortCurve
  <1> HIDE DEF x, n, m, l, g, k, j
  <1>3. m * x \in Positive /\ n * g \in Int /\ n * (l * x - m * g) \in Int
    BY <1>1, Product DEF Positive
  <1>4. /\ k \in Int /\ (m * x) * k <= n * (l * x - m * g)
        /\ n * (l * x - m * g) < (m * x) * k + m * x
    BY <1>2, <1>3, Quotient
  <1>5. j \in Int /\ x * j <= n * g /\ n * g < x * j + x
    BY <1>1, <1>2, <1>3, Quotient
  <1>6. n * (l * x - m * g) = (n * l) * x - m * (n * g) /\ n * l \in Int
    BY <1>1 DEF Positive
  <1> QED BY <1>1, <1>4, <1>5, <1>6 DEF x, n, m, l, g, k, j

(* The two payouts of the first range, and of any other.                   *)
LEMMA FirstIsCovered ==
    ASSUME NEW o \in Orders
    PROVE  PoolNum(o) \div PoolDen(o) \in (LockOf(o) - 2)..LockOf(o)
  <1> DEFINE m == PoolDen(o)
             q == PoolNum(o) \div PoolDen(o)
             k == LockOf(o)
             c == PoolNum(o)
  <1>1. m \in Positive /\ k \in Nat /\ c \in Int
    BY Amounts, Parameters DEF Positive
  <1>2. q \in Int /\ m * q <= c /\ c < m * q + m
    BY <1>1, Quotient
  <1>3. m * (k - 1) <= c /\ c < m * (k + 1)
    BY LockIsPool
  <1> HIDE DEF m, q, k, c
  <1>4. m * (q + 1) = m * q + m
    BY <1>1, <1>2 DEF Positive
  <1>5. m * q < m * (k + 1) /\ m * (k - 1) < m * (q + 1)
    BY <1>1, <1>2, <1>3, <1>4 DEF Positive
  <1>6. q < k + 1 /\ k - 1 < q + 1
    BY <1>1, <1>2, <1>5, Between
  <1> QED BY <1>1, <1>2, <1>6 DEF q, k

LEMMA OthersAreCovered ==
    ASSUME NEW o \in Orders, NEW i \in 2..(NPayouts + 1)
    PROVE  LongCurve(o, i) + ShortCurve(o, i) \in (LockOf(o) - 2)..LockOf(o)
  <1> DEFINE x == Sample(o, i)
             m == PoolDen(o)
             w == Worth(o) * Grain
             c == PoolNum(o)
             s == LockOf(o)
             k == LongCurve(o, i)
             j == ShortCurve(o, i)
  <1>1. /\ x \in Positive /\ m \in Positive /\ w \in Positive /\ c \in Int /\ s \in Nat
        /\ k \in Int /\ j \in Int
        /\ (m * x) * k <= c * x - m * w /\ c * x - m * w < (m * x) * k + m * x
        /\ x * j <= w /\ w < x * j + x
    BY CurveBounds, Amounts, Product
  <1>2. m * (s - 1) <= c /\ c < m * (s + 1)
    BY LockIsPool
  <1> HIDE DEF x, m, w, c, s, k, j
  <1>3. m * x \in Positive
    BY <1>1, Product
  <1>4. /\ x * j \in Int /\ x * (j + 1) = x * j + x
        /\ m * (s - 1) \in Int /\ m * (s + 1) \in Int
    BY <1>1 DEF Positive
  <1>5. m * (x * j) <= m * w /\ m * w <= m * (x * (j + 1))
    BY <1>1, <1>4, Scaled DEF Positive
  <1>6. x * (m * (s - 1)) <= x * c /\ x * (c + 1) <= x * (m * (s + 1))
    BY <1>1, <1>2, <1>4, Scaled DEF Positive
  <1>7. /\ m * (x * j) = (m * x) * j /\ m * (x * (j + 1)) = (m * x) * j + m * x
        /\ x * (m * (s - 1)) = (m * x) * (s - 1) /\ x * (m * (s + 1)) = (m * x) * (s + 1)
        /\ x * c = c * x /\ x * (c + 1) = c * x + x
        /\ (m * x) * (k + j) = (m * x) * k + (m * x) * j
        /\ (m * x) * (k + j + 2) = (m * x) * k + (m * x) * j + m * x + m * x
        /\ c * x \in Int /\ m * w \in Int /\ (m * x) * k \in Int /\ (m * x) * j \in Int
    BY <1>1 DEF Positive
  <1>8. (m * x) * (k + j) < (m * x) * (s + 1)
    BY <1>1, <1>3, <1>5, <1>6, <1>7 DEF Positive
  <1>9. (m * x) * (s - 1) < (m * x) * (k + j + 2)
    BY <1>1, <1>3, <1>5, <1>6, <1>7 DEF Positive
  <1>10. k + j < s + 1 /\ s - 1 < k + j + 2
    BY <1>1, <1>3, <1>8, <1>9, Between
  <1> QED BY <1>1, <1>10 DEF s, k, j

LEMMA Covered ==
    ASSUME NEW o \in Orders, NEW e \in Errors, NEW i \in Indices
    PROVE  /\ LongAt(o, e, i) \in Int /\ ShortAt(o, e, i) \in Int
           /\ LongAt(o, e, i) + ShortAt(o, e, i) \in (LockOf(o) - 2)..LockOf(o)
  <1>1. LockOf(o) \in Nat /\ FitError \in Nat
    BY Amounts, Parameters
  <1>2. CASE i = 1
    BY <1>1, <1>2, FirstPays, FirstIsCovered
  <1>3. CASE i \in 2..(NPayouts + 1)
    <2>1. PICK err \in (-FitError)..FitError :
              /\ LongAt(o, e, i) = LongCurve(o, i) + err
              /\ ShortAt(o, e, i) = ShortCurve(o, i) - err
      BY <1>3, CurvePays
    <2>2. LongCurve(o, i) \in Int /\ ShortCurve(o, i) \in Int
      BY <1>3, CurveBounds
    <2>3. LongCurve(o, i) + ShortCurve(o, i) \in (LockOf(o) - 2)..LockOf(o)
      BY <1>3, OthersAreCovered
    <2> QED BY <1>1, <2>1, <2>2, <2>3
  <1> QED BY <1>2, <1>3, Parameters DEF Indices, Positive

-----------------------------------------------------------------------------
(* What is shown and what is paid.                                         *)

(* The curve is not above what the profit formula gives at the end of the  *)
(* range, nor below what it gives before the range.                        *)
LEMMA CurveFromAbove ==
    ASSUME NEW o \in Orders, NEW i \in 2..(NPayouts + 1), NEW d \in Positive,
           Sample(o, i) < Grain * d
    PROVE  LongCurve(o, i) <= LockOf(o) + 1 - Sats(Worth(o), d)
  <1> DEFINE x == Sample(o, i)
             m == PoolDen(o)
             n == Worth(o)
             g == Grain
             c == PoolNum(o)
             s == LockOf(o)
             k == LongCurve(o, i)
             t == Sats(n, d)
  <1>1. /\ x \in Positive /\ m \in Positive /\ n \in Positive /\ g \in Positive
        /\ c \in Int /\ s \in Nat /\ k \in Int
        /\ (m * x) * k <= c * x - m * (n * g)
    BY CurveBounds, Amounts
  <1>2. m * (s - 1) <= c /\ c < m * (s + 1)
    BY LockIsPool
  <1>3. t \in Nat /\ d * (2 * t - 1) <= 2 * n
    BY <1>1, SatsBounds DEF Positive
  <1>4. x < g * d
    OBVIOUS
  <1> HIDE DEF x, m, n, g, c, s, k, t
  <1>5. x * (2 * t - 1) <= 2 * (n * g)
    <2>1. CASE t = 0
      BY <2>1, <1>1 DEF Positive
    <2>2. CASE t # 0
      <3>1. 2 * t - 1 \in Nat /\ g * d \in Int
        BY <2>2, <1>1, <1>3 DEF Positive
      <3>2. (2 * t - 1) * x <= (2 * t - 1) * (g * d)
        BY <1>1, <1>4, <3>1, Scaled DEF Positive
      <3>3. g * (d * (2 * t - 1)) <= g * (2 * n)
        BY <1>1, <1>3, <3>1, Scaled DEF Positive
      <3>4. /\ (2 * t - 1) * x = x * (2 * t - 1)
            /\ (2 * t - 1) * (g * d) = g * (d * (2 * t - 1))
            /\ g * (2 * n) = 2 * (n * g)
        BY <1>1, <1>3 DEF Positive
      <3> QED BY <1>1, <1>3, <3>2, <3>3, <3>4 DEF Positive
    <2> QED BY <2>1, <2>2
  <1>6. m * (x * (2 * t - 1)) <= m * (2 * (n * g))
    BY <1>1, <1>3, <1>5, Scaled DEF Positive
  <1>7. x * (c + 1) <= x * (m * (s + 1))
    BY <1>1, <1>2, Scaled DEF Positive
  <1>8. /\ m * (x * (2 * t - 1)) = (m * x) * (2 * t - 1)
        /\ m * (2 * (n * g)) = 2 * (m * (n * g))
        /\ x * (c + 1) = c * x + x /\ x * (m * (s + 1)) = (m * x) * (s + 1)
        /\ (m * x) * (2 * k) = 2 * ((m * x) * k)
        /\ (m * x) * (2 * s + 3 - 2 * t) = 2 * ((m * x) * (s + 1)) - (m * x) * (2 * t - 1)
        /\ c * x \in Int /\ m * (n * g) \in Int /\ (m * x) * k \in Int
        /\ (m * x) * (s + 1) \in Int /\ (m * x) * (2 * t - 1) \in Int
    BY <1>1, <1>3 DEF Positive
  <1>9. (m * x) * (2 * k) < (m * x) * (2 * s + 3 - 2 * t)
    BY <1>1, <1>6, <1>7, <1>8 DEF Positive
  <1>10. m * x \in Positive /\ 2 * k \in Int /\ 2 * s + 3 - 2 * t \in Int
    BY <1>1, <1>3, Product
  <1>11. 2 * k < 2 * s + 3 - 2 * t
    BY <1>9, <1>10, Between
  <1> QED BY <1>1, <1>3, <1>11 DEF s, k, t, n

LEMMA CurveFromBelow ==
    ASSUME NEW o \in Orders, NEW i \in 2..(NPayouts + 1), NEW d \in Positive,
           Grain * d <= Sample(o, i)
    PROVE  LockOf(o) - 2 - Sats(Worth(o), d) <= LongCurve(o, i)
  <1> DEFINE x == Sample(o, i)
             m == PoolDen(o)
             n == Worth(o)
             g == Grain
             c == PoolNum(o)
             s == LockOf(o)
             k == LongCurve(o, i)
             t == Sats(n, d)
  <1>1. /\ x \in Positive /\ m \in Positive /\ n \in Positive /\ g \in Positive
        /\ c \in Int /\ s \in Nat /\ k \in Int
        /\ c * x - m * (n * g) < (m * x) * k + m * x
    BY CurveBounds, Amounts
  <1>2. m * (s - 1) <= c /\ c < m * (s + 1)
    BY LockIsPool
  <1>3. t \in Nat /\ 2 * n < d * (2 * t + 1)
    BY <1>1, SatsBounds DEF Positive
  <1>4. g * d <= x
    OBVIOUS
  <1> HIDE DEF x, m, n, g, c, s, k, t
  <1>5. 2 * (n * g) <= x * (2 * t + 1)
    <2>1. 2 * t + 1 \in Nat /\ g * d \in Int
      BY <1>1, <1>3 DEF Positive
    <2>2. (2 * t + 1) * (g * d) <= (2 * t + 1) * x
      BY <1>1, <1>4, <2>1, Scaled DEF Positive
    <2>3. g * (2 * n) <= g * (d * (2 * t + 1))
      BY <1>1, <1>3, <2>1, Scaled DEF Positive
    <2>4. /\ (2 * t + 1) * x = x * (2 * t + 1)
          /\ (2 * t + 1) * (g * d) = g * (d * (2 * t + 1))
          /\ g * (2 * n) = 2 * (n * g)
      BY <1>1, <1>3 DEF Positive
    <2> QED BY <1>1, <1>3, <2>2, <2>3, <2>4 DEF Positive
  <1>6. m * (2 * (n * g)) <= m * (x * (2 * t + 1))
    BY <1>1, <1>3, <1>5, Scaled DEF Positive
  <1>7. x * (m * (s - 1)) <= x * c
    BY <1>1, <1>2, Scaled DEF Positive
  <1>8. /\ m * (x * (2 * t + 1)) = (m * x) * (2 * t + 1)
        /\ m * (2 * (n * g)) = 2 * (m * (n * g))
        /\ x * c = c * x /\ x * (m * (s - 1)) = (m * x) * (s - 1)
        /\ (m * x) * (2 * k + 2) = 2 * ((m * x) * k) + 2 * (m * x)
        /\ (m * x) * (2 * s - 3 - 2 * t) = 2 * ((m * x) * (s - 1)) - (m * x) * (2 * t + 1)
        /\ c * x \in Int /\ m * (n * g) \in Int /\ (m * x) * k \in Int
        /\ (m * x) * (s - 1) \in Int /\ (m * x) * (2 * t + 1) \in Int
    BY <1>1, <1>3 DEF Positive
  <1>9. (m * x) * (2 * s - 3 - 2 * t) < (m * x) * (2 * k + 2)
    BY <1>1, <1>6, <1>7, <1>8 DEF Positive
  <1>10. m * x \in Positive /\ 2 * k + 2 \in Int /\ 2 * s - 3 - 2 * t \in Int
    BY <1>1, <1>3, Product
  <1>11. 2 * s - 3 - 2 * t < 2 * k + 2
    BY <1>9, <1>10, Between
  <1> QED BY <1>1, <1>3, <1>11 DEF s, k, t, n

(* Beyond the first range the long side is not liquidated.                 *)
LEMMA CurveNotNegative ==
    ASSUME NEW o \in Orders, NEW i \in 2..(NPayouts + 1)
    PROVE  LongCurve(o, i) >= 0
  <1> DEFINE x == Sample(o, i)
             m == PoolDen(o)
             n == Worth(o)
             g == Grain
             l == Leverage + 1
             k == LongCurve(o, i)
  <1>1. /\ x \in Positive /\ m \in Positive /\ n \in Positive /\ g \in Positive
        /\ l \in Positive /\ k \in Int /\ PoolNum(o) = n * l
        /\ PoolNum(o) * x - m * (n * g) < (m * x) * k + m * x
    BY CurveBounds, Amounts, Parameters DEF Positive
  <1>2. LowerCorner(o) <= x
    BY Samples, Parameters DEF Indices, Positive
  <1>3. l * LowerCorner(o) = m * g
    <2>1. NPayouts \in Positive /\ Leverage \in Positive /\ o.price \in Positive
      BY Parameters DEF Orders
    <2>2. (Leverage + 1) * (4 * NPayouts * o.price * Leverage)
            = (o.price * Leverage) * (4 * NPayouts * (Leverage + 1))
      BY <2>1 DEF Positive
    <2> QED BY <2>2 DEF LowerCorner, PoolDen, Grain
  <1>4. LowerCorner(o) \in Int
    BY Corners DEF Positive
  <1> HIDE DEF x, m, n, g, l, k
  <1>5. m * g <= l * x
    BY <1>1, <1>2, <1>3, <1>4, Scaled DEF Positive
  <1>6. n * (m * g) <= n * (l * x)
    BY <1>1, <1>5, Scaled DEF Positive
  <1>7. /\ n * (m * g) = m * (n * g) /\ n * (l * x) = (n * l) * x
        /\ (m * x) * (k + 1) = (m * x) * k + m * x /\ (m * x) * 0 = 0
        /\ m * (n * g) \in Int /\ (n * l) * x \in Int /\ (m * x) * k \in Int
    BY <1>1 DEF Positive
  <1>8. (m * x) * 0 < (m * x) * (k + 1)
    BY <1>1, <1>6, <1>7 DEF Positive
  <1>9. 0 < k + 1
    <2>1. m * x \in Positive
      BY <1>1, Product
    <2> QED BY <1>1, <1>8, <2>1, Between
  <1> QED BY <1>1, <1>9 DEF k

(* Liquidation and the profit formula.                                     *)
LEMMA LiquidatedBelow ==
    ASSUME NEW o \in Orders, NEW c \in Positive, NEW d \in Positive, c <= d,
           LongIsLiquidated(o, d)
    PROVE  LongIsLiquidated(o, c)
  <1> DEFINE l == Leverage + 1
  <1>1. l \in Positive /\ o.price * Leverage \in Positive
    BY Parameters, Product DEF Orders, Positive
  <1>2. l * c <= l * d /\ l * c = c * l /\ l * d = d * l /\ c * l \in Int /\ d * l \in Int
    BY <1>1, Scaled DEF Positive
  <1> HIDE DEF l
  <1>3. d * l <= o.price * Leverage
    BY DEF LongIsLiquidated, l
  <1>4. c * l <= o.price * Leverage
    BY <1>1, <1>2, <1>3 DEF Positive
  <1> QED BY <1>4 DEF LongIsLiquidated, l

LEMMA ChangeIsCovered ==
    ASSUME NEW o \in Orders, NEW d \in Positive, ~LongIsLiquidated(o, d)
    PROVE  Sats(Worth(o), d) <= LockOf(o) + 1
  <1> DEFINE n == Worth(o)
             m == PoolDen(o)
             l == Leverage + 1
             s == LockOf(o)
             t == Sats(n, d)
  <1>1. /\ n \in Positive /\ m \in Positive /\ l \in Positive /\ s \in Nat
        /\ PoolNum(o) = n * l /\ m = o.price * Leverage
    BY Amounts, Parameters DEF Positive
  <1>2. t \in Nat /\ d * (2 * t - 1) <= 2 * n
    BY <1>1, SatsBounds DEF Positive
  <1>3. n * l < m * (s + 1)
    BY <1>1, LockIsPool
  <1>4. m < d * l
    <2>1. d * l \in Int /\ ~(d * l <= m)
      BY <1>1 DEF LongIsLiquidated, Positive
    <2> QED BY <1>1, <2>1 DEF Positive
  <1> HIDE DEF n, m, l, s, t
  <1>5. SUFFICES ASSUME t > 0
                 PROVE  t <= s + 1
    BY <1>1, <1>2 DEF n, s, t
  <1>6. (2 * t - 1) * m <= (2 * t - 1) * (d * l)
    BY <1>1, <1>2, <1>4, <1>5, Scaled DEF Positive
  <1>7. l * (d * (2 * t - 1)) <= l * (2 * n)
    BY <1>1, <1>2, Scaled DEF Positive
  <1>8. /\ (2 * t - 1) * m = m * (2 * t - 1)
        /\ (2 * t - 1) * (d * l) = l * (d * (2 * t - 1))
        /\ l * (2 * n) = 2 * (n * l)
        /\ m * (2 * s + 2) = 2 * (m * (s + 1))
        /\ n * l \in Int /\ m * (s + 1) \in Int /\ m * (2 * t - 1) \in Int
        /\ l * (d * (2 * t - 1)) \in Int
    BY <1>1, <1>2 DEF Positive
  <1>9. m * (2 * t - 1) < m * (2 * s + 2)
    BY <1>3, <1>6, <1>7, <1>8
  <1>10. 2 * t - 1 < 2 * s + 2
    <2>1. m \in Positive /\ 2 * t - 1 \in Int /\ 2 * s + 2 \in Int
      BY <1>1, <1>2
    <2> QED BY <1>9, <2>1, Between
  <1> QED BY <1>1, <1>2, <1>10

LEMMA Profit ==
    ASSUME NEW o \in Orders, NEW d \in Positive
    PROVE  /\ LongIsLiquidated(o, d) => ProfitAt(o, "long", d) = -LongMargin(o)
           /\ ~LongIsLiquidated(o, d) =>
                ProfitAt(o, "long", d) = ShortMargin(o) - Sats(Worth(o), d)
  <1>1. LongMargin(o) \in Nat /\ ShortMargin(o) \in Nat
        /\ ShortMargin(o) = Sats(Worth(o), o.price) /\ Sats(Worth(o), d) \in Nat
    BY Amounts, SatsBounds DEF Positive
  <1>2. d # 0
    BY DEF Positive
  <1>3. AmountChanged(o, d) = ShortMargin(o) - Sats(Worth(o), d)
    BY <1>1 DEF AmountChanged, Worth
  <1>4. CASE LongIsLiquidated(o, d)
    <2>1. PayoutAt(o, "long", d) = 0
      BY <1>4 DEF PayoutAt
    <2>2. ProfitAt(o, "long", d) = 0 - LongMargin(o)
      BY <1>2, <2>1 DEF ProfitAt, Margin
    <2> QED BY <1>1, <1>4, <2>2
  <1>5. CASE ~LongIsLiquidated(o, d)
    <2>1. PayoutAt(o, "long", d) = LongMargin(o) + AmountChanged(o, d)
      BY <1>5 DEF PayoutAt
    <2>2. ProfitAt(o, "long", d) = (LongMargin(o) + AmountChanged(o, d)) - LongMargin(o)
      BY <1>2, <2>1 DEF ProfitAt, Margin
    <2> QED BY <1>1, <1>3, <1>5, <2>2
  <1> QED BY <1>4, <1>5

(* Behind a range the long side is not liquidated, and at a dollar it is:  *)
(* the least order whose curve has no empty range is made at two dollars.  *)
LEMMA BehindRange ==
    ASSUME NEW o \in Orders, NEW e, Payable(o, e), NEW i \in Indices
    PROVE  /\ RightOf(o, i) + 1 \in Positive
           /\ Sample(o, i) < Grain * (RightOf(o, i) + 1)
           /\ ~LongIsLiquidated(o, RightOf(o, i) + 1)
  <1> DEFINE d == RightOf(o, i) + 1
             x == Sample(o, i)
  <1>1. NPayouts \in Positive /\ Leverage \in Positive /\ o.price \in Positive /\ Grain \in Positive
    BY Parameters DEF Orders
  <1>2. d \in Positive
    <2>1. LeftOf(o, i) \in Int /\ RightOf(o, i) \in Int /\ LeftOf(o, i) <= RightOf(o, i)
      BY Ends, NotEmpty
    <2>2. LeftOf(o, i) \in Ranges(o, i)
      BY <2>1 DEF Ranges
    <2>3. LeftOf(o, i) \in 0..(2 * o.price)
      BY <2>2, NoneAbove
    <2> QED BY <2>1, <2>3 DEF Positive
  <1>3. x \in Positive /\ LowerCorner(o) <= x /\ LowerCorner(o) \in Positive
    BY Samples, Corners
  <1>4. x < Grain * d
    <2>1. CASE i = 1
      <3> DEFINE r == Round(x)
      <3>1. r \in Int /\ 2 * x < 2 * (Grain * r) + Grain
        BY <1>3, RoundBounds DEF Positive
      <3>2. d = r + 1
        BY <2>1 DEF RightOf
      <3> HIDE DEF r, d, x
      <3>3. Grain * d = Grain * r + Grain /\ Grain * r \in Int
        BY <1>1, <3>1, <3>2 DEF Positive
      <3> QED BY <1>1, <1>3, <3>1, <3>3 DEF Positive
    <2>2. CASE i \in 2..(NPayouts + 1)
      BY <2>2, Around
    <2> QED BY <2>1, <2>2, <1>1 DEF Indices, Positive
  <1>5. ~LongIsLiquidated(o, d)
    <2> DEFINE n == 4 * NPayouts
               l == Leverage + 1
               m == o.price * Leverage
    <2>1. n \in Positive /\ l \in Positive /\ m \in Positive
      BY <1>1, Product DEF Positive
    <2>2. LowerCorner(o) = n * m /\ Grain = n * l
      BY <1>1 DEF LowerCorner, Grain, Positive
    <2> HIDE DEF n, l, m, d, x
    <2>3. n * m < n * (d * l) /\ d * l \in Int
      <3>1. Grain * d = n * (d * l)
        BY <1>2, <2>1, <2>2 DEF Positive
      <3>2. n * m < Grain * d
        BY <1>1, <1>2, <1>3, <1>4, <2>2 DEF Positive
      <3> QED BY <1>2, <2>1, <3>1, <3>2 DEF Positive
    <2>4. m < d * l
      BY <2>1, <2>3, Between DEF Positive
    <2>5. ~(d * l <= m)
      BY <2>1, <2>3, <2>4 DEF Positive
    <2> QED BY <2>5 DEF LongIsLiquidated, l, m
  <1> QED BY <1>2, <1>4, <1>5

LEMMA DollarIsLiquidated ==
    ASSUME NEW o \in Orders, NEW e, Payable(o, e)
    PROVE  LongIsLiquidated(o, 1)
  <1>1. NPayouts \in Positive /\ NPayouts >= 3 /\ Leverage \in Positive /\ o.price \in Positive
    BY Parameters DEF Orders
  <1>2. {1, 2, 3, 4} \subseteq Indices /\ {1, 2, 3} \subseteq 1..NPayouts
    BY <1>1 DEF Indices, Positive
  <1>3. /\ \A i \in {1, 2, 3, 4} : /\ LeftOf(o, i) \in Int /\ RightOf(o, i) \in Int
                                   /\ LeftOf(o, i) <= RightOf(o, i)
        /\ LeftOf(o, 1) = 0 /\ LeftOf(o, 2) = RightOf(o, 1) + 1
        /\ LeftOf(o, 3) = RightOf(o, 2) + 1 /\ LeftOf(o, 4) = RightOf(o, 3) + 1
    <2>1. /\ LeftOf(o, 1 + 1) = RightOf(o, 1) + 1 /\ LeftOf(o, 2 + 1) = RightOf(o, 2) + 1
          /\ LeftOf(o, 3 + 1) = RightOf(o, 3) + 1
      BY <1>2, Ends
    <2> QED BY <1>2, <2>1, Ends, NotEmpty
  <1>4. 3 <= RightOf(o, 4)
    BY <1>3
  <1>5. RightOf(o, 4) \in Ranges(o, 4)
    BY <1>3 DEF Ranges
  <1>6. RightOf(o, 4) \in 0..(2 * o.price)
    BY <1>2, <1>5, NoneAbove
  <1>7. 2 <= o.price
    BY <1>1, <1>4, <1>6 DEF Positive
  <1>8. Leverage * 2 <= Leverage * o.price /\ Leverage * o.price = o.price * Leverage
        /\ o.price * Leverage \in Int
    BY <1>1, <1>7, Scaled DEF Positive
  <1>9. 1 * (Leverage + 1) <= o.price * Leverage
    BY <1>1, <1>8 DEF Positive
  <1> QED BY <1>9 DEF LongIsLiquidated

(* The profit shown at a price of a range, against what the range pays.    *)
LEMMA ShownNearPaid ==
    ASSUME NEW o \in Orders, NEW e \in Errors, Payable(o, e), NEW i \in Indices,
           NEW price \in Positive, price \in Ranges(o, i)
    PROVE  LET below == IF LeftOf(o, i) > 2 THEN LeftOf(o, i) - 2 ELSE 1
               slack == ProfitAt(o, "long", RightOf(o, i) + 1)
                           - ProfitAt(o, "long", below) + FitError + 2
           IN  LongAt(o, e, i) - LongMargin(o) - ProfitAt(o, "long", price)
                   \in (-slack)..slack
  <1> DEFINE left == LeftOf(o, i)
             d == RightOf(o, i) + 1
             below == IF left > 2 THEN left - 2 ELSE 1
             s == LockOf(o)
             a == LongMargin(o)
             b == ShortMargin(o)
             hi == Sats(Worth(o), d)
             lo == Sats(Worth(o), below)
             t == Sats(Worth(o), price)
  <1>1. /\ a \in Nat /\ b \in Nat /\ s = a + b /\ FitError \in Nat /\ Worth(o) \in Nat
        /\ left \in Int /\ RightOf(o, i) \in Int /\ left <= price /\ price <= RightOf(o, i)
    BY Amounts, Parameters, Ends DEF LockOf, Ranges, Positive
  <1>2. /\ d \in Positive /\ Sample(o, i) < Grain * d /\ ~LongIsLiquidated(o, d)
    BY BehindRange
  <1>3. below \in Positive /\ below <= price /\ price <= d
    BY <1>1 DEF Positive
  <1>4. hi \in Nat /\ lo \in Nat /\ t \in Nat /\ hi <= t /\ t <= lo
    BY <1>1, <1>2, <1>3, SatsBounds, SatsFalls
  <1>5. hi <= s + 1 /\ (~LongIsLiquidated(o, price) => t <= s + 1)
    BY <1>2, ChangeIsCovered
  <1>6. ProfitAt(o, "long", d) = b - hi
    BY <1>2, Profit
  <1>7. /\ LongIsLiquidated(o, below) => ProfitAt(o, "long", below) = -a
        /\ ~LongIsLiquidated(o, below) => ProfitAt(o, "long", below) = b - lo
        /\ LongIsLiquidated(o, price) => ProfitAt(o, "long", price) = -a
        /\ ~LongIsLiquidated(o, price) => ProfitAt(o, "long", price) = b - t
    BY <1>3, Profit
  <1>8. LongIsLiquidated(o, price) => LongIsLiquidated(o, below)
    BY <1>3, LiquidatedBelow
  <1>9. left <= 2 => LongIsLiquidated(o, below)
    BY <1>1, DollarIsLiquidated
  <1>10. i = 1 => left = 0 /\ LongAt(o, e, i) = 0
    BY Ends, FirstPays
  <1>11. i # 1 =>
           \E err \in (-FitError)..FitError :
             /\ LongAt(o, e, i) = LongCurve(o, i) + err /\ LongCurve(o, i) \in Nat
             /\ LongCurve(o, i) <= s + 1 - hi
             /\ left > 2 => s - 2 - lo <= LongCurve(o, i)
             /\ LongAt(o, e, i) >= 0
    <2> SUFFICES ASSUME i # 1
                 PROVE  \E err \in (-FitError)..FitError :
                          /\ LongAt(o, e, i) = LongCurve(o, i) + err /\ LongCurve(o, i) \in Nat
                          /\ LongCurve(o, i) <= s + 1 - hi
                          /\ left > 2 => s - 2 - lo <= LongCurve(o, i)
                          /\ LongAt(o, e, i) >= 0
      OBVIOUS
    <2>1. i \in 2..(NPayouts + 1)
      BY Parameters DEF Indices, Positive
    <2>2. LongCurve(o, i) \in Nat
      BY <2>1, CurveBounds, CurveNotNegative
    <2>3. LongCurve(o, i) <= s + 1 - hi
      BY <1>2, <2>1, CurveFromAbove
    <2>4. left > 2 => s - 2 - lo <= LongCurve(o, i)
      <3> SUFFICES ASSUME left > 2
                   PROVE  s - 2 - lo <= LongCurve(o, i)
        OBVIOUS
      <3>1. below = left - 2 /\ Grain * below <= Sample(o, i)
        BY <2>1, Around
      <3> QED BY <1>3, <2>1, <3>1, CurveFromBelow
    <2>5. LongAt(o, e, i) >= 0
      BY NotEmpty
    <2> QED BY <2>1, <2>2, <2>3, <2>4, <2>5, CurvePays
  <1> DEFINE pd == ProfitAt(o, "long", d)
             pb == ProfitAt(o, "long", below)
             pp == ProfitAt(o, "long", price)
             paid == LongAt(o, e, i)
             slack == pd - pb + FitError + 2
  <1>12. paid - a - pp \in (-slack)..slack
    <2> DEFINE lb == LongIsLiquidated(o, below)
               lp == LongIsLiquidated(o, price)
               curve == LongCurve(o, i)
    <2>1. /\ pd = b - hi /\ (lb => pb = -a) /\ (~lb => pb = b - lo)
          /\ (lp => pp = -a) /\ (~lp => pp = b - t)
          /\ (lp => lb) /\ (left <= 2 => lb) /\ (~lp => t <= s + 1)
          /\ (i = 1 => left = 0 /\ paid = 0)
          /\ (i # 1 => \E err \in (-FitError)..FitError :
                         /\ paid = curve + err /\ curve \in Nat
                         /\ curve <= s + 1 - hi
                         /\ left > 2 => s - 2 - lo <= curve
                         /\ paid >= 0)
      BY <1>5, <1>6, <1>7, <1>8, <1>9, <1>10, <1>11
    <2> HIDE DEF lb, lp, curve, pd, pb, pp, paid, left, below, hi, lo, t, a, b, s, d
    <2>2. CASE i = 1
      <3>1. lb /\ paid = 0 /\ pb = -a
        BY <2>1, <2>2
      <3>2. CASE lp
        BY <1>1, <1>4, <1>5, <2>1, <3>1, <3>2
      <3>3. CASE ~lp
        BY <1>1, <1>4, <1>5, <2>1, <3>1, <3>3
      <3> QED BY <3>2, <3>3
    <2>3. CASE i # 1
      <3>1. PICK err \in (-FitError)..FitError :
                   /\ paid = curve + err /\ curve \in Nat
                   /\ curve <= s + 1 - hi
                   /\ left > 2 => s - 2 - lo <= curve
                   /\ paid >= 0
        BY <2>1, <2>3
      <3>2. CASE lp
        <4>1. pb = -a /\ pp = -a
          BY <2>1, <3>2
        <4> QED BY <1>1, <1>4, <1>5, <2>1, <3>1, <4>1
      <3>3. CASE ~lp /\ lb
        <4>1. pb = -a /\ pp = b - t /\ t <= s + 1
          BY <2>1, <3>3
        <4> QED BY <1>1, <1>4, <1>5, <2>1, <3>1, <4>1
      <3>4. CASE ~lp /\ ~lb
        <4>1. pb = b - lo /\ pp = b - t /\ left > 2
          BY <1>1, <2>1, <3>4
        <4> QED BY <1>1, <1>4, <1>5, <2>1, <3>1, <4>1
      <3> QED BY <3>2, <3>3, <3>4
    <2> QED BY <2>2, <2>3
  <1> QED BY <1>12

-----------------------------------------------------------------------------
(* The life of the contract.                                               *)

\* a payment pays the taker what the range of its price pays
Pays(c) == \E r \in RangesOf(c.price) : c.taker = r.taker

(* What the record says of the terms of the contract.                      *)
TermsOK ==
    /\ order \in Orders /\ fit \in Errors /\ Payable(order, fit)
    /\ oracle \in Positive \cup {0} /\ market \in Positive
    /\ attested \in {None, oracle}

(* Settlements are made from the curve, and a signed one that is not the   *)
(* close on record has been forgotten.                                     *)
ClosesOK ==
    /\ proposal # None => close = None /\ proposal.price \in Positive /\ Pays(proposal)
    /\ \A c \in signed : c # None /\ c.price \in Positive /\ Pays(c)
    /\ close # None => close \in signed
    /\ forgot \in BOOLEAN
    /\ ~forgot => \A c \in signed : c = close
    /\ phase = "committed" => close = None

(* A close spends the contract as the record knows it, or is forgotten; a  *)
(* CET spends one that is committed, at the attested price.                *)
EndOK ==
    end # None =>
        \/ /\ end.by = "close"
           /\ forgot \/ (close # None /\ end.price = close.price /\ end.taker = close.taker)
        \/ /\ end.by = "cet" /\ phase # "open" /\ close = None
           /\ end.price = oracle /\ Pays(end)

IInv == TermsOK /\ ClosesOK /\ EndOK

LEMMA PricesArePositive ==
    /\ Prices \subseteq Positive /\ Quantities \subseteq Positive
    /\ Quotes \subseteq Positive
  BY PriceAssumption DEF Positive

LEMMA Initially == Init => IInv
  <1> SUFFICES ASSUME Init
               PROVE  IInv
    OBVIOUS
  <1>1. TermsOK
    BY PricesArePositive DEF Init, TermsOK, Orders, Errors
  <1>2. ClosesOK /\ EndOK
    BY DEF Init, ClosesOK, EndOK
  <1> QED BY <1>1, <1>2 DEF IInv

(* The curve does not change.                                              *)
LEMMA CurveStays ==
    ASSUME UNCHANGED <<order, fit>>
    PROVE  /\ Payable(order, fit)' <=> Payable(order, fit)
           /\ \A price : RangesOf(price)' = RangesOf(price)
  BY DEF Payable, RangesOf, Payouts, LeftOf, RightOf, LongAt, ShortAt

LEMMA TermsSteps ==
    ASSUME IInv, [Next]_vars
    PROVE  TermsOK'
  <1>1. /\ UNCHANGED <<order, fit, oracle>>
        /\ market' = market \/ market' \in Quotes
        /\ attested' = attested \/ attested' = oracle
    BY DEF Next, vars, terms, quote, record, Quote, FeedEnds, ProposeSettlement,
           ConcludeSettlement, StopAfterSigning, Attest, Commit, CloseConfirms, CetConfirms
  <1> QED BY <1>1, CurveStays, PricesArePositive DEF IInv, TermsOK

LEMMA PaysStays ==
    ASSUME [Next]_vars, NEW c, Pays(c)
    PROVE  Pays(c)'
  <1>1. UNCHANGED <<order, fit>>
    BY DEF Next, vars, terms, Quote, FeedEnds, ProposeSettlement,
           ConcludeSettlement, StopAfterSigning, Attest, Commit, CloseConfirms, CetConfirms
  <1> QED BY <1>1, CurveStays DEF Pays

LEMMA ClosesSteps ==
    ASSUME IInv, [Next]_vars
    PROVE  ClosesOK'
  <1> USE DEF IInv
  <1>1. ASSUME UNCHANGED <<proposal, close, signed, forgot, phase>>
        PROVE  ClosesOK'
    BY <1>1, PaysStays DEF ClosesOK
  <1>2. CASE UNCHANGED vars
    BY <1>1, <1>2 DEF vars, record
  <1>3. ASSUME NEW price \in Quotes, Quote(price)
        PROVE  ClosesOK'
    BY <1>1, <1>3 DEF Quote, record
  <1>4. CASE FeedEnds
    BY <1>1, <1>4 DEF FeedEnds, record
  <1>5. CASE ProposeSettlement
    <2>1. /\ UNCHANGED <<order, fit, close, signed, forgot, phase>> /\ close = None
          /\ \E r \in RangesOf(market) :
                proposal' = [price |-> market, taker |-> r.taker, maker |-> r.maker]
      BY <1>5 DEF ProposeSettlement, terms, record
    <2>2. PICK r \in RangesOf(market) :
                proposal' = [price |-> market, taker |-> r.taker, maker |-> r.maker]
      BY <2>1
    <2>3. proposal'.price = market /\ RangesOf(proposal.price)' = RangesOf(market)
      BY <2>1, <2>2, CurveStays
    <2>4. proposal'.price \in Positive /\ Pays(proposal)'
      BY <2>1, <2>2, <2>3 DEF Pays, TermsOK
    <2> QED BY <2>1, <2>4, PaysStays DEF ClosesOK
  <1>6. ASSUME NEW agreed \in BOOLEAN, ConcludeSettlement(agreed)
        PROVE  ClosesOK'
    <2>1. proposal # None /\ proposal' = None /\ UNCHANGED <<phase, forgot>>
      BY <1>6 DEF ConcludeSettlement, record
    <2>2. CASE agreed
      <3>1. phase = "open" /\ close' = proposal /\ signed' = signed \cup {proposal}
        BY <1>6, <2>2 DEF ConcludeSettlement
      <3>2. ~forgot => signed = {}
        BY <2>1 DEF ClosesOK
      <3> QED BY <2>1, <3>1, <3>2, PaysStays DEF ClosesOK
    <2>3. CASE ~agreed
      <3>1. UNCHANGED <<close, signed>>
        BY <1>6, <2>3 DEF ConcludeSettlement
      <3> QED BY <2>1, <3>1, PaysStays DEF ClosesOK
    <2> QED BY <2>2, <2>3
  <1>7. CASE StopAfterSigning
    <2>1. /\ proposal # None /\ proposal' = None /\ signed' = signed \cup {proposal}
          /\ forgot' = TRUE /\ UNCHANGED <<close, phase>>
      BY <1>7 DEF StopAfterSigning, record
    <2> QED BY <2>1, PaysStays DEF ClosesOK
  <1>8. CASE Attest \/ Commit
    <2>1. /\ UNCHANGED <<proposal, signed>> /\ close' = None
          /\ forgot' = (forgot \/ close # None)
      BY <1>8 DEF Attest, Commit
    <2>2. ~forgot' => signed = {}
      BY <2>1 DEF ClosesOK
    <2> QED BY <2>1, <2>2, PaysStays DEF ClosesOK
  <1>9. ASSUME NEW c \in signed, CloseConfirms(c)
        PROVE  ClosesOK'
    <2>1. /\ UNCHANGED <<proposal, close, signed, forgot>>
          /\ phase' = IF close # None THEN "closed" ELSE phase
      BY <1>9 DEF CloseConfirms
    <2> QED BY <2>1, PaysStays DEF ClosesOK
  <1>10. CASE CetConfirms
    <2>1. UNCHANGED <<proposal, close, signed, forgot>> /\ phase = "committed"
      BY <1>10 DEF CetConfirms
    <2> QED BY <2>1, PaysStays DEF ClosesOK
  <1> QED BY <1>2, <1>3, <1>4, <1>5, <1>6, <1>7, <1>8, <1>9, <1>10 DEF Next

LEMMA EndSteps ==
    ASSUME IInv, [Next]_vars
    PROVE  EndOK'
  <1> USE DEF IInv
  <1>1. UNCHANGED oracle
    BY DEF Next, vars, terms, Quote, FeedEnds, ProposeSettlement,
           ConcludeSettlement, StopAfterSigning, Attest, Commit, CloseConfirms, CetConfirms
  <1>2. ASSUME UNCHANGED <<end, close, forgot, phase>>
        PROVE  EndOK'
    BY <1>1, <1>2, PaysStays DEF EndOK
  <1>3. CASE UNCHANGED vars
    BY <1>2, <1>3 DEF vars, record
  <1>4. ASSUME NEW price \in Quotes, Quote(price)
        PROVE  EndOK'
    BY <1>2, <1>4 DEF Quote, record
  <1>5. CASE FeedEnds
    BY <1>2, <1>5 DEF FeedEnds, record
  <1>6. CASE ProposeSettlement
    BY <1>2, <1>6 DEF ProposeSettlement, record
  <1>7. ASSUME NEW agreed \in BOOLEAN, ConcludeSettlement(agreed)
        PROVE  EndOK'
    <2>1. /\ proposal # None /\ (agreed => phase = "open") /\ UNCHANGED <<phase, forgot, end>>
          /\ close' = IF agreed THEN proposal ELSE close
      BY <1>7 DEF ConcludeSettlement, record
    <2>2. close = None
      BY <2>1 DEF ClosesOK
    <2> QED BY <1>1, <2>1, <2>2, PaysStays DEF EndOK
  <1>8. CASE StopAfterSigning
    <2>1. forgot' = TRUE /\ UNCHANGED <<close, phase, end>>
      BY <1>8 DEF StopAfterSigning, record
    <2> QED BY <1>1, <2>1, PaysStays DEF EndOK
  <1>9. CASE Attest \/ Commit
    <2>1. /\ UNCHANGED end /\ close' = None /\ forgot' = (forgot \/ close # None)
          /\ phase # "open" => phase' # "open"
      BY <1>9 DEF Attest, Commit
    <2> QED BY <1>1, <2>1, PaysStays DEF EndOK
  <1>10. ASSUME NEW c \in signed, CloseConfirms(c)
         PROVE  EndOK'
    <2>1. /\ end' = [by |-> "close", price |-> c.price, taker |-> c.taker]
          /\ UNCHANGED <<close, forgot>>
      BY <1>10 DEF CloseConfirms
    <2>2. c # None /\ (~forgot => close = c)
      BY <1>10 DEF ClosesOK
    <2>3. end'.by = "close" /\ end'.price = c.price /\ end'.taker = c.taker
      BY <2>1
    <2> QED BY <2>1, <2>2, <2>3 DEF EndOK
  <1>11. CASE CetConfirms
    <2>1. /\ UNCHANGED <<order, fit, oracle, close>> /\ phase = "committed"
          /\ phase' = IF attested # None THEN "closed" ELSE phase
          /\ \E r \in RangesOf(oracle) :
                end' = [by |-> "cet", price |-> oracle, taker |-> r.taker]
      BY <1>11 DEF CetConfirms, terms
    <2>2. PICK r \in RangesOf(oracle) :
                end' = [by |-> "cet", price |-> oracle, taker |-> r.taker]
      BY <2>1
    <2>3. end'.by = "cet" /\ end'.price = oracle /\ Pays(end)'
      BY <2>1, <2>2, CurveStays DEF Pays
    <2>4. close = None
      BY <2>1 DEF ClosesOK
    <2> QED BY <2>1, <2>3, <2>4 DEF EndOK
  <1> QED BY <1>3, <1>4, <1>5, <1>6, <1>7, <1>8, <1>9, <1>10, <1>11 DEF Next

LEMMA IInvSteps ==
    ASSUME IInv, [Next]_vars
    PROVE  IInv'
  BY TermsSteps, ClosesSteps, EndSteps DEF IInv

(* The order is one whose curve CETs can be made from, each settlement     *)
(* pays what a CET of its price would, and the record holds the one close  *)
(* that is signed unless it has forgotten one.                             *)
THEOREM InvariantHolds == Spec => []IInv
  BY Initially, IInvSteps, PTL DEF Spec

(* EveryPriceOnce: of the CETs made from payout_curve::calculate, exactly  *)
(* one pays each whole price up to twice the initial one.                  *)
THEOREM PricesOnce == Spec => []EveryPriceOnce
  <1>1. IInv => EveryPriceOnce
    <2> SUFFICES ASSUME IInv
                 PROVE  EveryPriceOnce
      OBVIOUS
    <2> DEFINE Of(price) == {r \in Payouts(order, fit) : price \in r.left..r.right}
    <2>1. order \in Orders /\ Payable(order, fit)
      BY DEF IInv, TermsOK
    <2>2. \A i \in Indices : \A price :
            price \in RangeAt(order, fit, i).left..RangeAt(order, fit, i).right
              <=> price \in Ranges(order, i)
      BY DEF RangeAt, Ranges
    <2>3. ASSUME NEW price \in Curve
          PROVE  \E r \in Of(price) : Of(price) = {r}
      <3>1. price \in 0..(2 * order.price) /\ price \in Int
        BY <2>1, <2>3 DEF Curve, Orders, Positive
      <3>2. PICK i \in Indices : price \in Ranges(order, i)
        BY <2>1, <3>1, SomeRange
      <3> DEFINE r == RangeAt(order, fit, i)
      <3>3. r \in Of(price)
        BY <2>2, <3>2, PayoutsAre
      <3>4. ASSUME NEW q \in Of(price)
            PROVE  q = r
        <4>1. PICK j \in Indices : q = RangeAt(order, fit, j)
          BY PayoutsAre
        <4>2. price \in Ranges(order, j)
          BY <2>2, <4>1
        <4>3. i = j
          BY <2>1, <3>1, <3>2, <4>2, OneRange
        <4> QED BY <4>1, <4>3
      <3> HIDE DEF r, Of
      <3> QED BY <3>3, <3>4
    <2>4. ASSUME NEW price \in Quotes \ Curve
          PROVE  Of(price) = {}
      <3>1. SUFFICES ASSUME NEW q \in Of(price)
                     PROVE  FALSE
        OBVIOUS
      <3>2. PICK j \in Indices : q = RangeAt(order, fit, j)
        BY PayoutsAre
      <3>3. price \in Ranges(order, j)
        BY <2>2, <3>2
      <3>4. price \in 0..(2 * order.price)
        BY <2>1, <3>3, NoneAbove
      <3> QED BY <2>4, <3>4 DEF Curve
    <2> QED BY <2>3, <2>4 DEF EveryPriceOnce
  <1> QED BY InvariantHolds, <1>1, PTL

(* LockCoversPayouts: the payouts of payout_curve::calculate against the   *)
(* margins of calculate_long_margin and calculate_short_margin.            *)
THEOREM PayoutsCovered == Spec => []LockCoversPayouts
  <1>1. IInv => LockCoversPayouts
    <2> SUFFICES ASSUME IInv, NEW r \in Payouts(order, fit)
                 PROVE  r.taker + r.maker \in (Lock - 2)..Lock
      BY DEF LockCoversPayouts
    <2>1. order \in Orders /\ fit \in Errors /\ Payable(order, fit)
      BY DEF IInv, TermsOK
    <2>2. PICK i \in Indices : r = RangeAt(order, fit, i)
      BY PayoutsAre
    <2>3. r.taker = LongAt(order, fit, i) /\ r.maker = ShortAt(order, fit, i)
      BY <2>2 DEF RangeAt
    <2>4. Lock = LockOf(order)
      BY DEF Lock, LockOf
    <2> QED BY <2>1, <2>3, <2>4, Covered
  <1> QED BY InvariantHolds, <1>1, PTL

(* The profit shown at a price, against the payment at that price.         *)
LEMMA ShownAtPrice ==
    ASSUME TermsOK, NEW price \in Positive, NEW p, p.price = price, Pays(p),
           NEW r \in RangesOf(price)
    PROVE  p.taker - LongMargin(order) - ProfitAt(order, "long", price)
               \in (-Slack(r))..Slack(r)
  <1>1. order \in Orders /\ fit \in Errors /\ Payable(order, fit)
    BY DEF TermsOK
  <1>2. \A q \in RangesOf(price) : \E i \in Indices :
            q = RangeAt(order, fit, i) /\ price \in Ranges(order, i)
    <2> SUFFICES ASSUME NEW q \in RangesOf(price)
                 PROVE  \E i \in Indices : q = RangeAt(order, fit, i) /\ price \in Ranges(order, i)
      OBVIOUS
    <2>1. q \in Payouts(order, fit) /\ price \in q.left..q.right
      BY DEF RangesOf
    <2>2. PICK i \in Indices : q = RangeAt(order, fit, i)
      BY <2>1, PayoutsAre
    <2> QED BY <2>1, <2>2 DEF RangeAt, Ranges
  <1>3. PICK i \in Indices : r = RangeAt(order, fit, i) /\ price \in Ranges(order, i)
    BY <1>2
  <1>4. PICK q \in RangesOf(price) : p.taker = q.taker
    BY DEF Pays
  <1>5. PICK j \in Indices : q = RangeAt(order, fit, j) /\ price \in Ranges(order, j)
    BY <1>2
  <1>6. price \in Int
    BY DEF Positive
  <1>7. i = j
    BY <1>1, <1>3, <1>5, <1>6, OneRange
  <1>8. /\ r.left = LeftOf(order, i) /\ r.right = RightOf(order, i)
        /\ p.taker = LongAt(order, fit, i)
    BY <1>3, <1>4, <1>5, <1>7 DEF RangeAt
  <1> QED BY <1>1, <1>3, <1>8, ShownNearPaid DEF Slack

(* ShownIsPaid: calculate_profit, which the page shows, against the payout *)
(* of the close or the CET that pays, or will pay, the taker.              *)
THEOREM ProfitIsPaid == Spec => []ShownIsPaid
  <1>1. IInv => ShownIsPaid
    <2> SUFFICES ASSUME IInv, NEW p \in Payment, p.price # 0,
                        ~(end # None /\ end.by = "cet" /\ attested = None),
                        ~(end # None /\ end.by = "close" /\ forgot),
                        NEW r \in RangesOf(p.price)
                 PROVE  p.taker - LongMargin(order) - ShownProfit("long")
                            \in (-Slack(r))..Slack(r)
      BY DEF ShownIsPaid
    <2>1. TermsOK /\ ClosesOK /\ EndOK
      BY DEF IInv
    <2>2. p.price \in Positive /\ Pays(p) /\ ClosingPrice = p.price
      <3>1. CASE end # None
        <4>1. p = end
          BY <3>1 DEF Payment
        <4>2. CASE end.by = "cet"
          <5>1. close = None /\ end.price = oracle /\ Pays(end) /\ attested = oracle
            BY <2>1, <3>1, <4>2 DEF EndOK, TermsOK
          <5>2. ClosingPrice = oracle /\ attested # None
            BY <3>1, <4>2, <5>1 DEF ClosingPrice
          <5> QED BY <2>1, <4>1, <5>1, <5>2 DEF TermsOK
        <4>3. CASE end.by = "close"
          <5>1. close # None /\ end.price = close.price /\ end.taker = close.taker
            BY <2>1, <3>1, <4>3 DEF EndOK
          <5>2. close \in signed /\ close.price \in Positive /\ Pays(close)
            BY <2>1, <5>1 DEF ClosesOK
          <5> QED BY <4>1, <5>1, <5>2 DEF Pays, ClosingPrice
        <4> QED BY <2>1, <3>1, <4>2, <4>3 DEF EndOK
      <3>2. CASE end = None /\ close # None
        <4>1. p = close
          BY <3>2 DEF Payment
        <4> QED BY <2>1, <3>2, <4>1 DEF ClosesOK, ClosingPrice
      <3>3. CASE end = None /\ close = None /\ attested # None
        <4>1. \E q \in RangesOf(attested) : p = [price |-> attested, taker |-> q.taker]
          BY <3>3 DEF Payment
        <4>2. p.price = attested /\ Pays(p)
          BY <4>1 DEF Pays
        <4> QED BY <2>1, <3>3, <4>2 DEF TermsOK, ClosingPrice
      <3>4. CASE end = None /\ close = None /\ attested = None
        BY <3>4 DEF Payment
      <3> QED BY <3>1, <3>2, <3>3, <3>4
    <2>3. ShownProfit("long") = ProfitAt(order, "long", p.price)
      BY <2>2 DEF ShownProfit
    <2> QED BY <2>1, <2>2, <2>3, ShownAtPrice
  <1> QED BY InvariantHolds, <1>1, PTL

=============================================================================
