-------------------------- MODULE ShareArithProofs --------------------------
(* Theorems about ShareArith, for integers of every width.                 *)
EXTENDS ShareArith, TLAPS

(* The quotient and remainder of an integer.                               *)
LEMMA DivMod ==
  ASSUME NEW x \in Int, NEW d \in Nat \ {0}
  PROVE  /\ x \div d \in Int /\ x % d \in 0 .. (d - 1)
         /\ x = d * (x \div d) + (x % d)
OBVIOUS

LEMMA NoMultipleBetween ==
  ASSUME NEW d \in Nat \ {0}, NEW q \in Int, NEW r \in 0 .. (d - 1), NEW s \in 0 .. (d - 1),
         r - s = d * q
  PROVE  q = 0
<1>1. q >= 1 => d * q >= d
  BY SMTT(30)
<1>2. q <= -1 => d * q <= -d
  BY SMTT(30)
<1> QED BY <1>1, <1>2

LEMMA Regroup ==
  ASSUME NEW m \in Int, NEW qx \in Int, NEW qy \in Int, NEW q \in Int, NEW rx \in Int, NEW ry \in Int,
         m * qx + rx = (m * qy + ry) + q * m
  PROVE  rx - ry = m * (qy + q - qx)
<1>1. m * (qy + q - qx) = m * qy + m * q - m * qx
  OBVIOUS
<1>2. m * q = q * m
  OBVIOUS
<1> QED BY <1>1, <1>2

(* Two integers that differ by a multiple of the modulus are the same.     *)
LEMMA SameBy ==
  ASSUME NEW x \in Int, NEW y \in Int, NEW q \in Int, x = y + q * Modulus
  PROVE  Same(x, y)
<1> DEFINE m == Modulus
<1>1. m \in Nat \ {0}
  BY HalfAssumption DEF Modulus
<1>2. x = y + q * m
  OBVIOUS
<1>3. SUFFICES x % m = y % m
  BY DEF Same
<1> HIDE DEF m
<1> DEFINE qx == x \div m  qy == y \div m  rx == x % m  ry == y % m
<1>4. /\ qx \in Int /\ rx \in 0 .. (m - 1) /\ x = m * qx + rx
      /\ qy \in Int /\ ry \in 0 .. (m - 1) /\ y = m * qy + ry
  BY <1>1, DivMod
<1> HIDE DEF qx, qy, rx, ry
<1>5. m * qx + rx = (m * qy + ry) + q * m
  BY <1>2, <1>4
<1>6. rx - ry = m * (qy + q - qx)
  <2>1. m \in Int /\ rx \in Int /\ ry \in Int
    BY <1>1, <1>4
  <2> QED BY <2>1, <1>4, <1>5, Regroup
<1>7. qy + q - qx \in Int
  BY <1>4
<1>8. qy + q - qx = 0
  BY <1>1, <1>4, <1>6, <1>7, NoMultipleBetween
<1>9. m * (qy + q - qx) = 0
  BY <1>1, <1>8
<1>10. rx = ry
  BY <1>4, <1>6, <1>9
<1> QED BY <1>10 DEF rx, ry

(* Wrapping changes an integer by a multiple of the modulus.               *)
LEMMA WrapBy ==
  ASSUME NEW x \in Int
  PROVE  /\ Wrap(x) \in Ring
         /\ \E q \in Int : Wrap(x) = x + q * Modulus
<1>1. Modulus \in Nat \ {0} /\ Half \in Nat /\ Modulus = 2 * Half
  BY HalfAssumption DEF Modulus
<1> DEFINE y == x + Half
<1>2. y \in Int
  BY <1>1
<1>3. /\ y \div Modulus \in Int /\ y % Modulus \in 0 .. (Modulus - 1)
      /\ y = Modulus * (y \div Modulus) + (y % Modulus)
  BY <1>1, <1>2, DivMod
<1>4. Wrap(x) = (y % Modulus) - Half
  BY DEF Wrap
<1>5. Wrap(x) \in Ring
  BY <1>1, <1>3, <1>4 DEF Ring
<1>6. Wrap(x) = x + (- (y \div Modulus)) * Modulus
  <2> DEFINE d == y \div Modulus  r == y % Modulus
  <2>1. d \in Int /\ r \in Int /\ x + Half = Modulus * d + r
    BY <1>1, <1>3
  <2> HIDE DEF d, r
  <2>2. Modulus * d = d * Modulus /\ (- d) * Modulus = - (d * Modulus)
    BY <1>1, <2>1
  <2>3. r - Half = x + (- d) * Modulus
    BY <1>1, <2>1, <2>2
  <2> QED BY <1>4, <2>3 DEF d, r
<1> QED BY <1>3, <1>5, <1>6

-----------------------------------------------------------------------------
LEMMA Parties ==
  /\ Party = {0, 1, 2} /\ prevOf(0) = 2 /\ prevOf(1) = 0 /\ prevOf(2) = 1
BY DEF Party, prevOf

LEMMA AddMultiples ==
  ASSUME NEW m \in Int, NEW q0 \in Int, NEW q1 \in Int, NEW q2 \in Int
  PROVE  q0 * m + q1 * m + q2 * m = (q0 + q1 + q2) * m
OBVIOUS

(* Three numbers wrapped one by one have the sum they had before.          *)
LEMMA SumOfWrapped ==
  ASSUME NEW e0 \in Int, NEW e1 \in Int, NEW e2 \in Int, NEW v \in Int, e0 + e1 + e2 = v
  PROVE  Same(Wrap(e0) + Wrap(e1) + Wrap(e2), v)
<1>1. Modulus \in Int
  BY HalfAssumption DEF Modulus
<1>2. PICK q0 \in Int : Wrap(e0) = e0 + q0 * Modulus
  BY WrapBy
<1>3. PICK q1 \in Int : Wrap(e1) = e1 + q1 * Modulus
  BY WrapBy
<1>4. PICK q2 \in Int : Wrap(e2) = e2 + q2 * Modulus
  BY WrapBy
<1> DEFINE m == Modulus  s == Wrap(e0) + Wrap(e1) + Wrap(e2)
<1>5. /\ q0 * m \in Int /\ q1 * m \in Int /\ q2 * m \in Int
      /\ q0 * m + q1 * m + q2 * m = (q0 + q1 + q2) * m
  BY <1>1, AddMultiples
<1>6. s \in Int
  BY <1>2, <1>3, <1>4, <1>5
<1>7. s = v + (q0 + q1 + q2) * m
  <2> HIDE DEF m
  <2>1. Wrap(e0) = e0 + q0 * m /\ Wrap(e1) = e1 + q1 * m /\ Wrap(e2) = e2 + q2 * m
    BY <1>2, <1>3, <1>4 DEF m
  <2> QED BY <2>1, <1>5
<1> QED BY <1>6, <1>7, SameBy

Shares == [Party -> Int]

LEMMA ProductIdentity ==
  ASSUME NEW x0 \in Int, NEW x1 \in Int, NEW x2 \in Int, NEW y0 \in Int, NEW y1 \in Int, NEW y2 \in Int
  PROVE    (x0 * y0 + x0 * y2 + x2 * y0) + (x1 * y1 + x1 * y0 + x0 * y1) + (x2 * y2 + x2 * y1 + x1 * y2)
         = (x0 + x1 + x2) * (y0 + y1 + y2)
OBVIOUS

LEMMA CrossTerms ==
  ASSUME NEW x \in Shares, NEW y \in Shares
  PROVE  /\ Cross(x, y, 0) \in Int /\ Cross(x, y, 1) \in Int /\ Cross(x, y, 2) \in Int
         /\ Cross(x, y, 0) + Cross(x, y, 1) + Cross(x, y, 2) = Sum(x) * Sum(y)
         /\ Sum(x) * Sum(y) \in Int
<1>1. /\ x[0] \in Int /\ x[1] \in Int /\ x[2] \in Int
      /\ y[0] \in Int /\ y[1] \in Int /\ y[2] \in Int
  BY DEF Shares, Party
<1>2. /\ Cross(x, y, 0) = x[0] * y[0] + x[0] * y[2] + x[2] * y[0]
      /\ Cross(x, y, 1) = x[1] * y[1] + x[1] * y[0] + x[0] * y[1]
      /\ Cross(x, y, 2) = x[2] * y[2] + x[2] * y[1] + x[1] * y[2]
  BY Parties DEF Cross
<1>3. Sum(x) = x[0] + x[1] + x[2] /\ Sum(y) = y[0] + y[1] + y[2]
  BY DEF Sum
<1>4. Cross(x, y, 0) \in Int /\ Cross(x, y, 1) \in Int /\ Cross(x, y, 2) \in Int
  BY <1>1, <1>2
<1>5. Cross(x, y, 0) + Cross(x, y, 1) + Cross(x, y, 2) = Sum(x) * Sum(y)
  BY <1>1, <1>2, <1>3, ProductIdentity
<1> QED BY <1>1, <1>3, <1>4, <1>5

(* Multiplication: the three results are a sharing of the product.         *)
THEOREM MulCorrect ==
  ASSUME NEW x \in Shares, NEW y \in Shares, NEW r \in Shares
  PROVE  Same(Sum(Mul(x, y, r)), Sum(x) * Sum(y))
<1>1. r[0] \in Int /\ r[1] \in Int /\ r[2] \in Int
  BY DEF Shares, Party
<1>2. ZeroShare(r, 0) = r[2] - r[0] /\ ZeroShare(r, 1) = r[0] - r[1] /\ ZeroShare(r, 2) = r[1] - r[2]
  BY Parties DEF ZeroShare
<1> DEFINE e0 == Cross(x, y, 0) + ZeroShare(r, 0)
           e1 == Cross(x, y, 1) + ZeroShare(r, 1)
           e2 == Cross(x, y, 2) + ZeroShare(r, 2)
<1>3. /\ e0 \in Int /\ e1 \in Int /\ e2 \in Int
      /\ Sum(x) * Sum(y) \in Int /\ e0 + e1 + e2 = Sum(x) * Sum(y)
  BY <1>1, <1>2, CrossTerms
<1>4. Sum(Mul(x, y, r)) = Wrap(e0) + Wrap(e1) + Wrap(e2)
  BY Parties DEF Sum, Mul
<1> HIDE DEF e0, e1, e2
<1> QED BY <1>3, <1>4, SumOfWrapped

-----------------------------------------------------------------------------
(* Congruence, and what it is used for below.                              *)
Congruent(x, y) == \E q \in Int : x = y + q * Modulus

LEMMA CongruentSame ==
  ASSUME NEW x \in Int, NEW y \in Int, Congruent(x, y)
  PROVE  Same(x, y)
BY SameBy DEF Congruent

LEMMA CongruentWrap ==
  ASSUME NEW x \in Int
  PROVE  Wrap(x) \in Int /\ Congruent(Wrap(x), x)
BY WrapBy, HalfAssumption DEF Congruent, Ring

LEMMA CongruentAdd ==
  ASSUME NEW x \in Int, NEW y \in Int, NEW v \in Int, NEW w \in Int, Congruent(x, v), Congruent(y, w)
  PROVE  Congruent(x + y, v + w)
<1> DEFINE m == Modulus
<1>1. m \in Int
  BY HalfAssumption DEF Modulus
<1>2. PICK q \in Int : x = v + q * m
  BY DEF Congruent
<1>3. PICK r \in Int : y = w + r * m
  BY DEF Congruent
<1> HIDE DEF m
<1>4. q * m \in Int /\ r * m \in Int /\ (q + r) * m = q * m + r * m
  BY <1>1
<1>5. x + y = (v + w) + (q + r) * m
  BY <1>2, <1>3, <1>4
<1> QED BY <1>5 DEF Congruent, m

LEMMA CongruentRefl ==
  ASSUME NEW x \in Int
  PROVE  Congruent(x, x)
<1>1. Modulus \in Int
  BY HalfAssumption DEF Modulus
<1>2. x = x + 0 * Modulus
  BY <1>1
<1> QED BY <1>2 DEF Congruent

LEMMA CongruentTrans ==
  ASSUME NEW x \in Int, NEW y \in Int, NEW v \in Int, Congruent(x, y), Congruent(y, v)
  PROVE  Congruent(x, v)
<1> DEFINE m == Modulus
<1>1. m \in Int
  BY HalfAssumption DEF Modulus
<1>2. PICK q \in Int : x = y + q * m
  BY DEF Congruent
<1>3. PICK r \in Int : y = v + r * m
  BY DEF Congruent
<1> HIDE DEF m
<1>4. q * m \in Int /\ r * m \in Int /\ (q + r) * m = q * m + r * m
  BY <1>1
<1>5. x = v + (q + r) * m
  BY <1>2, <1>3, <1>4
<1> QED BY <1>5 DEF Congruent, m

-----------------------------------------------------------------------------
Bits == [Party -> {0, 1}]

LEMMA BitFacts ==
  ASSUME NEW y \in Bits
  PROVE  /\ Bit(y) \in {0, 1}
         /\ Xor(y[1], Xor(y[0], y[2])) = Bit(y)
         /\ Xor(y[0], Xor(y[1], y[2])) = Bit(y)
<1>1. y[0] \in {0, 1} /\ y[1] \in {0, 1} /\ y[2] \in {0, 1}
  BY DEF Bits, Party
<1> QED BY <1>1 DEF Bit, Xor

LEMMA TransferFact ==
  ASSUME NEW s, NEW t, NEW base \in Int, NEW v \in Int
  PROVE  /\ Transferred(s, t, base, v) \in Int
         /\ Transferred(s, t, base, v) = base + Xor(s, t) * v
BY DEF Transferred, Xor

(* A public integer times a shared bit.                                    *)
THEOREM ConstBitCorrect ==
  ASSUME NEW v \in Int, NEW y \in Bits, NEW r \in Shares
  PROVE  Same(Sum(ConstBit(v, y, r)), Bit(y) * v)
<1>1. r[0] \in Int /\ r[1] \in Int /\ r[2] \in Int
  BY DEF Shares, Party
<1>2. ZeroShare(r, 0) = r[2] - r[0] /\ ZeroShare(r, 1) = r[0] - r[1] /\ ZeroShare(r, 2) = r[1] - r[2]
  BY Parties DEF ZeroShare
<1> DEFINE e0 == ZeroShare(r, 1)
           e1 == Transferred(y[1], Xor(y[0], y[2]), ZeroShare(r, 0), v)
           e2 == ZeroShare(r, 2)
<1>3. e1 \in Int /\ e1 = ZeroShare(r, 0) + Bit(y) * v
  BY <1>1, <1>2, BitFacts, TransferFact
<1>4. Bit(y) * v \in Int
  BY BitFacts
<1>5. e0 \in Int /\ e2 \in Int /\ e0 + e1 + e2 = Bit(y) * v
  BY <1>1, <1>2, <1>3, <1>4
<1>6. Sum(ConstBit(v, y, r)) = Wrap(e0) + Wrap(e1) + Wrap(e2)
  BY Parties DEF Sum, ConstBit
<1> HIDE DEF e0, e1, e2
<1> QED BY <1>3, <1>4, <1>5, <1>6, SumOfWrapped

(* A bit made an integer.                                                  *)
THEOREM InjectCorrect ==
  ASSUME NEW y \in Bits, NEW r \in Shares
  PROVE  Same(Sum(Inject(y, r)), Bit(y))
<1>1. r[0] \in Int /\ r[1] \in Int /\ r[2] \in Int
  BY DEF Shares, Party
<1> DEFINE e0 == Transferred(y[0], Xor(y[1], y[2]), - r[1] - r[2], 1)
<1>2. Bit(y) \in Int /\ e0 \in Int /\ e0 = (- r[1] - r[2]) + Bit(y)
  <2>1. Bit(y) * 1 = Bit(y) /\ Bit(y) \in Int
    BY BitFacts
  <2>2. - r[1] - r[2] \in Int
    BY <1>1
  <2>3. e0 \in Int /\ e0 = (- r[1] - r[2]) + Xor(y[0], Xor(y[1], y[2])) * 1
    BY <2>2, TransferFact
  <2> QED BY <2>1, <2>3, BitFacts
<1>3. Sum(Inject(y, r)) = Wrap(e0) + r[1] + r[2]
  BY Parties DEF Sum, Inject
<1> HIDE DEF e0
<1>4. Wrap(e0) \in Int /\ Congruent(Wrap(e0), e0) /\ Congruent(r[1] + r[2], r[1] + r[2])
  BY <1>1, <1>2, CongruentWrap, CongruentRefl
<1>5. r[1] + r[2] \in Int
  BY <1>1
<1>6. Congruent(Wrap(e0) + (r[1] + r[2]), e0 + (r[1] + r[2]))
  BY <1>2, <1>4, <1>5, CongruentAdd
<1>7. /\ Wrap(e0) + (r[1] + r[2]) = Sum(Inject(y, r)) /\ e0 + (r[1] + r[2]) = Bit(y)
      /\ Sum(Inject(y, r)) \in Int
  BY <1>1, <1>2, <1>3, <1>4
<1> QED BY <1>2, <1>6, <1>7, CongruentSame

LEMMA SpreadBit ==
  ASSUME NEW bit \in Int, NEW x0 \in Int, NEW x1 \in Int, NEW x2 \in Int
  PROVE  bit * (x0 + x2) \in Int /\ bit * x1 \in Int /\ bit * (x0 + x1 + x2) = bit * (x0 + x2) + bit * x1
OBVIOUS

(* A shared integer times a shared bit: what the two transfers bring party *)
(* 1 and the two common draws are a sharing of the product.                *)
THEOREM MulBitCorrect ==
  ASSUME NEW x \in Shares, NEW y \in Bits, NEW r \in Shares, NEW w \in Int
  PROVE  Same(Sum(MulBit(x, y, r, w)), Bit(y) * Sum(x))
<1>1. /\ r[0] \in Int /\ r[2] \in Int
      /\ x[0] \in Int /\ x[1] \in Int /\ x[2] \in Int
  BY DEF Shares, Party
<1>2. /\ Bit(y) \in Int
      /\ Xor(y[1], Xor(y[0], y[2])) = Bit(y) /\ Xor(y[0], Xor(y[1], y[2])) = Bit(y)
  BY BitFacts
<1> DEFINE clear == - (r[0] + r[2]) - w
           mask == Wrap(clear)
           f0 == Bit(y) * (x[0] + x[2])
           f1 == Bit(y) * x[1]
           t0 == Transferred(y[1], Xor(y[0], y[2]), mask, x[0] + x[2])
           t1 == Transferred(y[0], Xor(y[1], y[2]), w, x[1])
           m0 == Wrap(t0)
           m1 == Wrap(t1)
<1>3. /\ f0 \in Int /\ f1 \in Int /\ Sum(x) = x[0] + x[1] + x[2]
      /\ Bit(y) * Sum(x) = f0 + f1
  BY <1>1, <1>2, SpreadBit DEF Sum
<1>4. clear \in Int /\ mask \in Int /\ Congruent(mask, clear)
  BY <1>1, CongruentWrap
<1>5. t0 \in Int /\ t0 = mask + f0
  BY <1>1, <1>2, <1>4, TransferFact
<1>6. t1 \in Int /\ t1 = w + f1
  BY <1>1, <1>2, TransferFact
<1>7. Sum(MulBit(x, y, r, w)) = r[0] + Wrap(m0 + m1) + r[2]
  BY Parties DEF Sum, MulBit
<1>8. m0 \in Int /\ Congruent(m0, t0) /\ m1 \in Int /\ Congruent(m1, t1)
  BY <1>5, <1>6, CongruentWrap
<1>9. r[0] + r[2] \in Int /\ clear = - (r[0] + r[2]) - w
  BY <1>1
<1> DEFINE u == r[0] + r[2]  cl == clear  bx == Bit(y) * Sum(x)
<1>10. /\ u \in Int /\ cl = - u - w /\ bx = f0 + f1 /\ Congruent(mask, cl) /\ cl \in Int
  BY <1>3, <1>4, <1>9
<1> HIDE DEF f0, f1, t0, t1, m0, m1, mask, clear, cl, u, bx
<1>11. Congruent(f0, f0) /\ Congruent(u, u)
  BY <1>3, <1>10, CongruentRefl
<1>12. Congruent(t0, cl + f0)
  BY <1>3, <1>4, <1>5, <1>10, <1>11, CongruentAdd
<1>13. cl + f0 \in Int /\ Congruent(m0, cl + f0)
  <2>1. cl + f0 \in Int
    BY <1>3, <1>10
  <2> QED BY <2>1, <1>5, <1>8, <1>12, CongruentTrans
<1>14. Congruent(m0 + m1, (cl + f0) + t1)
  BY <1>6, <1>8, <1>13, CongruentAdd
<1>15. m0 + m1 \in Int /\ Wrap(m0 + m1) \in Int /\ Congruent(Wrap(m0 + m1), m0 + m1)
  BY <1>8, CongruentWrap
<1>16. (cl + f0) + t1 \in Int /\ Congruent(Wrap(m0 + m1), (cl + f0) + t1)
  <2>1. (cl + f0) + t1 \in Int
    BY <1>6, <1>13
  <2> QED BY <2>1, <1>14, <1>15, CongruentTrans
<1>17. Congruent(Wrap(m0 + m1) + u, ((cl + f0) + t1) + u)
  BY <1>10, <1>11, <1>15, <1>16, CongruentAdd
<1>18. ((cl + f0) + t1) + u = bx
  BY <1>3, <1>6, <1>10
<1>19. Sum(MulBit(x, y, r, w)) = Wrap(m0 + m1) + u
  BY <1>1, <1>7, <1>15 DEF u
<1>20. Wrap(m0 + m1) + u \in Int /\ bx \in Int
  BY <1>3, <1>10, <1>15
<1>21. Same(Wrap(m0 + m1) + u, bx)
  BY <1>17, <1>18, <1>20, CongruentSame
<1> QED BY <1>19, <1>21 DEF bx

-----------------------------------------------------------------------------
(* The quotient is determined by its bounds.                               *)
LEMMA QuotientUnique ==
  ASSUME NEW d \in Nat \ {0}, NEW q \in Int, NEW r \in 0 .. (d - 1), NEW x \in Int, x = d * q + r
  PROVE  x \div d = q
<1> DEFINE p == x \div d  s == x % d
<1>1. p \in Int /\ s \in 0 .. (d - 1) /\ x = d * p + s
  BY DivMod
<1> HIDE DEF p, s
<1>2. d * (p - q) = d * p - d * q
  BY <1>1
<1>3. p - q \in Int /\ r - s = d * (p - q)
  BY <1>1, <1>2
<1>4. p - q = 0
  BY <1>1, <1>3, NoMultipleBetween
<1> QED BY <1>1, <1>4 DEF p

LEMMA Distribute ==
  ASSUME NEW d \in Int, NEW q \in Int, NEW r \in Int
  PROVE  4 * (d * q + r) = (4 * d) * q + 4 * r
OBVIOUS

(* A shift by two and then by more is one shift.                           *)
LEMMA ShiftedTwice ==
  ASSUME NEW t \in Int, NEW d \in Nat \ {0}
  PROVE  Shifted(Shifted(t, 4), d) = Shifted(t, 4 * d)
<1> DEFINE q == t \div 4  r == t % 4  p == q \div d  s == q % d
<1>1. q \in Int /\ r \in 0 .. 3 /\ t = 4 * q + r
  BY DivMod
<1>2. p \in Int /\ s \in 0 .. (d - 1) /\ q = d * p + s
  BY <1>1, DivMod
<1> HIDE DEF p, s, q, r
<1>3. 4 * (d * p + s) = (4 * d) * p + 4 * s
  BY <1>2, Distribute
<1>4. t = (4 * d) * p + (4 * s + r)
  <2> DEFINE dp == (4 * d) * p
  <2>1. dp \in Int /\ 4 * q = dp + 4 * s
    BY <1>2, <1>3
  <2> HIDE DEF dp
  <2>2. t = dp + (4 * s + r)
    BY <1>1, <1>2, <2>1
  <2> QED BY <2>2 DEF dp
<1>5. 4 * d \in Nat \ {0} /\ 4 * s + r \in 0 .. (4 * d - 1)
  BY <1>1, <1>2
<1>6. t \div (4 * d) = p
  BY <1>2, <1>4, <1>5, QuotientUnique
<1> QED BY <1>6 DEF Shifted, p, q

(* A quarter of an integer of the ring.                                    *)
LEMMA QuarterBounds ==
  ASSUME NEW t \in Ring
  PROVE  /\ Shifted(t, 4) \in Int
         /\ - (Half \div 4) <= Shifted(t, 4) /\ Shifted(t, 4) <= (Half \div 4) - 1
<1>1. Half \in Nat \ {0} /\ Half % 4 = 0
  BY HalfAssumption
<1>2. t \in Int /\ - Half <= t /\ t <= Half - 1
  BY <1>1 DEF Ring
<1> QED BY <1>1, <1>2 DEF Shifted

(* Wrapping finds the integer of the ring that is congruent.               *)
LEMMA WrapFinds ==
  ASSUME NEW x \in Int, NEW y \in Ring, Congruent(x, y)
  PROVE  Wrap(x) = y
<1> DEFINE m == Modulus
<1>1. m \in Nat \ {0} /\ Half \in Nat \ {0} /\ m = 2 * Half
  BY HalfAssumption DEF Modulus
<1>2. Wrap(x) \in Ring /\ Wrap(x) \in Int /\ Congruent(Wrap(x), x) /\ y \in Int
  BY <1>1, WrapBy, CongruentWrap DEF Ring
<1>3. Congruent(Wrap(x), y)
  BY <1>2, CongruentTrans
<1>4. PICK q \in Int : Wrap(x) = y + q * m
  BY <1>3 DEF Congruent
<1> DEFINE v == Wrap(x)
<1> HIDE DEF m, v
<1>5. v + Half \in 0 .. (m - 1) /\ y + Half \in 0 .. (m - 1)
  BY <1>1, <1>2 DEF v, Ring
<1>6. q * m = m * q /\ q * m \in Int
  BY <1>1
<1>7. (v + Half) - (y + Half) = m * q
  <2>1. v = y + q * m
    BY <1>4 DEF v
  <2> QED BY <2>1, <1>1, <1>2, <1>6
<1>8. q = 0
  BY <1>1, <1>5, <1>7, NoMultipleBetween
<1>9. q * m = 0
  BY <1>1, <1>8
<1> QED BY <1>2, <1>4, <1>9

LEMMA SumOfMultiples ==
  ASSUME NEW d \in Int, NEW p0 \in Int, NEW p1 \in Int, NEW p2 \in Int, NEW o \in Int, NEW q \in Int
  PROVE  d * (q - (p0 + o + p1 + p2)) = d * q - (d * p0 + d * o + d * p1 + d * p2)
OBVIOUS

LEMMA FourBelow ==
  ASSUME NEW d \in Nat \ {0}, NEW e \in Int, d * e > - d, d * e < 4 * d
  PROVE  e \in 0 .. 3
<1>1. e <= -1 => d * e <= - d
  BY SMTT(30)
<1>2. e >= 4 => d * e >= 4 * d
  BY SMTT(30)
<1> QED BY <1>1, <1>2

(* Dividing four addends one by one instead of their sum loses at most     *)
(* three.                                                                  *)
LEMMA SplitDivision ==
  ASSUME NEW d \in Nat \ {0}, NEW v \in Int, NEW r0 \in Int, NEW r1 \in Int, NEW r2 \in Int
  PROVE  LET parts == (r0 \div d) + ((v - (r0 + r1 + r2)) \div d) + (r1 \div d) + (r2 \div d)
         IN parts \in Int /\ (v \div d) - parts \in 0 .. 3
<1> DEFINE u == v - (r0 + r1 + r2)
           p0 == r0 \div d  p1 == r1 \div d  p2 == r2 \div d  o == u \div d  q == v \div d
           s0 == r0 % d  s1 == r1 % d  s2 == r2 % d  so == u % d  sq == v % d
<1>1. u \in Int /\ u = v - (r0 + r1 + r2)
  OBVIOUS
<1> HIDE DEF u
<1>2. /\ p0 \in Int /\ s0 \in 0 .. (d - 1) /\ r0 = d * p0 + s0
      /\ p1 \in Int /\ s1 \in 0 .. (d - 1) /\ r1 = d * p1 + s1
      /\ p2 \in Int /\ s2 \in 0 .. (d - 1) /\ r2 = d * p2 + s2
      /\ o \in Int /\ so \in 0 .. (d - 1) /\ u = d * o + so
      /\ q \in Int /\ sq \in 0 .. (d - 1) /\ v = d * q + sq
  BY <1>1, DivMod
<1> HIDE DEF p0, p1, p2, o, q, s0, s1, s2, so, sq
<1> DEFINE e == q - (p0 + o + p1 + p2)
           d0 == d * p0  d1 == d * p1  d2 == d * p2  do == d * o  dq == d * q  de == d * e
<1>3. /\ d0 \in Int /\ d1 \in Int /\ d2 \in Int /\ do \in Int /\ dq \in Int /\ e \in Int
      /\ de = dq - (d0 + do + d1 + d2)
  BY <1>2, SumOfMultiples
<1>4. /\ r0 = d0 + s0 /\ r1 = d1 + s1 /\ r2 = d2 + s2 /\ u = do + so /\ v = dq + sq
  BY <1>2
<1> HIDE DEF d0, d1, d2, do, dq, de, e
<1>5. de = s0 + s1 + s2 + so - sq
  BY <1>1, <1>2, <1>3, <1>4
<1>6. de > - d /\ de < 4 * d
  BY <1>2, <1>5
<1>7. e \in 0 .. 3
  BY <1>3, <1>6, FourBelow DEF de
<1>8. p0 + o + p1 + p2 \in Int
  BY <1>2
<1> QED BY <1>7, <1>8 DEF e, p0, p1, p2, o, q, u

(* The opened value is the product less the three random shares, as an     *)
(* integer: nothing wraps around.                                          *)
LEMMA OpenedIs ==
  ASSUME NEW x \in Shares, NEW y \in Shares, NEW t \in [Party -> Ring], InRange(Product(x, y))
  PROVE  /\ Product(x, y) \in Int
         /\ Opened(x, y, t) = Product(x, y) - (TupleR(t, 0) + TupleR(t, 1) + TupleR(t, 2))
<1> DEFINE r0 == TupleR(t, 0)  r1 == TupleR(t, 1)  r2 == TupleR(t, 2)
           h == Half \div 4
           c0 == Cross(x, y, 0)  c1 == Cross(x, y, 1)  c2 == Cross(x, y, 2)
           e0 == c0 - r0  e1 == c1 - r1  e2 == c2 - r2
           w0 == Wrap(e0)  w1 == Wrap(e1)  w2 == Wrap(e2)
           s == w0 + w1 + w2
           full == Sum(x) * Sum(y)
           v == Product(x, y)
<1>1. t[0] \in Ring /\ t[1] \in Ring /\ t[2] \in Ring
  BY DEF Party
<1>2. /\ r0 \in Int /\ - h <= r0 /\ r0 <= h - 1
      /\ r1 \in Int /\ - h <= r1 /\ r1 <= h - 1
      /\ r2 \in Int /\ - h <= r2 /\ r2 <= h - 1
  BY <1>1, QuarterBounds DEF TupleR
<1>3. h \in Nat /\ Half = 4 * h
  BY HalfAssumption
<1>4. /\ c0 \in Int /\ c1 \in Int /\ c2 \in Int
      /\ c0 + c1 + c2 = full /\ full \in Int
  BY CrossTerms
<1>5. Opened(x, y, t) = Wrap(s)
  BY DEF Opened
<1>6. v \in Int /\ Congruent(v, full) /\ - h <= v /\ v < h
  <2>1. v = Wrap(full)
    BY DEF Product
  <2>2. - h <= v /\ v < h
    BY DEF InRange
  <2> HIDE DEF v, full, h
  <2> QED BY <1>4, <2>1, <2>2, CongruentWrap
<1> HIDE DEF r0, r1, r2, full, h, v, c0, c1, c2
<1>7. e0 \in Int /\ e1 \in Int /\ e2 \in Int /\ e0 + e1 + e2 = full - (r0 + r1 + r2)
  BY <1>2, <1>4
<1> HIDE DEF e0, e1, e2
<1>8. /\ w0 \in Int /\ w1 \in Int /\ w2 \in Int
      /\ Congruent(w0, e0) /\ Congruent(w1, e1) /\ Congruent(w2, e2)
  BY <1>7, CongruentWrap
<1> HIDE DEF w0, w1, w2
<1>9. Congruent(w0 + w1, e0 + e1) /\ w0 + w1 \in Int /\ e0 + e1 \in Int
  BY <1>7, <1>8, CongruentAdd
<1>10. Congruent(s, full - (r0 + r1 + r2)) /\ s \in Int
  <2>1. Congruent((w0 + w1) + w2, (e0 + e1) + e2)
    BY <1>7, <1>8, <1>9, CongruentAdd
  <2> QED BY <2>1, <1>7, <1>8
<1>11. Congruent(full, v)
  <2> DEFINE m == Modulus
  <2>1. m \in Int
    BY HalfAssumption DEF Modulus
  <2>2. PICK q \in Int : v = full + q * m
    BY <1>6 DEF Congruent
  <2> HIDE DEF m
  <2>3. (- q) * m = - (q * m) /\ q * m \in Int /\ - q \in Int
    BY <2>1
  <2>4. full = v + (- q) * m
    BY <1>4, <1>6, <2>2, <2>3
  <2> QED BY <2>3, <2>4 DEF Congruent, m
<1>12. - (r0 + r1 + r2) \in Int /\ Congruent(- (r0 + r1 + r2), - (r0 + r1 + r2))
  BY <1>2, CongruentRefl
<1>13. Congruent(full + - (r0 + r1 + r2), v + - (r0 + r1 + r2))
  BY <1>4, <1>6, <1>11, <1>12, CongruentAdd
<1>14. Congruent(s, v - (r0 + r1 + r2))
  <2>1. full + - (r0 + r1 + r2) = full - (r0 + r1 + r2) /\ v + - (r0 + r1 + r2) = v - (r0 + r1 + r2)
    BY <1>2, <1>4, <1>6
  <2>2. full - (r0 + r1 + r2) \in Int /\ v - (r0 + r1 + r2) \in Int
    BY <1>2, <1>4, <1>6
  <2>3. Congruent(full - (r0 + r1 + r2), v - (r0 + r1 + r2))
    BY <1>13, <2>1
  <2> HIDE DEF s
  <2> QED BY <1>10, <2>2, <2>3, CongruentTrans
<1>15. v - (r0 + r1 + r2) \in Ring
  BY <1>2, <1>3, <1>6 DEF Ring
<1>16. Wrap(s) = v - (r0 + r1 + r2)
  <2> HIDE DEF s
  <2> QED BY <1>10, <1>14, <1>15, WrapFinds
<1> QED BY <1>5, <1>6, <1>16 DEF v, r0, r1, r2, s, w0, w1, w2, e0, e1, e2, c0, c1, c2

(* Truncation: what the parties hold is the product shifted, less at most  *)
(* three.                                                                  *)
THEOREM TruncationCorrect ==
  ASSUME NEW x \in Shares, NEW y \in Shares, NEW t \in [Party -> Ring], NEW d \in Nat \ {0},
         InRange(Product(x, y))
  PROVE  \E e \in 0 .. 3 : Same(Sum(MulShift(x, y, t, d)), Shifted(Product(x, y), d) - e)
<1> DEFINE r0 == TupleR(t, 0)  r1 == TupleR(t, 1)  r2 == TupleR(t, 2)
           v == Product(x, y)
           o == v - (r0 + r1 + r2)
<1>1. t[0] \in Ring /\ t[1] \in Ring /\ t[2] \in Ring
  BY DEF Party
<1>2. r0 \in Int /\ r1 \in Int /\ r2 \in Int /\ t[0] \in Int /\ t[1] \in Int /\ t[2] \in Int
  BY <1>1, QuarterBounds, HalfAssumption DEF TupleR, Ring
<1>3. /\ TupleRTrunc(t, d, 0) = r0 \div d /\ TupleRTrunc(t, d, 1) = r1 \div d
      /\ TupleRTrunc(t, d, 2) = r2 \div d
  BY <1>2, ShiftedTwice DEF TupleRTrunc, TupleR, Shifted
<1>4. v \in Int /\ Opened(x, y, t) = o
  BY OpenedIs
<1>5. Sum(MulShift(x, y, t, d)) = Wrap((r0 \div d) + (o \div d)) + (r1 \div d) + (r2 \div d)
  BY <1>3, <1>4, Parties DEF Sum, MulShift, Shifted
<1> DEFINE p0 == r0 \div d  p1 == r1 \div d  p2 == r2 \div d  po == o \div d  q == v \div d
           e == q - (p0 + po + p1 + p2)
<1>6. p0 \in Int /\ p1 \in Int /\ p2 \in Int /\ po \in Int /\ q \in Int
  <2>1. o \in Int
    BY <1>2, <1>4
  <2> HIDE DEF r0, r1, r2, v, o
  <2> QED BY <1>2, <1>4, <2>1, DivMod
<1>7. e \in 0 .. 3
  <2> HIDE DEF r0, r1, r2, v
  <2> QED BY <1>2, <1>4, SplitDivision
<1> HIDE DEF r0, r1, r2, v, o, p0, p1, p2, po, q
<1> DEFINE w == Wrap(p0 + po)
<1>8. w \in Int /\ Congruent(w, p0 + po)
  BY <1>6, CongruentWrap
<1> HIDE DEF w
<1>9. Congruent(p1 + p2, p1 + p2) /\ p1 + p2 \in Int /\ p0 + po \in Int
  BY <1>6, CongruentRefl
<1>10. Congruent(w + (p1 + p2), (p0 + po) + (p1 + p2))
  BY <1>8, <1>9, CongruentAdd
<1>11. (p0 + po) + (p1 + p2) = q - e /\ w + (p1 + p2) = w + p1 + p2 /\ w + p1 + p2 \in Int /\ q - e \in Int
  BY <1>6, <1>8
<1>12. Same(w + p1 + p2, q - e)
  BY <1>10, <1>11, CongruentSame
<1>13. Sum(MulShift(x, y, t, d)) = w + p1 + p2
  BY <1>5 DEF w, p0, p1, p2, po, r0, r1, r2, o
<1>14. Shifted(Product(x, y), d) = q
  BY DEF Shifted, q, v
<1> QED BY <1>7, <1>12, <1>13, <1>14

-----------------------------------------------------------------------------
LEMMA RingIsInt == Ring \subseteq Int /\ [Party -> Ring] \subseteq Shares
BY HalfAssumption DEF Ring, Shares

(* Sharing a value: the three zero shares cancel.                          *)
THEOREM LocalIntCorrect ==
  ASSUME NEW v \in Shares, NEW r \in Shares
  PROVE  Same(Sum(LocalInt(v, r)), Sum(v))
<1>1. /\ r[0] \in Int /\ r[1] \in Int /\ r[2] \in Int
      /\ v[0] \in Int /\ v[1] \in Int /\ v[2] \in Int
  BY DEF Shares, Party
<1>2. ZeroShare(r, 0) = r[2] - r[0] /\ ZeroShare(r, 1) = r[0] - r[1] /\ ZeroShare(r, 2) = r[1] - r[2]
  BY Parties DEF ZeroShare
<1> DEFINE e0 == ZeroShare(r, 0) + v[0]
           e1 == ZeroShare(r, 1) + v[1]
           e2 == ZeroShare(r, 2) + v[2]
<1>3. e0 \in Int /\ e1 \in Int /\ e2 \in Int /\ Sum(v) \in Int /\ e0 + e1 + e2 = Sum(v)
  BY <1>1, <1>2 DEF Sum
<1>4. Sum(LocalInt(v, r)) = Wrap(e0) + Wrap(e1) + Wrap(e2)
  BY Parties DEF Sum, LocalInt
<1> HIDE DEF e0, e1, e2
<1> QED BY <1>3, <1>4, SumOfWrapped

-----------------------------------------------------------------------------
(* More about congruence.                                                  *)
LEMMA CongruentSym ==
  ASSUME NEW x \in Int, NEW y \in Int, Congruent(x, y)
  PROVE  Congruent(y, x)
<1> DEFINE m == Modulus
<1>1. m \in Int
  BY HalfAssumption DEF Modulus
<1>2. PICK q \in Int : x = y + q * m
  BY DEF Congruent
<1> HIDE DEF m
<1>3. (- q) * m = - (q * m) /\ q * m \in Int /\ - q \in Int
  BY <1>1
<1>4. y = x + (- q) * m
  BY <1>2, <1>3
<1> QED BY <1>3, <1>4 DEF Congruent, m

LEMMA SameCongruent ==
  ASSUME NEW x \in Int, NEW y \in Int, Same(x, y)
  PROVE  Congruent(x, y)
<1> DEFINE m == Modulus  qx == x \div m  qy == y \div m  r == x % m
<1>1. m \in Nat \ {0}
  BY HalfAssumption DEF Modulus
<1>2. qx \in Int /\ qy \in Int /\ r \in Int /\ x = m * qx + r /\ y = m * qy + r
  <2> HIDE DEF m
  <2>1. x % m = y % m
    BY DEF Same, m
  <2> QED BY <1>1, <2>1, DivMod
<1> HIDE DEF m, qx, qy, r
<1>3. /\ m * qx = (m * qy) + (qx - qy) * m
      /\ m * qx \in Int /\ m * qy \in Int /\ (qx - qy) * m \in Int
  BY <1>1, <1>2
<1>4. x = y + (qx - qy) * m /\ qx - qy \in Int
  BY <1>2, <1>3
<1> QED BY <1>4 DEF Congruent, m

-----------------------------------------------------------------------------
(* Below a threshold: the sign of the difference, which the third share is *)
(* added to last, tells when the difference does not wrap around.          *)
LEMMA BelowIs ==
  ASSUME NEW x \in Shares, NEW t \in Int, Wrap(Sum(x)) - t \in Ring
  PROVE  BelowThreshold(x, t) <=> Wrap(Sum(x)) < t
<1> DEFINE u == Wrap(x[0] + x[2])  w == Wrap(u - t)  s == Sum(x)  v == Wrap(s)
<1>1. /\ x[0] \in Int /\ x[1] \in Int /\ x[2] \in Int /\ - t \in Int /\ s \in Int
      /\ s = (x[0] + x[2]) + x[1] /\ x[0] + x[2] \in Int
  BY DEF Shares, Party, Sum
<1>2. u \in Int /\ Congruent(u, x[0] + x[2]) /\ v \in Int /\ Congruent(v, s)
  BY <1>1, CongruentWrap
<1> HIDE DEF u, s, v
<1>3. w \in Int /\ Congruent(w, u - t)
  BY <1>2, CongruentWrap
<1>4. Congruent(- t, - t) /\ Congruent(x[1], x[1])
  BY <1>1, CongruentRefl
<1> HIDE DEF w
<1>5. Congruent(u + (- t), (x[0] + x[2]) + (- t))
  BY <1>1, <1>2, <1>4, CongruentAdd
<1> DEFINE y == (x[0] + x[2]) + (- t)
<1>6. y \in Int /\ u + (- t) \in Int /\ u + (- t) = u - t /\ y + x[1] = s + (- t)
  BY <1>1, <1>2
<1> HIDE DEF y
<1>7. Congruent(w, y)
  <2>1. Congruent(w, u + (- t)) /\ Congruent(u + (- t), y)
    BY <1>3, <1>5, <1>6 DEF y
  <2> QED BY <2>1, <1>3, <1>6, CongruentTrans
<1>8. Congruent(w + x[1], y + x[1])
  BY <1>1, <1>3, <1>4, <1>6, <1>7, CongruentAdd
<1>9. Congruent(s + (- t), v + (- t))
  BY <1>1, <1>2, <1>4, CongruentAdd, CongruentSym
<1>10. w + x[1] \in Int /\ s + (- t) \in Int /\ v + (- t) \in Int /\ v + (- t) = v - t
  BY <1>1, <1>2, <1>3
<1>11. Congruent(w + x[1], v - t)
  BY <1>6, <1>8, <1>9, <1>10, CongruentTrans
<1>12. v - t \in Ring
  BY DEF v, s
<1>13. Wrap(w + x[1]) = v - t
  BY <1>10, <1>11, <1>12, WrapFinds
<1>14. BelowThreshold(x, t) <=> v - t < 0
  BY <1>13 DEF BelowThreshold, w, u
<1> QED BY <1>2, <1>14 DEF v, s

LEMMA BitSharesIs ==
  ASSUME NEW v \in BOOLEAN, NEW y \in Bits
  PROVE  BitShares(v, y) \in Bits /\ Bit(BitShares(v, y)) = IF v THEN 1 ELSE 0
<1>1. y[0] \in {0, 1} /\ y[1] \in {0, 1} /\ y[2] \in {0, 1}
  BY DEF Bits, Party
<1>2. /\ BitShares(v, y)[0] = Xor(IF v THEN 1 ELSE 0, Xor(y[1], y[2]))
      /\ BitShares(v, y)[1] = y[1] /\ BitShares(v, y)[2] = y[2]
  BY Parties DEF BitShares
<1>3. BitShares(v, y) \in Bits
  BY DEF BitShares, Bits, Xor
<1>4. Bit(BitShares(v, y)) = IF v THEN 1 ELSE 0
  BY <1>1, <1>2 DEF Bit, Xor
<1> QED BY <1>3, <1>4

(* What the in-place product multiplies: party 1's share of the linear     *)
(* function's value, and the two draws that have replaced the others.      *)
LEMMA OverwrittenIs ==
  ASSUME NEW x \in Shares, NEW coef, coef[2] \in Int, NEW r \in Shares
  PROVE  /\ Overwritten(FunctionValue(x, coef), r) \in Shares
         /\ Sum(Overwritten(FunctionValue(x, coef), r)) = r[0] + Wrap(coef[2] * x[1]) + r[2]
         /\ r[0] + Wrap(coef[2] * x[1]) + r[2] \in Int
<1> DEFINE v == Wrap(coef[2] * x[1])  o == Overwritten(FunctionValue(x, coef), r)
<1>1. x[1] \in Int /\ r[0] \in Int /\ r[1] \in Int /\ r[2] \in Int
  BY DEF Shares, Party
<1>2. coef[2] * x[1] \in Int /\ coef[2] * x[1] + 0 = coef[2] * x[1]
  BY <1>1
<1>3. FunctionValue(x, coef)[1] = v
  BY <1>2, Parties DEF FunctionValue
<1>4. o = [p \in Party |-> IF p = 1 THEN v ELSE r[p]]
  BY <1>3 DEF Overwritten
<1>5. v \in Int
  BY <1>2, CongruentWrap
<1> HIDE DEF v, o
<1>6. o \in Shares
  BY <1>1, <1>4, <1>5, Parties DEF Shares
<1>7. Sum(o) = r[0] + v + r[2]
  BY <1>4, Parties DEF Sum
<1> QED BY <1>1, <1>5, <1>6, <1>7 DEF v, o

(* The values of the three products are shares.                            *)
LEMMA ConstBitShares ==
  ASSUME NEW v \in Int, NEW y \in Bits, NEW r \in Shares
  PROVE  ConstBit(v, y, r) \in Shares
<1>1. ZeroShare(r, 0) \in Int /\ ZeroShare(r, 1) \in Int /\ ZeroShare(r, 2) \in Int
  BY Parties DEF ZeroShare, Shares, Party
<1> DEFINE tr == Transferred(y[1], Xor(y[0], y[2]), ZeroShare(r, 0), v)
<1>2. tr \in Int
  BY <1>1, TransferFact
<1> DEFINE share(p) == CASE p = 0 -> Wrap(ZeroShare(r, 1))
                         [] p = 1 -> Wrap(tr)
                         [] p = 2 -> Wrap(ZeroShare(r, 2))
<1>3. ConstBit(v, y, r) = [p \in Party |-> share(p)]
  BY DEF ConstBit
<1> HIDE DEF tr
<1>4. Wrap(ZeroShare(r, 1)) \in Int /\ Wrap(tr) \in Int /\ Wrap(ZeroShare(r, 2)) \in Int
  BY <1>1, <1>2, CongruentWrap
<1>5. share(0) \in Int /\ share(1) \in Int /\ share(2) \in Int
  BY <1>4
<1> HIDE DEF share
<1>6. \A p \in Party : share(p) \in Int
  BY <1>5, Parties
<1> QED BY <1>3, <1>6 DEF Shares

LEMMA MulBitShares ==
  ASSUME NEW x \in Shares, NEW y \in Bits, NEW r \in Shares, NEW w \in Int
  PROVE  MulBit(x, y, r, w) \in Shares
<1> DEFINE mb == MulBit(x, y, r, w)
           mask == Wrap(- (r[0] + r[2]) - w)
           t0 == Transferred(y[1], Xor(y[0], y[2]), mask, x[0] + x[2])
           t1 == Transferred(y[0], Xor(y[1], y[2]), w, x[1])
<1>1. /\ r[0] \in Int /\ r[2] \in Int /\ - (r[0] + r[2]) - w \in Int
      /\ x[0] + x[2] \in Int /\ x[1] \in Int
  BY DEF Shares, Party
<1>2. mb[0] = r[0] /\ mb[1] = Wrap(Wrap(t0) + Wrap(t1)) /\ mb[2] = r[2]
  BY Parties DEF MulBit
<1>3. mb = [p \in Party |-> mb[p]]
  BY DEF MulBit
<1>4. mask \in Int
  BY <1>1, CongruentWrap
<1> HIDE DEF mask
<1>5. t0 \in Int /\ t1 \in Int
  BY <1>1, <1>4, TransferFact
<1> HIDE DEF t0, t1
<1>6. Wrap(t0) + Wrap(t1) \in Int
  BY <1>5, CongruentWrap
<1>7. Wrap(Wrap(t0) + Wrap(t1)) \in Int
  BY <1>6, CongruentWrap
<1> HIDE DEF mb
<1>8. \A p \in Party : mb[p] \in Int
  BY <1>1, <1>2, <1>7, Parties
<1> QED BY <1>3, <1>8 DEF Shares, mb

LEMMA RegionBit ==
  ASSUME NEW v \in BOOLEAN, NEW x \in Int
  PROVE  (IF v THEN 1 ELSE 0) * x = IF v THEN x ELSE 0
OBVIOUS

(* What a function's thresholds, coefficients and draws are.               *)
LEMMA PiecesAre ==
  ASSUME NEW f, IsPieces(f)
  PROVE  /\ f.t[1] \in Int /\ f.t[2] \in Int /\ f.t[1] <= f.t[2]
         /\ \A r \in 1 .. 3 :
              /\ \/ f.coef[r] = <<>>
                 \/ \E g \in Ring : f.coef[r] = <<g>>
                 \/ \E g \in Ring, h \in Ring : f.coef[r] = <<g, h>>
              /\ f.bits[r] \in Bits /\ f.k[r] \in Shares /\ f.z[r] \in Int
<1>1. f.t[1] \in Ring /\ f.t[2] \in Ring /\ f.t[1] <= f.t[2]
  BY DEF IsPieces
<1>2. SUFFICES ASSUME NEW r \in 1 .. 3
               PROVE  /\ \/ f.coef[r] = <<>>
                         \/ \E g \in Ring : f.coef[r] = <<g>>
                         \/ \E g \in Ring, h \in Ring : f.coef[r] = <<g, h>>
                      /\ f.bits[r] \in [Party -> {0, 1}] /\ f.k[r] \in [Party -> Ring] /\ f.z[r] \in Ring
  <2> HIDE DEF IsPieces
  <2> QED BY <1>1, RingIsInt, Zenon DEF Bits
<1>3. \/ f.coef[r] = <<>>
      \/ \E g \in Ring : f.coef[r] = <<g>>
      \/ \E g \in Ring, h \in Ring : f.coef[r] = <<g, h>>
  BY DEF IsPieces
<1>4. f.bits[r] \in [Party -> {0, 1}] /\ f.k[r] \in [Party -> Ring] /\ f.z[r] \in Ring
  BY DEF IsPieces
<1> QED BY <1>3, <1>4

(* What a piece adds to the outputs' sum when the input is in its region:  *)
(* its constant, or for a linear function the share of its value that      *)
(* party 1 does not hold and the two draws in place of the others.         *)
Contribution(x, f, r) ==
  IF Len(f.coef[r]) = 2
    THEN f.k[r][0] + Wrap(f.coef[r][2] * x[1]) + f.k[r][2]
    ELSE Polynomial(f.coef[r], Wrap(Sum(x)))

(* What a piece of the function adds: its contribution when the input is   *)
(* in its region, and otherwise zero.                                      *)
LEMMA PieceIs ==
  ASSUME NEW x \in Shares, NEW f, IsPieces(f), NEW r \in 1 .. 3, InRegion(x, f.t, r) \in BOOLEAN
  PROVE  LET poly == Contribution(x, f, r)
             add  == IF InRegion(x, f.t, r) THEN poly ELSE 0
         IN /\ Piece(x, f, r) \in Shares /\ poly \in Int /\ add \in Int
            /\ Congruent(Sum(Piece(x, f, r)), add)
<1> DEFINE coef == f.coef[r]  X == Wrap(Sum(x))  in == InRegion(x, f.t, r)
           bit == BitShares(in, f.bits[r])
           poly == Contribution(x, f, r)
           add == IF in THEN poly ELSE 0
           piece == Piece(x, f, r)
<1>1. /\ \/ coef = <<>>
         \/ \E g \in Ring : coef = <<g>>
         \/ \E g \in Ring, h \in Ring : coef = <<g, h>>
      /\ f.bits[r] \in Bits /\ f.k[r] \in Shares /\ f.z[r] \in Int
  BY PiecesAre
<1>2. X \in Int
  <2>1. Sum(x) \in Int
    BY DEF Sum, Shares, Party
  <2> QED BY <2>1, CongruentWrap
<1>3. bit \in Bits /\ Bit(bit) = IF in THEN 1 ELSE 0
  BY <1>1, BitSharesIs
<1>4. piece = CASE coef = <<>>   -> [p \in Party |-> 0]
                [] Len(coef) = 1 -> ConstBit(coef[1], bit, f.k[r])
                [] Len(coef) = 2 -> MulBitInPlace(FunctionValue(x, coef), bit, f.k[r], f.z[r])
  BY DEF Piece
<1>5. poly = IF Len(coef) = 2
                THEN f.k[r][0] + Wrap(coef[2] * x[1]) + f.k[r][2]
                ELSE (IF Len(coef) > 0 THEN coef[1] ELSE 0) + (IF Len(coef) > 1 THEN coef[2] * X ELSE 0)
  BY DEF Contribution, Polynomial
<1> SUFFICES piece \in Shares /\ poly \in Int /\ add \in Int /\ Congruent(Sum(piece), add)
  OBVIOUS
<1> HIDE DEF coef, X, in, bit, poly, piece
<1>a. ASSUME poly \in Int PROVE add \in Int /\ Bit(bit) * poly = add
  <2>1. in \in BOOLEAN
    BY DEF in
  <2> QED BY <1>a, <2>1, <1>3, RegionBit
<1>6. CASE coef = <<>>
  <2>1. piece = [p \in Party |-> 0] /\ poly = 0
    BY <1>4, <1>5, <1>6
  <2>2. piece \in Shares /\ Sum(piece) = 0 /\ add = 0
    BY <2>1, Parties DEF Shares, Sum
  <2>3. Congruent(0, 0)
    BY CongruentRefl
  <2> QED BY <2>1, <2>2, <2>3
<1>7. CASE \E g \in Ring : coef = <<g>>
  <2>1. PICK g \in Ring : coef = <<g>>
    BY <1>7
  <2>2. g \in Int /\ coef # <<>> /\ Len(coef) = 1 /\ coef[1] = g
    BY <2>1, RingIsInt
  <2>3. piece = ConstBit(g, bit, f.k[r])
    BY <1>4, <2>2
  <2>4. poly = g
    BY <1>5, <2>2
  <2> HIDE DEF add
  <2>5. piece \in Shares /\ Same(Sum(piece), Bit(bit) * g)
    BY <1>1, <1>3, <2>2, <2>3, ConstBitShares, ConstBitCorrect
  <2>6. add \in Int /\ Bit(bit) * g = add
    BY <1>a, <2>2, <2>4
  <2>7. Sum(piece) \in Int
    BY <2>5 DEF Sum, Shares, Party
  <2>8. Congruent(Sum(piece), add)
    BY <2>5, <2>6, <2>7, SameCongruent
  <2> QED BY <2>2, <2>4, <2>5, <2>6, <2>8
<1>8. CASE \E g, h \in Ring : coef = <<g, h>>
  <2>1. PICK g \in Ring, h \in Ring : coef = <<g, h>>
    BY <1>8
  <2>2. g \in Int /\ h \in Int /\ coef # <<>> /\ Len(coef) = 2 /\ coef[1] = g /\ coef[2] = h
    BY <2>1, RingIsInt
  <2> DEFINE ov == Overwritten(FunctionValue(x, coef), f.k[r])
  <2>3. piece = MulBit(ov, bit, f.k[r], f.z[r])
    BY <1>4, <2>2 DEF MulBitInPlace
  <2>4. poly = f.k[r][0] + Wrap(coef[2] * x[1]) + f.k[r][2]
    BY <1>5, <2>2
  <2>5. ov \in Shares /\ Sum(ov) = poly /\ poly \in Int
    BY <1>1, <2>2, <2>4, OverwrittenIs
  <2> HIDE DEF add, ov
  <2>6. piece \in Shares /\ Same(Sum(piece), Bit(bit) * poly)
    <3> HIDE DEF bit
    <3>1. bit \in Bits /\ ov \in Shares /\ f.k[r] \in Shares /\ f.z[r] \in Int
      BY <1>1, <1>3, <2>5
    <3>2. MulBit(ov, bit, f.k[r], f.z[r]) \in Shares
      BY <3>1, MulBitShares
    <3>3. Same(Sum(MulBit(ov, bit, f.k[r], f.z[r])), Bit(bit) * Sum(ov))
      BY <3>1, MulBitCorrect
    <3> QED BY <2>3, <2>5, <3>2, <3>3, Zenon
  <2>7. add \in Int /\ Bit(bit) * poly = add
    BY <1>a, <2>5
  <2>8. Sum(piece) \in Int
    BY <2>6 DEF Sum, Shares, Party
  <2>9. Congruent(Sum(piece), add)
    BY <2>6, <2>7, <2>8, SameCongruent
  <2> QED BY <2>5, <2>6, <2>7, <2>9
<1> QED BY <1>1, <1>6, <1>7, <1>8

(* The piecewise function: the parties end with a sharing of what the      *)
(* input's region contributes when the input less a threshold does not     *)
(* wrap around; for a linear function that is not its value.               *)
THEOREM PiecewiseIs ==
  ASSUME NEW x \in Shares, NEW f, IsPieces(f), Comparable(Wrap(Sum(x)), f.t)
  PROVE  Same(Sum(Piecewise(x, f)), Contribution(x, f, Region(Wrap(Sum(x)), f.t)))
<1> DEFINE X == Wrap(Sum(x))
           In(r) == InRegion(x, f.t, r)
           Poly(r) == Contribution(x, f, r)
           Add(r) == IF In(r) THEN Poly(r) ELSE 0
           S(r) == Piece(x, f, r)
           result == Contribution(x, f, Region(X, f.t))
<1>1. X \in Int
  <2>1. Sum(x) \in Int
    BY DEF Sum, Shares, Party
  <2> QED BY <2>1, CongruentWrap
<1>2. f.t[1] \in Int /\ f.t[2] \in Int /\ f.t[1] <= f.t[2]
  BY PiecesAre
<1>3. (BelowThreshold(x, f.t[1]) <=> X < f.t[1]) /\ (BelowThreshold(x, f.t[2]) <=> X < f.t[2])
  BY <1>2, BelowIs DEF Comparable
<1>4. BelowThreshold(x, f.t[1]) \in BOOLEAN /\ BelowThreshold(x, f.t[2]) \in BOOLEAN
  BY DEF BelowThreshold
<1>5. /\ In(1) = BelowThreshold(x, f.t[1])
      /\ In(2) = (~ BelowThreshold(x, f.t[1]) /\ BelowThreshold(x, f.t[2]))
      /\ In(3) = ~ BelowThreshold(x, f.t[2])
  BY DEF InRegion
<1>6. \A r \in 1 .. 3 : In(r) \in BOOLEAN
  <2>1. In(1) \in BOOLEAN /\ In(2) \in BOOLEAN /\ In(3) \in BOOLEAN
    BY <1>4, <1>5, Zenon
  <2> HIDE DEF In
  <2>2. \A r \in 1 .. 3 : r = 1 \/ r = 2 \/ r = 3
    OBVIOUS
  <2> QED BY <2>1, <2>2, Zenon
<1>7. \A r \in 1 .. 3 : S(r) \in Shares /\ Poly(r) \in Int /\ Add(r) \in Int /\ Congruent(Sum(S(r)), Add(r))
  BY <1>6, PieceIs
<1>b. X < f.t[1] => X < f.t[2]
  BY <1>1, <1>2
<1>c. Region(X, f.t) = IF X < f.t[1] THEN 1 ELSE IF X < f.t[2] THEN 2 ELSE 3
  BY DEF Region
<1>8. Add(1) + Add(2) + Add(3) = result
  <2>1. Poly(1) \in Int /\ Poly(2) \in Int /\ Poly(3) \in Int
    BY <1>7
  <2>2. CASE X < f.t[1]
    <3>1. In(1) /\ ~ In(2) /\ ~ In(3) /\ Region(X, f.t) = 1
      BY <1>3, <1>5, <1>b, <1>c, <2>2, Zenon
    <3>2. result = Poly(1) /\ Add(1) = Poly(1) /\ Add(2) = 0 /\ Add(3) = 0
      BY <3>1
    <3> HIDE DEF result, Add, Poly
    <3> QED BY <2>1, <3>2
  <2>3. CASE ~ (X < f.t[1]) /\ X < f.t[2]
    <3>1. ~ In(1) /\ In(2) /\ ~ In(3) /\ Region(X, f.t) = 2
      BY <1>3, <1>5, <1>b, <1>c, <2>3, Zenon
    <3>2. result = Poly(2) /\ Add(1) = 0 /\ Add(2) = Poly(2) /\ Add(3) = 0
      BY <3>1
    <3> HIDE DEF result, Add, Poly
    <3> QED BY <2>1, <3>2
  <2>4. CASE ~ (X < f.t[1]) /\ ~ (X < f.t[2])
    <3>1. ~ In(1) /\ ~ In(2) /\ In(3) /\ Region(X, f.t) = 3
      BY <1>3, <1>5, <1>b, <1>c, <2>4, Zenon
    <3>2. result = Poly(3) /\ Add(1) = 0 /\ Add(2) = 0 /\ Add(3) = Poly(3)
      BY <3>1
    <3> HIDE DEF result, Add, Poly
    <3> QED BY <2>1, <3>2
  <2> QED BY <1>1, <1>2, <2>2, <2>3, <2>4
<1> DEFINE s1 == S(1)  s2 == S(2)  s3 == S(3)  a1 == Add(1)  a2 == Add(2)  a3 == Add(3)
<1>9. /\ s1 \in Shares /\ s2 \in Shares /\ s3 \in Shares /\ a1 \in Int /\ a2 \in Int /\ a3 \in Int
      /\ Congruent(Sum(s1), a1) /\ Congruent(Sum(s2), a2) /\ Congruent(Sum(s3), a3)
      /\ a1 + a2 + a3 = result
  <2> HIDE DEF S, Add, Poly, result
  <2> QED BY <1>7, <1>8
<1>10. Piecewise(x, f) = [p \in Party |-> Wrap(s1[p] + s2[p] + s3[p])]
  BY DEF Piecewise
<1> HIDE DEF s1, s2, s3, a1, a2, a3, result
<1> DEFINE e0 == s1[0] + s2[0] + s3[0]
           e1 == s1[1] + s2[1] + s3[1]
           e2 == s1[2] + s2[2] + s3[2]
           total == Sum(s1) + Sum(s2) + Sum(s3)
           w0 == Wrap(e0)  w1 == Wrap(e1)  w2 == Wrap(e2)
<1>11. /\ e0 \in Int /\ e1 \in Int /\ e2 \in Int /\ total \in Int /\ e0 + e1 + e2 = total
       /\ Sum(s1) \in Int /\ Sum(s2) \in Int /\ Sum(s3) \in Int
  BY <1>9 DEF Sum, Shares, Party
<1>12. Sum(Piecewise(x, f)) = w0 + w1 + w2
  BY <1>10, Parties DEF Sum
<1>13. Same(w0 + w1 + w2, total)
  <2> HIDE DEF e0, e1, e2, total
  <2> QED BY <1>11, SumOfWrapped
<1>14. w0 + w1 + w2 \in Int
  <2> HIDE DEF e0, e1, e2
  <2>1. w0 \in Int /\ w1 \in Int /\ w2 \in Int
    BY <1>11, CongruentWrap
  <2> HIDE DEF w0, w1, w2
  <2> QED BY <2>1
<1>15. Congruent(total, result) /\ result \in Int
  <2>1. Congruent(Sum(s1) + Sum(s2), a1 + a2)
    BY <1>9, <1>11, CongruentAdd
  <2>2. Sum(s1) + Sum(s2) \in Int /\ a1 + a2 \in Int
    BY <1>9, <1>11
  <2>3. Congruent((Sum(s1) + Sum(s2)) + Sum(s3), (a1 + a2) + a3)
    BY <1>9, <1>11, <2>1, <2>2, CongruentAdd
  <2> QED BY <1>9, <2>3
<1>16. Congruent(w0 + w1 + w2, total)
  <2> DEFINE w == w0 + w1 + w2
  <2> HIDE DEF w, total
  <2> QED BY <1>11, <1>13, <1>14, SameCongruent DEF w
<1>17. Congruent(w0 + w1 + w2, result)
  <2> DEFINE w == w0 + w1 + w2
  <2> HIDE DEF w, total
  <2> QED BY <1>11, <1>14, <1>15, <1>16, CongruentTrans DEF w
<1>18. Same(w0 + w1 + w2, result)
  <2> DEFINE w == w0 + w1 + w2
  <2> HIDE DEF w
  <2> QED BY <1>14, <1>15, <1>17, CongruentSame DEF w
<1> QED BY <1>12, <1>18 DEF result

(* Where the input's polynomial is zero or a constant, that is the plain   *)
(* function's value, whatever the other regions' polynomials.              *)
THEOREM PiecewiseCorrect ==
  ASSUME NEW x \in Shares, NEW f, IsPieces(f), Comparable(Wrap(Sum(x)), f.t),
         Len(f.coef[Region(Wrap(Sum(x)), f.t)]) < 2
  PROVE  Same(Sum(Piecewise(x, f)), Plain(Wrap(Sum(x)), f))
<1> DEFINE r == Region(Wrap(Sum(x)), f.t)
<1>1. Same(Sum(Piecewise(x, f)), Contribution(x, f, r))
  BY PiecewiseIs
<1>2. Len(f.coef[r]) # 2
  <2> DEFINE n == Len(f.coef[r])
  <2>1. n < 2
    OBVIOUS
  <2> HIDE DEF n
  <2>2. n # 2
    BY <2>1
  <2> QED BY <2>2 DEF n
<1> QED BY <1>1, <1>2 DEF Contribution, Plain

-----------------------------------------------------------------------------
(* The invariant: the operands are among the inputs, and what has been     *)
(* computed is the operation's value.                                      *)
Operands ==
  /\ a \in Shares /\ b \in Shares /\ bits \in Bits /\ k \in [Party -> Ring]
  /\ z \in Int /\ divisor \in Nat \ {0} /\ IsPieces(pieces)
IInv == Operands /\ (done => c = Value)

LEMMA IInvHolds == Spec => []IInv
<1>1. Init => IInv
  <2> SUFFICES ASSUME Init PROVE Operands /\ ~ done
    BY DEF IInv
  <2>1. PICK i \in Inputs : /\ a \in i.a /\ b \in i.b /\ bits \in i.bits
                            /\ k \in i.k /\ z \in i.z /\ divisor \in i.divisor
                            /\ pieces \in i.pieces
    BY DEF Init
  <2> QED BY <2>1, InputsAssumption, RingIsInt DEF Init, Operands, Bits
<1>2. IInv /\ [Evaluate]_vars => IInv'
  <2> SUFFICES ASSUME IInv, [Evaluate]_vars PROVE IInv'
    OBVIOUS
  <2>1. CASE Evaluate
    BY <2>1 DEF Evaluate, IInv, Operands, Value
  <2>2. CASE UNCHANGED vars
    BY <2>2 DEF vars, IInv, Operands, Value
  <2> QED BY <2>1, <2>2
<1> QED BY <1>1, <1>2, PTL DEF Spec

(* Every result is a sharing of what its operation says.                   *)
THEOREM ResultsCorrectHolds == Spec => []ResultsCorrect
<1>1. IInv => ResultsCorrect
  <2> SUFFICES ASSUME IInv, done PROVE
        /\ op = "mul"      => Same(Sum(c), Sum(a) * Sum(b))
        /\ op = "mulBit"   => Same(Sum(c), Bit(bits) * Sum(a))
        /\ op = "constBit" => Same(Sum(c), Bit(bits) * z)
        /\ op = "inject"   => Same(Sum(c), Bit(bits))
        /\ op = "share"    => Same(Sum(c), Sum(a))
        /\ op = "piecewise" /\ Comparable(Wrap(Sum(a)), pieces.t)
             /\ Len(pieces.coef[Region(Wrap(Sum(a)), pieces.t)]) < 2 =>
             Same(Sum(c), Plain(Wrap(Sum(a)), pieces))
    BY DEF ResultsCorrect
  <2>1. c = Value /\ Operands /\ k \in Shares
    BY RingIsInt DEF IInv, Operands
  <2>2. op = "mul" => Same(Sum(c), Sum(a) * Sum(b))
    <3>1. op = "mul" => Value = Mul(a, b, k)
      BY DEF Value
    <3> QED BY <2>1, <3>1, MulCorrect DEF Operands
  <2>3. op = "mulBit" => Same(Sum(c), Bit(bits) * Sum(a))
    <3>1. op = "mulBit" => Value = MulBit(a, bits, k, z)
      BY DEF Value
    <3> QED BY <2>1, <3>1, MulBitCorrect DEF Operands
  <2>4. op = "constBit" => Same(Sum(c), Bit(bits) * z)
    <3>1. op = "constBit" => Value = ConstBit(z, bits, k)
      BY DEF Value
    <3> QED BY <2>1, <3>1, ConstBitCorrect DEF Operands
  <2>5. op = "inject" => Same(Sum(c), Bit(bits))
    <3>1. op = "inject" => Value = Inject(bits, k)
      BY DEF Value
    <3> QED BY <2>1, <3>1, InjectCorrect DEF Operands
  <2>6. op = "share" => Same(Sum(c), Sum(a))
    <3>1. op = "share" => Value = LocalInt(a, k)
      BY DEF Value
    <3> QED BY <2>1, <3>1, LocalIntCorrect DEF Operands
  <2>7. op = "piecewise" /\ Comparable(Wrap(Sum(a)), pieces.t)
          /\ Len(pieces.coef[Region(Wrap(Sum(a)), pieces.t)]) < 2 =>
          Same(Sum(c), Plain(Wrap(Sum(a)), pieces))
    <3>1. op = "piecewise" => Value = Piecewise(a, pieces)
      BY DEF Value
    <3> QED BY <2>1, <3>1, PiecewiseCorrect DEF Operands
  <2> QED BY <2>2, <2>3, <2>4, <2>5, <2>6, <2>7
<1> QED BY <1>1, IInvHolds, PTL

(* A truncated product that fits is off by at most three, downwards.       *)
THEOREM TruncationErrorHolds == Spec => []TruncationError
<1>1. IInv => TruncationError
  <2> SUFFICES ASSUME IInv, done, op = "mulShift", InRange(Product(a, b))
               PROVE  \E e \in 0 .. 3 : Same(Sum(c), Shifted(Product(a, b), divisor) - e)
    BY DEF TruncationError
  <2>1. c = MulShift(a, b, k, divisor)
    BY DEF IInv, Value
  <2> QED BY <2>1, TruncationCorrect DEF IInv, Operands
<1> QED BY <1>1, IInvHolds, PTL
=============================================================================
