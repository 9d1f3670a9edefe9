------------------------------ MODULE ShareArith ------------------------------
(***************************************************************************)
(* The arithmetic of Sh3Evaluator, Sh3Converter, Sh3Encryptor::localInt    *)
(* and Sh3Piecewise: what the protocols of module ThreeParty compute.  A   *)
(* value is the sum of three shares in the ring of machine integers (i64   *)
(* in the code); party p holds share p and share p-1.  A bit is the        *)
(* exclusive or of three shares.  Messages and draws are matched as module *)
(* ThreeParty shows, so a draw is one value here and an oblivious transfer *)
(* gives the receiver the message of its choice.                           *)
(***************************************************************************)
EXTENDS Integers, Sequences

CONSTANTS
  Half,     \* 2^63: integers are -Half .. Half-1 and wrap around
  Inputs    \* the cases evaluated: see Init
ASSUME HalfAssumption == Half \in Nat \ {0} /\ Half % 4 = 0

Modulus == 2 * Half
Ring == (- Half) .. (Half - 1)

(* Signed integers of the ring's width.                                    *)
Wrap(x) == ((x + Half) % Modulus) - Half

Party == 0 .. 2
prevOf(p) == (p + 2) % 3

(* A function of Sh3Piecewise with two thresholds (as aby3ML's logistic    *)
(* function has; one threshold is two equal ones) and three polynomials,   *)
(* sequences of up to two coefficients; and what its evaluation draws.     *)
IsPieces(f) ==
  /\ f.t[1] \in Ring /\ f.t[2] \in Ring /\ f.t[1] <= f.t[2]
  /\ \A r \in 1 .. 3 : /\ f.coef[r] \in {<<>>} \cup {<<x>> : x \in Ring} \cup {<<x, y>> : x \in Ring, y \in Ring}
                      /\ f.bits[r] \in [Party -> {0, 1}] /\ f.k[r] \in [Party -> Ring] /\ f.z[r] \in Ring
ASSUME InputsAssumption ==
  \A i \in Inputs : /\ i.a \subseteq [Party -> Ring] /\ i.b \subseteq [Party -> Ring]
                    /\ i.bits \subseteq [Party -> {0, 1}]
                    /\ i.k \subseteq [Party -> Ring] /\ i.z \subseteq Ring
                    /\ i.divisor \subseteq Nat \ {0}
                    /\ \A f \in i.pieces : IsPieces(f)
Sum(s) == s[0] + s[1] + s[2]
Same(x, y) == x % Modulus = y % Modulus

Xor(x, y) == IF x = y THEN 0 ELSE 1
Bit(b) == Xor(Xor(b[0], b[1]), b[2])

-----------------------------------------------------------------------------
(* Sh3ShareGen::getShare: the stream common with the previous party minus  *)
(* the one common with the next; k[p] is common to p and the next party.   *)
ZeroShare(k, p) == k[prevOf(p)] - k[p]

(* What a party computes of a product from the shares it holds.            *)
Cross(a, b, p) == a[p] * b[p] + a[p] * b[prevOf(p)] + a[prevOf(p)] * b[p]

Mul(a, b, k) == [p \in Party |-> Wrap(Cross(a, b, p) + ZeroShare(k, p))]

(* x >> shift of a signed integer, with divisor 2^shift.                   *)
Shifted(x, divisor) == x \div divisor

(* getTruncationTuple: t[p] is drawn by p and the next party; r is t/4, so *)
(* that three of them do not wrap around, and rTrunc is r shifted.         *)
(* (Operators named Bug... are slips of the operator they precede; the     *)
(* mutants of PROJECT.json put them in its place.)                         *)
TupleR(t, p) == Shifted(t[p], 4)
BugTupleRTrunc(t, divisor, p) == Shifted(t[p], divisor)
TupleRTrunc(t, divisor, p) == Shifted(t[p], 4 * divisor)

(* asyncMul with a shift: parties 0 and 1 learn x*y-r, which they shift and*)
(* add to share 0.                                                         *)
Opened(a, b, t) ==
  Wrap(Wrap(Cross(a, b, 0) - TupleR(t, 0)) + Wrap(Cross(a, b, 1) - TupleR(t, 1))
         + Wrap(Cross(a, b, 2) - TupleR(t, 2)))

MulShift(a, b, t, divisor) ==
  [p \in Party |-> IF p = 0 THEN Wrap(TupleRTrunc(t, divisor, 0) + Shifted(Opened(a, b, t), divisor))
                            ELSE TupleRTrunc(t, divisor, p)]

(* An oblivious transfer of two messages; which of them does not hold the  *)
(* addend is decided by a bit of the sender.                               *)
Transferred(choice, sendersBit, base, addend) ==
  IF choice = sendersBit THEN base ELSE base + addend

(* An integer times a bit: party 1's share is what it receives from party  *)
(* 0 (choice b1) and from party 2 (choice b0); k[2] stands for the common  *)
(* draw c2 of parties 2 and 0, k[0] for c0, z for the mask.                *)
MulBit(a, b, k, z) ==
  LET mask == Wrap(- (k[0] + k[2]) - z)
      m0 == Wrap(Transferred(b[1], Xor(b[0], b[2]), mask, a[0] + a[2]))
      m1 == Wrap(Transferred(b[0], Xor(b[1], b[2]), z, a[1]))
  IN [p \in Party |-> IF p = 1 THEN Wrap(m0 + m1) ELSE k[p]]

(* The same call with its result in the matrix of its operand: party 0 has *)
(* put its draws into both of its shares when it reads them; party 2 reads *)
(* share 1 before it draws, party 1 reads no share of the operand.         *)
Overwritten(a, k) == [p \in Party |-> IF p = 1 THEN a[1] ELSE k[p]]
MulBitInPlace(a, b, k, z) == MulBit(Overwritten(a, k), b, k, z)

(* A public integer times a bit: share 1 is transferred to parties 1 and 2,*)
(* share 0 is party 1's share of zero and share 2 party 2's.               *)
ConstBit(x, b, k) ==
  [p \in Party |-> CASE p = 0 -> Wrap(ZeroShare(k, 1))
                     [] p = 1 -> Wrap(Transferred(b[1], Xor(b[0], b[2]), ZeroShare(k, 0), x))
                     [] p = 2 -> Wrap(ZeroShare(k, 2))]

(* bitInjection: shares 1 and 2 are drawn, party 2 transfers share 0.      *)
BugInject(b, k) ==
  [p \in Party |-> IF p = 0 THEN Wrap(Transferred(b[0], Xor(b[1], b[2]), k[1] - k[2], 1)) ELSE k[p]]
Inject(b, k) ==
  [p \in Party |-> IF p = 0 THEN Wrap(Transferred(b[0], Xor(b[1], b[2]), - k[1] - k[2], 1)) ELSE k[p]]

(* localInt at the parties that have a value, remoteInt (of zero) at the   *)
(* others.                                                                 *)
LocalInt(val, k) == [p \in Party |-> Wrap(ZeroShare(k, p) + val[p])]

-----------------------------------------------------------------------------
(* Sh3Piecewise.  Party 0 adds up its two shares and takes off a threshold;*)
(* a circuit adds the third share and returns the sign.  (Party 1 gets the *)
(* sum from party 0 as it was when handed to the channel: see the README.) *)
BelowThreshold(x, t) == Wrap(Wrap(Wrap(x[0] + x[2]) - t) + x[1]) < 0

(* The circuit's outputs: the input is in region 1, 2 or 3.                *)
InRegion(x, t, r) ==
  CASE r = 1 -> BelowThreshold(x, t[1])
    [] r = 2 -> ~ BelowThreshold(x, t[1]) /\ BelowThreshold(x, t[2])
    [] r = 3 -> ~ BelowThreshold(x, t[2])

(* A sharing of a bit, two of its shares chosen.                           *)
BitShares(v, y) == [p \in Party |-> IF p = 0 THEN Xor(IF v THEN 1 ELSE 0, Xor(y[1], y[2])) ELSE y[p]]

(* getFunctionValues: a linear function, its constant added to share 0.    *)
FunctionValue(x, coef) == [p \in Party |-> Wrap(coef[2] * x[p] + (IF p = 0 THEN coef[1] ELSE 0))]

(* A polynomial times its region's bit, in place when it is a linear       *)
(* function's value; the outputs add them up.                              *)
Piece(x, f, r) ==
  LET bit == BitShares(InRegion(x, f.t, r), f.bits[r])
  IN CASE f.coef[r] = <<>>   -> [p \in Party |-> 0]
       [] Len(f.coef[r]) = 1 -> ConstBit(f.coef[r][1], bit, f.k[r])
       [] Len(f.coef[r]) = 2 -> MulBitInPlace(FunctionValue(x, f.coef[r]), bit, f.k[r], f.z[r])

Piecewise(x, f) == [p \in Party |-> Wrap(Piece(x, f, 1)[p] + Piece(x, f, 2)[p] + Piece(x, f, 3)[p])]

-----------------------------------------------------------------------------
(* A protocol is evaluated on shares, bits and draws of "Inputs".          *)
VARIABLES op, a, b, bits, k, z, divisor, pieces, c, done
vars == <<op, a, b, bits, k, z, divisor, pieces, c, done>>

Init ==
  /\ \E i \in Inputs : /\ op \in i.ops /\ a \in i.a /\ b \in i.b /\ bits \in i.bits
                       /\ k \in i.k /\ z \in i.z /\ divisor \in i.divisor
                       /\ pieces \in i.pieces
  /\ c = [p \in Party |-> 0] /\ done = FALSE

Value ==
  CASE op = "mul"      -> Mul(a, b, k)
    [] op = "mulShift" -> MulShift(a, b, k, divisor)
    [] op = "mulBit"   -> MulBit(a, bits, k, z)
    [] op = "constBit" -> ConstBit(z, bits, k)
    [] op = "inject"   -> Inject(bits, k)
    [] op = "share"    -> LocalInt(a, k)
    [] op = "piecewise" -> Piecewise(a, pieces)

Evaluate ==
  /\ ~ done /\ done' = TRUE
  /\ c' = Value
  /\ UNCHANGED <<op, a, b, bits, k, z, divisor, pieces>>

Spec == Init /\ [][Evaluate]_vars

-----------------------------------------------------------------------------
(* The piecewise function at x, as the plain eval of Sh3Piecewise computes *)
(* it; and the condition under which the sign of x less a threshold tells  *)
(* which is greater: that the difference does not wrap around.             *)
Region(x, t) == IF x < t[1] THEN 1 ELSE IF x < t[2] THEN 2 ELSE 3
Polynomial(coef, x) ==
  (IF Len(coef) > 0 THEN coef[1] ELSE 0) + (IF Len(coef) > 1 THEN coef[2] * x ELSE 0)
Plain(x, f) == Polynomial(f.coef[Region(x, f.t)], x)
Comparable(x, t) == x - t[1] \in Ring /\ x - t[2] \in Ring

(* The result is a sharing of what the operation says, for every sharing of*)
(* its operands and every draw; of a piecewise function where the input's  *)
(* polynomial is a constant or zero, linear ones elsewhere adding nothing. *)
ResultsCorrect ==
  done =>
    /\ op = "mul"      => Same(Sum(c), Sum(a) * Sum(b))
    /\ op = "mulBit"   => Same(Sum(c), Bit(bits) * Sum(a))
    /\ op = "constBit" => Same(Sum(c), Bit(bits) * z)
    /\ op = "inject"   => Same(Sum(c), Bit(bits))
    /\ op = "share"    => Same(Sum(c), Sum(a))
    /\ op = "piecewise" /\ Comparable(Wrap(Sum(a)), pieces.t)
         /\ Len(pieces.coef[Region(Wrap(Sum(a)), pieces.t)]) < 2 =>
         Same(Sum(c), Plain(Wrap(Sum(a)), pieces))

(* The output of a piecewise function is a sharing of the plain one at the *)
(* input, as the tests of Sh3Piecewise require: run piecewise_linear shows *)
(* that it is not where the input's polynomial is linear.                  *)
PiecewiseIsPlain ==
  done /\ op = "piecewise" /\ Comparable(Wrap(Sum(a)), pieces.t) =>
    Same(Sum(c), Plain(Wrap(Sum(a)), pieces))

(* The product as a signed integer, and the condition under which x*y-r    *)
(* does not wrap: x*y must not need the last two bits of the integer.      *)
Product(x, y) == Wrap(Sum(x) * Sum(y))
InRange(v) == -(Half \div 4) <= v /\ v < Half \div 4

(* A truncated product is at most three below the product shifted, and     *)
(* never above it.                                                         *)
TruncationError ==
  done /\ op = "mulShift" /\ InRange(Product(a, b)) =>
    \E e \in 0 .. 3 : Same(Sum(c), Shifted(Product(a, b), divisor) - e)
=============================================================================
