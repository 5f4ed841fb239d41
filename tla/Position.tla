------------------------------ MODULE Position ------------------------------
(***************************************************************************)
(* The arithmetic of internal/position/position.go and                     *)
(* internal/pnl/pnl.go.                                                    *)
(*                                                                         *)
(* A position is a signed size and an average entry price.  The code keeps *)
(* the average as a float64; here it is the exact fraction num / den, so   *)
(* that the identities the books must satisfy can be stated without        *)
(* rounding.  Sizes are whole lots, prices whole yen.  A yen amount        *)
(* (realized PnL) is likewise a fraction [num, den].                       *)
(***************************************************************************)
EXTENDS Integers, Functions

Abs(n) == IF n < 0 THEN -n ELSE n

Frac == [num : Int, den : Nat \ {0}]
PositionType == [size : Int, num : Int, den : Nat \ {0}]

ZeroYen == [num |-> 0, den |-> 1]

AddYen(a, b) ==
    IF a.den = b.den THEN [a EXCEPT !.num = @ + b.num]
    ELSE [num |-> a.num * b.den + b.num * a.den, den |-> a.den * b.den]

\* Equality of two fractions, whatever their representation.
SameYen(a, b) == a.num * b.den = b.num * a.den

\* The sum of the amounts f[x], x in S.
SumOfYen(f, S) == FoldFunctionOnSet(AddYen, ZeroYen, f, S)

-----------------------------------------------------------------------------
\* NewPosition: no holding, no entry price.
Flat == [size |-> 0, num |-> 0, den |-> 1]

\* Cases 1 and 2 of Update: the trade opens a position, or adds to one.
Opened(t, price) == [size |-> t, num |-> price, den |-> 1]

SameDirection(p, t) == (p.size > 0 /\ t > 0) \/ (p.size < 0 /\ t < 0)

Increased(p, t, price) ==
    [size |-> p.size + t,
     num  |-> Abs(p.size) * p.num + Abs(t) * price * p.den,
     den  |-> p.den * (Abs(p.size) + Abs(t))]

\* Case 3: the trade reduces the position, closes it, or flips it.
Offset(p, t, price) ==
    IF Abs(t) < Abs(p.size) THEN [p EXCEPT !.size = @ + t]
    ELSE IF Abs(t) = Abs(p.size) THEN Flat
    ELSE Opened(p.size + t, price)

\* Mutant: every trade is averaged in, whatever its direction.
UpdateAlwaysAverages(p, t, price) ==
    IF p.size = 0 THEN Opened(t, price)
    ELSE [size |-> p.size + t,
          num  |-> p.size * p.num + t * price * p.den,
          den  |-> p.den * (p.size + t)]

\* Mutant: a flip keeps the average entry price of the closed side.
UpdateKeepsAverageOnFlip(p, t, price) ==
    IF p.size = 0 THEN Opened(t, price)
    ELSE IF SameDirection(p, t) THEN Increased(p, t, price)
    ELSE [p EXCEPT !.size = @ + t]

\* The position Update(t, price) leaves behind.
Update(p, t, price) ==
    IF p.size = 0 THEN Opened(t, price)
    ELSE IF SameDirection(p, t) THEN Increased(p, t, price)
    ELSE Offset(p, t, price)

\* The realized PnL Update(t, price) returns: nothing unless it offsets.
Closed(p, t) == IF Abs(t) < Abs(p.size) THEN Abs(t) ELSE Abs(p.size)

RealizedBy(p, t, price) ==
    IF p.size = 0 \/ SameDirection(p, t) THEN ZeroYen
    ELSE LET perUnit == price * p.den - p.num
         IN  [num |-> (IF p.size < 0 THEN -perUnit ELSE perUnit) * Closed(p, t),
              den |-> p.den]

\* What the holding cost, size * average: negative for a short.
CostOf(p) == [num |-> p.size * p.num, den |-> p.den]

=============================================================================
