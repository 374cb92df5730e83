------------------------------ MODULE Converter ------------------------------
(***************************************************************************)
(* ConvertStrAmount of converter/currency.go: an amount in units of        *)
(* 10^-fromDecimals is divided and multiplied as a big.Float, each step    *)
(* rounding to the precision of NewFloat, and is then cut to an integer.   *)
(* A value of big.Float is the fraction num / den.                         *)
(***************************************************************************)
EXTENDS Integers

CONSTANTS
    Precision,  \* bits of a mantissa: 53 after NewFloat
    Base,       \* of the decimals: 10
    Amounts,    \* amounts to be converted
    Decimals    \* numbers of decimals of the two assets

VARIABLE
    conversion  \* what the last call was given, and gave

ConverterAssumption ==
    /\ Precision \in Nat \ {0, 1} /\ Base \in Nat \ {0, 1}
    /\ Amounts \subseteq Nat /\ Decimals \subseteq Nat

\* The powers of b: Power(b)[n] is the nth.
Power(b) == LET p[n \in Nat] == IF n = 0 THEN 1 ELSE b * p[n - 1] IN p

Value(num, den) == [num |-> num, den |-> den]

\* To the nearest integer, and to the even one of two.
Nearest(num, den) ==
    LET down == num \div den  rest == 2 * (num % den) IN
    IF rest > den \/ (rest = den /\ down % 2 = 1) THEN down + 1 ELSE down

\* num / den with a mantissa of Precision bits: scaled by the power of two that
\* leaves that many bits before the point, rounded, and scaled back.
Rounded(num, den) ==
    LET two == Power(2)
        low == two[Precision - 1]
        up   == CHOOSE s \in 0 .. low * den : /\ num * two[s] >= low * den
                                              /\ s > 0 => num * two[s - 1] < low * den
        down == CHOOSE s \in 0 .. num : /\ num < 2 * low * den * two[s]
                                        /\ s > 0 => num >= 2 * low * den * two[s - 1]
    IN  IF num = 0 THEN Value(0, 1)
        ELSE IF num < low * den THEN Value(Nearest(num * two[up], den), two[up])
        ELSE Value(Nearest(num, den * two[down]) * two[down], 1)

SetString(amount) == Rounded(amount, 1)

\* Mutant of Quo: the fraction is dropped here already.
QuoCut(v, decimals) == Value((v.num \div v.den) \div Power(Base)[decimals], 1)

Quo(v, decimals) == Rounded(v.num, v.den * Power(Base)[decimals])
Mul(v, decimals) == Rounded(v.num * Power(Base)[decimals], v.den)

\* Int of big.Float, which drops the fraction.
ToInt(v) == v.num \div v.den

ConvertStrAmount(amount, fromDecimals, toDecimals) ==
    ToInt(Mul(Quo(SetString(amount), fromDecimals), toDecimals))

NotCalled == -1

Init == conversion = [amount |-> 0, from |-> 0, to |-> 0, result |-> NotCalled]

\* A call; the one before has left nothing behind.
Convert(amount, from, to) ==
    conversion' = [amount |-> amount, from |-> from, to |-> to,
                   result |-> ConvertStrAmount(amount, from, to)]

Next == \E amount \in Amounts, from, to \in Decimals : Convert(amount, from, to)

-----------------------------------------------------------------------------
Exact(amount, from, to) == (amount * Power(Base)[to]) \div Power(Base)[from]

(***************************************************************************)
(* An amount that fits the mantissa, as the exact result does, becomes     *)
(* that result or a neighbour of it: the quotient is rounded before it is  *)
(* multiplied, so even equal decimals may lose or gain a unit.             *)
(***************************************************************************)
WithinOneUnit ==
    LET exact == Exact(conversion.amount, conversion.from, conversion.to)
        limit == Power(2)[Precision]
    IN
    conversion.result # NotCalled /\ conversion.amount <= limit /\ exact <= limit
      => conversion.result \in {exact - 1, exact, exact + 1}
=============================================================================
