-------------------------- MODULE NumericLiterals --------------------------
(***************************************************************************)
(* Numeric literals: the folding of a sign into a literal by the parser,   *)
(* the value and the type that the analyzer gives the literal, and the     *)
(* integer that a sequence option takes from it.                           *)
(***************************************************************************)
EXTENDS Integers, Sequences, FiniteSetsExt

CONSTANTS
    Bits,                   \* the width of each integer type
    MaxPrecision,           \* max_decimal_precision()
    PreferSmallIntegers,    \* prefer_small_integer_literals()
    PreferSmallDecimals     \* prefer_small_decimal_literals()

IntegerTypes == {"int1", "int2", "int4", "int8"}
ASSUME BitsAssumption ==
    /\ Bits \in [IntegerTypes -> Nat \ {0}]
    /\ Bits["int1"] < Bits["int2"] /\ Bits["int2"] < Bits["int4"] /\ Bits["int4"] < Bits["int8"]
ASSUME LiteralOptionsAssumption ==
    /\ MaxPrecision \in Nat \ {0}
    /\ PreferSmallIntegers \in BOOLEAN /\ PreferSmallDecimals \in BOOLEAN

(* Powers, as functions: the provers know nothing of ^.                    *)
TwoTo[n \in Nat] == IF n = 0 THEN 1 ELSE 2 * TwoTo[n - 1]
TenTo[n \in Nat] == IF n = 0 THEN 1 ELSE 10 * TenTo[n - 1]

Lowest(type) == -TwoTo[Bits[type] - 1]
Highest(type) == TwoTo[Bits[type] - 1] - 1
RangeOf(type) == Lowest(type) .. Highest(type)

(* A number in the width of an int64, as its bits stand for it.            *)
Wrap(n) == ((n + TwoTo[Bits["int8"] - 1]) % TwoTo[Bits["int8"]]) - TwoTo[Bits["int8"] - 1]

(***************************************************************************)
(* A written number has signs, a coefficient and digits after the point.   *)
(* The parser folds a sign into the literal only when it has none yet, so  *)
(* the innermost one; the others stay operators of the expression.         *)
(***************************************************************************)
Numeral == [signs : Seq({"plus", "minus"}), coefficient : Nat, scale : Nat]
FoldedSign(signs) == IF signs = <<>> THEN "none" ELSE signs[Len(signs)]
Fold(written) ==
    [operators |-> IF written.signs = <<>> THEN 0 ELSE Len(written.signs) - 1,
     sign |-> FoldedSign(written.signs),
     coefficient |-> written.coefficient, scale |-> written.scale]

Digits(n) == CHOOSE d \in 1..(n + 1) : n < TenTo[d] /\ \A e \in 1..(d - 1) : n >= TenTo[e]
Inexact(literal) == Digits(literal.coefficient) > MaxPrecision \/ literal.scale > MaxPrecision

(* Mutant of WithinInteger: the lowest number has a coefficient too large. *)
WithinPositive(literal) == literal.coefficient <= Highest("int8")
WithinInteger(literal) ==
    \/ literal.coefficient <= Highest("int8")
    \/ literal.sign = "minus" /\ literal.coefficient <= -Lowest("int8")

(* The coefficient is cast to int64 before it is negated.                  *)
IntegerOf(literal) ==
    LET integer == Wrap(literal.coefficient)
    IN  IF literal.sign = "minus" THEN Wrap(-integer) ELSE integer

SmallIntegers == {"int1", "int2", "int4"}
SmallestInteger(n) ==
    IF PreferSmallIntegers /\ \E type \in SmallIntegers : n \in RangeOf(type)
    THEN CHOOSE type \in SmallIntegers :
             /\ n \in RangeOf(type)
             /\ \A other \in SmallIntegers : n \in RangeOf(other) => Bits[type] <= Bits[other]
    ELSE "int8"

Unlimited == -1     \* no limit, in place of a number
DecimalPrecision(literal) ==
    IF PreferSmallDecimals THEN Max({Digits(literal.coefficient), literal.scale}) ELSE Unlimited
Signed(literal) == IF literal.sign = "minus" THEN -literal.coefficient ELSE literal.coefficient

(***************************************************************************)
(* process_exact_numeric(): an integer when there is no digit after the    *)
(* point and it fits in 64 bits, or else a decimal.                        *)
(***************************************************************************)
LiteralError == [type |-> "error"]
ExactNumeric(literal) ==
    IF Inexact(literal) THEN LiteralError
    ELSE IF literal.scale = 0 /\ WithinInteger(literal)
    THEN [type |-> SmallestInteger(IntegerOf(literal)), value |-> IntegerOf(literal), scale |-> 0]
    ELSE [type |-> "decimal", value |-> Signed(literal), scale |-> literal.scale,
          precision |-> DecimalPrecision(literal)]

(***************************************************************************)
(* extract_sequence_value(): a literal that is an integer, also when it is *)
(* written as a decimal, in the range of the column type.                  *)
(***************************************************************************)
Whole(immediate) == immediate.value % TenTo[immediate.scale] = 0
SequenceValues(expression, type) ==
    LET immediate == ExactNumeric(expression)
        value == immediate.value \div TenTo[immediate.scale]
    IN  IF /\ expression.operators = 0 /\ immediate # LiteralError
           /\ Whole(immediate) /\ value \in RangeOf(type)
        THEN {value} ELSE {}

(***************************************************************************)
(* A literal keeps its number, an integer of 64 bits is an integer         *)
(* literal of a type that holds it, and a decimal type holds the digits.   *)
(***************************************************************************)
KeepsNumber(literal, immediate) ==
    LET number == IF literal.sign = "minus" THEN 0 - literal.coefficient ELSE literal.coefficient
    IN  immediate # LiteralError =>
            /\ immediate.value = number /\ immediate.scale = literal.scale
            /\ (literal.scale = 0 /\ number \in RangeOf("int8")) <=> immediate.type # "decimal"
            /\ immediate.type # "decimal" => number \in RangeOf(immediate.type)
            /\ immediate.type = "decimal" /\ immediate.precision # Unlimited =>
                  /\ literal.coefficient < TenTo[immediate.precision]
                  /\ immediate.scale <= immediate.precision
                  /\ immediate.precision <= MaxPrecision

=============================================================================
