---------------------------- MODULE ColumnTypes ----------------------------
(***************************************************************************)
(* analyze_type: the type that a written type stands for, or an error.  A  *)
(* written length, precision or scale is absent, flexible ("*") or a       *)
(* number; the parser reads the number into the width of a size.           *)
(***************************************************************************)
EXTENDS NumericLiterals

CONSTANTS
    MaxSize,            \* the largest size; the code keeps it for "*"
    DefaultPrecision,   \* default_decimal_precision()
    IntegerPrecision,   \* max_binary_integer1_precision() to 8_precision()
    FloatPrecision      \* max_binary_float4_precision(), float8_precision()

Absent == -1        \* in place of a size
Flexible == -2
FloatTypes == {"float4", "float8"}
ASSUME SizesAssumption ==
    /\ MaxSize \in Nat /\ MaxSize > MaxPrecision
    /\ DefaultPrecision \in {Unlimited} \cup (1..MaxPrecision)
ASSUME PrecisionAssumption ==
    /\ IntegerPrecision \in [IntegerTypes -> Nat] /\ FloatPrecision \in [FloatTypes -> Nat]
    /\ \A type \in IntegerTypes : IntegerPrecision[type] < Bits[type]
    /\ IntegerPrecision["int1"] <= IntegerPrecision["int2"]
    /\ IntegerPrecision["int2"] <= IntegerPrecision["int4"]
    /\ IntegerPrecision["int4"] <= IntegerPrecision["int8"]
    /\ FloatPrecision["float4"] <= FloatPrecision["float8"]

(***************************************************************************)
(* to_size(): a number that does not fit becomes 0, and the largest size   *)
(* is the one that stands for "*".                                         *)
(***************************************************************************)
ToSize(n) == IF n > MaxSize THEN 0 ELSE IF n = MaxSize THEN Flexible ELSE n
Parsed(size) == IF size \in {Absent, Flexible} THEN size ELSE ToSize(size)

Sizes == {Absent, Flexible} \cup Nat
IsTypeSyntax(syntax) ==
    /\ syntax.kind \in {"character", "bit", "octet"} =>
          syntax.varying \in BOOLEAN /\ syntax.length \in Sizes
    /\ syntax.kind = "decimal" => {syntax.precision, syntax.scale} \subseteq Sizes
    /\ syntax.kind \in {"binary_integer", "binary_float"} => syntax.precision \in Sizes

TypeError == [kind |-> "error"]
Type(kind) == [kind |-> kind]

(* CHARACTER, BIT and BINARY, and their VARYING forms.                     *)
Sized(syntax, length) ==
    CASE length = Flexible -> IF syntax.varying THEN [kind |-> syntax.kind, varying |-> TRUE, length |-> Unlimited]
                                                ELSE TypeError
      [] length = Absent -> [kind |-> syntax.kind, varying |-> syntax.varying,
                             length |-> IF syntax.varying THEN Unlimited ELSE 1]
      [] length = 0 -> TypeError
      [] OTHER -> [kind |-> syntax.kind, varying |-> syntax.varying, length |-> length]

Requested(size, default) ==
    IF size = Absent THEN default ELSE IF size = Flexible THEN Unlimited ELSE size

(* Mutant of ScaleLimit: the scale may use the full precision.             *)
ScaleLimitAny(precision) == MaxPrecision
ScaleLimit(precision) == IF precision = Unlimited THEN MaxPrecision ELSE precision

DecimalOf(precision, scale) ==
    IF \/ precision # Unlimited /\ precision \notin 1..MaxPrecision
       \/ scale # Unlimited /\ scale > ScaleLimit(precision)
    THEN TypeError
    ELSE [kind |-> "decimal", precision |-> precision, scale |-> scale]

(* The smallest type of those given whose precision suffices.              *)
BinaryNumeric(precision, limits, largest) ==
    LET enough == {type \in DOMAIN limits : precision # 0 /\ precision <= limits[type]}
    IN  IF precision \in {Absent, Flexible} THEN Type(largest)
        ELSE IF enough = {} THEN TypeError
        ELSE Type(CHOOSE type \in enough :
                    \A other \in enough : limits[type] <= limits[other])

SimpleTypes == [unknown |-> "unknown", tiny_integer |-> "int1", small_integer |-> "int2",
                integer |-> "int4", big_integer |-> "int8", float_ |-> "float4", real |-> "float4",
                double_precision |-> "float8", boolean |-> "boolean", date |-> "date",
                binary_large_object |-> "blob", character_large_object |-> "clob"]
DatetimeTypes == [time |-> "time_of_day", timestamp |-> "time_point"]

ColumnType(syntax) ==
    CASE syntax.kind \in {"character", "bit", "octet"} -> Sized(syntax, Parsed(syntax.length))
      [] syntax.kind = "decimal" -> DecimalOf(Requested(Parsed(syntax.precision), DefaultPrecision),
                                              Requested(Parsed(syntax.scale), 0))
      [] syntax.kind = "binary_integer" -> BinaryNumeric(Parsed(syntax.precision), IntegerPrecision, "int8")
      [] syntax.kind = "binary_float" -> BinaryNumeric(Parsed(syntax.precision), FloatPrecision, "float8")
      [] syntax.kind \in DOMAIN SimpleTypes -> Type(SimpleTypes[syntax.kind])
      [] syntax.kind \in DOMAIN DatetimeTypes -> Type(DatetimeTypes[syntax.kind])
      [] OTHER -> TypeError

(***************************************************************************)
(* A type that is accepted has a length unless it varies, a precision and  *)
(* a scale that the options allow, an integer type with as many bits as    *)
(* were asked for; and a size that was too large has become no size.       *)
(***************************************************************************)
TooLarge(size) == size \notin {Absent, Flexible} /\ size > MaxSize
HoldsRequest(syntax, type) ==
    type # TypeError =>
        /\ syntax.kind \in {"character", "bit", "octet"} =>
              /\ ~TooLarge(syntax.length)
              /\ type.length # 0 /\ (type.length = Unlimited => type.varying)
        /\ syntax.kind = "decimal" =>
              /\ ~TooLarge(syntax.precision)
              /\ type.precision # Unlimited => type.precision \in 1..MaxPrecision
              /\ type.scale # Unlimited =>
                    type.scale <= IF type.precision = Unlimited THEN MaxPrecision ELSE type.precision
        /\ syntax.kind = "binary_integer" =>
              /\ ~TooLarge(syntax.precision)
              /\ syntax.precision \notin {Absent, Flexible} /\ syntax.precision < MaxSize =>
                    TwoTo[syntax.precision] - 1 <= Highest(type.kind)

=============================================================================
