----------------------------- MODULE JsonNumber ------------------------------
(***************************************************************************)
(* The integers of json-c (json-c/json_object.c): a number is kept as an      *)
(* int64_t or as a uint64_t, incremented in place, read as an int32_t, an     *)
(* int64_t or a uint64_t, and compared across both.  The arithmetic is that   *)
(* of two's complement with widths that are parameters.                       *)
(***************************************************************************)
EXTENDS Integers

CONSTANTS
    LongMax,    \* INT64_MAX
    Int32Max    \* INT32_MAX

ASSUME WidthAssumption == LongMax \in Nat \ {0} /\ Int32Max \in 1 .. LongMax

VARIABLES
    number,   \* [type, v], as it is kept
    value     \* the integer the caller has asked for, as far as it can be kept

numberVars == <<number, value>>

LongMin == -LongMax - 1
Int32Min == -Int32Max - 1
UMax == 2 * LongMax + 1
Modulus == UMax + 1

Signed == LongMin .. LongMax
Unsigned == 0 .. UMax
Number(type, v) == [type |-> type, v |-> v]
Numbers == {Number("int64", v) : v \in Signed} \cup {Number("uint64", v) : v \in Unsigned}

\* Casts.
AsUnsigned(x) == IF x < 0 THEN x + Modulus ELSE IF x > UMax THEN x - Modulus ELSE x
AsSigned(x) == IF x > LongMax THEN x - Modulus ELSE IF x < LongMin THEN x + Modulus ELSE x

Clamp(x, low, high) == IF x < low THEN low ELSE IF x > high THEN high ELSE x

\* The number a text of digits becomes: strtoll and strtoull stop at the ends
\* of their ranges, and an int64_t is preferred.
FromText(x) ==
    IF x < 0 THEN Number("int64", Clamp(x, LongMin, LongMax))
    ELSE LET u == Clamp(x, 0, UMax) IN Number(IF u <= LongMax THEN "int64" ELSE "uint64", u)

\* Mutant of Inc: the room above is that of the signed type.
Inc_noUnsigned(n, val) ==
    IF n.type = "int64"
      THEN IF val > 0 /\ n.v > LongMax - val THEN Number("int64", LongMax)
           ELSE IF val < 0 /\ n.v < LongMin - val THEN Number("int64", LongMin)
           ELSE Number("int64", n.v + val)
      ELSE IF val > 0 /\ n.v > UMax - AsUnsigned(val) THEN Number("uint64", UMax)
           ELSE Number("uint64", AsUnsigned(n.v + val))

\* json_object_int_inc.  -val of the least int64_t is itself, which the cast
\* makes the right magnitude.
Inc(n, val) ==
    LET magnitude == AsUnsigned(AsSigned(-val))
    IN  IF n.type = "int64"
          THEN IF val > 0 /\ n.v > LongMax - val THEN Number("uint64", AsUnsigned(AsUnsigned(n.v) + AsUnsigned(val)))
               ELSE IF val < 0 /\ n.v < LongMin - val THEN Number("int64", LongMin)
               ELSE Number("int64", n.v + val)
          ELSE IF val > 0 /\ n.v > UMax - AsUnsigned(val) THEN Number("uint64", UMax)
               ELSE IF val < 0 /\ n.v < magnitude THEN Number("int64", AsSigned(n.v) + val)
               ELSE IF val < 0 THEN Number("uint64", n.v - magnitude)
               ELSE Number("uint64", n.v + val)

\* json_object_get_int64, json_object_get_int, json_object_get_uint64
GetInt64(n) ==
    IF n.type = "int64" THEN n.v ELSE IF n.v >= LongMax THEN LongMax ELSE AsSigned(n.v)
GetInt(n) ==
    LET v == GetInt64(n) IN IF v <= Int32Min THEN Int32Min ELSE IF v >= Int32Max THEN Int32Max ELSE v
GetUint64(n) ==
    IF n.type = "uint64" THEN n.v ELSE IF n.v < 0 THEN 0 ELSE AsUnsigned(n.v)

\* Mutant of Equal: a negative number is cast like any other.
Equal_cast(a, b) ==
    IF a.type = b.type THEN a.v = b.v ELSE AsUnsigned(a.v) = AsUnsigned(b.v)

\* json_object_equal of two integers
Equal(a, b) ==
    IF a.type = b.type THEN a.v = b.v
    ELSE IF a.type = "int64" THEN a.v >= 0 /\ AsUnsigned(a.v) = b.v
    ELSE b.v >= 0 /\ a.v = AsUnsigned(b.v)

NumberInit == \E n \in Numbers : number = n /\ value = n.v

\* json_object_set_int64, json_object_set_uint64, json_object_int_inc, and a
\* number that is parsed, from a text of which TextMax bounds the magnitude.
TextMax == 2 * Modulus
Set == \E n \in Numbers : number' = n /\ value' = n.v
Parse == \E x \in -TextMax .. TextMax : number' = FromText(x) /\ value' = Clamp(x, LongMin, UMax)
Increment == \E val \in Signed : number' = Inc(number, val) /\ value' = Clamp(value + val, LongMin, UMax)

NumberNext == Set \/ Parse \/ Increment

NumberSpec == NumberInit /\ [][NumberNext]_numberVars

-----------------------------------------------------------------------------
(***************************************************************************)
(* Properties                                                               *)
(***************************************************************************)

\* Type invariant: a number is in the range of its type, however often it was
\* incremented across the two.
NumberTypeOK == number \in Numbers /\ value \in LongMin .. UMax

\* Increments add up: a number holds the integer that was set or parsed and
\* incremented since, or the end of all that can be kept which it ran into,
\* though the code switches between two types on the way.
HoldsTheSum == number.v = value

\* A number is read as the integer it stands for, or as what is nearest to that
\* of the type that is asked for, whichever type it is kept in.
GetsSaturate ==
    /\ GetInt64(number) = Clamp(value, LongMin, LongMax)
    /\ GetInt(number) = Clamp(value, Int32Min, Int32Max)
    /\ GetUint64(number) = Clamp(value, 0, UMax)

\* Numbers are equal when they are the same integer, whatever their types.
EqualIsSameInteger == \A n \in Numbers : Equal(number, n) = (value = n.v)

=============================================================================
