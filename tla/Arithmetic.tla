----------------------------- MODULE Arithmetic ------------------------------
(* The integers of the datapath: the wrapping add of the accumulators        *)
(* (src/src/mxu/systolic_array.cpp), the rounding and saturation of          *)
(* activate() and average() (src/src/units/activation.cpp), and the bytes a  *)
(* value is sent to the page in. Sigmoid and tanh go through doubles and are *)
(* not here.                                                                 *)
EXTENDS Integers

CONSTANTS
  ByteHalf,  \* an int8 is in -ByteHalf .. ByteHalf - 1
  IntHalf,   \* an int32 is in -IntHalf .. IntHalf - 1
  Shifts,    \* what the shift operand can be
  Scale      \* shift -> 2^shift

Byte == 2 * ByteHalf

ArithmeticAssumption ==
  /\ ByteHalf \in Nat \ {0} /\ IntHalf \in Nat \ {0}
  /\ 2 * IntHalf = Byte * Byte * Byte * Byte
  /\ Shifts \subseteq Nat
  /\ Scale \in [Shifts -> Nat \ {0}]
  /\ \A s \in Shifts :
       IF s = 0 THEN Scale[s] = 1
                ELSE s - 1 \in Shifts /\ Scale[s] = 2 * Scale[s - 1]
ASSUME ArithmeticAssumption

Int8  == -ByteHalf .. ByteHalf - 1
Int32 == -IntHalf .. IntHalf - 1

-----------------------------------------------------------------------------
(* static_cast between the signed and the unsigned type of 32 bits.          *)
AsUnsigned(x) == x % (2 * IntHalf)
AsSigned(u)   == IF u < IntHalf THEN u ELSE u - 2 * IntHalf

(* Mutant: an add that stops at the largest value instead of wrapping.       *)
SaturatingAdd(a, b) ==
  IF a + b >= IntHalf THEN IntHalf - 1
  ELSE IF a + b < -IntHalf THEN -IntHalf ELSE a + b

WrappingAdd(a, b) ==
  AsSigned((AsUnsigned(a) + AsUnsigned(b)) % (2 * IntHalf))

(* Mutant: nothing is done about values that are too small.                  *)
SaturateAbove(x) == IF x > ByteHalf - 1 THEN ByteHalf - 1 ELSE x

Saturate(x) ==
  IF x > ByteHalf - 1 THEN ByteHalf - 1
  ELSE IF x < -ByteHalf THEN -ByteHalf ELSE x

(* Mutant: the negation in 32 bits, which leaves the most negative value.    *)
ShiftAndRoundIn32(value, shift) ==
  IF shift = 0 THEN value
  ELSE LET half == Scale[shift - 1]
       IN  IF value >= 0 THEN (value + half) \div Scale[shift]
           ELSE -((AsSigned(AsUnsigned(-value)) + half) \div Scale[shift])

ShiftAndRound(value, shift) ==
  IF shift = 0 THEN value
  ELSE LET half == Scale[shift - 1]
       IN  IF value >= 0 THEN (value + half) \div Scale[shift]
           ELSE -((-value + half) \div Scale[shift])

ActivatedValue(value, shift, function) ==
  LET out == Saturate(ShiftAndRound(value, shift))
  IN  IF function = "relu" /\ out < 0 THEN 0 ELSE out

(* Mutant: halves go up for negative sums as well.                           *)
AverageUp(sum, count) == Saturate((sum + count \div 2) \div count)

Average(sum, count) ==
  LET half == count \div 2
  IN  Saturate(IF sum >= 0 THEN (sum + half) \div count
                           ELSE -((-sum + half) \div count))

-----------------------------------------------------------------------------
(* append_i32() and the page's getInt32(.., true).                           *)

AppendI32(value) ==
  LET bits == AsUnsigned(value)
  IN  <<bits % Byte, (bits \div Byte) % Byte,
        (bits \div (Byte * Byte)) % Byte,
        (bits \div (Byte * Byte * Byte)) % Byte>>

GetInt32(b) == AsSigned(b[1] + Byte * (b[2] + Byte * (b[3] + Byte * b[4])))

-----------------------------------------------------------------------------
(* The reference (src/src/ref/ref_ops.cpp): llround of an exact quotient is  *)
(* the nearest integer, and of two the one away from zero.                   *)

Magnitude(x) == IF x < 0 THEN -x ELSE x

IsNearest(q, x, d) ==
  LET off == 2 * Magnitude(q * d - x)
  IN  off < d \/ (off = d /\ Magnitude(q * d) > Magnitude(x))
=============================================================================
