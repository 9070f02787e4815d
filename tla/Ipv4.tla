------------------------------- MODULE Ipv4 -------------------------------
(***************************************************************************)
(* FaultyDevice::ipv4_to_u32 and u32_to_ipv4 of faultyDevice.cpp.  A text   *)
(* is the sequence of its parts between dots, a part a sequence of          *)
(* characters: 0..9 for the digits, 10 for any character that is neither a  *)
(* digit nor a dot.  The empty text has one part, an empty one.             *)
(***************************************************************************)
EXTENDS Integers, SequencesExt

CONSTANT ULongMax            \* largest unsigned long (2^64 - 1 in the program)

ASSUME ULongAssumption == ULongMax \in Nat /\ ULongMax > 255

Octet == 0..255

IsNumber(part) == part # << >> /\ \A i \in DOMAIN part : part[i] \in 0..9

(* std::stoul.                                                              *)
Value(part) ==
    LET value[i \in 0..Len(part)] ==
            IF i = 0 THEN 0 ELSE 10 * value[i - 1] + part[i]
    IN  value[Len(part)]

(* The exception parse_octet throws.  What stoul cannot hold is no number   *)
(* at all, what it can hold may be out of range.                            *)
parse_octet_error(part) ==
    IF Value(part) > ULongMax THEN "invalid_argument"
    ELSE IF Value(part) > 255 THEN "out_of_range"
    ELSE "none"

(* The exception ipv4_to_u32 throws: the form of the text is looked at      *)
(* first, then its octets from the left.                                    *)
ipv4_error(text) ==
    IF Len(text) # 4 \/ \E i \in DOMAIN text : ~IsNumber(text[i])
    THEN "invalid_argument"
    ELSE LET firstBad == SelectInSeq(text, LAMBDA p : parse_octet_error(p) # "none")
         IN IF firstBad = 0 THEN "none" ELSE parse_octet_error(text[firstBad])

Compose(a, b, c, d) == ((a * 256 + b) * 256 + c) * 256 + d

(* A bug: two shifts exchanged.                                             *)
ipv4_to_u32_exchanged(text) ==
    Compose(Value(text[1]), Value(text[3]), Value(text[2]), Value(text[4]))

ipv4_to_u32(text) ==
    Compose(Value(text[1]), Value(text[2]), Value(text[3]), Value(text[4]))

(* The octets of a 32-bit value, the first being the most significant one.  *)
OctetOf(v, i) ==
    CASE i = 1 -> (v \div (256 * 256 * 256)) % 256
      [] i = 2 -> (v \div (256 * 256)) % 256
      [] i = 3 -> (v \div 256) % 256
      [] i = 4 -> v % 256

(* operator<< writes no leading zero.                                       *)
Numeral(n) ==
    IF n < 10 THEN <<n>>
    ELSE IF n < 100 THEN <<n \div 10, n % 10>>
    ELSE <<n \div 100, (n \div 10) % 10, n % 10>>

u32_to_ipv4(v) == [i \in 1..4 |-> Numeral(OctetOf(v, i))]
=============================================================================
