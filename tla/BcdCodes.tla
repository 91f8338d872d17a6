------------------------------ MODULE BcdCodes ------------------------------
(***************************************************************************)
(* tool.c: two generations of converters between hexadecimal text and      *)
(* packed bytes: ascToBcd, ascToBcdLeft and bcdToAsc, which pad a string   *)
(* of odd length on the left or the right, and asc_to_bcd and bcd_to_asc,   *)
(* which take the side as a parameter.  Characters are their ASCII codes.  *)
(***************************************************************************)
EXTENDS TextTools

Odd(n) == n % 2 = 1

(* One character in toBcd. *)
ValueOf(c) ==
  CASE c \in Chr0..(Chr0 + 9) -> c - Chr0
    [] c \in Chra..(Chra + 5) -> c - Chra + 10
    [] c \in ChrA..(ChrA + 5) -> c - ChrA + 10
    [] OTHER -> c

(* toBcd, stored in an unsigned char. *)
toBcd(c1, c2) == (ValueOf(c1) * 16 + ValueOf(c2)) % 256

Packed(s) == [i \in 1..(Len(s) \div 2) |-> toBcd(s[2*i - 1], s[2*i])]

ascToBcd(s) == Packed(IF Odd(Len(s)) THEN <<Chr0>> \o s ELSE s)

ascToBcdLeft(s) == Packed(IF Odd(Len(s)) THEN s \o <<Chr0>> ELSE s)

HexOf(n) == IF n > 9 THEN n + ChrA - 10 ELSE n + Chr0

(* The nibble at position k, from 0, of a string of bytes. *)
Nibble(bytes, k) ==
  LET b == bytes[k \div 2 + 1] IN IF Odd(k) THEN b % 16 ELSE b \div 16

(* The text of n characters: for an odd n a '0' in front is taken for       *)
(* padding.                                                                 *)
bcdToAsc(bytes, n) ==
  LET start == IF Odd(n) /\ HexOf(Nibble(bytes, 0)) = Chr0 THEN 1 ELSE 0
  IN  [i \in 1..n |-> HexOf(Nibble(bytes, start + i - 1))]

(* One character in asc_to_bcd. *)
AscValue(c) ==
  IF c >= Chra THEN c - Chra + 10
  ELSE IF c >= ChrA THEN c - ChrA + 10
  ELSE IF c >= Chr0 THEN c - Chr0 ELSE 0

(* Mistake: the half byte is on the right whatever type says. *)
BugHalves(s, type) ==
  LET values == [i \in 1..Len(s) |-> AscValue(s[i])]
  IN  IF Odd(Len(s)) THEN values \o <<0>> ELSE values

(* The values with the half byte that makes an odd number of them even. *)
Halves(s, type) ==
  LET values == [i \in 1..Len(s) |-> AscValue(s[i])]
  IN  IF ~Odd(Len(s)) THEN values
      ELSE IF type THEN <<0>> \o values ELSE values \o <<0>>

(* ( ch1 << 4 ) | ch, in a byte *)
asc_to_bcd(s, type) ==
  LET h == Halves(s, type)
  IN  [i \in 1..(Len(h) \div 2) |-> BitOr((h[2*i - 1] * 16) % 256, h[2*i] % 256)]

bcd_to_asc(bytes, n, type) ==
  LET start == IF Odd(n) /\ type THEN 1 ELSE 0
  IN  [i \in 1..n |-> HexOf(Nibble(bytes, start + i - 1))]

-----------------------------------------------------------------------------
(* The two generations of converters produce the same bytes from every text  *)
(* that isHex lets through, and each gives it back, in capitals, for every   *)
(* length and both sides of the padding; but bcdToAsc guesses the side from  *)
(* the first digit, so a text of odd length that begins with '0' and was      *)
(* padded behind is beyond it.                                               *)
RoundTrip ==
  isHex(text) =>
    /\ asc_to_bcd(text, TRUE) = ascToBcd(text)
    /\ asc_to_bcd(text, FALSE) = ascToBcdLeft(text)
    /\ \A type \in BOOLEAN :
         LET bytes == asc_to_bcd(text, type)
         IN  /\ bcd_to_asc(bytes, Len(text), type) = str2upper(text)
             /\ type \/ ~Odd(Len(text)) \/ text[1] # Chr0 =>
                  bcdToAsc(bytes, Len(text)) = str2upper(text)
=============================================================================
