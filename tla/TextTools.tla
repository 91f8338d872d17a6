------------------------------ MODULE TextTools ------------------------------
(***************************************************************************)
(* strtool.c and tool.c: character classes, case conversion, blanks and    *)
(* check bytes.  A text is a sequence of character codes without its NUL.  *)
(* A code from 128 on is a negative char in the source: it is in no class  *)
(* and has no case, as its unsigned value here.                            *)
(***************************************************************************)
EXTENDS Integers, Sequences, SequencesExt

CONSTANTS
  Characters,  \* the character codes used
  MaxLength,   \* bound: length of a text
  StrSize,     \* the size of the local buffers str and string: 512
  BlockLen     \* the length of a group in XOR: 8

Blank == 32
Chr0  == 48  \* '0'
ChrA  == 65  \* 'A'
Chra  == 97  \* 'a'

(* 172 is left out: asc_to_bcd takes its value, 0x55, for "no digit yet".   *)
ASSUME TextToolsAssumption ==
  /\ Characters \subseteq 0..255 \ {0, 172}
  /\ MaxLength \in Nat /\ StrSize \in Nat \ {0} /\ BlockLen \in Nat \ {0}

Digits == Chr0..(Chr0 + 9)
Uppers == ChrA..(ChrA + 25)
Lowers == Chra..(Chra + 25)

AllIn(s, class) == Range(s) \subseteq class

isDigit(s) == AllIn(s, Digits)
isHex(s)   == AllIn(s, Digits \cup ChrA..(ChrA + 5) \cup Chra..(Chra + 5))
isAlpha(s) == AllIn(s, Uppers \cup Lowers)
isAlnum(s) == AllIn(s, Digits \cup Uppers \cup Lowers)
isAscii(s) == AllIn(s, 0..127)
isPrint(s) == AllIn(s, 32..126)

str2upper(s) == [k \in DOMAIN s |-> s[k] - IF s[k] \in Lowers THEN Chra - ChrA ELSE 0]
str2lower(s) == [k \in DOMAIN s |-> s[k] + IF s[k] \in Uppers THEN Chra - ChrA ELSE 0]

NonBlanks(s) == {k \in DOMAIN s : s[k] # Blank}

(* Definitions named Bug... are deliberate mistakes that nothing uses: they *)
(* check that the properties would notice them.  Here: strncpy with the     *)
(* whole size, which leaves no room for the NUL.                            *)
BugCut(s) == SubSeq(s, 1, Min({StrSize, Len(s)}))

(* What strncpy leaves of a text in a local buffer. *)
Cut(s) == SubSeq(s, 1, Min({StrSize - 1, Len(s)}))

deleRhtSpace(s) == SubSeq(s, 1, Max({0} \cup NonBlanks(s)))

deleLftSpace(s) == Cut(SubSeq(s, Min({Len(s) + 1} \cup NonBlanks(s)), Len(s)))

(* kept[k] is what ptr has copied of the first k characters. *)
WithoutBlanks(s) ==
  LET kept[k \in 0..Len(s)] ==
        IF k = 0 THEN <<>>
        ELSE IF s[k] = Blank THEN kept[k - 1] ELSE Append(kept[k - 1], s[k])
  IN  kept[Len(s)]

deleAllSpace(s) == WithoutBlanks(Cut(s))

(* Bytes and the sets of their bits; a bit is named by its value. *)
BitValues == {1, 2, 4, 8, 16, 32, 64, 128}

BitsOf(b) == {v \in BitValues : (b \div v) % 2 = 1}

ByteOf(bits) ==
  LET bit(v) == IF v \in bits THEN v ELSE 0
  IN  bit(1) + bit(2) + bit(4) + bit(8) + bit(16) + bit(32) + bit(64) + bit(128)

BitOr(a, b) == ByteOf(BitsOf(a) \cup BitsOf(b))

BitXor(a, b) == ByteOf((BitsOf(a) \ BitsOf(b)) \cup (BitsOf(b) \ BitsOf(a)))

(* c[k] is the check byte after k bytes. *)
lrcBuf(s) ==
  LET c[k \in 0..Len(s)] == IF k = 0 THEN 0 ELSE BitXor(c[k - 1], s[k])
  IN  c[Len(s)]

(* Mistake: a last group that is not full is left out. *)
BugXOR(s) ==
  [j \in 1..BlockLen |->
     lrcBuf([i \in 1..(Len(s) \div BlockLen) |-> s[(i - 1) * BlockLen + j]])]

(* Groups of BlockLen bytes, the last one padded with zeros. *)
XOR(s) ==
  LET Byte(k) == IF k > Len(s) THEN 0 ELSE s[k]
      groups  == (Len(s) + BlockLen - 1) \div BlockLen
  IN  [j \in 1..BlockLen |->
         lrcBuf([i \in 1..groups |-> Byte((i - 1) * BlockLen + j)])]

-----------------------------------------------------------------------------
VARIABLE text  \* the text the functions are called with

TextInit == text = <<>>

Extend ==
  /\ Len(text) < MaxLength
  /\ \E c \in Characters : text' = Append(text, c)

TextSpec == TextInit /\ [][Extend]_text

(* A conversion of the case changes letters of the other case and nothing     *)
(* else, whatever stands beside them (blanks, marks, bytes beyond the ASCII    *)
(* codes), leaves none of them, keeps the length and every class the checks    *)
(* tell apart, and undoes the opposite conversion.                             *)
CaseKeepsTheRest ==
  LET upper == str2upper(text)
      lower == str2lower(text)
      classes(s) == <<isDigit(s), isHex(s), isAlpha(s), isAlnum(s), isAscii(s), isPrint(s)>>
  IN  /\ Len(upper) = Len(text) /\ Len(lower) = Len(text)
      /\ \A k \in DOMAIN text :
           /\ text[k] \notin Lowers => upper[k] = text[k]
           /\ text[k] \notin Uppers => lower[k] = text[k]
           /\ upper[k] \notin Lowers /\ lower[k] \notin Uppers
      /\ classes(upper) = classes(text) /\ classes(lower) = classes(text)
      /\ str2upper(lower) = upper /\ str2lower(upper) = lower

(* t is s without the blanks behind its last other character. *)
TrimmedRight(s, t) ==
  /\ IsPrefix(t, s)
  /\ \A k \in DOMAIN s : k > Len(t) => s[k] = Blank
  /\ t # <<>> => Last(t) # Blank

(* t is s without the n blanks before its first other character, or as much   *)
(* of that as a local buffer holds beside its NUL.                            *)
TrimmedLeft(s, t) ==
  \E n \in 0..Len(s) :
    /\ \A k \in 1..n : s[k] = Blank
    /\ IsPrefix(t, SubSeq(s, n + 1, Len(s)))
    /\ t # <<>> => Head(t) # Blank
    /\ Len(t) < StrSize
    /\ t = SubSeq(s, n + 1, Len(s)) \/ Len(t) = StrSize - 1

(* Trimming right and left takes blanks off the ends and leaves the rest as   *)
(* it is, also of a text of blanks only; deleAllSpace leaves no blank.  On a   *)
(* text that fits into the local buffers the two trims commute and take no     *)
(* blank that deleAllSpace would not; a longer text loses its end in           *)
(* deleLftSpace and deleAllSpace, behind the last character that fits, and     *)
(* nothing else.                                                               *)
TrimsAgree ==
  LET both == deleLftSpace(deleRhtSpace(text))
      all  == deleAllSpace(text)
  IN  /\ TrimmedRight(text, deleRhtSpace(text))
      /\ TrimmedLeft(text, deleLftSpace(text))
      /\ Blank \notin Range(all)
      /\ Len(text) < StrSize =>
           /\ all = WithoutBlanks(text)
           /\ both = deleRhtSpace(deleLftSpace(text)) /\ deleAllSpace(both) = all
      /\ Len(text) >= StrSize =>
           /\ all = WithoutBlanks(SubSeq(text, 1, StrSize - 1))
           /\ IsPrefix(all, WithoutBlanks(text))

(* The functions that take a text and give a text change no other character   *)
(* than they are for.                                                         *)
TextToolsAgree == CaseKeepsTheRest /\ TrimsAgree

(* Folding a text into one group and taking the check byte of that gives the *)
(* check byte of the text, whatever the length of its last group.            *)
ChecksAgree == lrcBuf(XOR(text)) = lrcBuf(text)
=============================================================================
