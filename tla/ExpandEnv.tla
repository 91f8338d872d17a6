------------------------------ MODULE ExpandEnv ------------------------------
(***************************************************************************)
(* expandEnvStr.c: a string with $VAR, ${VAR}, ${VAR:-word} and            *)
(* ${VAR:+word} in it is copied to a buffer of limited size with the       *)
(* references replaced from the environment.  The input is a sequence of   *)
(* items, one per ordinary character or reference; text is a sequence of   *)
(* characters.                                                             *)
(***************************************************************************)
EXTENDS Integers, Sequences, SequencesExt

CONSTANTS
  Chars,       \* ordinary characters
  Names,       \* names of variables
  LongNames,   \* those of them longer than __ENV_NAME_SIZE
  Values,      \* what a variable may be set to
  Words,       \* the words after ":-" and ":+"
  EnvValueSize,  \* __ENV_VALUE_SIZE
  MaxItems,    \* bound: items of the input
  BufSizes,    \* the sizes of the output buffer
  Unset        \* a variable that is not in the environment

ASSUME ExpandEnvAssumption ==
  /\ LongNames \subseteq Names
  /\ MaxItems \in Nat /\ EnvValueSize \in Nat /\ BufSizes \subseteq Nat
  /\ Unset \notin Values
  /\ \A v \in Values \cup Words : v \in Seq(Range(v))
  /\ \A w \in Words : Len(w) <= EnvValueSize  \* it is in env_name, with the name

(* "open" is a "${" without a "}" after it, so it ends the input. *)
Operators == {"plain", ":-", ":+"}
Items ==
  [kind : {"char"}, char : Chars]
    \cup [kind : {"ref"}, name : Names, op : {"plain"}, word : {<<>>}]
    \cup [kind : {"ref"}, name : Names, op : {":-", ":+"}, word : Words]
    \cup [kind : {"open"}]

VARIABLES
  InBuf,    \* the input
  environ,  \* the environment
  BufSize,  \* the size of OutBuf
  i,        \* items consumed
  OutBuf,   \* the output so far; its length is pos
  ret       \* "running", or the value returned

expandVars == <<InBuf, environ, BufSize, i, OutBuf, ret>>

ExpandInit ==
  /\ InBuf = <<>>
  /\ environ \in [Names -> Values \cup {Unset}]
  /\ BufSize \in BufSizes
  /\ i = 0
  /\ OutBuf = <<>>
  /\ ret = "writing"

(* The caller puts the input together, then calls expandEnvStr. *)
Write ==
  /\ ret = "writing" /\ Len(InBuf) < MaxItems
  /\ InBuf # <<>> => Last(InBuf).kind # "open"
  /\ \E item \in Items : InBuf' = Append(InBuf, item)
  /\ UNCHANGED <<environ, BufSize, i, OutBuf, ret>>

Call ==
  /\ ret = "writing"
  /\ ret' = "running"
  /\ UNCHANGED <<InBuf, environ, BufSize, i, OutBuf>>

-----------------------------------------------------------------------------
Value(name) == IF environ[name] = Unset THEN <<>> ELSE environ[name]

(* strncpy into env_val *)
Copied(value) == SubSeq(value, 1, Min({EnvValueSize, Len(value)}))

(* What a reference stands for.  An unset variable leaves the buffer empty. *)
getEnvVal(ref) == Copied(
  CASE ref.op = ":-" /\ environ[ref.name] = Unset -> ref.word
    [] ref.op = ":+" /\ environ[ref.name] # Unset -> ref.word
    [] ref.op = ":+" /\ environ[ref.name] = Unset -> <<>>
    [] OTHER -> Value(ref.name))

InLoop == ret = "running" /\ i < Len(InBuf) /\ Len(OutBuf) < BufSize

Item == InBuf[i + 1]

CopyChar ==
  /\ InLoop /\ Item.kind = "char"
  /\ OutBuf' = Append(OutBuf, Item.char)
  /\ i' = i + 1
  /\ UNCHANGED <<InBuf, environ, BufSize, ret>>

(* A definition named Bug... is a deliberate mistake that nothing uses: it  *)
(* checks that the property would notice it.  Here: a value is copied       *)
(* whether it fits or not.                                                  *)
BugOverflows(value) == FALSE

(* A value must leave room for one more character. *)
Overflows(value) == Len(OutBuf) + Len(value) >= BufSize

CopyValue ==
  /\ InLoop /\ Item.kind = "ref" /\ Item.name \notin LongNames
  /\ LET value == getEnvVal(Item)
     IN  IF Overflows(value)
         THEN ret' = "0" /\ UNCHANGED <<i, OutBuf>>
         ELSE OutBuf' = OutBuf \o value /\ i' = i + 1 /\ UNCHANGED ret
  /\ UNCHANGED <<InBuf, environ, BufSize>>

NameTooLong ==
  /\ InLoop /\ Item.kind = "ref" /\ Item.name \in LongNames
  /\ ret' = "-1"
  /\ UNCHANGED <<InBuf, environ, BufSize, i, OutBuf>>

BraceOpen ==
  /\ InLoop /\ Item.kind = "open"
  /\ ret' = "0"
  /\ UNCHANGED <<InBuf, environ, BufSize, i, OutBuf>>

LoopEnds ==
  /\ ret = "running" /\ ~InLoop
  /\ ret' = "0"
  /\ UNCHANGED <<InBuf, environ, BufSize, i, OutBuf>>

ExpandNext ==
  \/ Write \/ Call
  \/ CopyChar \/ CopyValue \/ NameTooLong \/ BraceOpen \/ LoopEnds

ExpandSpec == ExpandInit /\ [][ExpandNext]_expandVars

-----------------------------------------------------------------------------
(* The reference: what the comments of getEnvVal say a reference means.      *)

IsEmpty(name) == environ[name] = Unset \/ environ[name] = <<>>

Meaning(ref) ==
  CASE ref.op = "plain" -> Value(ref.name)
    [] ref.op = ":-" -> IF IsEmpty(ref.name) THEN ref.word ELSE environ[ref.name]
    [] ref.op = ":+" -> IF environ[ref.name] = Unset THEN <<>> ELSE ref.word

Piece(item) == IF item.kind = "char" THEN <<item.char>> ELSE Meaning(item)

CutPiece(item) == IF item.kind = "char" THEN <<item.char>> ELSE Copied(Meaning(item))

(* The input without an open brace at its end. *)
Readable == IF InBuf # <<>> /\ Last(InBuf).kind = "open" THEN Front(InBuf) ELSE InBuf

(* The expansion of the whole input, in a buffer without limit. *)
Expansion == FlattenSeq([k \in DOMAIN Readable |-> Piece(Readable[k])])

(* The same with no more than EnvValueSize characters of a value. *)
CutExpansion == FlattenSeq([k \in DOMAIN Readable |-> CutPiece(Readable[k])])

(* No reference with ":-" to a variable that is set to the empty string,    *)
(* where the code departs from that comment: it tests for NULL only.        *)
NoEmptyDefault ==
  \A k \in 1..Len(InBuf) :
    InBuf[k].kind = "ref" /\ InBuf[k].op = ":-" => environ[InBuf[k].name] # <<>>

(* The output never leaves its buffer, and whatever stops the copying (a    *)
(* full buffer, an open brace, a name that is too long), what has been      *)
(* copied is the beginning of the expansion.  A value that is too long is   *)
(* cut, and that is all that can be missing in the middle.                  *)
PrefixOfExpansion ==
  /\ Len(OutBuf) <= BufSize
  /\ NoEmptyDefault => IsPrefix(OutBuf, CutExpansion)

(* An expansion that is shorter than the buffer comes out whole, if no       *)
(* variable of the environment has a value that is too long.                 *)
WholeWhenItFits ==
  /\ ret = "0" /\ NoEmptyDefault /\ Len(Expansion) < BufSize
  /\ \A n \in Names : environ[n] # Unset => Len(environ[n]) <= EnvValueSize
  => OutBuf = Expansion

(* Nothing is invented, and nothing is lost that has room. *)
ExpandsFaithfully == PrefixOfExpansion /\ WholeWhenItFits
=============================================================================
