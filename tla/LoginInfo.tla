------------------------------ MODULE LoginInfo ------------------------------
(***************************************************************************)
(* getLoginInfo.c: looks a login (database, user, password) up in a file   *)
(* of settings, by the letter of an option, and writes it to three buffers *)
(* of the caller.  A line is what fgets returns: at most 79 characters.    *)
(***************************************************************************)
EXTENDS Integers, Sequences, SequencesExt

CONSTANTS
  Options,   \* the letters
  MaxLines,  \* bound: lines of the file
  MaxLogins  \* bound: calls

ASSUME LoginAssumption == MaxLines \in Nat /\ MaxLogins \in Nat

(* comment: '#', a blank or the end of the line comes first; words: how many *)
(* of the three the line gives, in either of the two formats.                *)
Lines == [comment : BOOLEAN, option : Options, words : 0..3]

VARIABLES
  file,    \* the lines of dblogin.ini
  login,   \* the caller's buffers: the call and the line that each word is from
  logins,  \* calls so far
  option,  \* Option of the last call
  answer   \* what it returned: 0, or -1 for any failure

loginVars == <<file, login, logins, option, answer>>

NoWord == [call |-> 0, line |-> 0]

LoginInit ==
  /\ file = <<>>
  /\ login = <<NoWord, NoWord, NoWord>>
  /\ logins = 0 /\ option = (CHOOSE o \in Options : TRUE) /\ answer = -1

AddLine ==
  /\ logins = 0 /\ Len(file) < MaxLines
  /\ \E line \in Lines : file' = Append(file, line)
  /\ UNCHANGED <<login, logins, option, answer>>

IsEntry(line, Option) == ~line.comment /\ line.option = Option

(* The first entry for an option, or 0. *)
Found(Option) == SelectInSeq(file, LAMBDA line : IsEntry(line, Option))

(* A deliberate mistake that nothing uses, to check that the property would *)
(* notice it: found_flag is not set and every entry for the option is read. *)
BugLineOf(Option, j) ==
  SelectLastInSeq(file, LAMBDA line : IsEntry(line, Option) /\ j <= line.words)

(* The line that sscanf takes word j from, or 0: it writes the words it finds *)
(* and leaves the other buffers alone.                                        *)
LineOf(Option, j) ==
  IF Found(Option) # 0 /\ j <= file[Found(Option)].words THEN Found(Option) ELSE 0

(* The call returns 0 whenever an entry was found, however many words it has. *)
getLoginInfo ==
  /\ logins < MaxLogins /\ logins' = logins + 1
  /\ \E Option \in Options :
       /\ option' = Option
       /\ answer' = IF Found(Option) = 0 THEN -1 ELSE 0
       /\ login' = [j \in 1..3 |->
            IF LineOf(Option, j) # 0
            THEN [call |-> logins', line |-> LineOf(Option, j)] ELSE login[j]]
  /\ UNCHANGED file

LoginNext == AddLine \/ getLoginInfo

LoginSpec == LoginInit /\ [][LoginNext]_loginVars

Entries(lines, Option) ==
  {k \in DOMAIN lines : ~lines[k].comment /\ lines[k].option = Option}

FirstEntry(lines, k, Option) ==
  k \in Entries(lines, Option) /\ \A i \in Entries(lines, Option) : k <= i

(* Where the words in the caller's buffers come from after any calls for any  *)
(* options: each from an entry that has it, the first one for its option and  *)
(* not commented out; a word is older than one before it exactly when the     *)
(* entry that gave the earlier word is too short to have it, and words of one *)
(* call are of one line.  So a call that returned 0 gives the login of one    *)
(* entry exactly when that entry is complete, and else its words with those   *)
(* of older calls behind them; one that failed found no entry and wrote       *)
(* nothing.                                                                   *)
MixedOnlyWhenShort ==
  /\ \A j \in 1..3 : login[j] # NoWord =>
       /\ FirstEntry(file, login[j].line, file[login[j].line].option)
       /\ j <= file[login[j].line].words
       /\ login[j].call \in 1..logins
  /\ \A i, j \in 1..3 : i < j =>
       /\ login[j].call <= login[i].call
       /\ login[j].call = login[i].call => login[j].line = login[i].line
       /\ login[j].call < login[i].call => file[login[i].line].words < j
  /\ logins > 0 /\ answer = 0 =>
       \E k \in DOMAIN file :
         /\ FirstEntry(file, k, option)
         /\ \A j \in 1..3 : login[j] = [call |-> logins, line |-> k] <=> j <= file[k].words
  /\ logins > 0 /\ answer = -1 =>
       Entries(file, option) = {} /\ \A j \in 1..3 : login[j].call < logins
=============================================================================
