----------------------------- MODULE MCFunctions -----------------------------
(***************************************************************************)
(* The functions that keep no state between calls (testpacket, the date    *)
(* checks, the text tools and BCD converters, expandEnvStr, getLoginInfo), *)
(* each over all inputs of a small instance.  A behaviour exercises one.   *)
(***************************************************************************)
EXTENDS PacketReader, DateTexts, BcdCodes, ExpandEnv, LoginInfo

VARIABLE subject  \* the function this behaviour exercises

FunctionsInit ==
  /\ subject \in {"testpacket", "isDate", "text", "expandEnvStr", "getLoginInfo"}
  /\ ReaderInit /\ (subject = "testpacket" \/ len = 0)
  /\ CalendarInit /\ (subject = "isDate" \/ year = FirstYear)
  /\ TextInit
  /\ ExpandInit
  /\ subject = "expandEnvStr" \/ (BufSize = 0 /\ \A n \in Names : environ[n] = Unset)
  /\ LoginInit

functionVars == <<readerVars, calendarVars, text, expandVars, loginVars, subject>>

FunctionsNext ==
  /\ \/ /\ subject = "testpacket" /\ ReaderNext
        /\ UNCHANGED <<calendarVars, text, expandVars, loginVars>>
     \/ /\ subject = "isDate" /\ CalendarNext
        /\ UNCHANGED <<readerVars, text, expandVars, loginVars>>
     \/ /\ subject = "text" /\ Extend
        /\ UNCHANGED <<readerVars, calendarVars, expandVars, loginVars>>
     \/ /\ subject = "expandEnvStr" /\ ExpandNext
        /\ UNCHANGED <<readerVars, calendarVars, text, loginVars>>
     \/ /\ subject = "getLoginInfo" /\ LoginNext
        /\ UNCHANGED <<readerVars, calendarVars, text, expandVars>>
  /\ UNCHANGED subject

FunctionsSpec == FunctionsInit /\ [][FunctionsNext]_functionVars

(* DateFormatsAgree, which takes long to evaluate, in the states it is about. *)
TextsAgreeOnDates == subject = "isDate" => DateFormatsAgree

(* Lengths with both header bytes below 128. *)
AsciiLengths == {0, 1, 2, 126, 127, 256, 383}

(* The ends of the ranges of hexadecimal characters and a digit between, a  *)
(* blank, letters beyond 'f' and 'F', and a byte of GBK text.               *)
SomeCharacters == {48, 53, 57, 65, 70, 97, 102, 32, 71, 122, 228}

MCChars     == {"a"}
MCNames     == {"VAR", "LONG"}
MCLongNames == {"LONG"}
MCValues    == {<<>>, <<"v">>, <<"v", "w">>, <<"v", "w", "v">>}
MCWords     == {<<"x">>}
MCSizes     == 0..4

TwoOptions == {"D", "F"}
=============================================================================
