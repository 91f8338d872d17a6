---------------------------- MODULE LogFileProofs ----------------------------
(***************************************************************************)
(* Proofs about LogFile, for every number of threads, days, calls and      *)
(* moves of others, and every set of failing calls.                        *)
(***************************************************************************)
EXTENDS LogFile, TLAPS

LEMMA DayNumbers ==
  /\ MaxDay \in Nat /\ MaxDay >= 1 /\ MaxCalls \in Nat /\ MaxMoves \in Nat
  /\ None \notin Nat /\ Starter \in Threads /\ Days \subseteq Nat /\ 1 \in Days
BY LogFileAssumption DEF Days

(* fopen: the file of the name, or a new one; there is no third. *)
LEMMA FopenShape ==
  ASSUME TypeOK, OpenedByName, NEW t \in Threads, Fopen(t)
  PROVE  /\ pc[t] = "fopen" /\ place /\ exp[t] \in Days /\ t \in Switching /\ t \in Opening
         /\ pc' = [pc EXCEPT ![t] = "dup2"]
         /\ logfp' = [logfp EXCEPT ![t] = dir'[exp[t]]]
         /\ dir'[exp[t]] \in 1..files'
         /\ \A n \in Days \ {exp[t]} : dir'[n] = dir[n]
         /\ \/ UNCHANGED <<dir, files, disturbed>>
            \/ /\ dir' = [dir EXCEPT ![exp[t]] = files + 1] /\ files' = files + 1
               /\ DisturbOthers(t)
         /\ UNCHANGED <<day, place, stderr, now, ready, exp, linked, ret, torn, calls, moves>>
<1>1. pc[t] = "fopen" /\ exp[t] \in Days /\ t \in Switching /\ t \in Opening
  BY DEF Fopen, OpenedByName, Switching, Opening
<1>2. CASE dir[exp[t]] # None
  BY <1>1, <1>2 DEF Fopen, TypeOK, Goto
<1>3. CASE dir[exp[t]] = None
  <2>1. /\ logfp' = [logfp EXCEPT ![t] = files + 1]
        /\ dir' = [dir EXCEPT ![exp[t]] = files + 1] /\ files' = files + 1 /\ DisturbOthers(t)
    BY <1>3 DEF Fopen
  <2>2. dir'[exp[t]] = files + 1 /\ files + 1 \in 1..(files + 1)
    BY <1>1, <2>1 DEF TypeOK
  <2>3. \A n \in Days \ {exp[t]} : dir'[n] = dir[n]
    BY <2>1 DEF TypeOK
  <2> QED
    BY <1>1, <2>1, <2>2, <2>3 DEF Fopen, Goto
<1> QED
  BY <1>2, <1>3

LEMMA FopenTypes ==
  ASSUME TypeOK, OpenedByName, NEW t \in Threads, Fopen(t)
  PROVE  TypeOK'
<1>1. exp[t] \in Days /\ files \in Nat /\ stderr \in 0..files /\ dir'[exp[t]] \in 1..files'
  BY FopenShape DEF TypeOK
<1>2. files' \in Nat /\ files <= files'
  BY <1>1, FopenShape
<1>3. 1..files \subseteq 1..files' /\ stderr' \in 0..files'
  BY <1>1, <1>2, FopenShape
<1>4. dir' \in [Days -> 1..files' \cup {None}]
  BY <1>1, <1>3, FopenShape DEF TypeOK
<1>5. logfp' \in [Threads -> 1..files' \cup {None}]
  BY <1>1, <1>3, FopenShape DEF TypeOK
<1>6. disturbed' \in [Threads -> BOOLEAN]
  BY FopenShape DEF DisturbOthers, TypeOK
<1>7. pc' \in [Threads -> Pcs]
  BY FopenShape DEF Pcs, TypeOK
<1>8. UNCHANGED <<day, place, now, ready, exp, linked, ret, torn, calls, moves>>
  BY FopenShape
<1> QED
  BY <1>2, <1>3, <1>4, <1>5, <1>6, <1>7, <1>8 DEF TypeOK

LEMMA TypeOKNext == LogInv /\ [Next]_vars => TypeOK'
<1> SUFFICES ASSUME LogInv, [Next]_vars PROVE TypeOK'
  OBVIOUS
<1>a. TypeOK /\ OpenedByName
  BY DEF LogInv
<1> USE <1>a, DayNumbers DEF TypeOK, Pcs, Days, worldVars, threadVars,
         historyVars
<1>1. ASSUME Midnight PROVE TypeOK'
  BY <1>1 DEF Midnight, Move
<1>2. ASSUME Delete PROVE TypeOK'
  BY <1>2 DEF Delete, Move
<1>3. ASSUME DeletePlace PROVE TypeOK'
  <2>1. dir' \in [Days -> 1..files \cup {None}]
    BY <1>3 DEF DeletePlace
  <2>2. /\ disturbed' \in [Threads -> BOOLEAN] /\ moves' \in 0..MaxMoves /\ place' = FALSE
        /\ UNCHANGED <<day, files, stderr, now, ready, pc, threadVars, torn, calls>>
    BY <1>3 DEF DeletePlace, Move
  <2> QED
    BY <2>1, <2>2
<1>4. ASSUME OtherCreates PROVE TypeOK'
  BY <1>4 DEF OtherCreates, Move
<1>5. ASSUME NEW t \in Threads, BeginLine(t) PROVE TypeOK'
  <2>1. pc' \in [Threads -> Pcs] /\ exp' \in [Threads -> Days \cup {None}]
    BY <1>5 DEF BeginLine, Goto
  <2>2. /\ calls' \in 0..MaxCalls /\ ret' \in [Threads -> {None, 0, -1}]
        /\ disturbed' \in [Threads -> BOOLEAN]
    BY <1>5 DEF BeginLine
  <2>3. UNCHANGED <<worldVars, stderr, now, ready, linked, logfp, torn, moves>>
    BY <1>5 DEF BeginLine
  <2> QED
    BY <2>1, <2>2, <2>3
<1>6. ASSUME NEW t \in Threads, CompareName(t) PROVE TypeOK'
  BY <1>6 DEF CompareName, Goto
<1>7. ASSUME NEW t \in Threads, Fstat(t) PROVE TypeOK'
  BY <1>7 DEF Fstat, Goto, Linked
<1>8. ASSUME NEW t \in Threads, Access(t) PROVE TypeOK'
  BY <1>8 DEF Access, Goto
<1>9. ASSUME NEW t \in Threads, WriteLine(t) PROVE TypeOK'
  BY <1>9 DEF WriteLine, Goto
<1>10. ASSUME NEW t \in Threads, ExpandName(t) PROVE TypeOK'
  BY <1>10 DEF ExpandName, Goto, CurrentName
<1>11. ASSUME NEW t \in Threads, SetNow(t) PROVE TypeOK'
  BY <1>11 DEF SetNow, Goto, DisturbOthers, OpenedByName, Switching
<1>12. ASSUME NEW t \in Threads, PlaceFound(t) PROVE TypeOK'
  BY <1>12 DEF PlaceFound, Goto
<1>13. ASSUME NEW t \in Threads, MakePlace(t) PROVE TypeOK'
  BY <1>13 DEF MakePlace, Goto
<1>14. ASSUME NEW t \in Threads, PlaceFails(t) PROVE TypeOK'
  BY <1>14 DEF PlaceFails, Fails, ReturnFrom, Goto
<1>15. ASSUME NEW t \in Threads, Fopen(t) PROVE TypeOK'
  BY <1>15, FopenTypes
<1>16. ASSUME NEW t \in Threads, FopenFails(t) PROVE TypeOK'
  BY <1>16 DEF FopenFails, Fails, ReturnFrom, Goto
<1>17. ASSUME NEW t \in Threads, Dup2(t) PROVE TypeOK'
  BY <1>17 DEF Dup2, ReturnFrom, Goto, DisturbOthers, OpenedByName, Switching
<1>18. ASSUME NEW t \in Threads, Dup2Fails(t) PROVE TypeOK'
  BY <1>18 DEF Dup2Fails, Fails, ReturnFrom, Goto
<1>19. ASSUME UNCHANGED vars PROVE TypeOK'
  BY <1>19 DEF vars
<1> QED
  BY <1>1, <1>2, <1>3, <1>4, <1>5, <1>6, <1>7, <1>8, <1>9, <1>10, <1>11,
     <1>12, <1>13, <1>14, <1>15, <1>16, <1>17, <1>18, <1>19
  DEF Next, Step

LEMMA OneNameEachNext == LogInv /\ [Next]_vars => OneNameEach'
<1> SUFFICES ASSUME LogInv, [Next]_vars PROVE OneNameEach'
  OBVIOUS
<1>a. TypeOK /\ OneNameEach /\ OpenedByName
  BY DEF LogInv
<1> USE <1>a, DayNumbers DEF OneNameEach, TypeOK, worldVars, threadVars,
         historyVars
<1>1. ASSUME Midnight PROVE OneNameEach'
  BY <1>1 DEF Midnight, Move
<1>2. ASSUME Delete PROVE OneNameEach'
  BY <1>2 DEF Delete, Move
<1>3. ASSUME DeletePlace PROVE OneNameEach'
  BY <1>3 DEF DeletePlace, Move
<1>4. ASSUME OtherCreates PROVE OneNameEach'
  BY <1>4 DEF OtherCreates, Move
<1>5. ASSUME NEW t \in Threads, BeginLine(t) PROVE OneNameEach'
  BY <1>5 DEF BeginLine, Goto
<1>6. ASSUME NEW t \in Threads, CompareName(t) PROVE OneNameEach'
  BY <1>6 DEF CompareName, Goto
<1>7. ASSUME NEW t \in Threads, Fstat(t) PROVE OneNameEach'
  BY <1>7 DEF Fstat, Goto
<1>8. ASSUME NEW t \in Threads, Access(t) PROVE OneNameEach'
  BY <1>8 DEF Access, Goto
<1>9. ASSUME NEW t \in Threads, WriteLine(t) PROVE OneNameEach'
  BY <1>9 DEF WriteLine, Goto
<1>10. ASSUME NEW t \in Threads, ExpandName(t) PROVE OneNameEach'
  BY <1>10 DEF ExpandName, Goto, CurrentName
<1>11. ASSUME NEW t \in Threads, SetNow(t) PROVE OneNameEach'
  BY <1>11 DEF SetNow, Goto, DisturbOthers
<1>12. ASSUME NEW t \in Threads, PlaceFound(t) PROVE OneNameEach'
  BY <1>12 DEF PlaceFound, Goto
<1>13. ASSUME NEW t \in Threads, MakePlace(t) PROVE OneNameEach'
  BY <1>13 DEF MakePlace, Goto
<1>14. ASSUME NEW t \in Threads, PlaceFails(t) PROVE OneNameEach'
  BY <1>14 DEF PlaceFails, Fails, ReturnFrom, Goto
<1>15. ASSUME NEW t \in Threads, Fopen(t) PROVE OneNameEach'
  BY <1>15 DEF Fopen, Goto, DisturbOthers, OpenedByName, Switching
<1>16. ASSUME NEW t \in Threads, FopenFails(t) PROVE OneNameEach'
  BY <1>16 DEF FopenFails, Fails, ReturnFrom, Goto
<1>17. ASSUME NEW t \in Threads, Dup2(t) PROVE OneNameEach'
  BY <1>17 DEF Dup2, ReturnFrom, Goto, DisturbOthers
<1>18. ASSUME NEW t \in Threads, Dup2Fails(t) PROVE OneNameEach'
  BY <1>18 DEF Dup2Fails, Fails, ReturnFrom, Goto
<1>19. ASSUME UNCHANGED vars PROVE OneNameEach'
  BY <1>19 DEF vars
<1> QED
  BY <1>1, <1>2, <1>3, <1>4, <1>5, <1>6, <1>7, <1>8, <1>9, <1>10, <1>11,
     <1>12, <1>13, <1>14, <1>15, <1>16, <1>17, <1>18, <1>19
  DEF Next, Step

LEMMA OpenedByNameNext == LogInv /\ [Next]_vars => OpenedByName'
<1> SUFFICES ASSUME LogInv, [Next]_vars PROVE OpenedByName'
  OBVIOUS
<1>a. TypeOK /\ OneNameEach /\ OpenedByName
  BY DEF LogInv
<1> USE <1>a, DayNumbers DEF OneNameEach, TypeOK, OpenedByName, Switching,
         Opening, worldVars, threadVars, historyVars
<1>1. ASSUME Midnight PROVE OpenedByName'
  BY <1>1 DEF Midnight, Move
<1>2. ASSUME Delete PROVE OpenedByName'
  BY <1>2 DEF Delete, Move
<1>3. ASSUME DeletePlace PROVE OpenedByName'
  BY <1>3 DEF DeletePlace, Move
<1>4. ASSUME OtherCreates PROVE OpenedByName'
  BY <1>4 DEF OtherCreates, Move
<1>5. ASSUME NEW t \in Threads, BeginLine(t) PROVE OpenedByName'
  BY <1>5 DEF BeginLine, Goto
<1>6. ASSUME NEW t \in Threads, CompareName(t) PROVE OpenedByName'
  BY <1>6 DEF CompareName, Goto
<1>7. ASSUME NEW t \in Threads, Fstat(t) PROVE OpenedByName'
  BY <1>7 DEF Fstat, Goto
<1>8. ASSUME NEW t \in Threads, Access(t) PROVE OpenedByName'
  BY <1>8 DEF Access, Goto
<1>9. ASSUME NEW t \in Threads, WriteLine(t) PROVE OpenedByName'
  BY <1>9 DEF WriteLine, Goto
<1>10. ASSUME NEW t \in Threads, ExpandName(t) PROVE OpenedByName'
  BY <1>10 DEF ExpandName, Goto, CurrentName
<1>11. ASSUME NEW t \in Threads, SetNow(t) PROVE OpenedByName'
  BY <1>11 DEF SetNow, Goto, DisturbOthers
<1>12. ASSUME NEW t \in Threads, PlaceFound(t) PROVE OpenedByName'
  BY <1>12 DEF PlaceFound, Goto
<1>13. ASSUME NEW t \in Threads, MakePlace(t) PROVE OpenedByName'
  BY <1>13 DEF MakePlace, Goto
<1>14. ASSUME NEW t \in Threads, PlaceFails(t) PROVE OpenedByName'
  BY <1>14 DEF PlaceFails, Fails, ReturnFrom, Goto
<1>15. ASSUME NEW t \in Threads, Fopen(t) PROVE OpenedByName'
  <2>1. /\ exp[t] \in Days /\ dir'[exp[t]] # None
        /\ logfp' = [logfp EXCEPT ![t] = dir'[exp[t]]] /\ pc' = [pc EXCEPT ![t] = "dup2"]
        /\ UNCHANGED <<stderr, now, exp>>
    BY <1>15, FopenShape
  <2>2. OneNameEach'
    BY OneNameEachNext
  <2>3. ASSUME NEW u \in Threads, pc'[u] = "dup2"
        PROVE  logfp'[u] # None /\ \A n \in Days : dir'[n] = logfp'[u] => n = exp'[u]
    <3>1. CASE u = t
      BY <2>1, <2>2, <3>1
    <3>2. CASE u # t
      <4>1. /\ logfp'[u] = logfp[u] /\ pc[u] = "dup2" /\ logfp[u] \in 1..files
            /\ \A n \in Days : dir[n] = logfp[u] => n = exp[u]
        BY <2>1, <2>3, <3>2
      <4>2. \A n \in Days : dir'[n] = dir[n] \/ dir'[n] = files + 1
        BY <1>15, FopenShape
      <4> QED
        BY <2>1, <4>1, <4>2
    <3> QED
      BY <3>1, <3>2
  <2>4. pc[t] = "fopen" /\ now # None
    BY <1>15, FopenShape
  <2> QED
    BY <2>1, <2>3, <2>4
<1>16. ASSUME NEW t \in Threads, FopenFails(t) PROVE OpenedByName'
  BY <1>16 DEF FopenFails, Fails, ReturnFrom, Goto
<1>17. ASSUME NEW t \in Threads, Dup2(t) PROVE OpenedByName'
  BY <1>17 DEF Dup2, ReturnFrom, Goto, DisturbOthers
<1>18. ASSUME NEW t \in Threads, Dup2Fails(t) PROVE OpenedByName'
  BY <1>18 DEF Dup2Fails, Fails, ReturnFrom, Goto
<1>19. ASSUME UNCHANGED vars PROVE OpenedByName'
  BY <1>19 DEF vars
<1> QED
  BY <1>1, <1>2, <1>3, <1>4, <1>5, <1>6, <1>7, <1>8, <1>9, <1>10, <1>11,
     <1>12, <1>13, <1>14, <1>15, <1>16, <1>17, <1>18, <1>19
  DEF Next, Step

LEMMA OneNameAtOnceNext == LogInv /\ [Next]_vars => OneNameAtOnce'
<1> SUFFICES ASSUME LogInv, [Next]_vars PROVE OneNameAtOnce'
  OBVIOUS
<1>a. TypeOK /\ OneNameAtOnce
  BY DEF LogInv
<1> USE <1>a, DayNumbers DEF TypeOK, OneNameAtOnce, Switching, Opening,
         worldVars, threadVars, historyVars
<1>1. ASSUME Midnight PROVE OneNameAtOnce'
  BY <1>1 DEF Midnight, Move
<1>2. ASSUME Delete PROVE OneNameAtOnce'
  BY <1>2 DEF Delete, Move
<1>3. ASSUME DeletePlace PROVE OneNameAtOnce'
  BY <1>3 DEF DeletePlace, Move
<1>4. ASSUME OtherCreates PROVE OneNameAtOnce'
  BY <1>4 DEF OtherCreates, Move
<1>5. ASSUME NEW t \in Threads, BeginLine(t) PROVE OneNameAtOnce'
  BY <1>5 DEF BeginLine, Goto
<1>6. ASSUME NEW t \in Threads, CompareName(t) PROVE OneNameAtOnce'
  BY <1>6 DEF CompareName, Goto
<1>7. ASSUME NEW t \in Threads, Fstat(t) PROVE OneNameAtOnce'
  BY <1>7 DEF Fstat, Goto
<1>8. ASSUME NEW t \in Threads, Access(t) PROVE OneNameAtOnce'
  BY <1>8 DEF Access, Goto
<1>9. ASSUME NEW t \in Threads, WriteLine(t) PROVE OneNameAtOnce'
  BY <1>9 DEF WriteLine, Goto
<1>10. ASSUME NEW t \in Threads, ExpandName(t) PROVE OneNameAtOnce'
  BY <1>10 DEF ExpandName, Goto, CurrentName
<1>11. ASSUME NEW t \in Threads, SetNow(t) PROVE OneNameAtOnce'
  BY <1>11 DEF SetNow, Goto, DisturbOthers
<1>12. ASSUME NEW t \in Threads, PlaceFound(t) PROVE OneNameAtOnce'
  BY <1>12 DEF PlaceFound, Goto
<1>13. ASSUME NEW t \in Threads, MakePlace(t) PROVE OneNameAtOnce'
  BY <1>13 DEF MakePlace, Goto
<1>14. ASSUME NEW t \in Threads, PlaceFails(t) PROVE OneNameAtOnce'
  BY <1>14 DEF PlaceFails, Fails, ReturnFrom, Goto
<1>15. ASSUME NEW t \in Threads, Fopen(t) PROVE OneNameAtOnce'
  BY <1>15 DEF Fopen, Goto, DisturbOthers
<1>16. ASSUME NEW t \in Threads, FopenFails(t) PROVE OneNameAtOnce'
  BY <1>16 DEF FopenFails, Fails, ReturnFrom, Goto
<1>17. ASSUME NEW t \in Threads, Dup2(t) PROVE OneNameAtOnce'
  BY <1>17 DEF Dup2, ReturnFrom, Goto, DisturbOthers
<1>18. ASSUME NEW t \in Threads, Dup2Fails(t) PROVE OneNameAtOnce'
  BY <1>18 DEF Dup2Fails, Fails, ReturnFrom, Goto
<1>19. ASSUME UNCHANGED vars PROVE OneNameAtOnce'
  BY <1>19 DEF vars
<1> QED
  BY <1>1, <1>2, <1>3, <1>4, <1>5, <1>6, <1>7, <1>8, <1>9, <1>10, <1>11,
     <1>12, <1>13, <1>14, <1>15, <1>16, <1>17, <1>18, <1>19
  DEF Next, Step

LEMMA NotLeftBehindNext == LogInv /\ [Next]_vars => NotLeftBehind'
<1> SUFFICES ASSUME LogInv, [Next]_vars PROVE NotLeftBehind'
  OBVIOUS
<1>a. TypeOK /\ OneNameEach /\ OpenedByName /\ OneNameAtOnce /\ NotLeftBehind
  BY DEF LogInv
<1> USE <1>a, DayNumbers DEF TypeOK, NotLeftBehind, Opening, worldVars,
         threadVars, historyVars
<1>1. ASSUME Midnight PROVE NotLeftBehind'
  BY <1>1 DEF Midnight, Move
<1>2. ASSUME Delete PROVE NotLeftBehind'
  <2>1. UNCHANGED <<pc, torn, stderr, now>> /\ \A n \in Days : dir'[n] \in {dir[n], None}
    BY <1>2 DEF Delete, Move
  <2> QED
    BY <2>1
<1>3. ASSUME DeletePlace PROVE NotLeftBehind'
  BY <1>3 DEF DeletePlace, Move
<1>4. ASSUME OtherCreates PROVE NotLeftBehind'
  BY <1>4 DEF OtherCreates, Move
<1>5. ASSUME NEW t \in Threads, BeginLine(t) PROVE NotLeftBehind'
  BY <1>5 DEF BeginLine, Goto
<1>6. ASSUME NEW t \in Threads, CompareName(t) PROVE NotLeftBehind'
  BY <1>6 DEF CompareName, Goto
<1>7. ASSUME NEW t \in Threads, Fstat(t) PROVE NotLeftBehind'
  BY <1>7 DEF Fstat, Goto
<1>8. ASSUME NEW t \in Threads, Access(t) PROVE NotLeftBehind'
  BY <1>8 DEF Access, Goto
<1>9. ASSUME NEW t \in Threads, WriteLine(t) PROVE NotLeftBehind'
  BY <1>9 DEF WriteLine, Goto
<1>10. ASSUME NEW t \in Threads, ExpandName(t) PROVE NotLeftBehind'
  BY <1>10 DEF ExpandName, Goto, CurrentName
<1>11. ASSUME NEW t \in Threads, SetNow(t) PROVE NotLeftBehind'
  BY <1>11 DEF SetNow, Goto, DisturbOthers
<1>12. ASSUME NEW t \in Threads, PlaceFound(t) PROVE NotLeftBehind'
  BY <1>12 DEF PlaceFound, Goto
<1>13. ASSUME NEW t \in Threads, MakePlace(t) PROVE NotLeftBehind'
  BY <1>13 DEF MakePlace, Goto
<1>14. ASSUME NEW t \in Threads, PlaceFails(t) PROVE NotLeftBehind'
  BY <1>14 DEF PlaceFails, Fails, ReturnFrom, Goto
<1>15. ASSUME NEW t \in Threads, Fopen(t) PROVE NotLeftBehind'
  BY <1>15 DEF Fopen, Goto, DisturbOthers
<1>16. ASSUME NEW t \in Threads, FopenFails(t) PROVE NotLeftBehind'
  BY <1>16 DEF FopenFails, Fails, ReturnFrom, Goto, OneNameEach
<1>17. ASSUME NEW t \in Threads, Dup2(t) PROVE NotLeftBehind'
  BY <1>17 DEF Dup2, ReturnFrom, Goto, DisturbOthers, OpenedByName, OneNameAtOnce
<1>18. ASSUME NEW t \in Threads, Dup2Fails(t) PROVE NotLeftBehind'
  BY <1>18 DEF Dup2Fails, Fails, ReturnFrom, Goto
<1>19. ASSUME UNCHANGED vars PROVE NotLeftBehind'
  BY <1>19 DEF vars
<1> QED
  BY <1>1, <1>2, <1>3, <1>4, <1>5, <1>6, <1>7, <1>8, <1>9, <1>10, <1>11,
     <1>12, <1>13, <1>14, <1>15, <1>16, <1>17, <1>18, <1>19
  DEF Next, Step

LEMMA ChecksHoldNext == LogInv /\ [Next]_vars => ChecksHold'
<1> SUFFICES ASSUME LogInv, [Next]_vars PROVE ChecksHold'
  OBVIOUS
<1>a. TypeOK /\ OpenedByName /\ ChecksHold
  BY DEF LogInv
<1> USE <1>a, DayNumbers DEF TypeOK, ChecksHold, Opening, Linked, worldVars,
         threadVars, historyVars
<1>1. ASSUME Midnight PROVE ChecksHold'
  BY <1>1 DEF Midnight, Move
<1>2. ASSUME Delete PROVE ChecksHold'
  BY <1>2 DEF Delete, Move
<1>3. ASSUME DeletePlace PROVE ChecksHold'
  BY <1>3 DEF DeletePlace, Move
<1>4. ASSUME OtherCreates PROVE ChecksHold'
  BY <1>4 DEF OtherCreates, Move
<1>5. ASSUME NEW t \in Threads, BeginLine(t) PROVE ChecksHold'
  BY <1>5 DEF BeginLine, Goto
<1>6. ASSUME NEW t \in Threads, CompareName(t) PROVE ChecksHold'
  BY <1>6 DEF CompareName, Goto
<1>7. ASSUME NEW t \in Threads, Fstat(t) PROVE ChecksHold'
  BY <1>7 DEF Fstat, Goto
<1>8. ASSUME NEW t \in Threads, Access(t) PROVE ChecksHold'
  BY <1>8 DEF Access, Goto
<1>9. ASSUME NEW t \in Threads, WriteLine(t) PROVE ChecksHold'
  BY <1>9 DEF WriteLine, Goto
<1>10. ASSUME NEW t \in Threads, ExpandName(t) PROVE ChecksHold'
  BY <1>10 DEF ExpandName, Goto, CurrentName
<1>11. ASSUME NEW t \in Threads, SetNow(t) PROVE ChecksHold'
  BY <1>11 DEF SetNow, Goto, DisturbOthers
<1>12. ASSUME NEW t \in Threads, PlaceFound(t) PROVE ChecksHold'
  BY <1>12 DEF PlaceFound, Goto
<1>13. ASSUME NEW t \in Threads, MakePlace(t) PROVE ChecksHold'
  BY <1>13 DEF MakePlace, Goto
<1>14. ASSUME NEW t \in Threads, PlaceFails(t) PROVE ChecksHold'
  BY <1>14 DEF PlaceFails, Fails, ReturnFrom, Goto
<1>15. ASSUME NEW t \in Threads, Fopen(t) PROVE ChecksHold'
  BY <1>15 DEF Fopen, Goto, DisturbOthers
<1>16. ASSUME NEW t \in Threads, FopenFails(t) PROVE ChecksHold'
  BY <1>16 DEF FopenFails, Fails, ReturnFrom, Goto
<1>17. ASSUME NEW t \in Threads, Dup2(t) PROVE ChecksHold'
  BY <1>17 DEF Dup2, ReturnFrom, Goto, DisturbOthers
<1>18. ASSUME NEW t \in Threads, Dup2Fails(t) PROVE ChecksHold'
  BY <1>18 DEF Dup2Fails, Fails, ReturnFrom, Goto
<1>19. ASSUME UNCHANGED vars PROVE ChecksHold'
  BY <1>19 DEF vars
<1> QED
  BY <1>1, <1>2, <1>3, <1>4, <1>5, <1>6, <1>7, <1>8, <1>9, <1>10, <1>11,
     <1>12, <1>13, <1>14, <1>15, <1>16, <1>17, <1>18, <1>19
  DEF Next, Step

LEMMA LineNext == LogInv /\ [Next]_vars => LineInCurrentFileUnlessTorn'
<1> SUFFICES ASSUME LogInv, [Next]_vars PROVE LineInCurrentFileUnlessTorn'
  OBVIOUS
<1>a. TypeOK /\ OpenedByName /\ NotLeftBehind /\ ChecksHold /\ LineInCurrentFileUnlessTorn
  BY DEF LogInv
<1> USE <1>a, DayNumbers DEF TypeOK, LineInCurrentFileUnlessTorn,
         LineInCurrentFile, ChecksHold, worldVars, threadVars, historyVars
<1>1. ASSUME Midnight PROVE LineInCurrentFileUnlessTorn'
  BY <1>1 DEF Midnight, Move
<1>2. ASSUME Delete PROVE LineInCurrentFileUnlessTorn'
  BY <1>2 DEF Delete, Move
<1>3. ASSUME DeletePlace PROVE LineInCurrentFileUnlessTorn'
  BY <1>3 DEF DeletePlace, Move
<1>4. ASSUME OtherCreates PROVE LineInCurrentFileUnlessTorn'
  BY <1>4 DEF OtherCreates, Move
<1>5. ASSUME NEW t \in Threads, BeginLine(t) PROVE LineInCurrentFileUnlessTorn'
  BY <1>5 DEF BeginLine, Goto, OpenedByName
<1>6. ASSUME NEW t \in Threads, CompareName(t) PROVE LineInCurrentFileUnlessTorn'
  BY <1>6 DEF CompareName, Goto
<1>7. ASSUME NEW t \in Threads, Fstat(t) PROVE LineInCurrentFileUnlessTorn'
  BY <1>7 DEF Fstat, Goto
<1>8. ASSUME NEW t \in Threads, Access(t) PROVE LineInCurrentFileUnlessTorn'
  BY <1>8 DEF Access, Goto, NotLeftBehind, MustReopen, Linked, Opening
<1>9. ASSUME NEW t \in Threads, WriteLine(t) PROVE LineInCurrentFileUnlessTorn'
  BY <1>9 DEF WriteLine, Goto
<1>10. ASSUME NEW t \in Threads, ExpandName(t) PROVE LineInCurrentFileUnlessTorn'
  BY <1>10 DEF ExpandName, Goto, CurrentName
<1>11. ASSUME NEW t \in Threads, SetNow(t) PROVE LineInCurrentFileUnlessTorn'
  BY <1>11 DEF SetNow, Goto, DisturbOthers
<1>12. ASSUME NEW t \in Threads, PlaceFound(t) PROVE LineInCurrentFileUnlessTorn'
  BY <1>12 DEF PlaceFound, Goto
<1>13. ASSUME NEW t \in Threads, MakePlace(t) PROVE LineInCurrentFileUnlessTorn'
  BY <1>13 DEF MakePlace, Goto
<1>14. ASSUME NEW t \in Threads, PlaceFails(t) PROVE LineInCurrentFileUnlessTorn'
  BY <1>14 DEF PlaceFails, Fails, ReturnFrom, Goto
<1>15. ASSUME NEW t \in Threads, Fopen(t) PROVE LineInCurrentFileUnlessTorn'
  BY <1>15 DEF Fopen, Goto, DisturbOthers
<1>16. ASSUME NEW t \in Threads, FopenFails(t) PROVE LineInCurrentFileUnlessTorn'
  BY <1>16 DEF FopenFails, Fails, ReturnFrom, Goto
<1>17. ASSUME NEW t \in Threads, Dup2(t) PROVE LineInCurrentFileUnlessTorn'
  BY <1>17 DEF Dup2, ReturnFrom, Goto, DisturbOthers
<1>18. ASSUME NEW t \in Threads, Dup2Fails(t) PROVE LineInCurrentFileUnlessTorn'
  BY <1>18 DEF Dup2Fails, Fails, ReturnFrom, Goto
<1>19. ASSUME UNCHANGED vars PROVE LineInCurrentFileUnlessTorn'
  BY <1>19 DEF vars
<1> QED
  BY <1>1, <1>2, <1>3, <1>4, <1>5, <1>6, <1>7, <1>8, <1>9, <1>10, <1>11,
     <1>12, <1>13, <1>14, <1>15, <1>16, <1>17, <1>18, <1>19
  DEF Next, Step

LEMMA ReopenNext == LogInv /\ [Next]_vars => ReopenRepairs'
<1> SUFFICES ASSUME LogInv, [Next]_vars PROVE ReopenRepairs'
  OBVIOUS
<1>a. TypeOK /\ ChecksHold /\ ReopenRepairs
  BY DEF LogInv
<1> USE <1>a, DayNumbers DEF TypeOK, ReopenRepairs, ChecksHold, worldVars,
         threadVars, historyVars
<1>1. ASSUME Midnight PROVE ReopenRepairs'
  BY <1>1 DEF Midnight, Move
<1>2. ASSUME Delete PROVE ReopenRepairs'
  BY <1>2 DEF Delete, Move
<1>3. ASSUME DeletePlace PROVE ReopenRepairs'
  BY <1>3 DEF DeletePlace, Move
<1>4. ASSUME OtherCreates PROVE ReopenRepairs'
  BY <1>4 DEF OtherCreates, Move
<1>5. ASSUME NEW t \in Threads, BeginLine(t) PROVE ReopenRepairs'
  BY <1>5 DEF BeginLine, Goto
<1>6. ASSUME NEW t \in Threads, CompareName(t) PROVE ReopenRepairs'
  BY <1>6 DEF CompareName, Goto
<1>7. ASSUME NEW t \in Threads, Fstat(t) PROVE ReopenRepairs'
  BY <1>7 DEF Fstat, Goto
<1>8. ASSUME NEW t \in Threads, Access(t) PROVE ReopenRepairs'
  BY <1>8 DEF Access, Goto
<1>9. ASSUME NEW t \in Threads, WriteLine(t) PROVE ReopenRepairs'
  BY <1>9 DEF WriteLine, Goto
<1>10. ASSUME NEW t \in Threads, ExpandName(t) PROVE ReopenRepairs'
  BY <1>10 DEF ExpandName, Goto, CurrentName
<1>11. ASSUME NEW t \in Threads, SetNow(t) PROVE ReopenRepairs'
  BY <1>11 DEF SetNow, Goto, DisturbOthers
<1>12. ASSUME NEW t \in Threads, PlaceFound(t) PROVE ReopenRepairs'
  BY <1>12 DEF PlaceFound, Goto
<1>13. ASSUME NEW t \in Threads, MakePlace(t) PROVE ReopenRepairs'
  BY <1>13 DEF MakePlace, Goto
<1>14. ASSUME NEW t \in Threads, PlaceFails(t) PROVE ReopenRepairs'
  BY <1>14 DEF PlaceFails, Fails, ReturnFrom, Goto
<1>15. ASSUME NEW t \in Threads, Fopen(t) PROVE ReopenRepairs'
  BY <1>15 DEF Fopen, Goto, DisturbOthers
<1>16. ASSUME NEW t \in Threads, FopenFails(t) PROVE ReopenRepairs'
  BY <1>16 DEF FopenFails, Fails, ReturnFrom, Goto
<1>17. ASSUME NEW t \in Threads, Dup2(t) PROVE ReopenRepairs'
  BY <1>17 DEF Dup2, ReturnFrom, Goto, DisturbOthers
<1>18. ASSUME NEW t \in Threads, Dup2Fails(t) PROVE ReopenRepairs'
  BY <1>18 DEF Dup2Fails, Fails, ReturnFrom, Goto
<1>19. ASSUME UNCHANGED vars PROVE ReopenRepairs'
  BY <1>19 DEF vars
<1> QED
  BY <1>1, <1>2, <1>3, <1>4, <1>5, <1>6, <1>7, <1>8, <1>9, <1>10, <1>11,
     <1>12, <1>13, <1>14, <1>15, <1>16, <1>17, <1>18, <1>19
  DEF Next, Step

-----------------------------------------------------------------------------
(* The theorems *)

LEMMA LogInvInit == Init => LogInv
<1> SUFFICES ASSUME Init PROVE LogInv
  OBVIOUS
<1>1. TypeOK
  <2>1. /\ day \in Days /\ dir \in [Days -> 1..files \cup {None}] /\ files \in Nat
        /\ stderr \in 0..files /\ now \in Days \cup {None} /\ pc \in [Threads -> Pcs]
    BY DayNumbers DEF Init, Pcs, Terminal
  <2>2. /\ exp \in [Threads -> Days \cup {None}] /\ linked \in [Threads -> BOOLEAN]
        /\ logfp \in [Threads -> 1..files \cup {None}] /\ ret \in [Threads -> {None, 0, -1}]
        /\ disturbed \in [Threads -> BOOLEAN]
    BY DEF Init
  <2>3. calls \in 0..MaxCalls /\ moves \in 0..MaxMoves
    BY DayNumbers DEF Init
  <2> QED
    BY <2>1, <2>2, <2>3 DEF Init, TypeOK
<1>2. Switching = {} /\ Opening = {} /\ \A t \in Threads : pc[t] \in {"idle", "expand"}
  BY DEF Init, Switching, Opening
<1>3. OneNameEach /\ OpenedByName /\ OneNameAtOnce /\ NotLeftBehind /\ ChecksHold
  BY <1>2, DayNumbers
  DEF Init, OneNameEach, OpenedByName, OneNameAtOnce, NotLeftBehind, ChecksHold
<1>4. LineInCurrentFileUnlessTorn /\ ReopenRepairs
  BY <1>2 DEF LineInCurrentFileUnlessTorn, LineInCurrentFile, ReopenRepairs
<1> QED
  BY <1>1, <1>3, <1>4 DEF LogInv

(* The invariant behind the theorems below: as long as no library call has  *)
(* failed and one name at a time is being opened, descriptor 2 is never     *)
(* left on a file that has another name than __LOGFILE_NOW says, and what a *)
(* thread has checked in lprintf holds until something disturbs it.         *)
THEOREM LogInvariant == Spec => []LogInv
<1>1. LogInv /\ [Next]_vars => LogInv'
  BY TypeOKNext, OneNameEachNext, OpenedByNameNext, OneNameAtOnceNext, NotLeftBehindNext,
     ChecksHoldNext, LineNext, ReopenNext DEF LogInv
<1> QED
  BY <1>1, LogInvInit, PTL DEF Spec

(* The state of the log keeps its types: what is put on descriptor 2 is     *)
(* always a file that was opened.                                           *)
THEOREM LogTypes == Spec => []TypeOK
<1>1. LogInv => TypeOK
  BY DEF LogInv
<1> QED
  BY <1>1, LogInvariant, PTL

(* A line goes to the file the current name leads to, whatever happened     *)
(* before the call, unless a library call of openLogFile has failed or two  *)
(* names were being opened at once.                                         *)
THEOREM LinesGoToCurrentFile == Spec => []LineInCurrentFileUnlessTorn
<1>1. LogInv => LineInCurrentFileUnlessTorn
  BY DEF LogInv
<1> QED
  BY <1>1, LogInvariant, PTL

(* Whatever failed or raced before, an undisturbed openLogFile puts         *)
(* descriptor 2 on the current file.                                        *)
THEOREM ReopeningRepairs == Spec => []ReopenRepairs
<1>1. LogInv => ReopenRepairs
  BY DEF LogInv
<1> QED
  BY <1>1, LogInvariant, PTL

(* A program whose library calls do not fail always writes to the current   *)
(* file when only one of its threads logs, and also with any number of      *)
(* threads as long as there is no midnight.                                 *)
THEOREM QuietLogIsCurrent ==
  ASSUME Faults = {}, MaxDay = 1 \/ (\A t, u \in Threads : t = u)
  PROVE  Spec => []LineInCurrentFile
<1>1. Init => ~torn
  BY DEF Init
<1>2. LogInv /\ ~torn /\ [Next]_vars => ~torn'
  <2> SUFFICES ASSUME LogInv, ~torn, [Next]_vars PROVE ~torn'
    OBVIOUS
  <2>2. ASSUME NEW t \in Threads, ExpandName(t) PROVE ~torn'
    <3>1. day \in Days /\ \A u \in Switching : exp[u] \in Days /\ u \in Threads
      BY DEF LogInv, TypeOK, OpenedByName, Switching
    <3>2. t \notin Switching
      BY <2>2 DEF ExpandName, Switching
    <3>3. \A u \in Switching : exp[u] = day
      <4>1. CASE MaxDay = 1
        BY <3>1, <4>1 DEF Days
      <4>2. CASE \A v, u \in Threads : v = u
        BY <3>1, <3>2, <4>2
      <4> QED
        BY <4>1, <4>2
    <3> QED
      BY <2>2, <3>3 DEF ExpandName, CurrentName
  <2> QED
    BY <2>2 DEF Next, Step, Midnight, Delete, DeletePlace, OtherCreates, Move, BeginLine,
       CompareName, Fstat, Access, WriteLine, SetNow, PlaceFound, MakePlace, PlaceFails, Fopen,
       FopenFails, Dup2, Dup2Fails, Fails, historyVars, vars
<1>3. LogInv /\ ~torn => LineInCurrentFile
  BY DEF LogInv, LineInCurrentFileUnlessTorn
<1> QED
  BY <1>1, <1>2, <1>3, LogInvariant, PTL DEF Spec

=============================================================================
