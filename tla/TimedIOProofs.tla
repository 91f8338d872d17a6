--------------------------- MODULE TimedIOProofs ---------------------------
(***************************************************************************)
(* Proofs about TimedIO, for every number of threads, calls, arrivals and  *)
(* signals and every Read_len.                                             *)
(***************************************************************************)
EXTENDS TimedIO, TLAPS

LEMMA Sizes ==
  /\ Read_len \in Nat /\ Read_len >= 1 /\ MaxArrived \in Nat /\ MaxCalls \in Nat
  /\ MaxSignals \in Nat /\ None # "ok"
BY TimedIOAssumption

-----------------------------------------------------------------------------
(* Types *)

LEMMA WantedType ==
  ASSUME TypeOK, NEW t \in Threads
  PROVE  Wanted(t) \in 1..Read_len /\ Request(t) \in Int /\ read_len[t] \in Nat
BY Sizes DEF TypeOK, Wanted, Request

(* What a portion of the stream does to Buf. *)
LEMMA FilledType ==
  ASSUME TypeOK, NEW t \in Threads, NEW n \in Nat, n <= arrived - taken
  PROVE  Filled(t, n) \in [1..Read_len -> 1..MaxArrived \cup {None}]
<1>1. ASSUME NEW j \in 1..Read_len
      PROVE  (IF j - read_len[t] \in 1..n THEN taken + j - read_len[t] ELSE Buf[t][j])
               \in 1..MaxArrived \cup {None}
  <2>1. /\ taken \in Nat /\ arrived \in Nat /\ arrived <= MaxArrived /\ read_len[t] \in Nat
        /\ Buf[t][j] \in 1..MaxArrived \cup {None}
    BY Sizes DEF TypeOK
  <2>2. ASSUME j - read_len[t] \in 1..n PROVE taken + j - read_len[t] \in 1..MaxArrived
    BY <2>1, <2>2, Sizes
  <2> QED
    BY <2>1, <2>2
<1> QED
  BY <1>1 DEF Filled

LEMMA TypeOKNext == TypeOK /\ [Next]_vars => TypeOK'
<1> SUFFICES ASSUME TypeOK, [Next]_vars PROVE TypeOK'
  OBVIOUS
<1> USE Sizes DEF deviceVars, callVars, dataVars, historyVars
<1>1. ASSUME Arrive PROVE TypeOK'
  BY <1>1 DEF Arrive, TypeOK, Pcs
<1>2. ASSUME PeerEnds PROVE TypeOK'
  BY <1>2 DEF PeerEnds, TypeOK, Pcs
<1>3. ASSUME AlarmFires PROVE TypeOK'
  <2>1. PICK t \in Threads : Interrupted(t) \/ SelectInterrupted(t)
    BY <1>3 DEF AlarmFires
  <2>2. /\ pc' \in [Threads -> Pcs] /\ errno' \in [Threads -> {None, "EINTR", "ECONNRESET"}]
        /\ ret' \in [Threads -> {None, "ok", "closed", "timeout", "error"}]
        /\ aligned' \in BOOLEAN
    <3>1. CASE Interrupted(t)
      BY <3>1 DEF Interrupted, TypeOK, Pcs
    <3>2. CASE SelectInterrupted(t)
      BY <3>2 DEF SelectInterrupted, Return, TypeOK, Pcs
    <3> QED
      BY <2>1, <3>1, <3>2
  <2>3. /\ pending \in Threads /\ pending' = None /\ _Exp_flag' = TRUE
        /\ fired' = [u \in Threads |-> fired[u] \cup {pending}]
        /\ UNCHANGED <<deviceVars, call, dataVars, calls, signals>>
    BY <1>3 DEF AlarmFires, TypeOK
  <2>4. fired' \in [Threads -> SUBSET Threads]
    BY <2>3 DEF TypeOK
  <2> QED
    BY <2>2, <2>3, <2>4 DEF TypeOK
<1>4. ASSUME NEW t \in Threads, Begin(t) PROVE TypeOK'
  <2>1. PICK fn \in FnsFor(listening), timed \in BOOLEAN :
          /\ call' = [call EXCEPT ![t] = [fn |-> fn, timed |-> timed]]
          /\ pc' = [pc EXCEPT ![t] =
                      IF timed /\ fn \in {"read_t", "accept_t"} THEN "alarm"
                      ELSE IF fn = "accept_t_r" \/ (timed /\ fn \in Reads)
                      THEN "select" ELSE "read"]
    BY <1>4 DEF Begin
  <2>2. call' \in [Threads -> [fn : Fns, timed : BOOLEAN]] /\ pc' \in [Threads -> Pcs]
    BY <2>1 DEF TypeOK, Pcs, FnsFor
  <2>3. /\ read_len' \in [Threads -> 0..Read_len]
        /\ Buf' \in [Threads -> [1..Read_len -> 1..MaxArrived \cup {None}]]
    BY <1>4 DEF TypeOK, Begin
  <2>4. /\ errno' \in [Threads -> {None, "EINTR", "ECONNRESET"}]
        /\ ret' \in [Threads -> {None, "ok", "closed", "timeout", "error"}]
        /\ fired' \in [Threads -> SUBSET Threads] /\ calls' \in 0..MaxCalls
    BY <1>4 DEF TypeOK, Begin
  <2>5. UNCHANGED <<_Exp_flag, pending, deviceVars, aligned, signals>>
    BY <1>4 DEF Begin
  <2> QED
    BY <2>2, <2>3, <2>4, <2>5 DEF TypeOK
<1>5. ASSUME NEW t \in Threads, SetAlarm(t) PROVE TypeOK'
  BY <1>5 DEF SetAlarm, TypeOK, Pcs
<1>6. ASSUME NEW t \in Threads, ClearFlag(t) PROVE TypeOK'
  BY <1>6 DEF ClearFlag, TypeOK, Pcs
<1>7. ASSUME NEW t \in Threads, SelectReady(t) PROVE TypeOK'
  BY <1>7 DEF SelectReady, TypeOK, Pcs
<1>8. ASSUME NEW t \in Threads, SelectTimesOut(t) PROVE TypeOK'
  BY <1>8 DEF SelectTimesOut, TypeOK, Pcs, Return
<1>9. ASSUME NEW t \in Threads, Block(t) PROVE TypeOK'
  BY <1>9 DEF Block, TypeOK, Pcs
<1>10. ASSUME NEW t \in Threads, Transfer(t) PROVE TypeOK'
  <2>1. PICK n \in 1..Request(t) :
          /\ n <= arrived - taken
          /\ Buf' = [Buf EXCEPT ![t] = Filled(t, n)]
          /\ taken' = taken + n
          /\ read_len' = [read_len EXCEPT ![t] = read_len[t] + n]
          /\ pc' = [pc EXCEPT ![t] =
                      IF read_len[t] + n < Wanted(t) /\ Fn(t) # "tread"
                      THEN NextChunk(t) ELSE "done"]
    BY <1>10 DEF Transfer
  <2>2. n \in Nat /\ taken + n \in 0..arrived /\ read_len[t] + n \in 0..Read_len
    BY <2>1, WantedType DEF TypeOK, Request
  <2>3. Buf' \in [Threads -> [1..Read_len -> 1..MaxArrived \cup {None}]]
    BY <2>1, <2>2, FilledType DEF TypeOK
  <2>4. pc' \in [Threads -> Pcs]
    BY <2>1 DEF TypeOK, Pcs, NextChunk
  <2>5. taken' \in 0..arrived /\ read_len' \in [Threads -> 0..Read_len]
    BY <2>1, <2>2 DEF TypeOK
  <2>6. UNCHANGED <<_Exp_flag, pending, arrived, listening, peer, callVars, ret, historyVars>>
    BY <1>10 DEF Transfer
  <2> QED
    BY <2>3, <2>4, <2>5, <2>6 DEF TypeOK
<1>11. ASSUME NEW t \in Threads, StreamEnded(t) PROVE TypeOK'
  BY <1>11 DEF StreamEnded, TypeOK, Pcs
<1>12. ASSUME NEW t \in Threads, CancelAlarm(t) PROVE TypeOK'
  BY <1>12 DEF CancelAlarm, TypeOK, Pcs
<1>13. ASSUME NEW t \in Threads, ReturnFailure(t) PROVE TypeOK'
  <2>1. FailureCode(t) \in {"ok", "closed", "timeout", "error"}
    BY DEF FailureCode
  <2> QED
    BY <1>13, <2>1 DEF ReturnFailure, Return, TypeOK, Pcs
<1>14. ASSUME NEW t \in Threads, ReturnRead(t) PROVE TypeOK'
  BY <1>14 DEF ReturnRead, TypeOK, Pcs, Return
<1>15. ASSUME NEW t \in Threads, OtherSignal(t) PROVE TypeOK'
  <2>1. /\ pc' \in [Threads -> Pcs] /\ errno' \in [Threads -> {None, "EINTR", "ECONNRESET"}]
        /\ ret' \in [Threads -> {None, "ok", "closed", "timeout", "error"}]
        /\ aligned' \in BOOLEAN
    <3>1. CASE Interrupted(t)
      BY <3>1 DEF Interrupted, TypeOK, Pcs
    <3>2. CASE SelectInterrupted(t)
      BY <3>2 DEF SelectInterrupted, Return, TypeOK, Pcs
    <3> QED
      BY <1>15, <3>1, <3>2 DEF OtherSignal
  <2>2. signals' \in 0..MaxSignals
        /\ UNCHANGED <<_Exp_flag, pending, deviceVars, call, dataVars, fired, calls>>
    BY <1>15 DEF OtherSignal, TypeOK
  <2> QED
    BY <2>1, <2>2 DEF TypeOK
<1>16. ASSUME UNCHANGED vars PROVE TypeOK'
  BY <1>16 DEF vars, TypeOK
<1> QED
  BY <1>1, <1>2, <1>3, <1>4, <1>5, <1>6, <1>7, <1>8, <1>9, <1>10, <1>11,
     <1>12, <1>13, <1>14, <1>15, <1>16
  DEF Next, Step

LEMMA InitTypes == Init => TypeOK
<1> SUFFICES ASSUME Init PROVE TypeOK
  OBVIOUS
<1>1. (CHOOSE fn \in Fns : TRUE) \in Fns
  BY DEF Init, FnsFor
<1>2. call \in [Threads -> [fn : Fns, timed : BOOLEAN]]
  <2> DEFINE first == CHOOSE fn \in Fns : TRUE
  <2>1. call \in [Threads -> [fn : {first}, timed : {FALSE}]] /\ first \in Fns
    BY <1>1 DEF Init
  <2> HIDE DEF first
  <2> QED
    BY <2>1
<1>3. /\ listening \in BOOLEAN /\ pc \in [Threads -> Pcs] /\ read_len \in [Threads -> 0..Read_len]
      /\ Buf \in [Threads -> [1..Read_len -> 1..MaxArrived \cup {None}]]
  BY Sizes DEF Init, Pcs
<1>4. /\ errno \in [Threads -> {None, "EINTR", "ECONNRESET"}]
      /\ ret \in [Threads -> {None, "ok", "closed", "timeout", "error"}]
      /\ fired \in [Threads -> SUBSET Threads] /\ _Exp_flag \in BOOLEAN /\ pending \in Threads \cup {None}
      /\ aligned \in BOOLEAN /\ peer \in {"open", "closed", "reset"}
  BY DEF Init
<1>5. /\ arrived \in 0..MaxArrived /\ taken \in 0..arrived
      /\ calls \in 0..MaxCalls /\ signals \in 0..MaxSignals
  BY Sizes DEF Init
<1> QED
  BY <1>2, <1>3, <1>4, <1>5 DEF TypeOK

-----------------------------------------------------------------------------
(* Alarms *)

LEMMA LimitedByNext == TypeOK /\ LimitedBy /\ [Next]_vars => LimitedBy'
<1> SUFFICES ASSUME TypeOK /\ LimitedBy, [Next]_vars PROVE LimitedBy'
  OBVIOUS
<1> USE DEF deviceVars, callVars, dataVars, historyVars
<1>1. ASSUME Arrive PROVE LimitedBy'
  BY <1>1 DEF Arrive, LimitedBy, TypeOK, UsesAlarm, UsesSelect, Fn, Timed
<1>2. ASSUME PeerEnds PROVE LimitedBy'
  BY <1>2 DEF PeerEnds, LimitedBy, TypeOK, UsesAlarm, UsesSelect, Fn, Timed
<1>3. ASSUME AlarmFires PROVE LimitedBy'
  BY <1>3 DEF AlarmFires, LimitedBy, TypeOK, UsesAlarm, UsesSelect, Fn, Timed, Interrupted, SelectInterrupted, Return
<1>4. ASSUME NEW t \in Threads, Begin(t) PROVE LimitedBy'
  <2>1. PICK fn \in FnsFor(listening), timed \in BOOLEAN :
          /\ call' = [call EXCEPT ![t] = [fn |-> fn, timed |-> timed]]
          /\ pc' = [pc EXCEPT ![t] =
                      IF timed /\ fn \in {"read_t", "accept_t"} THEN "alarm"
                      ELSE IF fn = "accept_t_r" \/ (timed /\ fn \in Reads)
                      THEN "select" ELSE "read"]
    BY <1>4 DEF Begin
  <2>2. ASSUME NEW u \in Threads, u # t
        PROVE  pc'[u] = pc[u] /\ UsesAlarm(u)' = UsesAlarm(u) /\ UsesSelect(u)' = UsesSelect(u)
    BY <2>1, <2>2 DEF UsesAlarm, UsesSelect, Timed, Fn, TypeOK
  <2>3. Fn(t)' = fn /\ Timed(t)' = timed
    BY <2>1 DEF Fn, Timed, TypeOK
  <2>4. /\ pc'[t] \in {"alarm", "clear"} => UsesAlarm(t)'
        /\ pc'[t] = "select" => UsesSelect(t)'
    BY <2>1, <2>3 DEF UsesAlarm, UsesSelect, TypeOK, Reads
  <2> QED
    BY <2>2, <2>4 DEF LimitedBy
<1>5. ASSUME NEW t \in Threads, SetAlarm(t) PROVE LimitedBy'
  BY <1>5 DEF SetAlarm, LimitedBy, TypeOK, UsesAlarm, UsesSelect, Fn, Timed
<1>6. ASSUME NEW t \in Threads, ClearFlag(t) PROVE LimitedBy'
  BY <1>6 DEF ClearFlag, LimitedBy, TypeOK, UsesAlarm, UsesSelect, Fn, Timed
<1>7. ASSUME NEW t \in Threads, SelectReady(t) PROVE LimitedBy'
  BY <1>7 DEF SelectReady, LimitedBy, TypeOK, UsesAlarm, UsesSelect, Fn, Timed
<1>8. ASSUME NEW t \in Threads, SelectTimesOut(t) PROVE LimitedBy'
  BY <1>8 DEF SelectTimesOut, LimitedBy, TypeOK, UsesAlarm, UsesSelect, Fn, Timed, Return
<1>9. ASSUME NEW t \in Threads, Block(t) PROVE LimitedBy'
  BY <1>9 DEF Block, LimitedBy, TypeOK, UsesAlarm, UsesSelect, Fn, Timed
<1>10. ASSUME NEW t \in Threads, Transfer(t) PROVE LimitedBy'
  <2>1. call' = call /\ \A u \in Threads : pc'[u] # pc[u] => u = t /\ pc'[t] \in {NextChunk(t), "done"}
    BY <1>10 DEF Transfer, TypeOK
  <2> QED
    BY <2>1 DEF NextChunk, LimitedBy, TypeOK, UsesAlarm, UsesSelect, Fn, Timed
<1>11. ASSUME NEW t \in Threads, StreamEnded(t) PROVE LimitedBy'
  BY <1>11 DEF StreamEnded, LimitedBy, TypeOK, UsesAlarm, UsesSelect, Fn, Timed
<1>12. ASSUME NEW t \in Threads, CancelAlarm(t) PROVE LimitedBy'
  BY <1>12 DEF CancelAlarm, LimitedBy, TypeOK, UsesAlarm, UsesSelect, Fn, Timed
<1>13. ASSUME NEW t \in Threads, ReturnFailure(t) PROVE LimitedBy'
  BY <1>13 DEF ReturnFailure, LimitedBy, TypeOK, UsesAlarm, UsesSelect, Fn, Timed, Return
<1>14. ASSUME NEW t \in Threads, ReturnRead(t) PROVE LimitedBy'
  BY <1>14 DEF ReturnRead, LimitedBy, TypeOK, UsesAlarm, UsesSelect, Fn, Timed, Return
<1>15. ASSUME NEW t \in Threads, OtherSignal(t) PROVE LimitedBy'
  BY <1>15 DEF OtherSignal, LimitedBy, TypeOK, UsesAlarm, UsesSelect, Fn, Timed, Interrupted, SelectInterrupted, Return
<1>16. ASSUME UNCHANGED vars PROVE LimitedBy'
  BY <1>16 DEF vars, LimitedBy, TypeOK, UsesAlarm, UsesSelect, Fn, Timed
<1> QED
  BY <1>1, <1>2, <1>3, <1>4, <1>5, <1>6, <1>7, <1>8, <1>9, <1>10, <1>11,
     <1>12, <1>13, <1>14, <1>15, <1>16
  DEF Next, Step

LEMMA AlarmOwnedNext == TypeOK /\ LimitedBy /\ AlarmOwned /\ [Next]_vars => AlarmOwned'
<1> SUFFICES ASSUME TypeOK /\ LimitedBy /\ AlarmOwned, [Next]_vars PROVE AlarmOwned'
  OBVIOUS
<1> USE DEF deviceVars, callVars, dataVars, historyVars
<1>1. ASSUME Arrive PROVE AlarmOwned'
  BY <1>1 DEF Arrive, AlarmOwned, LimitedBy, TypeOK, UsesAlarm, UsesSelect, Fn, Timed
<1>2. ASSUME PeerEnds PROVE AlarmOwned'
  BY <1>2 DEF PeerEnds, AlarmOwned, LimitedBy, TypeOK, UsesAlarm, UsesSelect, Fn, Timed
<1>3. ASSUME AlarmFires PROVE AlarmOwned'
  BY <1>3 DEF AlarmFires, AlarmOwned, LimitedBy, TypeOK, UsesAlarm, UsesSelect, Fn, Timed, Interrupted, SelectInterrupted, Return
<1>4. ASSUME NEW t \in Threads, Begin(t) PROVE AlarmOwned'
  BY <1>4 DEF Begin, AlarmOwned, LimitedBy, TypeOK, UsesAlarm, UsesSelect, Fn, Timed
<1>5. ASSUME NEW t \in Threads, SetAlarm(t) PROVE AlarmOwned'
  BY <1>5 DEF SetAlarm, AlarmOwned, LimitedBy, TypeOK, UsesAlarm, UsesSelect, Fn, Timed
<1>6. ASSUME NEW t \in Threads, ClearFlag(t) PROVE AlarmOwned'
  BY <1>6 DEF ClearFlag, AlarmOwned, LimitedBy, TypeOK, UsesAlarm, UsesSelect, Fn, Timed
<1>7. ASSUME NEW t \in Threads, SelectReady(t) PROVE AlarmOwned'
  BY <1>7 DEF SelectReady, AlarmOwned, LimitedBy, TypeOK, UsesAlarm, UsesSelect, Fn, Timed
<1>8. ASSUME NEW t \in Threads, SelectTimesOut(t) PROVE AlarmOwned'
  BY <1>8 DEF SelectTimesOut, AlarmOwned, LimitedBy, TypeOK, UsesAlarm, UsesSelect, Fn, Timed, Return
<1>9. ASSUME NEW t \in Threads, Block(t) PROVE AlarmOwned'
  BY <1>9 DEF Block, AlarmOwned, LimitedBy, TypeOK, UsesAlarm, UsesSelect, Fn, Timed
<1>10. ASSUME NEW t \in Threads, Transfer(t) PROVE AlarmOwned'
  BY <1>10 DEF Transfer, AlarmOwned, LimitedBy, TypeOK, UsesAlarm, UsesSelect, Fn, Timed, NextChunk
<1>11. ASSUME NEW t \in Threads, StreamEnded(t) PROVE AlarmOwned'
  BY <1>11 DEF StreamEnded, AlarmOwned, LimitedBy, TypeOK, UsesAlarm, UsesSelect, Fn, Timed
<1>12. ASSUME NEW t \in Threads, CancelAlarm(t) PROVE AlarmOwned'
  BY <1>12 DEF CancelAlarm, AlarmOwned, LimitedBy, TypeOK, UsesAlarm, UsesSelect, Fn, Timed, Disarms
<1>13. ASSUME NEW t \in Threads, ReturnFailure(t) PROVE AlarmOwned'
  BY <1>13 DEF ReturnFailure, AlarmOwned, LimitedBy, TypeOK, UsesAlarm, UsesSelect, Fn, Timed, Return
<1>14. ASSUME NEW t \in Threads, ReturnRead(t) PROVE AlarmOwned'
  BY <1>14 DEF ReturnRead, AlarmOwned, LimitedBy, TypeOK, UsesAlarm, UsesSelect, Fn, Timed, Return, Disarms
<1>15. ASSUME NEW t \in Threads, OtherSignal(t) PROVE AlarmOwned'
  BY <1>15 DEF OtherSignal, AlarmOwned, LimitedBy, TypeOK, UsesAlarm, UsesSelect, Fn, Timed, Interrupted, SelectInterrupted, Return
<1>16. ASSUME UNCHANGED vars PROVE AlarmOwned'
  BY <1>16 DEF vars, AlarmOwned, LimitedBy, TypeOK, UsesAlarm, UsesSelect, Fn, Timed
<1> QED
  BY <1>1, <1>2, <1>3, <1>4, <1>5, <1>6, <1>7, <1>8, <1>9, <1>10, <1>11,
     <1>12, <1>13, <1>14, <1>15, <1>16
  DEF Next, Step

LEMMA FlagIsOwnNext == TypeOK /\ LimitedBy /\ FlagIsOwn /\ [Next]_vars => FlagIsOwn'
<1> SUFFICES ASSUME TypeOK /\ LimitedBy /\ FlagIsOwn, [Next]_vars PROVE FlagIsOwn'
  OBVIOUS
<1> USE DEF deviceVars, callVars, dataVars, historyVars
<1>1. ASSUME Arrive PROVE FlagIsOwn'
  BY <1>1 DEF Arrive, FlagIsOwn, LimitedBy, TypeOK, UsesAlarm, UsesSelect, Fn, Timed
<1>2. ASSUME PeerEnds PROVE FlagIsOwn'
  BY <1>2 DEF PeerEnds, FlagIsOwn, LimitedBy, TypeOK, UsesAlarm, UsesSelect, Fn, Timed
<1>3. ASSUME AlarmFires PROVE FlagIsOwn'
  BY <1>3 DEF AlarmFires, FlagIsOwn, LimitedBy, TypeOK, UsesAlarm, UsesSelect, Fn, Timed, Interrupted, SelectInterrupted, Return
<1>4. ASSUME NEW t \in Threads, Begin(t) PROVE FlagIsOwn'
  BY <1>4 DEF Begin, FlagIsOwn, LimitedBy, TypeOK, UsesAlarm, UsesSelect, Fn, Timed
<1>5. ASSUME NEW t \in Threads, SetAlarm(t) PROVE FlagIsOwn'
  BY <1>5 DEF SetAlarm, FlagIsOwn, LimitedBy, TypeOK, UsesAlarm, UsesSelect, Fn, Timed
<1>6. ASSUME NEW t \in Threads, ClearFlag(t) PROVE FlagIsOwn'
  BY <1>6 DEF ClearFlag, FlagIsOwn, LimitedBy, TypeOK, UsesAlarm, UsesSelect, Fn, Timed
<1>7. ASSUME NEW t \in Threads, SelectReady(t) PROVE FlagIsOwn'
  BY <1>7 DEF SelectReady, FlagIsOwn, LimitedBy, TypeOK, UsesAlarm, UsesSelect, Fn, Timed
<1>8. ASSUME NEW t \in Threads, SelectTimesOut(t) PROVE FlagIsOwn'
  BY <1>8 DEF SelectTimesOut, FlagIsOwn, LimitedBy, TypeOK, UsesAlarm, UsesSelect, Fn, Timed, Return
<1>9. ASSUME NEW t \in Threads, Block(t) PROVE FlagIsOwn'
  BY <1>9 DEF Block, FlagIsOwn, LimitedBy, TypeOK, UsesAlarm, UsesSelect, Fn, Timed
<1>10. ASSUME NEW t \in Threads, Transfer(t) PROVE FlagIsOwn'
  BY <1>10 DEF Transfer, FlagIsOwn, LimitedBy, TypeOK, UsesAlarm, UsesSelect, Fn, Timed, NextChunk
<1>11. ASSUME NEW t \in Threads, StreamEnded(t) PROVE FlagIsOwn'
  BY <1>11 DEF StreamEnded, FlagIsOwn, LimitedBy, TypeOK, UsesAlarm, UsesSelect, Fn, Timed
<1>12. ASSUME NEW t \in Threads, CancelAlarm(t) PROVE FlagIsOwn'
  BY <1>12 DEF CancelAlarm, FlagIsOwn, LimitedBy, TypeOK, UsesAlarm, UsesSelect, Fn, Timed, Disarms
<1>13. ASSUME NEW t \in Threads, ReturnFailure(t) PROVE FlagIsOwn'
  BY <1>13 DEF ReturnFailure, FlagIsOwn, LimitedBy, TypeOK, UsesAlarm, UsesSelect, Fn, Timed, Return
<1>14. ASSUME NEW t \in Threads, ReturnRead(t) PROVE FlagIsOwn'
  BY <1>14 DEF ReturnRead, FlagIsOwn, LimitedBy, TypeOK, UsesAlarm, UsesSelect, Fn, Timed, Return, Disarms
<1>15. ASSUME NEW t \in Threads, OtherSignal(t) PROVE FlagIsOwn'
  BY <1>15 DEF OtherSignal, FlagIsOwn, LimitedBy, TypeOK, UsesAlarm, UsesSelect, Fn, Timed, Interrupted, SelectInterrupted, Return
<1>16. ASSUME UNCHANGED vars PROVE FlagIsOwn'
  BY <1>16 DEF vars, FlagIsOwn, LimitedBy, TypeOK, UsesAlarm, UsesSelect, Fn, Timed
<1> QED
  BY <1>1, <1>2, <1>3, <1>4, <1>5, <1>6, <1>7, <1>8, <1>9, <1>10, <1>11,
     <1>12, <1>13, <1>14, <1>15, <1>16
  DEF Next, Step

LEMMA TimeoutIsOwnNext == TypeOK /\ LimitedBy /\ FlagIsOwn /\ TimeoutIsOwn /\ [Next]_vars => TimeoutIsOwn'
<1> SUFFICES ASSUME TypeOK /\ LimitedBy /\ FlagIsOwn /\ TimeoutIsOwn, [Next]_vars PROVE TimeoutIsOwn'
  OBVIOUS
<1> USE DEF deviceVars, callVars, dataVars, historyVars
<1>1. ASSUME Arrive PROVE TimeoutIsOwn'
  BY <1>1 DEF Arrive, FlagIsOwn, TimeoutIsOwn, LimitedBy, TypeOK, UsesAlarm, UsesSelect, Fn, Timed
<1>2. ASSUME PeerEnds PROVE TimeoutIsOwn'
  BY <1>2 DEF PeerEnds, FlagIsOwn, TimeoutIsOwn, LimitedBy, TypeOK, UsesAlarm, UsesSelect, Fn, Timed
<1>3. ASSUME AlarmFires PROVE TimeoutIsOwn'
  BY <1>3 DEF AlarmFires, FlagIsOwn, TimeoutIsOwn, LimitedBy, TypeOK, UsesAlarm, UsesSelect, Fn, Timed, Interrupted, SelectInterrupted, Return
<1>4. ASSUME NEW t \in Threads, Begin(t) PROVE TimeoutIsOwn'
  BY <1>4 DEF Begin, FlagIsOwn, TimeoutIsOwn, LimitedBy, TypeOK, UsesAlarm, UsesSelect, Fn, Timed
<1>5. ASSUME NEW t \in Threads, SetAlarm(t) PROVE TimeoutIsOwn'
  BY <1>5 DEF SetAlarm, FlagIsOwn, TimeoutIsOwn, LimitedBy, TypeOK, UsesAlarm, UsesSelect, Fn, Timed
<1>6. ASSUME NEW t \in Threads, ClearFlag(t) PROVE TimeoutIsOwn'
  BY <1>6 DEF ClearFlag, FlagIsOwn, TimeoutIsOwn, LimitedBy, TypeOK, UsesAlarm, UsesSelect, Fn, Timed
<1>7. ASSUME NEW t \in Threads, SelectReady(t) PROVE TimeoutIsOwn'
  BY <1>7 DEF SelectReady, FlagIsOwn, TimeoutIsOwn, LimitedBy, TypeOK, UsesAlarm, UsesSelect, Fn, Timed
<1>8. ASSUME NEW t \in Threads, SelectTimesOut(t) PROVE TimeoutIsOwn'
  BY <1>8 DEF SelectTimesOut, FlagIsOwn, TimeoutIsOwn, LimitedBy, TypeOK, UsesAlarm, UsesSelect, Fn, Timed, Return
<1>9. ASSUME NEW t \in Threads, Block(t) PROVE TimeoutIsOwn'
  BY <1>9 DEF Block, FlagIsOwn, TimeoutIsOwn, LimitedBy, TypeOK, UsesAlarm, UsesSelect, Fn, Timed
<1>10. ASSUME NEW t \in Threads, Transfer(t) PROVE TimeoutIsOwn'
  BY <1>10 DEF Transfer, FlagIsOwn, TimeoutIsOwn, LimitedBy, TypeOK, UsesAlarm, UsesSelect, Fn, Timed, NextChunk
<1>11. ASSUME NEW t \in Threads, StreamEnded(t) PROVE TimeoutIsOwn'
  BY <1>11 DEF StreamEnded, FlagIsOwn, TimeoutIsOwn, LimitedBy, TypeOK, UsesAlarm, UsesSelect, Fn, Timed
<1>12. ASSUME NEW t \in Threads, CancelAlarm(t) PROVE TimeoutIsOwn'
  BY <1>12 DEF CancelAlarm, FlagIsOwn, TimeoutIsOwn, LimitedBy, TypeOK, UsesAlarm, UsesSelect, Fn, Timed, Disarms
<1>13. ASSUME NEW t \in Threads, ReturnFailure(t) PROVE TimeoutIsOwn'
  BY <1>13 DEF ReturnFailure, FlagIsOwn, TimeoutIsOwn, LimitedBy, TypeOK, UsesAlarm, UsesSelect, Fn, Timed, Return, FailureCode
<1>14. ASSUME NEW t \in Threads, ReturnRead(t) PROVE TimeoutIsOwn'
  BY <1>14 DEF ReturnRead, FlagIsOwn, TimeoutIsOwn, LimitedBy, TypeOK, UsesAlarm, UsesSelect, Fn, Timed, Return, Disarms
<1>15. ASSUME NEW t \in Threads, OtherSignal(t) PROVE TimeoutIsOwn'
  BY <1>15 DEF OtherSignal, FlagIsOwn, TimeoutIsOwn, LimitedBy, TypeOK, UsesAlarm, UsesSelect, Fn, Timed, Interrupted, SelectInterrupted, Return
<1>16. ASSUME UNCHANGED vars PROVE TimeoutIsOwn'
  BY <1>16 DEF vars, TimeoutIsOwn, LimitedBy, TypeOK, UsesAlarm, UsesSelect, Fn, Timed
<1> QED
  BY <1>1, <1>2, <1>3, <1>4, <1>5, <1>6, <1>7, <1>8, <1>9, <1>10, <1>11,
     <1>12, <1>13, <1>14, <1>15, <1>16
  DEF Next, Step

LEMMA TimedInvNext == TimedInv /\ [Next]_vars => TimedInv'
BY TypeOKNext, LimitedByNext, AlarmOwnedNext, FlagIsOwnNext, TimeoutIsOwnNext DEF TimedInv

LEMMA TimedInvInit == Init => TimedInv
<1> SUFFICES ASSUME Init PROVE TimedInv
  OBVIOUS
<1>1. \A t \in Threads : pc[t] = "idle" /\ ~Timed(t)
  <2> DEFINE first == CHOOSE fn \in Fns : TRUE
  <2>1. call \in [Threads -> [fn : {first}, timed : {FALSE}]]
    BY DEF Init
  <2> HIDE DEF first
  <2> QED
    BY <2>1 DEF Init, Timed
<1>2. LimitedBy /\ AlarmOwned /\ FlagIsOwn /\ TimeoutIsOwn
  <2>1. pending = None
    BY DEF Init
  <2>2. \A t \in Threads : pc[t] = "idle" /\ ~UsesAlarm(t)
    BY <1>1 DEF UsesAlarm
  <2> QED
    BY <2>1, <2>2 DEF LimitedBy, AlarmOwned, FlagIsOwn, TimeoutIsOwn
<1> QED
  BY <1>2, InitTypes DEF TimedInv

(* The invariant behind the theorems below, for any number of threads that  *)
(* share the flag and the one alarm of the process: an alarm that is        *)
(* pending belongs to a call that will cancel it, and the flag, once a      *)
(* call has cleared it, is set only by an alarm that goes off meanwhile.    *)
THEOREM TimedInvariant == Spec => []TimedInv
BY TimedInvNext, TimedInvInit, PTL DEF Spec

(* The calls keep their types: what a call takes never exceeds Read_len,    *)
(* what it writes stays inside Buf.                                         *)
THEOREM TimedTypes == Spec => []TypeOK
<1>1. TimedInv => TypeOK
  BY DEF TimedInv
<1> QED
  BY <1>1, TimedInvariant, PTL

(* However a call with a time limit ends, its alarm does not outlive it.    *)
THEOREM NoAlarmLeft == Spec => []NoStrayAlarm
<1>1. TimedInv => NoStrayAlarm
  BY DEF TimedInv, AlarmOwned, NoStrayAlarm, TypeOK
<1> QED
  BY <1>1, TimedInvariant, PTL

(* A call that sets an alarm says "timeout" only when its own alarm went    *)
(* off during the call, or that of another thread did: never because of     *)
(* what an earlier call left in _Exp_flag.  With one thread it is its own.  *)
THEOREM TimeoutsAreOwn == Spec => []TimeoutIsOwn
<1>1. TimedInv => TimeoutIsOwn
  BY DEF TimedInv
<1> QED
  BY <1>1, TimedInvariant, PTL

-----------------------------------------------------------------------------
(* Records *)

(* Of one thread, that is of a descriptor no other thread reads from. *)
Alone == \A t, u \in Threads : t = u

LEMMA Multiples ==
  ASSUME NEW n \in Int, NEW k \in Int
  PROVE  n * (k - 1) + n = n * k /\ n * k \in Int /\ n * (k - 1) \in Int
OBVIOUS

LEMMA RecordInterrupted ==
  ASSUME TypeOK, RecordSoFar, NEW t \in Threads, Interrupted(t) \/ SelectInterrupted(t),
         UNCHANGED <<taken, call, calls, dataVars>>
  PROVE  RecordSoFar'
<1>1. CASE Interrupted(t)
  BY <1>1 DEF Interrupted, RecordSoFar, Fn, TypeOK, dataVars
<1>2. CASE SelectInterrupted(t)
  <2>1. aligned' = FALSE /\ pc' = [pc EXCEPT ![t] = "idle"]
    BY <1>2 DEF SelectInterrupted, Return
  <2> QED
    BY <2>1 DEF RecordSoFar, Fn, TypeOK, dataVars
<1> QED
  BY <1>1, <1>2

LEMMA RecordSoFarNext ==
  Alone /\ TypeOK /\ RecordSoFar /\ [Next]_vars => RecordSoFar'
<1> SUFFICES ASSUME Alone /\ TypeOK /\ RecordSoFar, [Next]_vars PROVE RecordSoFar'
  OBVIOUS
<1>a. \A t \in Threads : read_len[t] \in Nat
  BY DEF TypeOK
<1> USE DEF deviceVars, callVars, dataVars, historyVars
<1>1. ASSUME Arrive PROVE RecordSoFar'
  BY <1>1 DEF Arrive, RecordSoFar, Fn, TypeOK
<1>2. ASSUME PeerEnds PROVE RecordSoFar'
  BY <1>2 DEF PeerEnds, RecordSoFar, Fn, TypeOK
<1>3. ASSUME AlarmFires PROVE RecordSoFar'
  BY <1>3, RecordInterrupted DEF AlarmFires
<1>4. ASSUME NEW t \in Threads, Begin(t) PROVE RecordSoFar'
  <2>1. /\ pc[t] = "idle" /\ pc'[t] \in {"alarm", "select", "read"} /\ read_len'[t] = 0
        /\ calls' = calls + 1 /\ UNCHANGED <<aligned, taken>> /\ calls \in Nat
    BY <1>4 DEF Begin, TypeOK
  <2>2. \A u \in Threads : u = t
    BY DEF Alone
  <2>3. aligned' => taken' = Read_len * (calls' - 1) + read_len'[t]
    <3>1. calls' - 1 = calls /\ Read_len * calls \in Int
      BY <2>1, Sizes, Multiples
    <3> QED
      BY <2>1, <3>1 DEF RecordSoFar
  <2>4. calls' > 0 /\ 1..read_len'[t] = {}
    BY <2>1
  <2> QED
    BY <2>1, <2>2, <2>3, <2>4 DEF RecordSoFar
<1>5. ASSUME NEW t \in Threads, SetAlarm(t) PROVE RecordSoFar'
  BY <1>5 DEF SetAlarm, RecordSoFar, Fn, TypeOK
<1>6. ASSUME NEW t \in Threads, ClearFlag(t) PROVE RecordSoFar'
  BY <1>6 DEF ClearFlag, RecordSoFar, Fn, TypeOK
<1>7. ASSUME NEW t \in Threads, SelectReady(t) PROVE RecordSoFar'
  BY <1>7 DEF SelectReady, RecordSoFar, Fn, TypeOK
<1>8. ASSUME NEW t \in Threads, SelectTimesOut(t) PROVE RecordSoFar'
  BY <1>8 DEF SelectTimesOut, RecordSoFar, Fn, TypeOK, Return
<1>9. ASSUME NEW t \in Threads, Block(t) PROVE RecordSoFar'
  BY <1>9 DEF Block, RecordSoFar, Fn, TypeOK
<1>10. ASSUME NEW t \in Threads, Transfer(t) PROVE RecordSoFar'
  <2> DEFINE base == Read_len * (calls - 1)
  <2>1. PICK n \in 1..Request(t) :
          /\ Buf' = [Buf EXCEPT ![t] = Filled(t, n)]
          /\ taken' = taken + n
          /\ read_len' = [read_len EXCEPT ![t] = read_len[t] + n]
          /\ pc' = [pc EXCEPT ![t] =
                      IF read_len[t] + n < Wanted(t) /\ Fn(t) # "tread"
                      THEN NextChunk(t) ELSE "done"]
    BY <1>10 DEF Transfer
  <2>2. /\ pc[t] # "idle" /\ pc'[t] \in {"select", "read", "done"}
        /\ UNCHANGED <<aligned, calls, call>>
    BY <1>10, <2>1 DEF Transfer, TypeOK, NextChunk
  <2>3. /\ n \in Nat /\ read_len[t] \in Nat /\ read_len[t] + n <= Wanted(t)
        /\ Wanted(t) \in Nat /\ Wanted(t) <= Read_len /\ Read_len \in Nat
        /\ base \in Int /\ calls \in Nat
    BY <2>1, WantedType, Sizes, Multiples DEF Request, TypeOK
  <2>4. read_len'[t] = read_len[t] + n /\ Buf'[t] = Filled(t, n)
    BY <2>1 DEF TypeOK
  <2>5. pc'[t] = "done" /\ Fn(t)' \in {"read_t", "read_t_r"} => read_len'[t] = Read_len
    <3>1. ASSUME Fn(t) \in {"read_t", "read_t_r"} PROVE Wanted(t) = Read_len
      BY <3>1 DEF Wanted, Accepts
    <3>2. pc'[t] = "done" => ~(read_len[t] + n < Wanted(t)) \/ Fn(t) = "tread"
      BY <2>1 DEF TypeOK, NextChunk
    <3> QED
      BY <2>2, <2>3, <2>4, <3>1, <3>2 DEF Fn
  <2>6. ASSUME aligned PROVE /\ calls > 0 /\ taken = base + read_len[t]
                             /\ \A j \in 1..read_len[t] : Buf[t][j] = base + j
    BY <2>2, <2>6 DEF RecordSoFar
  <2> HIDE DEF base
  <2>7. ASSUME aligned, NEW j \in 1..(read_len[t] + n) PROVE Buf'[t][j] = base + j
    <3>1. j \in 1..Read_len
      BY <2>3
    <3>2. CASE j \in 1..read_len[t]
      BY <2>3, <2>4, <2>6, <2>7, <3>1, <3>2 DEF Filled
    <3>3. CASE j \notin 1..read_len[t]
      <4>1. j - read_len[t] \in 1..n
        BY <2>3, <3>3
      <4>2. Buf'[t][j] = taken + j - read_len[t]
        BY <2>4, <3>1, <4>1 DEF Filled
      <4> QED
        BY <2>3, <2>6, <2>7, <4>2
    <3> QED
      BY <3>2, <3>3
  <2>8. aligned => taken' = base + read_len'[t]
    BY <2>1, <2>3, <2>4, <2>6
  <2>9. aligned' => /\ calls' > 0 /\ taken' = Read_len * (calls' - 1) + read_len'[t]
                    /\ \A j \in 1..read_len'[t] : Buf'[t][j] = Read_len * (calls' - 1) + j
    BY <2>2, <2>4, <2>6, <2>7, <2>8 DEF base
  <2>10. \A u \in Threads : u = t
    BY DEF Alone
  <2> QED
    BY <2>2, <2>5, <2>9, <2>10 DEF RecordSoFar
<1>11. ASSUME NEW t \in Threads, StreamEnded(t) PROVE RecordSoFar'
  <2>1. /\ pc[t] # "idle" /\ \E label \in {"eof", "failed"} : pc' = [pc EXCEPT ![t] = label]
        /\ UNCHANGED <<taken, calls, call, dataVars, aligned>>
    BY <1>11 DEF StreamEnded
  <2> QED
    BY <2>1 DEF RecordSoFar, Fn, TypeOK
<1>12. ASSUME NEW t \in Threads, CancelAlarm(t) PROVE RecordSoFar'
  BY <1>12 DEF CancelAlarm, RecordSoFar, Fn, TypeOK
<1>13. ASSUME NEW t \in Threads, ReturnFailure(t) PROVE RecordSoFar'
  BY <1>13 DEF ReturnFailure, RecordSoFar, Fn, TypeOK, Return, FailureCode
<1>14. ASSUME NEW t \in Threads, ReturnRead(t) PROVE RecordSoFar'
  <2>1. /\ pc'[t] = "idle" /\ UNCHANGED <<taken, calls, read_len>>
        /\ aligned' = (aligned /\ (pc[t] = "done" \/ Fn(t) = "tread")
                        /\ Fn(t) \in {"read_t", "read_t_r"})
    BY <1>14 DEF ReturnRead, Return, TypeOK, dataVars, deviceVars
  <2>2. ASSUME aligned' PROVE taken' = Read_len * calls'
    <3>1. /\ read_len[t] = Read_len /\ taken = Read_len * (calls - 1) + read_len[t]
      BY <1>14, <2>1, <2>2 DEF ReturnRead, RecordSoFar
    <3>2. calls \in Int /\ Read_len \in Int
      BY Sizes DEF TypeOK
    <3> QED
      BY <2>1, <3>1, <3>2, Multiples
  <2>3. \A u \in Threads : u = t
    BY DEF Alone
  <2> QED
    BY <2>1, <2>2, <2>3 DEF RecordSoFar
<1>15. ASSUME NEW t \in Threads, OtherSignal(t) PROVE RecordSoFar'
  BY <1>15, RecordInterrupted DEF OtherSignal
<1>16. ASSUME UNCHANGED vars PROVE RecordSoFar'
  BY <1>16 DEF vars, RecordSoFar, Fn, TypeOK
<1> QED
  BY <1>1, <1>2, <1>3, <1>4, <1>5, <1>6, <1>7, <1>8, <1>9, <1>10, <1>11,
     <1>12, <1>13, <1>14, <1>15, <1>16
  DEF Next, Step

LEMMA RecordsStayAlignedNext ==
  Alone /\ TypeOK /\ RecordSoFar /\ RecordsStayAligned /\ [Next]_vars => RecordsStayAligned'
<1> SUFFICES ASSUME Alone /\ TypeOK /\ RecordSoFar /\ RecordsStayAligned, [Next]_vars PROVE RecordsStayAligned'
  OBVIOUS
<1> USE DEF deviceVars, callVars, dataVars, historyVars
<1>1. ASSUME Arrive PROVE RecordsStayAligned'
  BY <1>1 DEF Arrive, RecordsStayAligned, TypeOK
<1>2. ASSUME PeerEnds PROVE RecordsStayAligned'
  BY <1>2 DEF PeerEnds, RecordsStayAligned, TypeOK
<1>3. ASSUME AlarmFires PROVE RecordsStayAligned'
  BY <1>3 DEF AlarmFires, RecordsStayAligned, TypeOK, Interrupted, SelectInterrupted, Return
<1>4. ASSUME NEW t \in Threads, Begin(t) PROVE RecordsStayAligned'
  <2>1. pc'[t] # "idle" /\ \A u \in Threads : u = t
    BY <1>4 DEF Begin, TypeOK, Alone
  <2> QED
    BY <2>1 DEF RecordsStayAligned
<1>5. ASSUME NEW t \in Threads, SetAlarm(t) PROVE RecordsStayAligned'
  BY <1>5 DEF SetAlarm, RecordsStayAligned, TypeOK
<1>6. ASSUME NEW t \in Threads, ClearFlag(t) PROVE RecordsStayAligned'
  BY <1>6 DEF ClearFlag, RecordsStayAligned, TypeOK
<1>7. ASSUME NEW t \in Threads, SelectReady(t) PROVE RecordsStayAligned'
  BY <1>7 DEF SelectReady, RecordsStayAligned, TypeOK
<1>8. ASSUME NEW t \in Threads, SelectTimesOut(t) PROVE RecordsStayAligned'
  BY <1>8 DEF SelectTimesOut, RecordsStayAligned, TypeOK, Return
<1>9. ASSUME NEW t \in Threads, Block(t) PROVE RecordsStayAligned'
  BY <1>9 DEF Block, RecordsStayAligned, TypeOK
<1>10. ASSUME NEW t \in Threads, Transfer(t) PROVE RecordsStayAligned'
  <2>1. pc'[t] # "idle" /\ \A u \in Threads : u = t
    BY <1>10 DEF Transfer, TypeOK, NextChunk, Alone
  <2> QED
    BY <2>1 DEF RecordsStayAligned
<1>11. ASSUME NEW t \in Threads, StreamEnded(t) PROVE RecordsStayAligned'
  BY <1>11 DEF StreamEnded, RecordsStayAligned, TypeOK
<1>12. ASSUME NEW t \in Threads, CancelAlarm(t) PROVE RecordsStayAligned'
  BY <1>12 DEF CancelAlarm, RecordsStayAligned, TypeOK
<1>13. ASSUME NEW t \in Threads, ReturnFailure(t) PROVE RecordsStayAligned'
  BY <1>13 DEF ReturnFailure, RecordsStayAligned, TypeOK, Return, FailureCode
<1>14. ASSUME NEW t \in Threads, ReturnRead(t) PROVE RecordsStayAligned'
  <2>1. /\ UNCHANGED <<taken, calls, Buf>>
        /\ aligned' = (aligned /\ (pc[t] = "done" \/ Fn(t) = "tread")
                        /\ Fn(t) \in {"read_t", "read_t_r"})
    BY <1>14 DEF ReturnRead, Return, TypeOK, dataVars, deviceVars, historyVars
  <2>2. ASSUME aligned'
        PROVE  taken = Read_len * calls /\ Buf[t] = [j \in 1..Read_len |-> Read_len * (calls - 1) + j]
    <3>1. /\ read_len[t] = Read_len /\ taken = Read_len * (calls - 1) + read_len[t]
          /\ \A j \in 1..read_len[t] : Buf[t][j] = Read_len * (calls - 1) + j
      BY <1>14, <2>1, <2>2 DEF ReturnRead, RecordSoFar
    <3>2. calls \in Int /\ Read_len \in Int /\ Buf[t] \in [1..Read_len -> 1..MaxArrived \cup {None}]
      BY Sizes DEF TypeOK
    <3> QED
      BY <3>1, <3>2, Multiples
  <2>3. \A u \in Threads : u = t
    BY DEF Alone
  <2> QED
    BY <2>1, <2>2, <2>3 DEF RecordsStayAligned
<1>15. ASSUME NEW t \in Threads, OtherSignal(t) PROVE RecordsStayAligned'
  BY <1>15 DEF OtherSignal, RecordsStayAligned, TypeOK, Interrupted, SelectInterrupted, Return
<1>16. ASSUME UNCHANGED vars PROVE RecordsStayAligned'
  BY <1>16 DEF vars, RecordsStayAligned, TypeOK
<1> QED
  BY <1>1, <1>2, <1>3, <1>4, <1>5, <1>6, <1>7, <1>8, <1>9, <1>10, <1>11,
     <1>12, <1>13, <1>14, <1>15, <1>16
  DEF Next, Step

(* When one thread reads from the descriptor, read_t and read_t_r cut the    *)
(* stream into consecutive records as long as every call returns a whole     *)
(* one, for every Read_len and however the bytes come in.                    *)
THEOREM RecordsAligned ==
  ASSUME Alone
  PROVE  Spec => []RecordsStayAligned
<1> DEFINE RecordInv == TypeOK /\ RecordSoFar /\ RecordsStayAligned
<1>1. Init => RecordInv
  <2>1. Read_len * 0 = 0
    BY Sizes
  <2> QED
    BY <2>1, InitTypes, Sizes DEF Init, RecordSoFar, RecordsStayAligned
<1>2. RecordInv /\ [Next]_vars => RecordInv'
  BY TypeOKNext, RecordSoFarNext, RecordsStayAlignedNext
<1>3. RecordInv => RecordsStayAligned
  OBVIOUS
<1> QED
  BY <1>1, <1>2, <1>3, PTL DEF Spec
=============================================================================
