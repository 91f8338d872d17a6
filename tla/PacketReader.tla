---------------------------- MODULE PacketReader ----------------------------
(***************************************************************************)
(* A connection that sends one packet after another, each after the answer *)
(* to the one before, seen from the receive buffer: what testpacket reads  *)
(* at every length recvdata can have accumulated.                          *)
(***************************************************************************)
EXTENDS Packet

CONSTANT Lengths  \* the payload lengths the client sends

ASSUME PacketReaderAssumption == \A n \in Lengths : n \in Nat /\ n < 65536

VARIABLES
  len,       \* the payload length of the current packet
  received,  \* m_rcv_buf_len
  buf1       \* m_rcv_buf[1]: mytask clears m_rcv_buf[0] only

readerVars == <<len, received, buf1>>

ReaderInit ==
  /\ len \in Lengths
  /\ received = 0
  /\ buf1 = 0

High(n) == n \div 256
Low(n)  == n % 256

(* The packet is received up to its next byte (recv may stop anywhere). *)
Receive ==
  /\ received < len + HEADER_LEN
  /\ received' = received + 1
  /\ buf1' = IF received = 1 THEN Low(len) ELSE buf1
  /\ UNCHANGED len

(* mytask has answered the packet and the client sends the next one. *)
NextPacket ==
  /\ received = len + HEADER_LEN
  /\ len' \in Lengths
  /\ received' = 0
  /\ UNCHANGED buf1

ReaderNext == Receive \/ NextPacket

ReaderSpec == ReaderInit /\ [][ReaderNext]_readerVars

(* The verdict recvdata gets after a recv. *)
CurrentVerdict == TestPacket(High(len), buf1, received)

(* The verdict is DATA_CONTINUE until the last byte of the packet is there  *)
(* and then DATA_COMPLETE, also while the second header byte is still that  *)
(* of the packet before.                                                   *)
VerdictCorrect ==
  received > 0 =>
    CurrentVerdict = IF received = len + HEADER_LEN
                     THEN "DATA_COMPLETE" ELSE "DATA_CONTINUE"

(* task.c logs DATA_ERROR as "data overlong": the buffer then holds more    *)
(* than the header announces.                                              *)
ErrorMeansOverlong ==
  received > 0 /\ CurrentVerdict = "DATA_ERROR" => received > len + HEADER_LEN
=============================================================================
