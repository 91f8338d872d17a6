------------------------------- MODULE Packet -------------------------------
(***************************************************************************)
(* task.c, testpacket: the verdict on the bytes a connection has received. *)
(* A packet is a two-byte length, high byte first, and that many bytes.    *)
(***************************************************************************)
EXTENDS Integers

Verdicts == {"DATA_COMPLETE", "DATA_ERROR", "DATA_CONTINUE"}

HEADER_LEN == 2

(* m_rcv_buf is an array of char, which is signed in this build. *)
SignedChar(b) == IF b < 128 THEN b ELSE b - 256

BugHeaderLength(hi, lo) == SignedChar(lo) * 256 + SignedChar(hi)
HeaderLength(hi, lo) == SignedChar(hi) * 256 + SignedChar(lo)

(* The verdict for a header <<hi, lo>> when received bytes are in the buffer. *)
TestPacket(hi, lo, received) ==
  LET len == HeaderLength(hi, lo)
  IN  CASE len = received - HEADER_LEN -> "DATA_COMPLETE"
        [] len < received - HEADER_LEN -> "DATA_ERROR"
        [] OTHER                       -> "DATA_CONTINUE"
=============================================================================
