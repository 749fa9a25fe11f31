------------------------------- MODULE NetFrame ------------------------------
(***************************************************************************)
(* The network frame of comm_service.c, as bytes on a little-endian        *)
(* machine: head (2), id (2), cmd, len (2), payload (len), check, tail (2).*)
(* A buffer is a function from offsets, counted from 0 as in the code.     *)
(***************************************************************************)
EXTENDS Naturals, Sequences

HEAD == 21930   \* NET_FRAME_HEAD_REVERSE, 0x55AA
TAIL == 61183   \* NET_FRAME_TAIL_REVERSE, 0xEEFF

SEND_CMD_POS == 16
SEND_CMD_EPH_INFO == 17
SEND_CMD_EPH_SW == 32
SEND_CMD_OUTPUT_FREQ == 33

Byte == 0 .. 255

\* Offsets of the fields, and the size of a frame with n payload bytes.
IdAt == 2
CmdAt == 4
LenAt == 5
PayloadAt == 7
CheckAt(n) == PayloadAt + n
TailAt(n) == PayloadAt + n + 1
FrameSize(n) == PayloadAt + n + 3

\* Mutant of LE16: shifts by 4 instead of 8.
LE16_bad_shift(x) == <<x % 256, x \div 16>>

\* A uint16_t as its two bytes, and back.
LE16(x) == <<x % 256, (x \div 256)>>
U16(b, at) == b[at] + 256 * b[at + 1]

\* memcpy of the bytes s into b at an offset
Put(b, at, s) == [i \in DOMAIN b |-> IF i \in at .. at + Len(s) - 1 THEN s[i - at + 1] ELSE b[i]]

\* The loop over n bytes of b from an offset, in a uint8_t.
check_sum(b, at, n) ==
  LET sum[i \in 0 .. n] == IF i = 0 THEN 0 ELSE (sum[i - 1] + b[at + i - 1]) % 256
  IN  sum[n]

\* comm_service_receive on a datagram b of n bytes: the four tests, in order.
Accepted(b, n) ==
  LET len == U16(b, LenAt)
  IN  /\ U16(b, 0) = HEAD
      /\ n >= FrameSize(len)
      /\ b[CheckAt(len)] = check_sum(b, IdAt, len + 5)
      /\ U16(b, TailAt(len)) = TAIL
==============================================================================
