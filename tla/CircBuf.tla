------------------------------ MODULE CircBuf ------------------------------
(***************************************************************************)
(* The circular buffer of the mxu11x0 driver (struct circ_buf, with the    *)
(* CIRC_* macros of <linux/circ_buf.h> as the driver applies them).  The   *)
(* size is a power of two, so the driver's "& (MXU1_WRITE_BUF_SIZE-1)" is  *)
(* a remainder.  One slot always stays free: head = tail means empty.      *)
(***************************************************************************)
EXTENDS Integers, Sequences

CONSTANT BufSize    \* MXU1_WRITE_BUF_SIZE, 1024 in the driver

ASSUME BufSizeAssumption == BufSize \in Nat /\ BufSize >= 2

Slots == 0 .. BufSize - 1

Lesser(a, b) == IF a < b THEN a ELSE b

Wrap(x) == x % BufSize

CircCnt(head, tail) == Wrap(head - tail)

\* Variant: no slot kept free, so a full buffer looks empty.
CircSpaceNoGap(head, tail) == BufSize - CircCnt(head, tail)

CircSpace(head, tail) == CircCnt(tail, head + 1)

CircCntToEnd(head, tail) == Lesser(CircCnt(head, tail), BufSize - tail)

\* Variant: the last slot of the array is never used.
CircSpaceToEndShort(head, tail) == Lesser(CircSpace(head, tail), BufSize - 1 - head)

\* Variant: the end of the array is forgotten.
CircSpaceToEndOverrun(head, tail) == CircSpace(head, tail)

CircSpaceToEnd(head, tail) == Lesser(CircSpace(head, tail), BufSize - head)

\* What the buffer holds, oldest first.
Contents(buf, head, tail) ==
    [i \in 1 .. CircCnt(head, tail) |-> buf[Wrap(tail + i - 1)]]

\* memcpy(cb->buf + cb->head, data, c): c bytes from slot head on.
CopyIn(buf, head, data, c) ==
    [s \in Slots |-> IF s - head \in 0 .. c - 1 THEN data[s - head + 1] ELSE buf[s]]

\* mxu1_buf_get: the loop copies up to the end of the array, then from its
\* start, so it takes the oldest Lesser(count, CIRC_CNT) bytes.
BufGetCount(head, tail, count) == Lesser(count, CircCnt(head, tail))

BufGetBytes(buf, head, tail, count) ==
    SubSeq(Contents(buf, head, tail), 1, BufGetCount(head, tail, count))

BufGetTail(head, tail, count) == Wrap(tail + BufGetCount(head, tail, count))
=============================================================================
