----------------------------- MODULE ByteBuffer -----------------------------
(***************************************************************************)
(* What the parsers use of ByteBuffer (base/bytebuffer.hpp): a vector with *)
(* a read and a write position, both counted from 0.  A cell of the vector *)
(* holds a field of a head or a byte of a body, so that a cut within a     *)
(* field is one at its beginning.                                          *)
(***************************************************************************)
EXTENDS Integers, Sequences

Cleared == [buf |-> <<>>, rpos |-> 0, wpos |-> 0]

Size(b) == Len(b.buf)

\* read<T>(index): 0 beyond the end.
At(b, index) == IF index < Size(b) THEN b.buf[index + 1] ELSE 0

\* put(ByteBuffer*): each cell is written at wpos, over what stands there.
Put(b, cells) ==
  LET end == b.wpos + Len(cells)
  IN  [b EXCEPT !.wpos = end,
                !.buf  = [i \in 1..(IF Size(b) > end THEN Size(b) ELSE end) |->
                            IF i \in (b.wpos + 1)..end THEN cells[i - b.wpos]
                            ELSE At(b, i - 1)]]

\* read<T>(): the position moves on whether or not there was something to read.
Skip(b, n) == [b EXCEPT !.rpos = @ + n]

\* mid(len): what mid returns, cut off at the end; from beyond it nothing.
MidLen(b, len) == IF b.rpos >= Size(b) THEN 0
                  ELSE IF b.rpos + len > Size(b) THEN Size(b) - b.rpos ELSE len
Mid(b, len) == SubSeq(b.buf, b.rpos + 1, b.rpos + MidLen(b, len))

\* 0 == bytesRemaining(): a difference of uint32_t is 0 only of equal numbers.
NothingRemains(b) == Size(b) = b.rpos
=============================================================================
