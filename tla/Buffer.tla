------------------------------- MODULE Buffer -------------------------------
(***************************************************************************)
(* The pointer arithmetic of buffer.c.  A buffer is a fixed array of       *)
(* "limit" bytes with a read and a write position; the positions alone are *)
(* kept here, as offsets from the start of the array, because they decide  *)
(* how much can be read and written.  RequestStream and MailTransfer add   *)
(* the bytes.                                                              *)
(***************************************************************************)
EXTENDS Naturals

\* The positions that buffer.h:24-25 allows: R <= W <= limit.
Buffers(limit) == {b \in [r : 0..limit, w : 0..limit] : b.r <= b.w}

\* buffer_reset, buffer_init
Fresh == [r |-> 0, w |-> 0]

\* buffer_write_ptr: the bytes that fit after the write position.
WriteSpace(b, limit) == limit - b.w
CanWrite(b, limit) == WriteSpace(b, limit) > 0

\* buffer_read_ptr: the bytes between the read and the write position.
ReadSpace(b) == b.w - b.r
CanRead(b) == ReadSpace(b) > 0

\* buffer_write_adv; its assertion is the caller's obligation n <= WriteSpace.
WriteAdv(b, n) == [b EXCEPT !.w = @ + n]

\* buffer_compact: the unread bytes move to the start of the array.
Compact(b) == [r |-> 0, w |-> ReadSpace(b)]

\* Mutation: an emptied buffer is not compacted.
ReadAdvInPlace(b, n) == [b EXCEPT !.r = @ + n]

\* buffer_read_adv: compacts only when it empties the buffer, so the space
\* before the read position stays lost until the last byte is read.
ReadAdv(b, n) ==
  LET c == [b EXCEPT !.r = @ + n]
  IN  IF CanRead(c) THEN c ELSE Compact(c)
=============================================================================
