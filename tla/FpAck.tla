------------------------------- MODULE FpAck --------------------------------
(***************************************************************************)
(* The ACK payload processor fpproto_handle_ack: reconstruction of the     *)
(* 64-bit seqno from the 16 bits on the wire, then the goto loop that      *)
(* walks the 32-bit run-length field nibble by nibble and acks every       *)
(* unacked seqno of a positive run, using outwnd_at_or_before to skip to   *)
(* the next unacked one.                                                   *)
(*                                                                         *)
(* The u32 ack_runlen is represented by its eight nibbles, most            *)
(* significant first: ack_runlen >> 28 is Head, ack_runlen <<= 4 drops the *)
(* head and shifts in a zero nibble, ack_runlen != 0 is "some nibble is    *)
(* non-zero".                                                              *)
(***************************************************************************)
EXTENDS Outwnd, Sequences

Nibble == 0 .. 15
Runlen == [1 .. 8 -> Nibble]

Shl4(rl) == Append(Tail(rl), 0)

NonZero(rl) == \E i \in 1 .. 8 : rl[i] # 0

\* cur_seqno = next_seqno - 2^16 + ((ack_seq - cur_seqno) & 0xFFFF)
FullSeqno(next, ack_seq) ==
  LET base == next - 65536 IN base + ((ack_seq - base) % 65536)

(***************************************************************************)
(* The labels do_next_positive and do_next_unacked as mutually recursive   *)
(* operators.  r is the running result: r.w the window, r.acked the set of *)
(* <<seqno, descriptor>> pairs passed to do_ack_seqno.                     *)
(***************************************************************************)
AckOne(r, s) ==
  [w |-> outwnd_pop(r.w, s), acked |-> r.acked \cup {<<s, PoppedPd(r.w, s)>>}]

RECURSIVE DoNextPositive(_, _, _), DoNextUnacked(_, _, _, _),
          DoNextUnackedAtOrAfterEnd(_, _, _, _)

\* Fault variant: time_after_eq64 instead of time_after64 at the run end.
DoNextUnackedAtOrAfterEnd(r, cur_seqno, end_seqno, rl) ==
  LET next_unacked == outwnd_at_or_before(r.w, cur_seqno)
      cur          == cur_seqno - next_unacked
  IN  IF next_unacked = -1 THEN r
      ELSE IF cur >= end_seqno
           THEN DoNextUnacked(AckOne(r, cur), cur, end_seqno, rl)
      ELSE IF NonZero(rl)
           THEN DoNextPositive(r, end_seqno - Head(rl), Shl4(rl))
      ELSE r

DoNextPositive(r, end_seqno, rl) ==
  DoNextUnacked(r, end_seqno, end_seqno - Head(rl), Shl4(rl))

DoNextUnacked(r, cur_seqno, end_seqno, rl) ==
  LET next_unacked == outwnd_at_or_before(r.w, cur_seqno)
      cur          == cur_seqno - next_unacked
  IN  IF next_unacked = -1 THEN r
      ELSE IF cur > end_seqno
           THEN DoNextUnacked(AckOne(r, cur), cur, end_seqno, rl)
      ELSE IF NonZero(rl)
           THEN DoNextPositive(r, end_seqno - Head(rl), Shl4(rl))
      ELSE r

\* The whole of fpproto_handle_ack except the final timer reset, which the
\* session applies when the acked set is not empty.
HandleAck(w, ack_seq, ack_runlen) ==
  LET cur == FullSeqno(w.next_seqno, ack_seq)
      r0  == [w |-> w, acked |-> {}]
      r1  == IF outwnd_is_unacked(w, cur) THEN AckOne(r0, cur) ELSE r0
      r   == DoNextPositive(r1, cur - 1, Shl4(ack_runlen))
  IN  IF cur < w.next_seqno - W
      THEN [w |-> w, acked |-> {}, too_early |-> TRUE]
      ELSE [w |-> r.w, acked |-> r.acked, too_early |-> FALSE]

AckedSeqnos(r) == {p[1] : p \in r.acked}

=============================================================================
