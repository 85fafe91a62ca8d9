------------------------------- MODULE Outwnd -------------------------------
(***************************************************************************)
(* The outstanding window of fastpass_proto.c (outwnd_* functions): a ring *)
(* of W descriptor slots keyed by (-seqno) mod W, plus the doubled unacked *)
(* bitmap of 2W bits whose upper half mirrors the lower half so that the   *)
(* kernel bit scans never wrap.                                            *)
(*                                                                         *)
(* The window is a record value                                            *)
(*   [bin_mask |-> [0..2W-1 -> BOOLEAN], bins |-> [0..W-1 -> Pd \cup {NULL}],*)
(*    tx_num_unacked |-> Nat, next_seqno |-> Int]                          *)
(* and every operation is an operator from window to window, so that the   *)
(* session module can chain several of them inside one locked handler.     *)
(* Sequence numbers are unbounded integers: the code's u64 seqnos never    *)
(* wrap within a window and are compared with time_before64/after64.       *)
(***************************************************************************)
EXTENDS Integers, FiniteSets

CONSTANTS
  W,      \* FASTPASS_OUTWND_LEN, a power of two (256 in the code)
  Pd,     \* packet descriptors (pointers handed in by the qdisc)
  NULL

ASSUME W \in {2, 4, 8, 16} /\ NULL \notin Pd

MaskIdx == 0 .. (2 * W - 1)
BinIdx  == 0 .. (W - 1)

Window == [bin_mask : [MaskIdx -> BOOLEAN], bins : [BinIdx -> Pd \cup {NULL}],
           tx_num_unacked : 0 .. W, next_seqno : Int]

\* The state left by fpproto_sk_init's memset of bin_mask (bins is zeroed
\* with the socket) before do_proto_reset picks next_seqno.
EmptyWindow(next) ==
  [bin_mask |-> [i \in MaskIdx |-> FALSE], bins |-> [i \in BinIdx |-> NULL],
   tx_num_unacked |-> 0, next_seqno |-> next]

outwnd_pos(seqno) == (-seqno) % W

outwnd_is_unacked(w, seqno) == w.bin_mask[outwnd_pos(seqno)]

outwnd_empty(w) == w.tx_num_unacked = 0

\* find_next_bit(addr, size, offset): first set bit in [offset, size), or size
FindNextBit(mask, size, offset) ==
  LET set == {i \in offset .. (size - 1) : mask[i]}
  IN  IF set = {} THEN size ELSE CHOOSE i \in set : \A j \in set : i =< j

\* find_last_bit(addr, size): last set bit in [0, size), or size
FindLastBit(mask, size) ==
  LET set == {i \in 0 .. (size - 1) : mask[i]}
  IN  IF set = {} THEN size ELSE CHOOSE i \in set : \A j \in set : i >= j

\* The first BUG_ON of outwnd_add: the slot next_seqno is about to reuse
\* still holds the descriptor of next_seqno - W.
AddWouldOverwrite(w) == outwnd_is_unacked(w, w.next_seqno - W)

outwnd_add(w, pd) ==
  LET ci == outwnd_pos(w.next_seqno)
  IN  [w EXCEPT !.bin_mask = [@ EXCEPT ![ci] = TRUE, ![ci + W] = TRUE],
                !.bins[ci] = pd,
                !.tx_num_unacked = @ + 1,
                !.next_seqno = @ + 1]

\* Fault variants of outwnd_pop: the counter is not decremented, or only
\* the lower bit of the doubled mask is cleared.
outwnd_pop_keep_count(w, seqno) ==
  LET ci == outwnd_pos(seqno)
  IN  [w EXCEPT !.bin_mask = [@ EXCEPT ![ci] = FALSE, ![ci + W] = FALSE],
                !.bins[ci] = NULL]

outwnd_pop_no_mirror(w, seqno) ==
  LET ci == outwnd_pos(seqno)
  IN  [w EXCEPT !.bin_mask[ci] = FALSE, !.bins[ci] = NULL,
                !.tx_num_unacked = @ - 1]

\* outwnd_pop returns the descriptor; PoppedPd is that return value.
PoppedPd(w, seqno) == w.bins[outwnd_pos(seqno)]

outwnd_pop(w, seqno) ==
  LET ci == outwnd_pos(seqno)
  IN  [w EXCEPT !.bin_mask = [@ EXCEPT ![ci] = FALSE, ![ci + W] = FALSE],
                !.bins[ci] = NULL,
                !.tx_num_unacked = @ - 1]

\* seqno - (first unacked seqno at or before seqno), or -1; the caller
\* guarantees seqno < next_seqno (BUG_ON).
outwnd_at_or_before(w, seqno) ==
  IF seqno < w.next_seqno - W THEN -1
  ELSE LET head_index  == outwnd_pos(w.next_seqno - 1)
           seqno_index == head_index + outwnd_pos(seqno - (w.next_seqno - 1))
           found       == FindNextBit(w.bin_mask, head_index + W, seqno_index)
       IN  IF found = head_index + W THEN -1 ELSE found - seqno_index

\* Fault variant: find_last_bit bounded by hint_pos + W, which leaves the
\* hint's own mirrored bit out of the scan.
earliest_hint_short_scan(w, hint) ==
  LET hint_pos == outwnd_pos(hint)
      found    == FindLastBit(w.bin_mask, hint_pos + W)
  IN  hint + (hint_pos + W - found)

\* Seqno of the earliest unacked packet, assuming it is not before hint.
outwnd_earliest_unacked_hint(w, hint) ==
  LET hint_pos == outwnd_pos(hint)
      found    == FindLastBit(w.bin_mask, hint_pos + W + 1)
  IN  hint + (hint_pos + W - found)

\* The BUG_ON at the end of outwnd_earliest_unacked_hint.
HintBugOn(w, hint) ==
  LET e == outwnd_earliest_unacked_hint(w, hint)
  IN  e # w.next_seqno - W /\ outwnd_at_or_before(w, e - 1) # -1

outwnd_earliest_unacked(w) ==
  outwnd_earliest_unacked_hint(w, w.next_seqno - W)

(***************************************************************************)
(* outwnd_reset: starting at next_seqno - 1, repeatedly find the unacked   *)
(* packet at or before tslot and pop it, until none is left.  Returns the  *)
(* window and the set of descriptors it freed (fpproto_pktdesc_free).      *)
(***************************************************************************)
RECURSIVE ResetFrom(_, _, _)
ResetFrom(w, tslot, freed) ==
  LET gap == outwnd_at_or_before(w, tslot)
  IN  IF gap < 0 THEN [w |-> w, freed |-> freed]
      ELSE ResetFrom(outwnd_pop(w, tslot - gap), tslot - gap,
                     freed \cup {PoppedPd(w, tslot - gap)})

outwnd_reset(w) == ResetFrom(w, w.next_seqno - 1, {})

(***************************************************************************)
(* Reference meanings of the scans, stated on the set of seqnos whose slot *)
(* is marked: used to check the doubled-bitmap arithmetic above.           *)
(***************************************************************************)
InWindow(w) == (w.next_seqno - W) .. (w.next_seqno - 1)

Outstanding(w) == {s \in InWindow(w) : w.bin_mask[outwnd_pos(s)]}

=============================================================================
