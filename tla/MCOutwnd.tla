------------------------------ MODULE MCOutwnd ------------------------------
(***************************************************************************)
(* Drives the outstanding window through every reachable content (adds at  *)
(* next_seqno once the edge slot is free, pops of any unacked seqno) and   *)
(* checks, in every window reached, the two bit scans and the ACK          *)
(* run-length walk against reference definitions stated on the set of     *)
(* unacked seqnos.                                                         *)
(***************************************************************************)
EXTENDS FpAck, Functions

CONSTANTS
  Base,      \* next_seqno chosen by do_proto_reset
  MaxAdds,   \* bound on outwnd_add calls
  RunLens    \* ack_runlen words offered to fpproto_handle_ack

VARIABLE w

Init == w = EmptyWindow(Base)

\* fpproto_commit_packet after fpproto_prepare_to_send freed the edge slot.
Add == /\ w.next_seqno < Base + MaxAdds
       /\ ~AddWouldOverwrite(w)
       /\ \E pd \in Pd : w' = outwnd_add(w, pd)

\* do_ack_seqno / do_neg_ack_seqno on an unacked seqno of the window.
Pop == \E s \in Outstanding(w) : w' = outwnd_pop(w, s)

\* do_proto_reset: outwnd_reset, then the new epoch's next_seqno.
Reset == w' = [outwnd_reset(w).w EXCEPT !.next_seqno = Base]

Next == Add \/ Pop \/ Reset

Spec == Init /\ [][Next]_w

-----------------------------------------------------------------------------
TypeOK == w \in Window

MaxOf(S) == CHOOSE x \in S : \A y \in S : x >= y
MinOf(S) == CHOOSE x \in S : \A y \in S : x =< y

AtOrBeforeRef(s) ==
  LET occ == {t \in Outstanding(w) : t =< s}
  IN  IF occ = {} THEN -1 ELSE s - MaxOf(occ)

\* A hint satisfies the precondition of outwnd_earliest_unacked_hint.
HintOk(h) == /\ \E t \in Outstanding(w) : t >= h
             /\ \A t \in Outstanding(w) : t >= h

(* The doubled-bitmap scans find what they claim: outwnd_at_or_before(s)   *)
(* is the distance back to the nearest unacked seqno at or before s, and   *)
(* outwnd_earliest_unacked_hint(h) is the smallest unacked seqno, without  *)
(* tripping its BUG_ON, for every s and every admissible hint h of the     *)
(* window; the scans cross the seam between the two mask halves whenever   *)
(* next_seqno is not a multiple of W.                                      *)
ScansMatchReference ==
  /\ \A s \in InWindow(w) : outwnd_at_or_before(w, s) = AtOrBeforeRef(s)
  /\ \A h \in InWindow(w) :
       HintOk(h) => /\ outwnd_earliest_unacked_hint(w, h)
                          = MinOf(Outstanding(w))
                    /\ ~HintBugOn(w, h)

\* Upper end of run j of the run-length field: the carried seqno minus one
\* minus the lengths of runs 1..j (run j is coded by nibble j + 1).
RunEnd(S, rl, j) == S - 1 - SumFunctionOnSet(rl, 2 .. (j + 1))

\* Seqnos the run-length field declares acked: the carried seqno and every
\* run j of the given parity.
DeclaredAcked(S, rl, parity) ==
  {S} \cup UNION {(RunEnd(S, rl, j) + 1) .. RunEnd(S, rl, j - 1) :
                    j \in {i \in 1 .. 7 : i % 2 = parity}}

AckMatches(parity) ==
  \A k \in 1 .. (W + 1), rl \in RunLens :
    LET S == w.next_seqno - k
        r == HandleAck(w, S % 65536, rl)
        expected == IF S < w.next_seqno - W THEN {}
                    ELSE Outstanding(w) \cap DeclaredAcked(S, rl, parity)
    IN  /\ AckedSeqnos(r) = expected
        /\ Outstanding(r.w) = Outstanding(w) \ expected

(* The goto loop of fpproto_handle_ack acks exactly the unacked seqnos the *)
(* run-length field marks as acked, reading the first nibble after the     *)
(* discarded top nibble as an acked run (the code's polarity), and leaves  *)
(* the rest of the window unacked; a too-early ACK changes nothing.        *)
AckWalkMatchesRunlen == AckMatches(1)

(* The same walk against the polarity spec.md 4.4 describes: the first     *)
(* nibble processed after the shift is an unacked run.                     *)
AckWalkMatchesSpecPolarity == AckMatches(0)

-----------------------------------------------------------------------------
(* Run-length words for the check: a non-zero discarded top nibble, runs   *)
(* of length 0..2 in nibbles 2..5 (longer ones leave a 4-slot window), and *)
(* a last positive run reached only through zero-length runs.              *)
MCRunLens == {<<a, b, c, d, e, 0, 0, h>> :
                a \in {0, 9}, b \in 0 .. 2, c \in 0 .. 2, d \in 0 .. 2,
                e \in 0 .. 2, h \in {0, 3}}

=============================================================================
