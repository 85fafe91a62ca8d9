---------------------------- MODULE ReliableSend ----------------------------
(***************************************************************************)
(* What the Fastpass reliability core promises the qdisc above it          *)
(* (spec.md 1, 4.5, 7): every committed packet descriptor stays            *)
(* outstanding until exactly one of                                        *)
(*   - a positive ACK (handle_ack),                                        *)
(*   - a NACK, either because its send timeout has passed or because the   *)
(*     window moved past it (handle_neg_ack),                              *)
(*   - a protocol reset, which frees it without a callback,                *)
(* and descriptors get consecutive seqnos from next_seqno.  Nothing here   *)
(* says how: no bitmap, no timer, no tasklet.                              *)
(***************************************************************************)
EXTENDS Integers

CONSTANTS W, Pd, SendTimeout

VARIABLES clock, next_seqno, desc, outcome

vars == <<clock, next_seqno, desc, outcome>>

Status == {"unsent", "outstanding", "acked", "nacked", "freed"}

Pending == {d \in Pd : outcome[d] = "outstanding"}

Init == /\ clock \in Nat
        /\ next_seqno \in Int
        /\ desc = [d \in {} |-> 0]
        /\ outcome = [d \in Pd |-> "unsent"]

\* A new descriptor takes next_seqno; the one W seqnos older, if still
\* outstanding, falls off the window and is NACKed.
Submit(d) ==
  /\ outcome[d] = "unsent"
  /\ LET edge == {e \in Pending : desc[e].seqno = next_seqno - W}
     IN  outcome' = [e \in Pd |-> IF e = d THEN "outstanding"
                                  ELSE IF e \in edge THEN "nacked"
                                  ELSE outcome[e]]
  /\ desc' = [e \in DOMAIN desc \cup {d} |->
                IF e = d THEN [seqno |-> next_seqno, sent_timestamp |-> clock]
                ELSE desc[e]]
  /\ next_seqno' = next_seqno + 1
  /\ UNCHANGED clock

Ack(S) ==
  /\ S # {} /\ S \subseteq Pending
  /\ outcome' = [e \in Pd |-> IF e \in S THEN "acked" ELSE outcome[e]]
  /\ UNCHANGED <<clock, next_seqno, desc>>

\* Only packets whose send timeout has passed are NACKed by time.
TimeoutNack(S) ==
  /\ S # {} /\ S \subseteq Pending
  /\ \A d \in S : desc[d].sent_timestamp + SendTimeout =< clock
  /\ outcome' = [e \in Pd |-> IF e \in S THEN "nacked" ELSE outcome[e]]
  /\ UNCHANGED <<clock, next_seqno, desc>>

Reset ==
  /\ outcome' = [e \in Pd |-> IF e \in Pending THEN "freed" ELSE outcome[e]]
  /\ next_seqno' \in Int
  /\ UNCHANGED <<clock, desc>>

Tick == clock' = clock + 1 /\ UNCHANGED <<next_seqno, desc, outcome>>

Next == \/ \E d \in Pd : Submit(d)
        \/ \E S \in SUBSET Pd : Ack(S) \/ TimeoutNack(S)
        \/ Reset
        \/ Tick

Spec == Init /\ [][Next]_vars

=============================================================================
