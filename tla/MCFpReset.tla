------------------------------ MODULE MCFpReset -----------------------------
(***************************************************************************)
(* The RESET timestamp reconstruction of fpproto_handle_reset, checked for *)
(* every clock value and every wire stamp at the widths of the cfg.  The   *)
(* clock ticks and wraps as a u64 does, and a RESET with any stamp may     *)
(* arrive at any time.                                                     *)
(***************************************************************************)
EXTENDS FpReset

VARIABLES
  now,      \* fp_get_time_ns()
  partial   \* the 56-bit stamp of the last RESET payload parsed

vars == <<now, partial>>

Init ==
  /\ now \in 0 .. WordMod - 1
  /\ partial = 0

Tick ==
  /\ now' = (now + 1) % WordMod
  /\ UNCHANGED partial

ResetArrives ==
  /\ partial' \in 0 .. TsMod - 1
  /\ UNCHANGED now

Next == Tick \/ ResetArrives

Spec == Init /\ [][Next]_vars

\* spec.md 4.2 step 1: the value congruent to the stamp mod 2^56 that lies
\* in [now - 2^55, now + 2^55), counted modulo 2^64.
Nearest(t, p) ==
  CHOOSE x \in 0 .. WordMod - 1 :
    /\ x % TsMod = p
    /\ (x - t + TsMod \div 2) % WordMod < TsMod

\* fpproto_handle_reset reconstructs a RESET's full timestamp as the value
\* nearest to now with the wire bits it carries, for every now, including
\* the u64 wrap of now - 2^55 and of the sum.
FullTstampNearest == FullTstamp(now, partial) = Nearest(now, partial)

=============================================================================
