---------------------------- MODULE MCFpSession -----------------------------
(***************************************************************************)
(* Model-checking instance of FpSession: a 2-slot window (so that a       *)
(* third commit already pushes the first packet off the window), three    *)
(* descriptors, a clock spanning two send timeouts past the last commit,  *)
(* and a RESET timestamp field of 3 bits inside a 5-bit word.             *)
(***************************************************************************)
EXTENDS FpSession

\* The epoch's first seqno: a fixed arbitrary function of the reset time,
\* standing for reset_time + jhash_1word(reset_time) splatted to 64 bits.
MCSeqBase(t) == 40 + 5 * (t % 3)

\* Run-length words: only the carried seqno, or one more acked seqno.
MCAckRunLens == {<<0, 0, 0, 0, 0, 0, 0, 0>>, <<0, 1, 0, 0, 0, 0, 0, 0>>}

=============================================================================
