------------------------------ MODULE FpReset -------------------------------
(***************************************************************************)
(* The u64 timestamp arithmetic of fpproto_handle_reset, at widths scaled  *)
(* down from 64 bits (WordBits) and the 56-bit wire field (TsBits).        *)
(* Naturals taken % WordMod are u64 values, so a subtraction below zero    *)
(* wraps as it does in the code.                                           *)
(***************************************************************************)
EXTENDS Naturals, Integers

CONSTANTS
  TsBits,        \* width of the RESET timestamp on the wire (56)
  WordBits       \* width of u64 (64)

ASSUME TsBits \in Nat \ {0} /\ WordBits \in Nat /\ TsBits < WordBits

WordMod == 2 ^ WordBits
TsMod   == 2 ^ TsBits

\* Fault variant: full_tstamp starts a quarter of the field below now, not
\* half of it (1ULL << 54 for 1ULL << 55).
FullTstamp_quarter(now, partial) ==
  LET lo == (now - TsMod \div 4) % WordMod
  IN  (lo + ((partial - lo) % TsMod)) % WordMod

\* full_tstamp = now - 2^55; full_tstamp += (partial - full_tstamp) & (2^56 - 1)
FullTstamp(now, partial) ==
  LET lo == (now - TsMod \div 2) % WordMod
  IN  (lo + ((partial - lo) % TsMod)) % WordMod

tstamp_in_window(tstamp, win_middle, win_size) ==
  /\ tstamp >= (win_middle - win_size \div 2) % WordMod
  /\ tstamp < (win_middle + (win_size + 1) \div 2) % WordMod

=============================================================================
