\* u64 scaled to 7 bits and the 56-bit wire field to 4 bits.  The field is
\* a sixteenth of the word, so the reconstruction window wraps around zero
\* for the first and last eight clock values.
CONSTANTS
  TsBits = 4
  WordBits = 7
SPECIFICATION Spec
INVARIANT FullTstampNearest
