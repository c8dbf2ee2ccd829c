------------------------------- MODULE MCSync -------------------------------
(* Two instances; they are interchangeable, and so are the bits.            *)
EXTENDS Sync, TLC

CONSTANTS f1, f2, b1, b2
MCFuzzers == {f1, f2}
MCBits == {b1, b2}
MCInputs == SUBSET MCBits
MCSingles == {{b} : b \in MCBits}
MCSymmetry == Permutations(MCFuzzers) \cup Permutations(MCBits)
=============================================================================
