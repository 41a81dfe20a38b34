------------------------------- MODULE MCNode -------------------------------
EXTENDS Node, TLC

Symmetry == Permutations(Vms)

\* Command lines of up to three options besides the binary, and logs of up to three
\* lines around the limits of the scan.
MCCommandLines == UNION {[1 .. n -> Options] : n \in 0 .. 3}

MCLogs == UNION {[1 .. n -> [len : 0 .. 4, marks : SUBSET Markers]] : n \in 0 .. 3}

MCScanLimits == 1 .. 8
=============================================================================
