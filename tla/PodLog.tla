------------------------------- MODULE PodLog -------------------------------
(***************************************************************************)
(* The search for markers in the log of the source pod                     *)
(* (internal/migration/cmdlinefetch.go).  A line is its length, without    *)
(* the newline, and the markers it carries; the log is cut after a number  *)
(* of bytes by the apiserver, which is asked to, and by the reader.        *)
(***************************************************************************)
EXTENDS Naturals, Sequences

CONSTANTS
  Markers,    \* what is searched for
  Logs,       \* the logs that are explored
  ScanLimits, \* the limits of the scan that are explored, in bytes
  maxLine     \* the longest line the scanner takes

LogLines == [len : Nat, marks : SUBSET Markers]

ASSUME PodLogAssumption ==
  Logs \subseteq Seq(LogLines) /\ ScanLimits \subseteq Nat /\ maxLine \in Nat

\* The bytes up to the end of line i, newline included.
Bytes(lines) ==
  LET upto[i \in 0 .. Len(lines)] == IF i = 0 THEN 0 ELSE upto[i - 1] + lines[i].len + 1
  IN upto

\* What the scanner makes of the first n bytes: the last line may be a part of one.
Pieces(lines, n) ==
  LET rest(i) == n - Bytes(lines)[i - 1]
  IN [i \in {j \in DOMAIN lines : rest(j) > 0} |->
        [lines[i] EXCEPT !.len = IF @ <= rest(i) THEN @ ELSE rest(i)]]

\* Mutant: the newline that the scanner strips is not counted.
ReturnsAtText(pieces, MaxScan) ==
  {i \in DOMAIN pieces : Bytes(pieces)[i] - i > MaxScan \/ pieces[i].len >= maxLine}

\* The lines at which the loop ends with an error: the limit is exceeded, or
\* bufio.ErrTooLong.  That limited.N is zero implies the first.
ReturnsAt(pieces, MaxScan) ==
  {i \in DOMAIN pieces : Bytes(pieces)[i] > MaxScan \/ pieces[i].len >= maxLine}

\* limitBytes, and the LimitedReader behind it.
Delivered(MaxScan, serverCuts) == IF serverCuts THEN MaxScan ELSE MaxScan + 1

First(S) == {i \in S : \A j \in S : i <= j}

\* For each marker the line it was found in, if any: found keeps the first.
scanPodLogMarkers(lines, MaxScan, serverCuts) ==
  LET pieces  == Pieces(lines, Delivered(MaxScan, serverCuts))
      scanned == {i \in DOMAIN pieces :
                    \A e \in ReturnsAt(pieces, MaxScan) : i < e}
  IN [m \in Markers |-> First({i \in scanned : m \in lines[i].marks})]

\* No marker's value is the beginning of a line that was cut, and a marker is found
\* in the first line that carries it when that line ends within the limit and no
\* line before it is too long for the scanner.
TakesWholeMarkers(lines, MaxScan, serverCuts) ==
  LET found    == scanPodLogMarkers(lines, MaxScan, serverCuts)
      carry(m) == {i \in DOMAIN lines : m \in lines[i].marks}
      fits(i)  == Bytes(lines)[i] <= MaxScan /\ \A j \in 1 .. i : lines[j].len < maxLine
  IN \A m \in Markers :
       /\ \A i \in found[m] : Bytes(lines)[i] - 1 <= Delivered(MaxScan, serverCuts)
       /\ \A i \in First(carry(m)) : fits(i) => found[m] = {i}

AllTakeWholeMarkers ==
  \A lines \in Logs, MaxScan \in ScanLimits, serverCuts \in BOOLEAN :
    TakesWholeMarkers(lines, MaxScan, serverCuts)
=============================================================================
