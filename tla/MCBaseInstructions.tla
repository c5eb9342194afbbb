------------------------- MODULE MCBaseInstructions -------------------------
EXTENDS BaseInstructions, TLC

CONSTANTS s1, s2, p1, p2

\* forkCount leaves count states (one for a count of 0) whose variable
\* takes the values 0 .. count - 1, one value each: the running state 0,
\* the state forked at iteration i the value i.
ASSUME \A n \in 0..MaxCount :
  LET r == ForkCountResult(n)
  IN  /\ Len(r[2]) = IF n = 0 THEN 0 ELSE n - 1
      /\ r[1] = {0}
      /\ \A i \in 1..Len(r[2]) : r[2][i] = {i}
=============================================================================
