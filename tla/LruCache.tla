------------------------------ MODULE LruCache ------------------------------
(***************************************************************************)
(* What an n-way associative LRU cache promises, per execution state:      *)
(* every set holds the most recently used distinct tags of that set, most  *)
(* recent first, at most Assoc[c] of them.  A step of one state accesses   *)
(* each set of its caches with some tags; a fork gives the new             *)
(* state a copy of the old one's sets; a state that starts its own caches  *)
(* starts them empty.                                                      *)
(***************************************************************************)
EXTENDS Integers, Sequences, SequencesExt, Functions

CONSTANTS
  States,      \* execution states
  Caches,      \* cache names
  SetIdx,      \* [Caches -> set of set indices]
  Assoc,       \* [Caches -> associativity]
  Tags         \* tags an access may carry

VARIABLE recency  \* [States -> [c \in Caches -> [SetIdx[c] -> Seq(Tags)]]]

\* A set r of associativity a after accesses whose distinct tags, most
\* recent first, are p: the tags of p, then the tags of r not accessed in
\* their old order, as many as fit.  (Accessing p's tags from last to
\* first gives it; any sequence of accesses gives it for some p.)
AfterAccesses(a, r, p) ==
  LET s == p \o SelectSeq(r, LAMBDA x : x \notin Range(p))
  IN  SubSeq(s, 1, IF Len(s) > a THEN a ELSE Len(s))

Empty == [c \in Caches |-> [i \in SetIdx[c] |-> <<>>]]

Init == recency = [s \in States |-> Empty]

\* State s accesses its caches: every set of them goes from old to new.
Use(old, new, s) ==
  /\ \A c \in Caches : \A i \in SetIdx[c] :
       LET r2 == new[s][c][i]
       IN  /\ IsInjective(r2) /\ Range(r2) \subseteq Tags
           /\ \E k \in 0..Len(r2) : r2 = AfterAccesses(Assoc[c], old[s][c][i], SubSeq(r2, 1, k))
  /\ \A u \in States \ {s} : new[u] = old[u]

\* State t is forked from s.
Copy(old, new, s, t) == new = [old EXCEPT ![t] = old[s]]

Next ==
  LET old == recency
      new == recency'
  IN  \E s \in States : Use(old, new, s) \/ \E t \in States : Copy(old, new, s, t)

Spec == Init /\ [][Next]_recency

=============================================================================
