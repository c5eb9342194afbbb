--------------------------- MODULE MCTBCoverage ----------------------------
EXTENDS TBCoverage, TLC

CONSTANTS ta1, ta2, tb1

MCModuleOf == (ta1 :> "ma") @@ (ta2 :> "ma") @@ (tb1 :> "mb")

\* The modules' coverage maps over two modules and two blocks.
MCModuleTBs == UNION {[D -> SUBSET TBs] : D \in SUBSET Modules}

\* mergeCoverage returns true exactly when it changes dest, and the merged
\* map is the union of the two.
ASSUME \A d, src \in MCModuleTBs :
  LET r == MergeCoverage(d, src)
  IN  /\ r.ret = (r.dest # d)
      /\ DOMAIN r.dest = DOMAIN d \cup DOMAIN src
      /\ \A m \in DOMAIN r.dest :
           r.dest[m] = (IF m \in DOMAIN d THEN d[m] ELSE {}) \cup (IF m \in DOMAIN src THEN src[m] ELSE {})
\* The two blocks of module ma are interchangeable.
MCSymmetry == Permutations({ta1, ta2})
============================================================================
