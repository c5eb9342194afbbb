----------------------------- MODULE TBCoverage -----------------------------
(***************************************************************************)
(* The TranslationBlockCoverage plugin.  Each execution state carries the  *)
(* blocks translated in it, per module (TBCoverageState, cloned at a       *)
(* fork); each S2E process keeps the blocks it has seen (m_localCoverage)  *)
(* and the states that found one first (m_newBlockStates); the processes   *)
(* share a coverage bitmap (m_globalCoverage), taken under its lock, and   *)
(* onNewBlockCovered is emitted for a block new to the process and to the  *)
(* bitmap.  A process is forked from another with a copy of its memory and *)
(* a share of its states; each removes the states it gave away.            *)
(*                                                                         *)
(* The bitmap's class is not among these sources: it is taken to record a  *)
(* block as one unit, and setCovered to report whether it was recorded.    *)
(***************************************************************************)
EXTENDS FiniteSets, FiniteSetsExt, Functions

CONSTANTS
  Procs,         \* S2E processes
  InitProc,      \* the first process
  States,        \* execution states
  InitState,     \* the state the first process starts with
  Modules,       \* module names
  IdModules,     \* the modules getModuleId finds an index for
  TBs,           \* translation blocks, as model values
  ModuleOf       \* the module each block lies in

VARIABLES
  running,        \* the processes that exist
  alive,          \* process -> the states it runs
  coverage,       \* state -> module -> blocks (TBCoverageState::coverage)
  localCoverage,  \* process -> module -> blocks (m_localCoverage)
  newBlockStates, \* process -> states (m_newBlockStates)
  tbCache,        \* process -> the blocks its translator has cached
  bitmap,         \* module -> blocks recorded in the shared bitmap
  emitted         \* module -> block -> onNewBlockCovered emissions

vars == <<running, alive, coverage, localCoverage, newBlockStates, tbCache, bitmap, emitted>>

NoBlocks == [m \in Modules |-> {}]

Init ==
  /\ running = {InitProc}
  /\ alive = [p \in Procs |-> IF p = InitProc THEN {InitState} ELSE {}]
  /\ coverage = [s \in States |-> NoBlocks]
  /\ localCoverage = [p \in Procs |-> NoBlocks]
  /\ newBlockStates = [p \in Procs |-> {}]
  /\ tbCache = [p \in Procs |-> {}]
  /\ bitmap = NoBlocks
  /\ emitted = [m \in Modules |-> [b \in TBs |-> 0]]

\* Mutant: every translated block counts as new.
IsNewBlockAlways(p, m, b) == TRUE

\* Mutant: a block counts as new only in a module the process never saw.
IsNewBlockModuleOnly(p, m, b) == localCoverage[p][m] = {}

\* newBlock: m_localCoverage has no entry for the module, or the entry
\* lacks the block.
IsNewBlock(p, m, b) == b \notin localCoverage[p][m]

\* Mutant: the bitmap's answer ignored.
MustSignalNoBitmap(newBlock, wasCovered) == newBlock

\* onNewBlockCovered is emitted for a block new to the process that the
\* bitmap had not recorded.
MustSignal(newBlock, wasCovered) == newBlock /\ ~wasCovered

\* onModuleTranslateBlockComplete: block b of module m translated in state
\* s of process p (the translator only translates a block it has not
\* cached).
OnModuleTranslateBlockComplete(p, s, m, b) ==
  /\ s \in alive[p] /\ b \notin tbCache[p]
  /\ tbCache' = [tbCache EXCEPT ![p] = @ \cup {b}]
  /\ coverage' = [coverage EXCEPT ![s][m] = @ \cup {b}]
  /\ LET newBlock == IsNewBlock(p, m, b)
         hasId == m \in IdModules
         wasCovered == hasId /\ b \in bitmap[m]
     IN  /\ bitmap' = IF hasId THEN [bitmap EXCEPT ![m] = @ \cup {b}] ELSE bitmap
         /\ localCoverage' = IF newBlock THEN [localCoverage EXCEPT ![p][m] = @ \cup {b}]
                             ELSE localCoverage
         /\ newBlockStates' = IF newBlock THEN [newBlockStates EXCEPT ![p] = @ \cup {s}]
                              ELSE newBlockStates
         /\ emitted' = IF MustSignal(newBlock, wasCovered)
                       THEN [emitted EXCEPT ![m][b] = @ + 1] ELSE emitted
  /\ UNCHANGED <<running, alive>>

\* The translation cache of process p is flushed.
FlushTbCache(p) ==
  /\ p \in running /\ tbCache[p] # {}
  /\ tbCache' = [tbCache EXCEPT ![p] = {}]
  /\ UNCHANGED <<running, alive, coverage, localCoverage, newBlockStates, bitmap, emitted>>

\* State s of process p forks t: the plugin state is cloned.
ForkState(p, s, t) ==
  /\ s \in alive[p] /\ t \notin UNION {alive[q] : q \in Procs}
  /\ alive' = [alive EXCEPT ![p] = @ \cup {t}]
  /\ coverage' = [coverage EXCEPT ![t] = coverage[s]]
  /\ UNCHANGED <<running, localCoverage, newBlockStates, tbCache, bitmap, emitted>>

\* onUpdateStates: the removed states leave m_newBlockStates.
RemoveStates(p, R) ==
  /\ alive' = [alive EXCEPT ![p] = @ \ R]
  /\ newBlockStates' = [newBlockStates EXCEPT ![p] = @ \ R]

\* State s of process p is killed, and its plugin state deleted with it.
KillState(p, s) ==
  /\ s \in alive[p] /\ alive[p] # {s}
  /\ RemoveStates(p, {s})
  /\ coverage' = [coverage EXCEPT ![s] = NoBlocks]
  /\ UNCHANGED <<running, localCoverage, tbCache, bitmap, emitted>>

\* Process p forks q, which keeps the states A: q starts with a copy of
\* p's plugin, and onUpdateStates then erases, in each process, the states
\* it gave away.
ForkProcess(p, q, A) ==
  /\ p \in running /\ q \notin running
  /\ A \subseteq alive[p] /\ A # {} /\ A # alive[p]
  /\ running' = running \cup {q}
  /\ alive' = [alive EXCEPT ![p] = @ \ A, ![q] = A]
  /\ newBlockStates' = [newBlockStates EXCEPT ![p] = @ \ A, ![q] = newBlockStates[p] \ (alive[p] \ A)]
  /\ localCoverage' = [localCoverage EXCEPT ![q] = localCoverage[p]]
  /\ tbCache' = [tbCache EXCEPT ![q] = tbCache[p]]
  /\ UNCHANGED <<coverage, bitmap, emitted>>

Next ==
  \/ \E p \in Procs, s \in States, b \in TBs :
       OnModuleTranslateBlockComplete(p, s, ModuleOf[b], b)
  \/ \E p \in Procs : FlushTbCache(p)
  \/ \E p \in Procs, s, t \in States : ForkState(p, s, t) \/ KillState(p, s)
  \/ \E p, q \in Procs, A \in SUBSET States : ForkProcess(p, q, A)

Spec == Init /\ [][Next]_vars

\* mergeCoverage(dest, source): a ModuleTBs is a function from the modules
\* it has an entry for; the result is the merged map and whether the call
\* returned true (a module new to dest, or a module whose count grew).
MergeCoverage(dest, source) ==
  LET Step(mod, acc) ==
        LET d == acc.dest
            prev == IF mod \in DOMAIN d THEN d[mod] ELSE {}
            nd == [x \in DOMAIN d \cup {mod} |-> IF x = mod THEN prev \cup source[mod] ELSE d[x]]
        IN  [dest |-> nd,
             ret |-> acc.ret \/ mod \notin DOMAIN d \/ Cardinality(prev) < Cardinality(nd[mod])]
  IN  FoldSet(Step, [dest |-> dest, ret |-> FALSE], DOMAIN source)

TypeOK ==
  /\ running \subseteq Procs /\ InitProc \in running
  /\ alive \in [Procs -> SUBSET States]
  /\ coverage \in [States -> [Modules -> SUBSET TBs]]
  /\ localCoverage \in [Procs -> [Modules -> SUBSET TBs]]
  /\ newBlockStates \in [Procs -> SUBSET States]
  /\ tbCache \in [Procs -> SUBSET TBs]
  /\ bitmap \in [Modules -> SUBSET TBs]
  /\ emitted \in [Modules -> [TBs -> 0..Cardinality(Procs)]]

\* The blocks a live state has translated, including those it inherited
\* from the state it was forked from, are all in its process's
\* m_localCoverage, which a forked process inherits.
LocalCoversStates ==
  \A p \in running : \A s \in alive[p] : \A m \in Modules :
    coverage[s][m] \subseteq localCoverage[p][m]

\* For a module with an id, onNewBlockCovered is emitted exactly once for
\* each block the shared bitmap records, whichever processes translated it
\* and in what order.
NewBlockSignalledOnce ==
  \A m \in IdModules : \A b \in TBs :
    emitted[m][b] = IF b \in bitmap[m] THEN 1 ELSE 0

=============================================================================
