------------------------------ MODULE CacheSim ------------------------------
(***************************************************************************)
(* The CacheSim plugin: per execution state, a hierarchy of n-way          *)
(* associative LRU caches (Cache), fed by the data accesses of             *)
(* onAfterSymbolicDataMemoryAccess and by the blocks of                    *)
(* onExecuteBlockStart, whose misses are written to the execution trace.   *)
(*                                                                         *)
(* The plugin state of a state is created on first use (factory, the      *)
(* CacheSimState constructor, which also connects the plugin's signal      *)
(* handlers) and copied at a fork (clone).  The handlers are connected by  *)
(* count: a signal calls a handler once per connection.                    *)
(***************************************************************************)
EXTENDS Integers, Sequences, SequencesExt, FiniteSets, TLC

CONSTANTS
  States,            \* execution states
  Caches,            \* names of the configured caches
  CacheOrder,        \* Caches as a sequence in name order (std::map order)
  Size, Assoc, LineSize, \* [Caches -> Nat]: the ".size", ".associativity", ".lineSize" keys
  UpperCfg,          \* [Caches -> Caches \cup {None}]: the ".upper" keys
  I1, D1,            \* the ".i1" and ".d1" keys, a cache or None
  None,              \* no cache
  ReportWholeSystem, ReportZeroMisses, ProfileModulesOnly, StartOnModuleLoad,
  HasDetector,       \* ModuleExecutionDetector is loaded
  InitState,         \* the state the analysis starts in
  Blocks,            \* translation blocks
  BlockPc, BlockSize, \* [Blocks -> Nat]: tb->pc and tb->size
  ModuleBlocks,      \* the blocks inside a configured module
  Addrs, Sizes,      \* data accesses: addresses and widths in bytes
  IdVals,            \* what an uninitialised uint8_t m_cacheId may hold
  TagVals,           \* the tags the accesses above can carry
  MaxConn            \* bound on the connections of one handler

\* The value of a line that holds nothing: (uint64_t) -1.
Invalid == -1

\* floorLog2, as the code computes it: halving by 16, 8, 4, 2, 1 bits.
FloorLog2(n) ==
  LET Step(acc, k) == IF acc.n >= 2^k THEN [n |-> acc.n \div 2^k, pos |-> acc.pos + k] ELSE acc
      r == FoldLeft(Step, [n |-> n, pos |-> 0], <<16, 8, 4, 2>>)
  IN  IF n = 0 THEN Invalid ELSE IF r.n >= 2 THEN r.pos + 1 ELSE r.pos

IsPow2(n) == n > 0 /\ 2^FloorLog2(n) = n

SetsCount(c) == (Size[c] \div LineSize[c]) \div Assoc[c]

\* The asserts of the Cache constructor.
ASSUME I1 \in Caches /\ D1 \in Caches

ASSUME \A c \in Caches : Size[c] > 0 /\ IsPow2(Assoc[c]) /\ IsPow2(LineSize[c]) /\ IsPow2(SetsCount(c))

IndexShift(c) == FloorLog2(LineSize[c])

\* Mutant: the tag taken above the line offset only, set bits included.
TagShiftNoSets(c) == IndexShift(c)

TagShift(c) == FloorLog2(SetsCount(c)) + IndexShift(c)

SetIdxOf(c) == 0..SetsCount(c) - 1

\* A fresh cache: setsCount * associativity invalid lines.
NewLines(c) == [j \in 1..SetsCount(c) * Assoc[c] |-> Invalid]

\* The lines of set i of a cache, most recently used first.
SetLines(v, c, i) == SubSeq(v, i * Assoc[c] + 1, i * Assoc[c] + Assoc[c])

\* v with the lines of set i replaced by w.
WithSet(v, c, i, w) ==
  [j \in DOMAIN v |-> IF j - i * Assoc[c] \in 1..Assoc[c] THEN w[j - i * Assoc[c]] ELSE v[j]]

\* F applied to the value of e, evaluated once.
LetBe(e, F(_)) == CHOOSE x \in {F(y) : y \in {e}} : TRUE

\* Mutant: a hit shifts the whole set down, as a miss does.
HitSetEvicts(w, i, tag) == <<tag>> \o SubSeq(w, 1, Len(w) - 1)

\* A hit in way i (1-based): the ways before it move down one, the tag
\* goes to the front.
HitSet(w, i, tag) == <<tag>> \o SubSeq(w, 1, i - 1) \o SubSeq(w, i + 1, Len(w))

\* A miss: every way moves down one, the last is dropped.
MissSet(w, tag) == <<tag>> \o SubSeq(w, 1, Len(w) - 1)

\* Cache::access on cache c of one plugin state: lines and upper are the
\* state's caches, k the index of c's counter in miss.  Returns the new
\* lines and counters; abort is the failed assert(misCountSize > 1).
RECURSIVE Access(_, _, _, _, _, _, _)
Access(lines, upper, c, addr, size, k, miss) ==
  LET s1 == addr \div 2^IndexShift(c)
      s2 == (addr + size - 1) \div 2^IndexShift(c)
  IN
  IF s1 # s2
  THEN LET size1 == LineSize[c] - (addr % LineSize[c])
       IN  LetBe(Access(lines, upper, c, addr, size1, k, miss), LAMBDA r :
             IF r.abort THEN r
             ELSE Access(r.lines, upper, c, (addr - (addr % LineSize[c])) + LineSize[c],
                         size - size1, k, r.miss))
  ELSE
  LET set == s1 % SetsCount(c)
      tag == addr \div 2^TagShift(c)
      w == SetLines(lines[c], c, set)
      i == SelectInSeq(w, LAMBDA t : t = tag)
  IN
  IF i # 0
  THEN [lines |-> [lines EXCEPT ![c] = WithSet(@, c, set, HitSet(w, i, tag))],
        miss |-> miss, abort |-> FALSE]
  ELSE LET lines2 == [lines EXCEPT ![c] = WithSet(@, c, set, MissSet(w, tag))]
           miss2 == [miss EXCEPT ![k] = @ + 1]
       IN  CASE upper[c] = None -> [lines |-> lines2, miss |-> miss2, abort |-> FALSE]
             [] k >= Len(miss) -> [lines |-> lines2, miss |-> miss2, abort |-> TRUE]
             [] OTHER -> Access(lines2, upper, upper[c], addr, size, k + 1, miss2)

-----------------------------------------------------------------------------
(* The plugin state of one execution state (CacheSimState).               *)

\* The length of the hierarchy above c (m_i1_length, m_d1_length).
RECURSIVE ChainLen(_, _)
ChainLen(upper, c) == IF c = None THEN 0 ELSE 1 + ChainLen(upper, upper[c])

\* The CacheSimState constructor: the caches of the configuration, their
\* upper links, i1 and d1.  m_cacheId is never initialised: ids is what the
\* memory happens to hold.
NewState(ids) ==
  [lines |-> [c \in Caches |-> NewLines(c)], upper |-> UpperCfg, id |-> ids,
   i1 |-> I1, d1 |-> D1, i1len |-> ChainLen(UpperCfg, I1), d1len |-> ChainLen(UpperCfg, D1)]

\* CacheSimState::clone: the copy constructor clears every upper link,
\* then for each cache c of the old state with an upper cache u, the new
\* u is made the upper cache of the new u itself.  (m_d1->getName() and
\* m_i1->getName() dereference NULL in a configuration without d1 or i1;
\* the model configures both.)
Clone(p) ==
  [p EXCEPT !.upper = [c \in Caches |-> IF \E o \in Caches : p.upper[o] = c THEN c ELSE None]]

-----------------------------------------------------------------------------
(* The handlers, as operators on g = [plg, conn, log, aborted]: plg maps  *)
(* the states that have a plugin state to it; conn counts the handler     *)
(* connections; log is what the trace has received.                      *)

\* The constructor's signal plumbing: the connections made by initialize
\* (the "trick") are dropped, then either the module handler or the two
\* access handlers are connected.  m_ModuleConnection only remembers the
\* latest module connection.
Factory(g, s, ids) ==
  LET c0 == g.conn
      c1 == [c0 EXCEPT !.data = @ - (IF c0.dataTrick THEN 1 ELSE 0), !.dataTrick = FALSE,
                       !.tb = @ - (IF c0.tbTrick THEN 1 ELSE 0), !.tbTrick = FALSE]
      c2 == IF HasDetector /\ StartOnModuleLoad
            THEN [c1 EXCEPT !.mod = @ + 1, !.modTracked = TRUE]
            ELSE [c1 EXCEPT !.data = @ + (IF D1 # None THEN 1 ELSE 0),
                            !.tb = @ + (IF I1 # None THEN 1 ELSE 0)]
  IN  [g EXCEPT !.plg = @ @@ (s :> NewState(ids)), !.conn = c2]

\* DECLARE_PLUGINSTATE: the state's plugin state, made by factory if none.
EnsureState(g, s, ids) == IF s \in DOMAIN g.plg THEN g ELSE Factory(g, s, ids)

\* writeCacheDescriptionToLog: once for the whole plugin, numbers the caches
\* of the current state in name order and logs each cache's id and the id
\* of its upper cache.
WriteCacheDescriptionToLog(g, s) ==
  IF g.log.written THEN g
  ELSE LET ids == [c \in Caches |-> SelectInSeq(CacheOrder, LAMBDA x : x = c) - 1]
           up == g.plg[s].upper
       IN  [g EXCEPT !.plg[s].id = ids, !.log.written = TRUE, !.log.descId = ids,
                     !.log.descUpper = [c \in Caches |-> IF up[c] = None THEN None ELSE ids[up[c]]]]

ProfileAccess(inModule) == ReportWholeSystem \/ ~(HasDetector /\ ProfileModulesOnly) \/ inModule
ReportAccess(inModule) == ReportWholeSystem \/ (HasDetector /\ inModule)

\* The trace entries of one access: up the hierarchy from c, one per level
\* with misses (or every level, with reportZeroMisses), up to the first
\* level that hit.
RECURSIVE Entries(_, _, _, _, _)
Entries(p, c, i, miss, addr) ==
  IF c = None \/ i > Len(miss) THEN <<>>
  ELSE (IF ReportZeroMisses \/ miss[i] # 0
        THEN <<[cache |-> c, cacheId |-> p.id[c], missCount |-> miss[i], address |-> addr]>>
        ELSE <<>>)
       \o (IF miss[i] = 0 THEN <<>> ELSE Entries(p, p.upper[c], i + 1, miss, addr))

\* CacheSim::onMemoryAccess.
OnMemoryAccess(g, s, addr, size, isIO, isCode, inModule, ids) ==
  IF isIO THEN g
  ELSE LetBe(EnsureState(g, s, ids), LAMBDA g1 :
       IF ~ProfileAccess(inModule) THEN g1
       ELSE LET cache == IF isCode THEN g1.plg[s].i1 ELSE g1.plg[s].d1 IN
       IF cache = None THEN g1
       ELSE LetBe(WriteCacheDescriptionToLog(g1, s), LAMBDA g2 :
            LET p == g2.plg[s]
                len == IF isCode THEN p.i1len ELSE p.d1len
            IN  LetBe(Access(p.lines, p.upper, cache, addr, size, 1, [i \in 1..len |-> 0]), LAMBDA r :
                IF r.abort THEN [g2 EXCEPT !.aborted = TRUE]
                ELSE LET g3 == [g2 EXCEPT !.plg[s].lines = r.lines]
                     IN  IF ~ReportAccess(inModule) THEN g3
                         ELSE [g3 EXCEPT !.log.entries = @ \o Entries(p, cache, 1, r.miss, addr)])))

\* CacheSim::onModuleTranslateBlockStart.
OnModuleTranslateBlockStart(g, s, ids) ==
  LetBe(EnsureState(g, s, ids), LAMBDA g1 :
    LET p == g1.plg[s] IN
    [g1 EXCEPT !.conn.data = @ + (IF p.d1 # None THEN 1 ELSE 0),
               !.conn.tb = @ + (IF p.i1 # None THEN 1 ELSE 0),
               !.conn.mod = @ - (IF g1.conn.modTracked THEN 1 ELSE 0),
               !.conn.modTracked = FALSE])

\* A handler called n times by one emission of its signal.
Repeat(g, n, H(_)) == FoldLeft(LAMBDA x, i : H(x), g, [i \in 1..n |-> i])

-----------------------------------------------------------------------------
(* The plugin in a running engine.  initialize's first line is             *)
(* assert(false): the model is of a build with NDEBUG, where the plugin    *)
(* loads.                                                                  *)

VARIABLES
  alive,    \* the execution states that exist
  plg,      \* state -> its CacheSimState, for the states that have one
  conn,     \* connections of onAfterSymbolicDataMemoryAccess (data),
            \* onTranslateBlockStart (tb), onModuleTranslateBlockStart (mod)
  tbConn,   \* block -> onExecuteBlockStart connections of its translation
  log,      \* the cache description, and the entries of the last step
  aborted   \* an assert failed or NULL was dereferenced

vars == <<alive, plg, conn, tbConn, log, aborted>>

\* The ids a step may find in new caches: uninitialised memory when the
\* step creates the plugin state of s, irrelevant otherwise.
FreshIds(s) == IF s \in DOMAIN plg THEN {[c \in Caches |-> None]} ELSE [Caches -> IdVals]

\* The plugin's variables as a handler sees them at the start of a step.
G == [plg |-> plg, conn |-> conn, log |-> [log EXCEPT !.entries = <<>>], aborted |-> aborted]

Set(g) ==
  /\ plg' = g.plg /\ conn' = g.conn /\ log' = g.log /\ aborted' = g.aborted
  /\ g.conn.data <= MaxConn /\ g.conn.tb <= MaxConn /\ g.conn.mod <= MaxConn

\* CacheSim::initialize: the trick connections, nothing written yet.
Init ==
  /\ alive = {InitState}
  /\ plg = <<>>
  /\ conn = [data |-> 1, dataTrick |-> TRUE, tb |-> 1, tbTrick |-> TRUE, mod |-> 0, modTracked |-> FALSE]
  /\ tbConn = [b \in Blocks |-> 0]
  /\ log = [written |-> FALSE, descId |-> [c \in Caches |-> None],
            descUpper |-> [c \in Caches |-> None], entries |-> <<>>]
  /\ aborted = FALSE

\* A data access with a concrete host address: onAfterSymbolicDataMemoryAccess,
\* once per connection.  (A symbolic address changes nothing.)
DataAccess(s, addr, size, isIO) ==
  /\ s \in alive /\ ~aborted /\ conn.data > 0
  /\ \E inModule \in BOOLEAN, ids \in FreshIds(s) :
       Set(Repeat(G, conn.data, LAMBDA g : OnMemoryAccess(g, s, addr, size, isIO, FALSE, inModule, ids)))
  /\ UNCHANGED <<alive, tbConn>>

\* A block is translated in state s: the module detector's
\* onModuleTranslateBlockStart for a module block, and CacheSim's
\* onTranslateBlockStart, which connects onExecuteBlockStart to the block
\* once per connection of its own.
TranslateBlock(s, b) ==
  /\ s \in alive /\ ~aborted
  /\ \E ids \in FreshIds(s) :
       Set(IF HasDetector /\ b \in ModuleBlocks
           THEN Repeat(G, conn.mod, LAMBDA g : OnModuleTranslateBlockStart(g, s, ids))
           ELSE G)
  /\ tbConn' = [tbConn EXCEPT ![b] = conn.tb]
  /\ UNCHANGED alive

\* A translated block runs in state s: onExecuteBlockStart, once per
\* connection, an instruction fetch of tb->size bytes at its pc.
ExecuteBlock(s, b) ==
  /\ s \in alive /\ ~aborted /\ tbConn[b] > 0
  /\ \E ids \in FreshIds(s) :
       Set(Repeat(G, tbConn[b], LAMBDA g :
             OnMemoryAccess(g, s, BlockPc[b], BlockSize[b], FALSE, TRUE, b \in ModuleBlocks, ids)))
  /\ UNCHANGED <<alive, tbConn>>

\* State s forks t: its plugin state, if it has one, is cloned.
Fork(s, t) ==
  /\ s \in alive /\ t \notin alive /\ ~aborted
  /\ alive' = alive \cup {t}
  /\ log' = [log EXCEPT !.entries = <<>>]
  /\ plg' = IF s \in DOMAIN plg THEN plg @@ (t :> Clone(plg[s])) ELSE plg
  /\ UNCHANGED <<conn, tbConn, aborted>>

Next ==
  \E s \in States :
    \/ \E a \in Addrs, z \in Sizes, io \in BOOLEAN : DataAccess(s, a, z, io)
    \/ \E b \in Blocks : TranslateBlock(s, b) \/ ExecuteBlock(s, b)
    \/ \E t \in States : Fork(s, t)

Spec == Init /\ [][Next]_vars

-----------------------------------------------------------------------------
(* Properties.                                                            *)

TypeOK ==
  /\ alive \subseteq States /\ InitState \in alive
  /\ DOMAIN plg \subseteq alive
  /\ \A s \in DOMAIN plg :
       /\ \A c \in Caches : Len(plg[s].lines[c]) = SetsCount(c) * Assoc[c]
                            /\ Range(plg[s].lines[c]) \subseteq TagVals \cup {Invalid}
       /\ plg[s].upper \in [Caches -> Caches \cup {None}]
  /\ conn.data \in 0..MaxConn /\ conn.tb \in 0..MaxConn /\ conn.mod \in 0..MaxConn
  /\ tbConn \in [Blocks -> 0..MaxConn]
  /\ log.written \in BOOLEAN /\ aborted \in BOOLEAN

\* The sets of every state's caches, read as the abstract LRU cache: the
\* valid lines of each set, in way order.
Recency ==
  [s \in States |-> [c \in Caches |-> [i \in SetIdxOf(c) |->
     IF s \in DOMAIN plg
     THEN SelectSeq(SetLines(plg[s].lines[c], c, i), LAMBDA t : t # Invalid)
     ELSE <<>>]]]

LRU == INSTANCE LruCache WITH recency <- Recency, SetIdx <- [c \in Caches |-> SetIdxOf(c)],
                             Tags <- TagVals

\* Cache::access, with its line splitting, the way shifting of a hit and of
\* a miss over the flat m_lines vector and the recursion into upper caches,
\* cloning and repeated handler calls included, keeps each set an LRU
\* list: the distinct most recently used tags, most recent first.
LruRefinement == LRU!Spec

\* A miss in a cache that has an upper cache is passed on to it: the
\* trace of an access (with reportZeroMisses) holds an entry for the upper
\* cache of every level that missed.
MissesReachUpperCache ==
  \A i \in DOMAIN log.entries :
    log.entries[i].missCount > 0 /\ UpperCfg[log.entries[i].cache] # None =>
      \E j \in DOMAIN log.entries : log.entries[j].cache = UpperCfg[log.entries[i].cache]

\* Every cache entry of the trace names its cache by the id that the cache
\* description (writeCacheDescriptionToLog) gave it.
EntriesNameDescribedCaches ==
  \A i \in DOMAIN log.entries :
    log.entries[i].cacheId = log.descId[log.entries[i].cache]

=============================================================================
