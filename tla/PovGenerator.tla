---------------------------- MODULE PovGenerator ----------------------------
(***************************************************************************)
(* The PoV generator plugin (POVGenerator.cpp): every execution state      *)
(* carries a log of PoV entries (POVGeneratorState), appended to by the    *)
(* CGCMonitor events and by onStateFork, and cloned when the state forks.  *)
(* generatePoV solves the constraints, unmerges selects into the state's   *)
(* constraints, matches nonce pairs and renders the log.  Rendering is     *)
(* text; the model keeps what it is made from: the solution, the remapping *)
(* and the log.                                                            *)
(***************************************************************************)
EXTENDS PovExpr

CONSTANTS
  States,   \* 1..MaxStates: execution states, 1 is the initial one
  MaxIO,    \* bound on the concrete-read and transmit entries of one log
  Conds,    \* conditions the program may branch on
  Options,  \* PovOptions a recipe may hand over: [extras, remap]
  Roles,    \* names a recipe's NEGOTIABLE bytes are remapped to
  Seeds     \* concrete inputs the initial state may follow

VARIABLES
  alive,      \* states created so far
  log,        \* POVGeneratorState::m_entries of each state
  cons,       \* state->constraints, as a set
  concolics,  \* *state->concolics: the concrete inputs the state follows
  created,    \* the symbolic arrays a state has created
  pov         \* the PoV the last step generated, or NoPov

vars == <<alive, log, cons, concolics, created, pov>>

NoPov == [made |-> FALSE]

\* The entries: POVEntryWrite of a symbolic input byte or of concrete
\* data (the CB reads), POVEntryRead (the CB transmits), POVRandom, POVFork.
WriteEntry(a) == [t |-> "write", arr |-> a]
ConcreteEntry == [t |-> "cwrite"]
ReadEntry(e) == [t |-> "read", data |-> e]
RandomEntry(a) == [t |-> "random", arr |-> a]
ForkEntry(c) == [t |-> "fork", cond |-> c]

\* The entries of a log that carry no symbolic byte of their own.
IOCount(l) == Cardinality({i \in DOMAIN l : l[i].t \in {"cwrite", "read"}})

Fresh(s, kind) == {a \in Arrays \ created[s] : ArrayKind[a] = kind}

\* The symbolic byte the engine creates next in s for a read or random.
NewArray(s, kind) == Min(Fresh(s, kind))

\* POVGenerator::onSymbolicRead, for a tracked pid and a non-empty read.
OnSymbolicRead(s) ==
  /\ Fresh(s, "receive") # {}
  /\ created' = [created EXCEPT ![s] = @ \cup {NewArray(s, "receive")}]
  /\ log' = [log EXCEPT ![s] = Append(@, WriteEntry(NewArray(s, "receive")))]
  /\ UNCHANGED <<alive, cons, concolics>>
  /\ pov' = NoPov

\* POVGenerator::onRandom
OnRandom(s) ==
  /\ Fresh(s, "random") # {}
  /\ created' = [created EXCEPT ![s] = @ \cup {NewArray(s, "random")}]
  /\ log' = [log EXCEPT ![s] = Append(@, RandomEntry(NewArray(s, "random")))]
  /\ UNCHANGED <<alive, cons, concolics>>
  /\ pov' = NoPov

\* POVGenerator::onConcreteRead, non-empty data.
OnConcreteRead(s) ==
  /\ IOCount(log[s]) < MaxIO
  /\ log' = [log EXCEPT ![s] = Append(@, ConcreteEntry)]
  /\ UNCHANGED <<alive, cons, concolics, created>>
  /\ pov' = NoPov

\* POVGenerator::onWrite: the CB transmits a byte it holds.
OnWrite(s, e) ==
  /\ IOCount(log[s]) < MaxIO
  /\ log' = [log EXCEPT ![s] = Append(@, ReadEntry(e))]
  /\ UNCHANGED <<alive, cons, concolics, created>>
  /\ pov' = NoPov

\* onStateFork's entry for one new state: its own condition x, when the
\* conditions read both random and receive bytes and the module is known.
ForkLog(l, c, x, inModule) ==
  IF Collect(c).receive # {} /\ Collect(c).random # {} /\ inModule
  THEN Append(l, ForkEntry(x)) ELSE l

\* Mutant: the new state's log records the side the forking state keeps.
OnStateForkSameSide(s, c, inModule) ==
  /\ ReadsOf(c) \subseteq created[s]
  /\ States \ alive # {}
  /\ Models(cons[s] \cup {c}) # {} /\ Models(cons[s] \cup {Not(c)}) # {}
  /\ LET t == Min(States \ alive)
         keep == IF Eval(c, concolics[s]) THEN c ELSE Not(c)
         other == IF Eval(c, concolics[s]) THEN Not(c) ELSE c
     IN  /\ alive' = alive \cup {t}
         /\ cons' = [cons EXCEPT ![s] = @ \cup {keep}, ![t] = cons[s] \cup {other}]
         /\ log' = [log EXCEPT ![s] = ForkLog(log[s], c, keep, inModule),
                                ![t] = ForkLog(log[s], c, keep, inModule)]
         /\ created' = [created EXCEPT ![t] = created[s]]
         /\ \E m \in Models(cons[s] \cup {other}) : concolics' = [concolics EXCEPT ![t] = m]
  /\ pov' = NoPov

\* The engine forks s on c into s and a new state t; s keeps the side its
\* concolic inputs take.  The plugin state is cloned into t, then
\* onStateFork logs the fork in both.
OnStateFork(s, c, inModule) ==
  /\ ReadsOf(c) \subseteq created[s]
  /\ States \ alive # {}
  /\ Models(cons[s] \cup {c}) # {} /\ Models(cons[s] \cup {Not(c)}) # {}
  /\ LET t == Min(States \ alive)
         keep == IF Eval(c, concolics[s]) THEN c ELSE Not(c)
         other == IF Eval(c, concolics[s]) THEN Not(c) ELSE c
     IN  /\ alive' = alive \cup {t}
         /\ cons' = [cons EXCEPT ![s] = @ \cup {keep}, ![t] = cons[s] \cup {other}]
         /\ log' = [log EXCEPT ![s] = ForkLog(log[s], c, keep, inModule),
                                ![t] = ForkLog(log[s], c, other, inModule)]
         /\ created' = [created EXCEPT ![t] = created[s]]
         /\ \E m \in Models(cons[s] \cup {other}) : concolics' = [concolics EXCEPT ![t] = m]
  /\ pov' = NoPov

\* solveConstraints: a model of the path and the extra constraints from
\* the solver, or the concolic inputs when there are no extras.
SolveConstraints(s, opt) ==
  IF opt.extras # {} THEN Models(cons[s] \cup opt.extras) ELSE {concolics[s]}

\* POVGenerator::generatePoV(state, opt, xmlPov, cPov), run by onPovReady.
\* unmergeSelects adds to state->constraints before matchNoncePairs, whose
\* failure returns without a PoV.  A solver failure returns with nothing
\* changed, a step the model leaves out.
GeneratePoV(s, opt) ==
  /\ \E sol \in SolveConstraints(s, opt) :
     \E C \in {UnmergeSelects(cons[s], sol)} :
     \E m \in {MatchNoncePairs(C, opt.remap)} :
       /\ cons' = [cons EXCEPT ![s] = C]
       /\ pov' = IF m.ok THEN [st |-> s, sol |-> sol, remap |-> m.remap, cons |-> C] ELSE NoPov
  /\ UNCHANGED <<alive, log, concolics, created>>

Init ==
  /\ alive = {1}
  /\ log = [s \in States |-> <<>>]
  /\ cons = [s \in States |-> {}]
  /\ \E m \in Seeds : concolics = [s \in States |-> m]
  /\ created = [s \in States |-> {}]
  /\ pov = NoPov

Next ==
  \E s \in alive :
    \/ OnSymbolicRead(s)
    \/ OnRandom(s)
    \/ OnConcreteRead(s)
    \/ \E e \in {Read(a) : a \in created[s]} \cup {CB(0)} : OnWrite(s, e)
    \/ \E c \in Conds, inModule \in BOOLEAN : OnStateFork(s, c, inModule)
    \/ \E opt \in Options : GeneratePoV(s, opt)

Spec == Init /\ [][Next]_vars

-----------------------------------------------------------------------------
(* Properties.                                                            *)

Entries ==
  {WriteEntry(a) : a \in Arrays} \cup {ConcreteEntry} \cup {RandomEntry(a) : a \in Arrays}
    \cup {ReadEntry(e) : e \in {Read(a) : a \in Arrays} \cup {CB(0)}}
    \cup {ForkEntry(x) : x \in Conds \cup {Not(c) : c \in Conds}}

\* A PoV's remapping sends a receive byte to a random byte (a nonce pair)
\* or to a negotiated role (from the recipe); the logs hold entries only.
TypeOK ==
  /\ 1 \in alive /\ alive \subseteq States
  /\ \A s \in States :
       /\ Range(log[s]) \subseteq Entries /\ IOCount(log[s]) <= MaxIO
       /\ concolics[s] \in Assignments
       /\ created[s] \subseteq Arrays
  /\ pov # NoPov =>
       /\ pov.st \in alive /\ pov.sol \in Assignments
       /\ \A a \in DOMAIN pov.remap :
            IsReceive(a) /\ pov.remap[a] \in Roles \cup {r \in Arrays : IsRandom(r)}

\* The input the PoV sends when the CB's random bytes are those solved
\* for: a remapped receive byte carries its random byte's value (the <var>
\* of POVEntryWrite::getString), every other byte its solved value.
Replayed(sol, remap) ==
  [a \in Arrays |-> IF a \in DOMAIN remap /\ remap[a] \in Arrays THEN sol[remap[a]] ELSE sol[a]]

\* Nonce matching only pairs bytes the constraints force to be equal:
\* every constraint the PoV's solution satisfies still holds when the
\* PoV echoes the random bytes in place of the remapped receive bytes.
RemapPreservesPath ==
  pov # NoPov =>
    \A c \in pov.cons : Eval(c, pov.sol) => Eval(c, Replayed(pov.sol, pov.remap))

\* Every POVFork entry of a rendered PoV evaluates to true under its
\* solution (the outcome=1 of POVFork::getXmlString): the log cloned on a
\* fork records the side each state took.
ForkOutcomesFollowPath ==
  pov # NoPov =>
    \A i \in DOMAIN log[pov.st] :
      log[pov.st][i].t = "fork" => Eval(log[pov.st][i].cond, pov.sol)

\* A state's concolic inputs satisfy its constraints, the precondition
\* unmergeSelects states for the assignment generatePoV uses when a recipe
\* gives no extra constraints.
ConcolicsFollowPath ==
  \A s \in alive : concolics[s] \in Models(cons[s])

=============================================================================
