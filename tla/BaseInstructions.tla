--------------------------- MODULE BaseInstructions ---------------------------
(***************************************************************************)
(* The BaseInstructions plugin: the custom instructions (s2e_op) a guest    *)
(* may execute, and, with the "restrict" option, the gate that lets only    *)
(* registered processes execute them.  The gate is decided when a block is *)
(* translated (onTranslateBlockStart sets g_s2e_allow_custom_instructions, *)
(* which the translator reads when it meets a custom instruction), and the  *)
(* translated block is kept in the translation cache, which every execution *)
(* state shares.  The set of registered pids is per state                  *)
(* (BaseInstructionsState, cloned at a fork).                              *)
(*                                                                         *)
(* The guest is abstracted to the process each state runs (the pid         *)
(* OSMonitor::getPid returns) and whether it runs kernel code; a block is   *)
(* the kernel's code or a process's user code.  The opcodes that only read  *)
(* or write guest data are one action that changes nothing modelled here.  *)
(***************************************************************************)
EXTENDS Naturals, FiniteSets, Sequences

CONSTANTS
  States,     \* execution states
  InitState,  \* the state the guest boots in
  Pids,       \* guest processes
  Kernel,     \* the block of kernel code (isKernelAddress)
  NoFlag,     \* a block that is not in the translation cache
  Restrict,   \* the "restrict" configuration key
  MaxCount,   \* the largest count s2e_fork_count is given
  NoOp        \* no custom instruction in the step

ASSUME Kernel \notin Pids /\ NoOp \notin States /\ Restrict \in BOOLEAN

VARIABLES
  live,       \* the execution states that exist
  cur,        \* the state that runs
  proc,       \* state -> the guest process it runs
  inKernel,   \* state -> it runs kernel code
  allowed,    \* state -> BaseInstructionsState::m_allowedPids
  allowFlag,  \* g_s2e_allow_custom_instructions
  tbFlag,     \* block -> the flag its cached translation was made with
  atomic,     \* state -> setStateSwitchForbidden
  forkVals,   \* state -> the values its s2e_fork_count variable may take
  halted,     \* the S2E process has exited (exit(-1))
  lastOp      \* <<state, block>> of the custom instruction of the step

vars == <<live, cur, proc, inKernel, allowed, allowFlag, tbFlag, atomic, forkVals, halted, lastOp>>

Blocks == Pids \cup {Kernel}
Vals == 0..MaxCount

\* The block the state s runs.
Block(s) == IF inKernel[s] THEN Kernel ELSE proc[s]

\* BaseInstructions::initialize: the gate is open until a block is
\* translated under the restriction.
Init ==
  /\ live = {InitState} /\ cur = InitState
  /\ proc \in [States -> Pids] /\ inKernel = [s \in States |-> TRUE]
  /\ allowed = [s \in States |-> {}]
  /\ allowFlag = 1
  /\ tbFlag = [b \in Blocks |-> NoFlag]
  /\ atomic = [s \in States |-> FALSE]
  /\ forkVals = [s \in States |-> Vals]
  /\ halted = FALSE
  /\ lastOp = NoOp

\* onTranslateBlockStart (connected only under the restriction): kernel
\* code is always allowed; with no pid registered in the state every
\* process is (the first one has to register itself); otherwise only a
\* registered pid.  The block is then translated with the flag.
OnTranslateBlockStart ==
  /\ ~halted /\ tbFlag[Block(cur)] = NoFlag
  /\ LET b == Block(cur)
         flag == IF ~Restrict \/ b = Kernel \/ allowed[cur] = {} THEN 1
                 ELSE IF proc[cur] \in allowed[cur] THEN 1 ELSE 0
     IN  /\ allowFlag' = flag
         /\ tbFlag' = [tbFlag EXCEPT ![b] = flag]
  /\ lastOp' = NoOp
  /\ UNCHANGED <<live, cur, proc, inKernel, allowed, atomic, forkVals, halted>>

\* A custom instruction runs: its block is translated with the flag set.
CustomInstruction ==
  /\ ~halted /\ tbFlag[Block(cur)] = 1
  /\ lastOp' = <<cur, Block(cur)>>

\* BASE_S2E_INVOKE_PLUGIN naming BaseInstructions with ALLOW_CURRENT_PID:
\* allowCurrentPid exits without the restriction; otherwise it registers
\* the current pid and flushes the translation cache.
AllowCurrentPid ==
  /\ CustomInstruction
  /\ IF ~Restrict
       THEN /\ halted' = TRUE
            /\ UNCHANGED <<allowed, tbFlag>>
       ELSE /\ allowed' = [allowed EXCEPT ![cur] = @ \cup {proc[cur]}]
            /\ tbFlag' = [b \in Blocks |-> NoFlag]
            /\ UNCHANGED halted
  /\ UNCHANGED <<live, cur, proc, inKernel, allowFlag, atomic, forkVals>>

\* The loop of forkCount for count n over a fresh variable: the state keeps
\* var # i and the state forked at iteration i gets var = i; the state then
\* adds var = 0.  The result is the running state's values followed by
\* those of the forked states, in order.
RECURSIVE ForkLoop(_, _, _, _)
ForkLoop(i, n, keep, forked) ==
  IF i >= n THEN <<keep \cap {0}, forked>>
  ELSE ForkLoop(i + 1, n, keep \ {i}, Append(forked, keep \cap {i}))

ForkCountResult(n) == ForkLoop(1, n, Vals, <<>>)

\* BASE_S2E_FORK_COUNT with count n: the states forked get fresh ids and a
\* clone of the running state's plugin state and guest.
ForkCount(n) ==
  /\ CustomInstruction
  /\ LET r == ForkCountResult(n)
     IN  \E ids \in [1..Len(r[2]) -> States \ live] :
           /\ \A i, j \in DOMAIN ids : i # j => ids[i] # ids[j]
           /\ LET new == {ids[i] : i \in DOMAIN ids}
                  Clone(f) == [s \in States |-> IF s \in new THEN f[cur] ELSE f[s]]
              IN  /\ live' = live \cup new
                  /\ proc' = Clone(proc) /\ inKernel' = Clone(inKernel)
                  /\ allowed' = Clone(allowed) /\ atomic' = Clone(atomic)
                  /\ forkVals' = [s \in States |->
                                    IF s = cur THEN r[1]
                                    ELSE IF s \in new THEN r[2][CHOOSE i \in DOMAIN ids : ids[i] = s]
                                    ELSE forkVals[s]]
  /\ UNCHANGED <<cur, allowFlag, tbFlag, halted>>

\* BASE_S2E_BEGIN_ATOMIC / BASE_S2E_END_ATOMIC.
SetAtomic(v) ==
  /\ CustomInstruction
  /\ atomic' = [atomic EXCEPT ![cur] = v]
  /\ UNCHANGED <<live, cur, proc, inKernel, allowed, allowFlag, tbFlag, forkVals, halted>>

\* BASE_S2E_KILL_STATE: killState terminates the running state; the
\* executor goes on with another one, if any is left.
KillState ==
  /\ CustomInstruction
  /\ live # {cur}
  /\ live' = live \ {cur}
  /\ \E n \in live \ {cur} : cur' = n
  /\ allowed' = [allowed EXCEPT ![cur] = {}]
  /\ atomic' = [atomic EXCEPT ![cur] = FALSE]
  /\ forkVals' = [forkVals EXCEPT ![cur] = Vals]
  /\ UNCHANGED <<proc, inKernel, allowFlag, tbFlag, halted>>

\* The opcodes that act on guest registers, memory or constraints only
\* (make_symbolic, print, concretize, assume, write_buffer, ...).
DataOp ==
  /\ CustomInstruction
  /\ UNCHANGED <<live, cur, proc, inKernel, allowed, allowFlag, tbFlag, atomic, forkVals, halted>>

\* The guest of the running state runs process p, in kernel or user code.
Schedule(p, k) ==
  /\ ~halted /\ <<p, k>> # <<proc[cur], inKernel[cur]>>
  /\ proc' = [proc EXCEPT ![cur] = p] /\ inKernel' = [inKernel EXCEPT ![cur] = k]
  /\ lastOp' = NoOp
  /\ UNCHANGED <<live, cur, allowed, allowFlag, tbFlag, atomic, forkVals, halted>>

\* The executor switches to state n unless the running state forbids it.
SwitchState(n) ==
  /\ ~halted /\ ~atomic[cur] /\ n \in live \ {cur}
  /\ cur' = n
  /\ lastOp' = NoOp
  /\ UNCHANGED <<live, proc, inKernel, allowed, allowFlag, tbFlag, atomic, forkVals, halted>>

Next ==
  \/ OnTranslateBlockStart
  \/ AllowCurrentPid
  \/ \E n \in 0..MaxCount : ForkCount(n)
  \/ SetAtomic(TRUE) \/ SetAtomic(FALSE)
  \/ KillState \/ DataOp
  \/ \E p \in Pids, k \in BOOLEAN : Schedule(p, k)
  \/ \E n \in States : SwitchState(n)

Spec == Init /\ [][Next]_vars

TypeOK ==
  /\ live \subseteq States /\ cur \in live
  /\ proc \in [States -> Pids] /\ inKernel \in [States -> BOOLEAN]
  /\ allowed \in [States -> SUBSET Pids]
  /\ allowFlag \in {0, 1} /\ tbFlag \in [Blocks -> {0, 1, NoFlag}]
  /\ atomic \in [States -> BOOLEAN] /\ forkVals \in [States -> SUBSET Vals]
  /\ halted \in BOOLEAN

\* "Forbid guest apps to use s2e instructions": under the restriction, a
\* custom instruction in a process's user code runs only if the running
\* state has no pid registered yet or has registered that process, although
\* the block may have been translated, and its gate decided, in another
\* state that shares the translation cache.
GateFollowsState ==
  [][lastOp' # NoOp =>
       LET s == lastOp'[1]
           b == lastOp'[2]
       IN  b = Kernel \/ allowed[s] = {} \/ b \in allowed[s]]_vars

=============================================================================
