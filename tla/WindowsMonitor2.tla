--------------------------- MODULE WindowsMonitor2 ---------------------------
(***************************************************************************)
(* The WindowsMonitor2 plugin: the pid/tid of the running guest thread,    *)
(* cached once for the plugin (m_cachedPid/Tid, m_cachedState) and once    *)
(* per execution state (WindowsMonitor2State, cloned at a fork), refreshed *)
(* by checkNewProcess on every privilege change and page-directory change  *)
(* and restored from the state's copy by onStateSwitch.                    *)
(*                                                                         *)
(* The guest is abstracted to what the plugin reads of it: the running     *)
(* thread (the CID under KPCR), whether it runs in kernel mode, and which  *)
(* process owns each thread.  A context switch happens in kernel mode; it  *)
(* writes CR3 only when the next thread belongs to another process.        *)
(***************************************************************************)
EXTENDS FiniteSets, Sequences, SequencesExt

CONSTANTS
  States,       \* execution states
  InitState,    \* the state the guest boots in
  NoState,      \* m_cachedState = NULL
  Threads,      \* guest threads (model values)
  ThreadPid,    \* the process each thread belongs to
  UserThreads,  \* the threads that also run in user mode
  Unset,        \* m_cachedPid = -1 (clearCache)
  Zero,         \* the pid/tid of a plugin state fresh from its factory
  KpcrReads,    \* the outcomes a read of the KPCR/ETHREAD CID can have
  StartPids,    \* processes running before the driver registers (System...)
  Pids,         \* processes the guest creates later (LOAD_PROCESS)
  NoPid,        \* ProcInfo().parentPid = -1; no entry of a handle table
  Handles,      \* process handle values (not -1)
  Drivers,      \* kernel driver names
  BootDrivers,  \* PsLoadedModuleList when the plugin starts
  Imports,      \* driver -> the drivers its image imports
  Garbage,      \* a name read from an uninitialised MODULE_ENTRY
  ReadsFail,    \* whether reads of driver structures may fail
  Booted        \* the run starts after INIT_KERNEL_STRUCTS in InitState

ASSUME NoState \notin States /\ InitState \in States
ASSUME UserThreads \subseteq Threads /\ KpcrReads \subseteq BOOLEAN

VARIABLES
  live,         \* the execution states that exist
  cur,          \* the state that runs
  gThread,      \* state -> the guest thread it runs
  gKernel,      \* state -> the guest runs in kernel mode
  pCache,       \* state -> plgState->m_cachedPid/Tid
  gCache,       \* m_cachedPid/Tid
  cachedState,  \* m_cachedState
  gProcs,       \* state -> the created processes the guest runs
  gHandles,     \* state -> owner -> handle -> target of the guest's open handles
  pids,         \* state -> pid -> parent pid (plgState->m_pids)
  handles,      \* state -> owner -> handle -> pid (plgState->m_handles)
  gDrivers,     \* state -> PsLoadedModuleList, in list order
  view,         \* state -> the drivers onModuleLoad/onModuleUnload leave loaded
  clean,        \* state -> loaded drivers whose onDriverLoad had no read fail
  unreported,   \* state -> drivers unloaded unhooked or with a failed read (history)
  registered,   \* state -> the guest driver has sent INIT_KERNEL_STRUCTS
  instrumented, \* m_kernel is set and enableInstrumentation has run
  halted        \* the S2E process has exited (exit(-1))

cacheVars == <<gCache, cachedState, pCache>>
tableVars == <<gProcs, gHandles, pids, handles, gDrivers, view, clean, unreported>>
guestVars == <<live, cur, gThread, gKernel, registered>>
monVars == <<instrumented, halted>>
vars == <<guestVars, cacheVars, tableVars, monVars>>

\* The guest thread a state that does not exist is given in the model.
NoThread == CHOOSE t \in Threads : TRUE

AllPids == StartPids \cup Pids
NoHandles == [o \in AllPids |-> [h \in Handles |-> NoPid]]

\* clearCache, called by initialize.
ClearCache ==
  /\ gCache = Unset
  /\ cachedState = NoState

Init ==
  /\ live = {InitState} /\ cur = InitState
  /\ \E t \in {u \in Threads : ThreadPid[u] \in StartPids} : gThread = [s \in States |-> IF s = InitState THEN t ELSE NoThread]
  /\ gKernel = [s \in States |-> TRUE]
  /\ registered = [s \in States |-> Booted /\ s = InitState]
  /\ instrumented = Booted
  /\ IF Booted
       THEN /\ gCache = gThread[InitState] /\ cachedState = InitState
            /\ pCache = [s \in States |-> IF s = InitState THEN gCache ELSE Zero]
       ELSE /\ ClearCache
            /\ pCache = [s \in States |-> Zero]
  /\ gProcs = [s \in States |-> {}]
  /\ gHandles = [s \in States |-> NoHandles]
  /\ pids = [s \in States |-> [p \in AllPids |-> NoPid]]
  /\ handles = [s \in States |-> NoHandles]
  /\ gDrivers = [s \in States |-> BootDrivers]
  /\ view = [s \in States |-> {}]
  /\ clean = [s \in States |-> {}]
  /\ unreported = [s \in States |-> {}]
  /\ halted = FALSE

\* Mutant: only the plugin-wide cache takes the values read.
InitCurrentOnlyGlobal(s, ok) ==
  IF ok THEN /\ gCache' = gThread'[s]
             /\ cachedState' = s
             /\ UNCHANGED pCache
        ELSE UNCHANGED <<gCache, cachedState, pCache>>

\* initCurrentProcessThreadId: _ReadCurrentProcessThreadId reads the CID of
\* the thread under KPCR; on success both caches take it, on failure both
\* are left as they were (checkNewProcess's assert(ret) is compiled out).
InitCurrentProcessThreadId(s, ok) ==
  IF ok THEN /\ gCache' = gThread'[s]
             /\ cachedState' = s
             /\ pCache' = [pCache EXCEPT ![s] = gThread'[s]]
        ELSE UNCHANGED <<gCache, cachedState, pCache>>

\* checkNewProcess(state, true), the body of onPrivilegeChange and of
\* onPageDirectoryChange (the onProcessOrThreadSwitch it may emit has no
\* subscriber in the model).
CheckNewProcess(s) == \E ok \in KpcrReads : InitCurrentProcessThreadId(s, ok)

\* The guest of the running state enters the kernel (system call or
\* interrupt): onPrivilegeChange.
SysEnter ==
  /\ ~gKernel[cur]
  /\ gKernel' = [gKernel EXCEPT ![cur] = TRUE]
  /\ UNCHANGED gThread
  /\ IF instrumented THEN CheckNewProcess(cur) ELSE UNCHANGED cacheVars
  /\ UNCHANGED <<live, cur, registered, tableVars, monVars>>

\* The running thread returns to user mode: onPrivilegeChange.
SysExit ==
  /\ gKernel[cur] /\ gThread[cur] \in UserThreads
  /\ ThreadPid[gThread[cur]] \in StartPids \cup gProcs[cur]
  /\ gKernel' = [gKernel EXCEPT ![cur] = FALSE]
  /\ UNCHANGED gThread
  /\ IF instrumented THEN CheckNewProcess(cur) ELSE UNCHANGED cacheVars
  /\ UNCHANGED <<live, cur, registered, tableVars, monVars>>

\* Mutant: onPageDirectoryChange is not connected.
ContextSwitchNoCr3Hook(t) ==
  /\ gKernel[cur] /\ t # gThread[cur]
  /\ ThreadPid[t] \in StartPids \cup gProcs[cur]
  /\ gThread' = [gThread EXCEPT ![cur] = t]
  /\ UNCHANGED <<live, cur, gKernel, registered, cacheVars, tableVars, monVars>>

\* The kernel switches to thread t.  SwapContext loads CR3 when t belongs
\* to another process, and onPageDirectoryChange runs; a switch between
\* threads of one process changes no register the plugin watches.
ContextSwitch(t) ==
  /\ gKernel[cur] /\ t # gThread[cur]
  /\ ThreadPid[t] \in StartPids \cup gProcs[cur]
  /\ gThread' = [gThread EXCEPT ![cur] = t]
  /\ IF instrumented /\ ThreadPid[t] # ThreadPid[gThread[cur]]
       THEN CheckNewProcess(cur)
       ELSE UNCHANGED cacheVars
  /\ UNCHANGED <<live, cur, gKernel, registered, tableVars, monVars>>

\* onStateSwitch: the plugin's cache takes the copy kept by the next state.
OnStateSwitch(n) ==
  /\ n \in live /\ n # cur
  /\ cur' = n
  /\ IF instrumented
       THEN /\ cachedState' = n
            /\ gCache' = pCache[n]
       ELSE UNCHANGED <<cachedState, gCache>>
  /\ UNCHANGED <<live, gThread, gKernel, registered, pCache, tableVars, monVars>>

\* Mutant: clone returns a plugin state fresh from the factory.
ForkFreshPluginState(t) ==
  /\ t \in States \ live
  /\ live' = live \cup {t}
  /\ gThread' = [gThread EXCEPT ![t] = gThread[cur]]
  /\ gKernel' = [gKernel EXCEPT ![t] = gKernel[cur]]
  /\ gProcs' = [gProcs EXCEPT ![t] = gProcs[cur]]
  /\ gHandles' = [gHandles EXCEPT ![t] = gHandles[cur]]
  /\ gDrivers' = [gDrivers EXCEPT ![t] = gDrivers[cur]]
  /\ view' = [view EXCEPT ![t] = view[cur]]
  /\ clean' = [clean EXCEPT ![t] = clean[cur]]
  /\ registered' = [registered EXCEPT ![t] = registered[cur]]
  /\ unreported' = [unreported EXCEPT ![t] = unreported[cur]]
  /\ UNCHANGED <<cur, gCache, cachedState, pCache, pids, handles, monVars>>

\* The running state forks t: the guest and the plugin state are cloned.
Fork(t) ==
  /\ t \in States \ live
  /\ live' = live \cup {t}
  /\ gThread' = [gThread EXCEPT ![t] = gThread[cur]]
  /\ gKernel' = [gKernel EXCEPT ![t] = gKernel[cur]]
  /\ pCache' = [pCache EXCEPT ![t] = pCache[cur]]
  /\ gProcs' = [gProcs EXCEPT ![t] = gProcs[cur]]
  /\ gHandles' = [gHandles EXCEPT ![t] = gHandles[cur]]
  /\ pids' = [pids EXCEPT ![t] = pids[cur]]
  /\ handles' = [handles EXCEPT ![t] = handles[cur]]
  /\ gDrivers' = [gDrivers EXCEPT ![t] = gDrivers[cur]]
  /\ view' = [view EXCEPT ![t] = view[cur]]
  /\ clean' = [clean EXCEPT ![t] = clean[cur]]
  /\ registered' = [registered EXCEPT ![t] = registered[cur]]
  /\ unreported' = [unreported EXCEPT ![t] = unreported[cur]]
  /\ UNCHANGED <<cur, gCache, cachedState, monVars>>

\* Mutant: the running state may be killed without a switch.
KillAny(s) ==
  /\ s \in live /\ live # {s}
  /\ live' = live \ {s}
  /\ UNCHANGED <<cur, gThread, gKernel, registered, cacheVars, tableVars, monVars>>

\* A state other than the running one is killed; its plugin state is
\* deleted (the model resets it, and a later fork overwrites it).
Kill(s) ==
  /\ s \in live /\ s # cur
  /\ live' = live \ {s}
  /\ gThread' = [gThread EXCEPT ![s] = NoThread]
  /\ gKernel' = [gKernel EXCEPT ![s] = TRUE]
  /\ pCache' = [pCache EXCEPT ![s] = Zero]
  /\ gProcs' = [gProcs EXCEPT ![s] = {}]
  /\ gHandles' = [gHandles EXCEPT ![s] = NoHandles]
  /\ pids' = [pids EXCEPT ![s] = [p \in AllPids |-> NoPid]]
  /\ handles' = [handles EXCEPT ![s] = NoHandles]
  /\ gDrivers' = [gDrivers EXCEPT ![s] = BootDrivers]
  /\ view' = [view EXCEPT ![s] = {}]
  /\ clean' = [clean EXCEPT ![s] = {}]
  /\ registered' = [registered EXCEPT ![s] = FALSE]
  /\ unreported' = [unreported EXCEPT ![s] = {}]
  /\ UNCHANGED <<cur, gCache, cachedState, monVars>>

-----------------------------------------------------------------------------
(* The process and handle tables, updated by the guest driver's commands  *)
(* (handleOpcodeInvocation), in the running state.                        *)

\* The processes the guest runs.
Running(s) == StartPids \cup gProcs[s]

\* WindowsMonitor2State::getPidFromHandle, through
\* WindowsMonitor2::getPidFromHandle (0 when nothing is found, NoPid here);
\* the pseudo-handle -1 stands for the owner itself.
PidFromHandle(s, owner, h) ==
  IF h = "-1" THEN owner ELSE handles[s][owner][h]

\* WindowsMonitor2::getProcessParent: ProcInfo().parentPid when the pid has
\* no entry.
GetProcessParent(s, p) == pids[s][p]

\* The process of the running thread.
CurPid == ThreadPid[gThread[cur]]

\* The running process creates p, and the driver's process-notify routine
\* sends LOAD_PROCESS: addProcess(pid, parentPid, eprocess).  The kernel
\* only hands out a pid no open handle still refers to.
LoadProcess(p) ==
  /\ registered[cur] /\ gKernel[cur] /\ CurPid \in Running(cur)
  /\ p \in Pids \ gProcs[cur]
  /\ \A o \in AllPids, h \in Handles : gHandles[cur][o][h] # p
  /\ gProcs' = [gProcs EXCEPT ![cur] = @ \cup {p}]
  /\ pids' = [pids EXCEPT ![cur][p] = CurPid]
  /\ UNCHANGED <<gHandles, handles, gDrivers, view, clean, unreported>>
  /\ UNCHANGED <<guestVars, cacheVars, monVars>>

\* Mutant: UNLOAD_PROCESS only runs removeProcess.
UnloadProcessKeepHandles(p) ==
  /\ registered[cur] /\ gKernel[cur] /\ p \in gProcs[cur] /\ p = CurPid
  /\ gProcs' = [gProcs EXCEPT ![cur] = @ \ {p}]
  /\ gHandles' = [gHandles EXCEPT ![cur][p] = [h \in Handles |-> NoPid]]
  /\ pids' = [pids EXCEPT ![cur][p] = NoPid]
  /\ UNCHANGED <<handles, gDrivers, view, clean, unreported>>
  /\ UNCHANGED <<guestVars, cacheVars, monVars>>

\* The last thread of process p exits it, the kernel closes its handles,
\* and UNLOAD_PROCESS runs removeHandles(pid) then removeProcess(pid).
UnloadProcess(p) ==
  /\ registered[cur] /\ gKernel[cur] /\ p \in gProcs[cur] /\ p = CurPid
  /\ gProcs' = [gProcs EXCEPT ![cur] = @ \ {p}]
  /\ gHandles' = [gHandles EXCEPT ![cur][p] = [h \in Handles |-> NoPid]]
  /\ handles' = [handles EXCEPT ![cur][p] = [h \in Handles |-> NoPid]]
  /\ pids' = [pids EXCEPT ![cur][p] = NoPid]
  /\ UNCHANGED <<gDrivers, view, clean, unreported>>
  /\ UNCHANGED <<guestVars, cacheVars, monVars>>

\* Mutant: addProcessHandle inserts without replacing an entry.
ProcessHandleCreateKeepOld(h, t) ==
  /\ registered[cur] /\ gKernel[cur] /\ CurPid \in Running(cur) /\ t \in Running(cur)
  /\ gHandles[cur][CurPid][h] = NoPid
  /\ gHandles' = [gHandles EXCEPT ![cur][CurPid][h] = t]
  /\ handles' = IF handles[cur][CurPid][h] = NoPid
                 THEN [handles EXCEPT ![cur][CurPid][h] = t] ELSE handles
  /\ UNCHANGED <<gProcs, pids, gDrivers, view, clean, unreported>>
  /\ UNCHANGED <<guestVars, cacheVars, monVars>>

\* The running process opens handle h to process t (ObpCreateHandle), and
\* PROCESS_HANDLE_CREATE runs addProcessHandle(source, handle, target).
ProcessHandleCreate(h, t) ==
  /\ registered[cur] /\ gKernel[cur] /\ CurPid \in Running(cur) /\ t \in Running(cur)
  /\ gHandles[cur][CurPid][h] = NoPid
  /\ gHandles' = [gHandles EXCEPT ![cur][CurPid][h] = t]
  /\ handles' = [handles EXCEPT ![cur][CurPid][h] = t]
  /\ UNCHANGED <<gProcs, pids, gDrivers, view, clean, unreported>>
  /\ UNCHANGED <<guestVars, cacheVars, monVars>>

\* The running process closes handle h; no command tells the plugin.
CloseHandle(h) ==
  /\ gKernel[cur] /\ gHandles[cur][CurPid][h] # NoPid
  /\ gHandles' = [gHandles EXCEPT ![cur][CurPid][h] = NoPid]
  /\ UNCHANGED <<gProcs, pids, handles, gDrivers, view, clean, unreported>>
  /\ UNCHANGED <<guestVars, cacheVars, monVars>>

-----------------------------------------------------------------------------
(* Kernel drivers: onDriverLoad at IopLoadDriver, onDriverUnload at        *)
(* IopDeleteDriver, and readModuleList over PsLoadedModuleList.            *)

\* The read that fails during one onDriverLoad over a list of n drivers,
\* if any: the driver object
\* ("descriptor"), its import table ("imports"), the MODULE_ENTRY read in
\* iteration k ("entry") or the LIST_ENTRY read after it ("link"; k = 0 is
\* the read of the list head).
NoFault == [kind |-> "none", at |-> 0]
LoadFaults(n) ==
  IF ReadsFail
  THEN {NoFault, [kind |-> "descriptor", at |-> 0], [kind |-> "imports", at |-> 0]}
       \cup {[kind |-> "entry", at |-> k] : k \in 1..n + 1}
       \cup {[kind |-> "link", at |-> k] : k \in 0..n + 1}
  ELSE {NoFault}

\* Mutant: the walk starts from the entry after ListHead.Flink.
ReadModuleListFromSecond(list, filter, fault) ==
  LET Flink(a) == IF a = Len(list) THEN 0 ELSE a + 1
      RECURSIVE Walk(_, _, _, _, _)
      Walk(pItem, held, entry, k, acc) ==
        IF pItem = 0 THEN <<TRUE, acc>>
        ELSE LET e == IF fault = [kind |-> "entry", at |-> k] THEN entry ELSE list[pItem]
                 acc2 == IF filter = {} \/ e \in filter THEN acc \cup {e} ELSE acc
             IN  IF fault = [kind |-> "link", at |-> k] THEN <<FALSE, acc2>>
                 ELSE Walk(Flink(held), Flink(held), e, k + 1, acc2)
  IN  IF fault = [kind |-> "link", at |-> 0] THEN <<FALSE, {}>>
      ELSE Walk(Flink(1), 1, Garbage, 1, {})

\* readModuleListGeneric.  Node i of the list is at address i, the head at
\* 0.  ListHead holds the LIST_ENTRY last read (at address held); each
\* iteration reads the MODULE_ENTRY at pItem, keeps its name if the filter
\* is empty or names it, then sets pItem to ListHead.Flink and reads the
\* LIST_ENTRY there.  pItem therefore trails by one node: the first node is
\* visited twice.  A failed MODULE_ENTRY read is tested with "< 0" on a
\* bool, which never holds, so the entry keeps the previous iteration's
\* contents (uninitialised in the first one: a name that is no driver's).
\* A failed LIST_ENTRY read returns false with the names kept so far.
\* The result is <<returned value, names>>.
ReadModuleList(list, filter, fault) ==
  LET Flink(a) == IF a = Len(list) THEN 0 ELSE a + 1
      RECURSIVE Walk(_, _, _, _, _)
      Walk(pItem, held, entry, k, acc) ==
        IF pItem = 0 THEN <<TRUE, acc>>
        ELSE LET e == IF fault = [kind |-> "entry", at |-> k] THEN entry ELSE list[pItem]
                 acc2 == IF filter = {} \/ e \in filter THEN acc \cup {e} ELSE acc
             IN  IF fault = [kind |-> "link", at |-> k] THEN <<FALSE, acc2>>
                 ELSE Walk(Flink(held), Flink(held), e, k + 1, acc2)
  IN  IF fault = [kind |-> "link", at |-> 0] THEN <<FALSE, {}>>
      ELSE Walk(Flink(0), 0, Garbage, 1, {})

\* onTranslateBlockStart and onTranslateBlockEnd connect onDriverLoad at
\* the call in IopLoadDriver and onDriverUnload at IopDeleteDriver, both
\* found from m_kernel: the hooks exist once INIT_KERNEL_STRUCTS has set
\* m_kernel and flushed the translated blocks.
DriverHooksConnected == instrumented

\* The kernel loads driver d (its imports are loaded first) and appends it
\* to PsLoadedModuleList; onDriverLoad reads the driver object and, if its
\* import table is read, reports the listed modules the table names (every
\* listed module for an empty table) and then d.  The value readModuleList
\* returns is ignored.  f is the read that fails, if any.
OnDriverLoad(d) ==
  /\ d \notin ToSet(gDrivers[cur]) /\ Imports[d] \subseteq ToSet(gDrivers[cur])
  /\ gDrivers' = [gDrivers EXCEPT ![cur] = Append(@, d)]
  /\ unreported' = [unreported EXCEPT ![cur] = @ \ {d}]
  /\ IF DriverHooksConnected
       THEN \E f \in LoadFaults(Len(gDrivers[cur]) + 1) :
              LET list == gDrivers'[cur]
                  res == IF f.kind \in {"descriptor", "imports"} THEN <<FALSE, {}>>
                         ELSE ReadModuleList(list, Imports[d], f)
              IN  /\ view' = IF f.kind = "descriptor" THEN view
                             ELSE [view EXCEPT ![cur] = @ \cup res[2] \cup {d}]
                  /\ clean' = IF f = NoFault THEN [clean EXCEPT ![cur] = @ \cup {d}] ELSE clean
       ELSE UNCHANGED <<view, clean>>
  /\ UNCHANGED <<gProcs, gHandles, pids, handles>>
  /\ UNCHANGED <<guestVars, cacheVars, monVars>>

\* Whether readDriverDescriptorFromParameter may fail (the driver object,
\* its MODULE_ENTRY or the image data).
UnloadReads == IF ReadsFail THEN BOOLEAN ELSE {TRUE}

OnDriverUnload(d) ==
  /\ d \in ToSet(gDrivers[cur]) \ ToSet(BootDrivers)
  /\ \A e \in ToSet(gDrivers[cur]) : d \notin Imports[e]
  /\ gDrivers' = [gDrivers EXCEPT ![cur] = SelectSeq(@, LAMBDA x : x # d)]
  /\ clean' = [clean EXCEPT ![cur] = @ \ {d}]
  /\ \E ok \in UnloadReads :
       /\ view' = IF DriverHooksConnected /\ ok THEN [view EXCEPT ![cur] = @ \ {d}] ELSE view
       /\ unreported' = IF DriverHooksConnected /\ ok THEN unreported
                        ELSE [unreported EXCEPT ![cur] = @ \cup {d}]
  /\ UNCHANGED <<gProcs, gHandles, pids, handles>>
  /\ UNCHANGED <<guestVars, cacheVars, monVars>>

\* enableInstrumentation connects the hooks on translation, privilege and
\* page-directory changes and state switches.
EnableInstrumentation == instrumented' = TRUE

\* The guest driver, loaded in the running state, sends INIT_KERNEL_STRUCTS:
\* opcodeInitKernelStructs sets m_kernel (the layout the driver sends is
\* valid), reads the current pid/tid (initCurrentProcessThreadId; a failed
\* read exits S2E), enables the instrumentation and runs checkNewProcess,
\* which reads the same thread again; tb_flush then retranslates every block
\* with the hooks.
OpcodeInitKernelStructs ==
  /\ ~registered[cur] /\ gKernel[cur]
  /\ registered' = [registered EXCEPT ![cur] = TRUE]
  /\ EnableInstrumentation
  /\ UNCHANGED <<live, cur, gThread, gKernel, tableVars>>
  /\ \E ok \in KpcrReads :
       /\ halted' = ~ok
       /\ InitCurrentProcessThreadId(cur, ok)

Next ==
  /\ ~halted
  /\ \/ OpcodeInitKernelStructs
     \/ \E p \in Pids : LoadProcess(p) \/ UnloadProcess(p)
     \/ \E h \in Handles : CloseHandle(h) \/ \E t \in AllPids : ProcessHandleCreate(h, t)
     \/ \E d \in Drivers : OnDriverLoad(d) \/ OnDriverUnload(d)
     \/ SysEnter \/ SysExit
     \/ \E t \in Threads : ContextSwitch(t)
     \/ \E s \in States : OnStateSwitch(s) \/ Fork(s) \/ Kill(s)

Spec == Init /\ [][Next]_vars

TypeOK ==
  /\ live \subseteq States /\ cur \in live
  /\ gThread \in [States -> Threads] /\ gKernel \in [States -> BOOLEAN]
  /\ pCache \in [States -> Threads \cup {Zero}]
  /\ gCache \in Threads \cup {Zero, Unset}
  /\ cachedState \in States \cup {NoState}
  /\ gProcs \in [States -> SUBSET Pids]
  /\ pids \in [States -> [AllPids -> AllPids \cup {NoPid}]]
  /\ handles \in [States -> [AllPids -> [Handles -> AllPids \cup {NoPid}]]]
  /\ gHandles \in [States -> [AllPids -> [Handles -> AllPids \cup {NoPid}]]]
  /\ \A s \in States : gDrivers[s] \in Seq(Drivers)
  /\ view \in [States -> SUBSET (Drivers \cup {Garbage})]
  /\ clean \in [States -> SUBSET Drivers]
  /\ unreported \in [States -> SUBSET Drivers]
  /\ registered \in [States -> BOOLEAN]
  /\ instrumented \in BOOLEAN /\ halted \in BOOLEAN

\* Whenever the guest of the running state runs in user mode, the pid and
\* tid the plugin has cached for it are those of the thread it runs, across
\* forks and switches between states that each keep their own copy.
CacheFreshInUserMode ==
  (cachedState = cur /\ ~gKernel[cur]) => gCache = gThread[cur]

\* In kernel mode too, the cached pid is that of the process that runs:
\* a context switch into another process always reloads CR3, so only the
\* tid may lag behind.
CachedPidCurrent ==
  (cachedState = cur /\ gCache \in Threads) => ThreadPid[gCache] = ThreadPid[gThread[cur]]

\* A lookup through any handle a running process holds open gives the
\* process the handle was opened to, although the plugin never hears of a
\* handle being closed, a pid is reused once its process has exited, and
\* each state has forked its own copy of the tables.
OpenHandlesResolve ==
  \A s \in live : \A o \in Running(s), h \in Handles :
    gHandles[s][o][h] # NoPid => PidFromHandle(s, o, h) = gHandles[s][o][h]

\* The plugin forgets an exited process: no parent, and no handle table
\* that a process later created with the same pid would inherit.
ExitedProcessesForgotten ==
  \A s \in live : \A p \in Pids \ gProcs[s] :
    GetProcessParent(s, p) = NoPid /\ \A h \in Handles : PidFromHandle(s, p, h) = NoPid

CleanLoadsReportImports ==
  \A s \in live : \A d \in clean[s] : {d} \cup Imports[d] \subseteq view[s]

=============================================================================
