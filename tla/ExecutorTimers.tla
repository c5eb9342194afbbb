--------------------------- MODULE ExecutorTimers ---------------------------
(***************************************************************************)
(* KLEE's executor timers (ExecutorTimers.cpp) as S2E runs them: a         *)
(* periodic SIGALRM counts timerTicks; the executor loop calls             *)
(* processTimers, which only does work when a tick was counted (or a dump  *)
(* was requested), and then fires the timers whose time has come: here    *)
(* the HaltTimer of -max-time.  A watchdog re-arms the alarm when 1000     *)
(* calls in a row saw no tick.                                             *)
(*                                                                         *)
(* Time is counted in alarm periods (kSecondsPerTick, 0.1 s).  The signal  *)
(* handler may run between any two steps of processTimers; the call is     *)
(* split at its read of timerTicks and at the rest of its body.            *)
(***************************************************************************)
EXTENDS Naturals

CONSTANTS
  MaxTime,      \* -max-time, in alarm periods (> 0: a HaltTimer exists)
  MaxInstTicks, \* -max-instruction-time, in alarm periods (0 = off)
  CallsLimit,   \* the watchdog's 1000 calls
  MaxNow        \* bound on the wall clock

ASSUME MaxTime > 0 /\ MaxTime <= MaxNow

VARIABLES
  now,             \* wall time
  armed,           \* ITIMER_REAL and the SIGALRM handler are ours
  timerTicks,      \* timerTicks, incremented by onAlarm
  loc,             \* the executor: "idle" between calls, "body" inside one
  ticks,           \* processTimers' local copy of timerTicks
  callsWithoutCheck,
  nextFireTime,    \* the HaltTimer's TimerInfo::nextFireTime
  haltExecution,   \* set by HaltTimer::run
  dumpRequested,   \* dumpStates or dumpPTree set from outside
  terminatedEarly  \* the last body ended the current state (max-instruction-time)

vars == <<now, armed, timerTicks, loc, ticks, callsWithoutCheck, nextFireTime,
          haltExecution, dumpRequested, terminatedEarly>>

\* initTimers: setupTimersHandler arms the 0.1 s interval timer, and
\* addTimer(HaltTimer, MaxTime) sets its first firing MaxTime from now.
Init ==
  /\ now = 0 /\ armed = TRUE /\ timerTicks = 0
  /\ loc = "idle" /\ ticks = 0 /\ callsWithoutCheck = 0
  /\ nextFireTime = MaxTime
  /\ haltExecution = FALSE /\ dumpRequested = FALSE /\ terminatedEarly = FALSE

\* A period of the wall clock; when the alarm is ours, onAlarm runs.
Tick ==
  /\ now < MaxNow
  /\ now' = now + 1
  /\ timerTicks' = IF armed THEN timerTicks + 1 ELSE timerTicks
  /\ UNCHANGED <<armed, loc, ticks, callsWithoutCheck, nextFireTime, haltExecution,
                 dumpRequested, terminatedEarly>>

\* Another part of the process reprograms ITIMER_REAL or SIGALRM.
Disarm ==
  /\ armed /\ armed' = FALSE
  /\ UNCHANGED <<now, timerTicks, loc, ticks, callsWithoutCheck, nextFireTime,
                 haltExecution, dumpRequested, terminatedEarly>>

\* The user asks for a dump of the states or of the process tree.
RequestDump ==
  /\ ~dumpRequested /\ dumpRequested' = TRUE
  /\ UNCHANGED <<now, armed, timerTicks, loc, ticks, callsWithoutCheck, nextFireTime,
                 haltExecution, terminatedEarly>>

\* HaltTimer::run: setHaltExecution(true).
HaltTimerRun == haltExecution' = TRUE

\* Mutant: the watchdog counts the calls that did see a tick.
WatchdogCountsTicks(t, calls) ==
  IF t # 0 /\ calls + 1 > CallsLimit
  THEN [ticks |-> 1, calls |-> calls + 1, rearm |-> TRUE]
  ELSE [ticks |-> t, calls |-> IF t # 0 THEN calls + 1 ELSE calls, rearm |-> FALSE]

\* if (!ticks && ++callsWithoutCheck > 1000) { setupTimersHandler(); ticks = 1; }
Watchdog(t, calls) ==
  IF t = 0 /\ calls + 1 > CallsLimit
  THEN [ticks |-> 1, calls |-> calls + 1, rearm |-> TRUE]
  ELSE [ticks |-> t, calls |-> IF t = 0 THEN calls + 1 ELSE calls, rearm |-> FALSE]

\* processTimers up to its test: ticks = timerTicks, the watchdog, and the
\* return when there is nothing to do.
ProcessTimersEnter ==
  /\ loc = "idle" /\ ~haltExecution
  /\ \E w \in {Watchdog(timerTicks, callsWithoutCheck)} :
       /\ ticks' = w.ticks
       /\ callsWithoutCheck' = w.calls
       /\ armed' = (armed \/ w.rearm)
       /\ loc' = IF w.ticks # 0 \/ dumpRequested THEN "body" ELSE "idle"
  /\ UNCHANGED <<now, timerTicks, nextFireTime, haltExecution, dumpRequested, terminatedEarly>>

\* Mutant: the body leaves callsWithoutCheck as it is.
ProcessTimersBodyKeepsCalls ==
  /\ loc = "body"
  /\ dumpRequested' = FALSE
  /\ terminatedEarly' = (MaxInstTicks > 0 /\ timerTicks > MaxInstTicks)
  /\ IF now >= nextFireTime
     THEN HaltTimerRun /\ nextFireTime' = now + MaxTime
     ELSE UNCHANGED <<haltExecution, nextFireTime>>
  /\ timerTicks' = 0
  /\ loc' = "idle"
  /\ UNCHANGED <<now, armed, ticks, callsWithoutCheck>>

\* The body: dumps, the max-instruction-time check on timerTicks as it is
\* now, the timers due at the current wall time, then timerTicks = 0, which
\* also drops the ticks counted since the read.
ProcessTimersBody ==
  /\ loc = "body"
  /\ dumpRequested' = FALSE
  /\ terminatedEarly' = (MaxInstTicks > 0 /\ timerTicks > MaxInstTicks)
  /\ IF now >= nextFireTime
     THEN HaltTimerRun /\ nextFireTime' = now + MaxTime
     ELSE UNCHANGED <<haltExecution, nextFireTime>>
  /\ timerTicks' = 0 /\ callsWithoutCheck' = 0
  /\ loc' = "idle"
  /\ UNCHANGED <<now, armed, ticks>>

Next == Tick \/ Disarm \/ RequestDump \/ ProcessTimersEnter \/ ProcessTimersBody

\* The executor loop calls processTimers until execution halts, and the
\* wall clock advances; nothing promises that the alarm stays ours.
Fairness == WF_vars(ProcessTimersEnter) /\ WF_vars(ProcessTimersBody) /\ WF_vars(Tick)

Spec == Init /\ [][Next]_vars /\ Fairness

TypeOK ==
  /\ now \in 0..MaxNow /\ armed \in BOOLEAN /\ timerTicks \in 0..MaxNow
  /\ loc \in {"idle", "body"} /\ ticks \in 0..MaxNow /\ callsWithoutCheck \in 0..CallsLimit + 1
  /\ nextFireTime \in 0..MaxNow + MaxTime
  /\ haltExecution \in BOOLEAN /\ dumpRequested \in BOOLEAN /\ terminatedEarly \in BOOLEAN

\* -max-time is honoured: once the wall clock has passed MaxTime,
\* processTimers eventually runs the HaltTimer, whether or not the alarm
\* stayed armed and whatever ticks the reset at the end of the body lost.
HaltEventually == (now >= MaxTime) ~> haltExecution

=============================================================================
