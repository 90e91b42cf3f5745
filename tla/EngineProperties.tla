-------------------------- MODULE EngineProperties --------------------------
(***************************************************************************)
(* What must be true of the engine: invariants of the struct between two   *)
(* ticks, what a tick may never do, what must happen in the end, and the   *)
(* abstract CPU the engine implements.                                     *)
(***************************************************************************)
EXTENDS Updates

(* Every process is in exactly one place, the one its State names: once in  *)
(* the ready queue, once in the I/O queue, on the CPU, not yet arrived or   *)
(* finished.  executeTimeUnit moves processes between the queues by         *)
(* appending and by removing a pointer; a process lost or queued twice on   *)
(* any path (arrival, I/O, preemption, expiry, completion) breaks this.     *)
Placement ==
    /\ IsInjective(sim.processes)
    /\ IsInjective(sim.readyQueue)
    /\ IsInjective(sim.ioQueue)
    /\ \A p \in Procs :
         LET st == sim.pcb[p].state
         IN  /\ p \in ToSet(sim.readyQueue) <=> st = "Ready"
             /\ p \in ToSet(sim.ioQueue) <=> st = "Waiting"
             /\ p = sim.currentProcess <=> st = "Running"
             /\ st = "Terminated" <=> sim.pcb[p].remainingTime = 0
             /\ st # "New" => p \in ToSet(sim.processes)

(* The Gantt chart covers the time so far without a gap or an overlap, and  *)
(* agrees with the processes: the slices of a PID add up to the CPU time    *)
(* its processes have used, the IDLE slices to totalIdleTime.               *)
ChartTime(pid) ==
    MapThenSumSet(LAMBDA i : sim.ganttChart[i].end - sim.ganttChart[i].start,
                  {i \in DOMAIN sim.ganttChart : sim.ganttChart[i].pid = pid})
CPUTimeUsed(p) == task[p].burstTime - sim.pcb[p].remainingTime
ChartAccountsForTime ==
    LET chart == sim.ganttChart
    IN  /\ \A i \in DOMAIN chart :
             /\ chart[i].start < chart[i].end
             /\ chart[i].start = IF i = 1 THEN 0 ELSE chart[i-1].end
             /\ i > 1 => chart[i].pid # chart[i-1].pid
        /\ sim.currentTime = IF chart = << >> THEN 0 ELSE chart[Len(chart)].end
        /\ ChartTime(IdlePID) = sim.totalIdleTime
        /\ \A p \in Procs :
             ChartTime(PID[p]) =
                MapThenSumSet(CPUTimeUsed, {r \in Procs : PID[r] = PID[p]})

(* What Execute records when a process completes: the times are those of    *)
(* one lifetime, the process was on the CPU for its whole burst and off it   *)
(* for all but one tick of each I/O burst it did, and it cannot have waited  *)
(* less in total than before its first tick.                                 *)
CompletionTimesConsistent ==
    \A p \in Procs :
        LET b == sim.pcb[p]
            ioTicks == MapThenSumSet(LAMBDA i : task[p].ioBursts[i].duration - 1,
                                     b.ioCompleted)
        IN  b.state = "Terminated" =>
              /\ b.completionTime <= sim.currentTime
              /\ b.turnaroundTime = b.completionTime - task[p].arrivalTime
              /\ b.waitingTime = b.turnaroundTime - task[p].burstTime
              /\ 0 <= b.responseTime
              /\ b.responseTime = b.startTime - task[p].arrivalTime
              /\ b.responseTime + ioTicks <= b.waitingTime

(* The makespan: once the last process has arrived, every tick serves some  *)
(* process or counts down some I/O burst, so a process is unfinished only   *)
(* while less time has passed than all bursts together account for.  No     *)
(* algorithm starves a process, and none is lost on the way.                *)
Demand(p) ==
    task[p].burstTime
    + MapThenSumSet(LAMBDA i : task[p].ioBursts[i].duration - 1, DOMAIN task[p].ioBursts)
LastArrival == Max({LastAdd} \cup {ArrivalTime[p] : p \in ToSet(sim.processes)})
FinishesInTime ==
    (\E p \in ToSet(sim.processes) : sim.pcb[p].state # "Terminated")
        => sim.currentTime < LastArrival + MapThenSumSet(Demand, ToSet(sim.processes))

(* I/O bursts happen in the order given, each at most once and not before   *)
(* the process has used the CPU time it asks for; IORemaining counts the    *)
(* current one.                                                             *)
IOBurstsInOrder ==
    \A p \in Procs :
        LET b == sim.pcb[p]
            bursts == task[p].ioBursts
        IN  /\ b.currentIOIndex <= Len(bursts)
            /\ b.ioCompleted = 1..b.currentIOIndex
            /\ \A i \in b.ioCompleted : CPUTimeUsed(p) >= bursts[i].afterCPUTime
            /\ b.state = "Waiting" <=> b.ioRemaining > 0
            /\ b.ioRemaining > 0 => /\ b.currentIOIndex > 0
                                    /\ b.ioRemaining <= bursts[b.currentIOIndex].duration

(* Between ticks the running process has not used up its quantum: expiry    *)
(* is noticed in the tick in which it happens, whatever path scheduled the  *)
(* process (arrival, I/O, preemption, the previous expiry).                 *)
QuantumRespected ==
    LET p == sim.currentProcess
    IN  p # None /\ QuantumFor(sim, p) > 0 =>
            sim.timeQuantumUsed < QuantumFor(sim, p)

(* The level map of MLFQ and MLQ holds exactly the live processes that have *)
(* arrived, at an existing level; MLQ's map agrees with levelFor, which its *)
(* Schedule uses while its Preempt reads the map.  A stale entry would give *)
(* a process the level of an earlier life.                                  *)
LevelsTrackLiveProcesses ==
    IF alg \in {"mlfq", "mlq"}
    THEN /\ DOMAIN sim.levels =
                {p \in Procs : sim.pcb[p].state \in {"Ready", "Running", "Waiting"}}
         /\ \A p \in DOMAIN sim.levels :
                sim.levels[p] \in IF alg = "mlq" THEN {levelFor[p]}
                                  ELSE 0..(Len(FeedbackQuanta) - 1)
    ELSE sim.levels = << >>

(* Whatever the ready queue holds, Schedule's choice is the one a single    *)
(* pass with the code's comparison makes, ties included.                    *)
ScheduleIsTheScan ==
    alg # "lottery" /\ sim.readyQueue # << >> => Schedule(sim, 0) = Scan(sim)

UniquePIDs == \A p, r \in Procs : PID[p] = PID[r] => p = r

(* Round robin answers within (n-1) quanta (docs/ALGORITHMS.md): a process  *)
(* that has arrived gets its first tick after at most Quantum ticks of each *)
(* other process, I/O and late arrivals included.                           *)
RoundRobinResponse ==
    alg = "rr" /\ UniquePIDs =>
        \A p \in Procs : \A e \in ToSet(sim.events) :
            e.pid = PID[p] /\ e.type = "arrival" =>
                LET served == IF sim.pcb[p].hasStarted THEN sim.pcb[p].startTime
                              ELSE sim.currentTime
                IN  served - e.time <= (Len(sim.processes) - 1) * Quantum

(* The WaitingTime of a live process that does no I/O, counted tick by tick *)
(* in executeTimeUnit, is the time since it arrived that it was not running.*)
WaitedExactly(p) ==
    \A e \in ToSet(sim.events) :
        e.pid = PID[p] /\ e.type = "arrival" =>
            sim.pcb[p].waitingTime = sim.currentTime - e.time - CPUTimeUsed(p)
CountsOwnWait(p) ==
    /\ UniquePIDs
    /\ task[p].ioBursts = << >>
    /\ sim.pcb[p].state \in {"Ready", "Running"}

(* WaitingTime is exact under the algorithms without a quantum.             *)
WaitingTimeExactWithoutQuantum ==
    \A p \in Procs : CountsOwnWait(p) /\ QuantumFor(sim, p) = 0 => WaitedExactly(p)

(* WaitingTime is the "Total time spent waiting" (process.go) under every   *)
(* algorithm.                                                               *)
WaitingTimeExact == \A p \in Procs : CountsOwnWait(p) => WaitedExactly(p)

(* An event is logged for each thing that happened, and only then: every    *)
(* process that arrived, and every one that completed, has its event; no     *)
(* event is dated after the present or before the one before it.  And the    *)
(* context switches are those of the log: preemption, expiry and             *)
(* scheduleNextProcess all have a counter, and the last adds nothing to the  *)
(* other two because they clear currentProcess first.                        *)
Count(type, pid) ==
    Cardinality({i \in DOMAIN sim.events :
                    sim.events[i].type = type /\ sim.events[i].pid = pid})
InStates(states, pid) ==
    Cardinality({p \in Procs : PID[p] = pid /\ sim.pcb[p].state \in states})
SwitchesCountedOnce ==
    snapshotState(sim).metrics.contextSwitches =
        Cardinality({i \in DOMAIN sim.events :
                        sim.events[i].type \in {"preempt", "quantum_expire"}})
EventsAccountForStates ==
    /\ SwitchesCountedOnce
    /\ \A i \in DOMAIN sim.events :
           /\ sim.events[i].time <= sim.currentTime
           /\ i > 1 => sim.events[i-1].time <= sim.events[i].time
    /\ \A p \in Procs :
         LET pid == PID[p]
             dispatched == Count("start", pid) + Count("resume", pid)
             released == Count("preempt", pid) + Count("quantum_expire", pid)
                         + Count("io_start", pid) + Count("complete", pid)
         IN  /\ Count("arrival", pid) = InStates(State \ {"New"}, pid)
             /\ Count("complete", pid) = InStates({"Terminated"}, pid)
             /\ Count("io_start", pid) = Count("io_complete", pid) + InStates({"Waiting"}, pid)
             /\ dispatched = released + InStates({"Running"}, pid)

(* An update shows every process that has arrived, and shows it once: as     *)
(* current, ready, waiting or completed.  The lists come from four places of *)
(* the struct, so a process caught between two of them at the end of a tick  *)
(* would be missing or shown twice.                                          *)
UpdateShowsEveryProcess ==
    LET u == snapshotState(sim)
        shown == <<u.currentProcess>> \o u.readyQueue \o u.waitingQueue
                 \o u.completedProcesses
    IN  \A p \in ToSet(sim.processes) :
            Cardinality({i \in DOMAIN shown : shown[i] = p}) =
                IF sim.pcb[p].state = "New" THEN 0 ELSE 1

(* The metrics, which mix per-process fields, the clock and the idle count,  *)
(* agree with each other: the busy time of the utilization is the CPU time   *)
(* the processes have used, each completed process took a tick of it, nobody *)
(* waited less than until the first response, and once all are complete the  *)
(* turnaround times are the waiting times and the bursts.                    *)
MetricsConsistent ==
    LET m == snapshotState(sim).metrics
        added == ToSet(sim.processes)
    IN  /\ m.cpuUtilization.num = MapThenSumSet(CPUTimeUsed, added)
        /\ m.cpuUtilization.num <= m.cpuUtilization.den
        /\ m.throughput.num <= m.cpuUtilization.num
        /\ m.averageResponseTime.num <= m.averageWaitingTime.num
        /\ m.completedProcesses = m.totalProcesses =>
              m.averageTurnaroundTime.num =
                 m.averageWaitingTime.num + MapThenSumSet(LAMBDA p : task[p].burstTime, added)

----------------------------------------------------------------------------
Ran(p) == sim'.pcb[p].remainingTime < sim.pcb[p].remainingTime
Logged(type) ==
    \E i \in (Len(sim.events) + 1)..Len(sim'.events) : sim'.events[i].type = type

(* A preempted process is never the one that then runs: when Preempt says   *)
(* yes, Schedule agrees and picks another process for this tick.            *)
NoVainPreemption ==
    [][Logged("preempt") =>
          /\ ~ Ran(sim.currentProcess)
          /\ \E p \in Procs : Ran(p)]_vars

(* The preemptive algorithms never run a process while a strictly better    *)
(* one is ready: shorter remaining time (SRTF), better effective priority,  *)
(* a higher queue (MLFQ, MLQ), or for CFS a virtual runtime smaller by more *)
(* than one granule.  Stated for distinct PIDs: SRTF, Priority and CFS take *)
(* a ready process with the PID of the current one for the current one.     *)
Rank(s) == CASE alg = "srtf" -> RemainingTime(s)
             [] alg = "priority" -> effectivePriority(s)
             [] alg = "cfs"  -> VRuntime(s)
             [] alg = "mlfq" -> Level(s)
             [] alg = "mlq"  -> levelFor
             [] OTHER -> [p \in Procs |-> 0]
Slack(p) == IF alg = "cfs" THEN VRuntimeScale \div task[p].weight ELSE 0
NeverOutranked ==
    [][UniquePIDs =>
         \A p \in Procs : Ran(p) =>
            \A r \in ToSet(sim'.readyQueue) \ {p} :
                Rank(sim)[p] <= Rank(sim)[r] + Slack(p)]_vars

(* A non-preemptive algorithm takes the CPU from a process only when the    *)
(* process finishes or starts I/O: the current process runs in the next      *)
(* tick, and a process that ran and can go on is still the current one.      *)
NonPreemptiveRunsOn ==
    [][/\ alg \in {"fcfs", "sjf", "priority_np"}
       /\ sim'.currentTime > sim.currentTime
       => \A p \in Procs :
            /\ p = sim.currentProcess => Ran(p)
            /\ Ran(p) => \/ sim'.pcb[p].state \in {"Terminated", "Waiting"}
                         \/ sim'.currentProcess = p]_vars

(* Reset leaves exactly the struct that NewSimulator and the same AddProcess *)
(* calls would, so that a second run repeats the first.                      *)
ResetStartsOver ==
    [][sim'.currentTime < sim.currentTime =>
          sim' = [NewSimulator EXCEPT !.processes = sim.processes]]_vars

----------------------------------------------------------------------------
(* The engine is a work-conserving CPU (module WorkConservingCPU).  A       *)
(* waiting process is blocked until the tick in which tickIOQueue readies   *)
(* it.                                                                      *)
CPU == INSTANCE WorkConservingCPU WITH
    clock   <- sim.currentTime,
    added   <- ToSet(sim.processes),
    left    <- RemainingTime(sim),
    wakeAt  <- [p \in Procs |-> IF sim.pcb[p].state = "Waiting"
                                THEN sim.currentTime + sim.pcb[p].ioRemaining - 1
                                ELSE 0]

(* Each step of the engine is a step of the abstract CPU: a tick serves one *)
(* runnable process one unit, or idles because none is runnable.            *)
IsWorkConserving == CPU!Spec
=============================================================================
