------------------------------ MODULE Updates ------------------------------
(***************************************************************************)
(* What a SimulationUpdate shows of the engine: snapshotState, taken       *)
(* between two ticks under the read lock, and calculateMetrics.  Clients,  *)
(* the REST answer and the stored record see nothing else.                 *)
(***************************************************************************)
EXTENDS Engine

Completed(s) == {p \in ToSet(s.processes) : IsComplete(s, p)}

\* A quotient of floats, kept as a fraction; a guard makes it 0 when there is
\* nothing to divide by.
Quotient(num, den) ==
    IF den > 0 THEN [num |-> num, den |-> den] ELSE [num |-> 0, den |-> 1]

MutantTotalWaiting(s) ==
    MapThenSumSet(LAMBDA p : s.pcb[p].waitingTime, ToSet(s.processes) \ Completed(s))
totalWaiting(s) == MapThenSumSet(LAMBDA p : s.pcb[p].waitingTime, ToSet(s.processes))
totalTurnaround(s) == MapThenSumSet(LAMBDA p : s.pcb[p].turnaroundTime, Completed(s))
totalResponse(s) == MapThenSumSet(LAMBDA p : s.pcb[p].responseTime, Completed(s))

calculateMetrics(s) ==
    LET completed == Cardinality(Completed(s))
    IN  [totalProcesses |-> Len(s.processes),
         completedProcesses |-> completed,
         averageTurnaroundTime |-> Quotient(totalTurnaround(s), completed),
         averageWaitingTime |-> Quotient(totalWaiting(s), Len(s.processes)),
         averageResponseTime |-> Quotient(totalResponse(s), completed),
         cpuUtilization |-> Quotient(s.currentTime - s.totalIdleTime, s.currentTime),
         throughput |-> Quotient(completed, s.currentTime),
         contextSwitches |-> s.contextSwitches]

snapshotState(s) ==
    [currentTime |-> s.currentTime,
     currentProcess |-> s.currentProcess,
     readyQueue |-> s.readyQueue,
     waitingQueue |-> s.ioQueue,
     completedProcesses |-> Kept(s.processes, Completed(s)),
     ganttChart |-> s.ganttChart,
     events |-> s.events,
     metrics |-> calculateMetrics(s)]
=============================================================================
