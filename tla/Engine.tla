------------------------------- MODULE Engine -------------------------------
(***************************************************************************)
(* The discrete-tick engine of internal/simulator/simulator.go: everything *)
(* a Simulator does with mu held, and process.Execute.                     *)
(*                                                                         *)
(* sim is the Simulator struct.  Each method that executeTimeUnit calls is *)
(* an operator from a struct to the struct the method leaves, and one tick *)
(* is their composition: mu is held throughout, so a tick is one step.     *)
(* The lifecycle (Start, Pause, Stop, the run goroutine) is module RunLoop.*)
(***************************************************************************)
EXTENDS Scheduler

CONSTANTS
    None,        \* the nil pointer
    Algorithms,  \* the algorithms to start from
    Workloads,   \* the assignments of submitted fields to start from
    MaxTime,     \* bound: no tick starts at or after this time
    LastAdd      \* bound: no process is added after this time

ASSUME EngineAssumption ==
    /\ None \notin Procs
    /\ Algorithms \subseteq Algorithm
    /\ Workloads \subseteq [Procs -> Task]
    /\ MaxTime \in Nat
    /\ LastAdd \in Nat

VARIABLE sim

vars == <<alg, task, sim>>

----------------------------------------------------------------------------
(* The fields a process starts with: NewProcess, and again Reset.          *)
InitialPCB(p) ==
    [state |-> "New", remainingTime |-> task[p].burstTime, startTime |-> -1,
     completionTime |-> 0, waitingTime |-> 0, turnaroundTime |-> 0,
     responseTime |-> 0, lastExecuted |-> 0, vRuntime |-> 0,
     hasStarted |-> FALSE, currentIOIndex |-> 0, ioRemaining |-> 0,
     ioCompleted |-> {}]

NewSimulator ==
    [processes |-> << >>, readyQueue |-> << >>, ioQueue |-> << >>,
     currentProcess |-> None, currentTime |-> 0, ganttChart |-> << >>,
     events |-> << >>, contextSwitches |-> 0, totalIdleTime |-> 0,
     timeQuantumUsed |-> 0, levels |-> << >>,
     pcb |-> [p \in Procs |-> InitialPCB(p)]]

IsComplete(s, p) ==
    s.pcb[p].state = "Terminated" \/ s.pcb[p].remainingTime <= 0

(* addEvent, without the wording.                                          *)
Event(s, type, p) == [time |-> s.currentTime, pid |-> task[p].pid, type |-> type]
EventsOf(s, type, q) == [i \in DOMAIN q |-> Event(s, type, q[i])]

IdlePID == -1

MutantAddGanttEntry(chart, pid, start) ==
    IF chart # << >> /\ chart[Len(chart)].pid = pid
    THEN chart
    ELSE Append(chart, [pid |-> pid, start |-> start, end |-> start + 1])
addGanttEntry(chart, pid, start) ==
    IF chart # << >> /\ chart[Len(chart)].pid = pid /\ chart[Len(chart)].end = start
    THEN [chart EXCEPT ![Len(chart)].end = start + 1]
    ELSE Append(chart, [pid |-> pid, start |-> start, end |-> start + 1])

----------------------------------------------------------------------------
checkArrivals(s) ==
    LET arrived == {p \in ToSet(s.processes) :
                       task[p].arrivalTime <= s.currentTime /\ s.pcb[p].state = "New"}
        q == Kept(s.processes, arrived)
    IN  [s EXCEPT
          !.pcb = [p \in Procs |->
                     IF p \in arrived THEN [s.pcb[p] EXCEPT !.state = "Ready"]
                     ELSE s.pcb[p]],
          !.readyQueue = @ \o q,
          !.levels = LevelsAfterAdd(s, arrived),
          !.events = @ \o EventsOf(s, "arrival", q)]

MutantTickIOQueue(s) ==
    [s EXCEPT !.ioQueue = Kept(@, {p \in Procs : s.pcb[p].ioRemaining > 1}),
              !.pcb = [p \in Procs |-> IF p \in ToSet(s.ioQueue)
                         THEN [s.pcb[p] EXCEPT !.ioRemaining = @ - 1] ELSE s.pcb[p]]]
tickIOQueue(s) ==
    LET waiting  == ToSet(s.ioQueue)
        finished == {p \in waiting : s.pcb[p].ioRemaining - 1 <= 0}
        q == Kept(s.ioQueue, finished)
    IN  [s EXCEPT
          !.pcb = [p \in Procs |->
                     IF p \in finished
                     THEN [s.pcb[p] EXCEPT !.ioRemaining = 0, !.state = "Ready"]
                     ELSE IF p \in waiting
                     THEN [s.pcb[p] EXCEPT !.ioRemaining = @ - 1]
                     ELSE s.pcb[p]],
          !.readyQueue = @ \o q,
          !.ioQueue = Kept(@, waiting \ finished),
          !.levels = LevelsAfterAdd(s, finished),
          !.events = @ \o EventsOf(s, "io_complete", q)]

scheduleNextProcess(s, draw) ==
    IF s.readyQueue = << >> THEN [s EXCEPT !.currentProcess = None]
    ELSE LET next == Schedule(s, draw)
             switched == s.currentProcess # None
                         /\ task[s.currentProcess].pid # task[next].pid
         IN  [s EXCEPT
               !.readyQueue = RemoveFirst(@, next),
               !.contextSwitches = IF switched THEN @ + 1 ELSE @,
               !.currentProcess = next,
               !.pcb[next].state = "Running",
               !.timeQuantumUsed = 0,
               !.events = Append(@, Event(s,
                    IF s.pcb[next].hasStarted THEN "resume" ELSE "start", next))]

MutantPreemptCurrentProcess(s) ==
    [s EXCEPT !.contextSwitches = @ + 1,
              !.pcb[s.currentProcess].state = "Ready",
              !.readyQueue = Append(@, s.currentProcess),
              !.currentProcess = None]
preemptCurrentProcess(s) ==
    LET p == s.currentProcess
    IN  [s EXCEPT !.events = Append(@, Event(s, "preempt", p)),
                  !.contextSwitches = @ + 1,
                  !.pcb[p].state = "Ready",
                  !.readyQueue = Append(@, p),
                  !.currentProcess = None]

(* The choice at the top of executeTimeUnit.                               *)
MutantDispatch(s, draw) ==
    IF s.currentProcess = None THEN scheduleNextProcess(s, draw) ELSE s
dispatch(s, draw) ==
    IF s.currentProcess = None \/ IsComplete(s, s.currentProcess)
    THEN scheduleNextProcess(s, draw)
    ELSE IF Preempt(s)
    THEN scheduleNextProcess(preemptCurrentProcess(s), draw)
    ELSE s

----------------------------------------------------------------------------
(* process.Execute for one time unit starting at now.                      *)
MutantMarkStarted(b, p, now) ==
    [b EXCEPT !.hasStarted = TRUE, !.startTime = now,
              !.responseTime = now - task[p].arrivalTime]
markStarted(b, p, now) ==
    IF b.hasStarted THEN b
    ELSE [b EXCEPT !.hasStarted = TRUE, !.startTime = now,
                   !.responseTime = now - task[p].arrivalTime]

Execute(b, p, now) ==
    LET ran == [markStarted(b, p, now) EXCEPT
            !.state = "Running",
            !.remainingTime = @ - 1,
            !.lastExecuted = now + 1,
            !.vRuntime = @ + (VRuntimeScale \div task[p].weight)]
    IN  IF ran.remainingTime > 0 THEN ran
        ELSE [ran EXCEPT
                !.state = "Terminated",
                !.completionTime = now + 1,
                !.turnaroundTime = now + 1 - task[p].arrivalTime,
                !.waitingTime = now + 1 - task[p].arrivalTime - task[p].burstTime,
                !.remainingTime = 0]

MutantExecuteProcess(s) ==
    LET p == s.currentProcess
        t == [s EXCEPT
               !.pcb[p] = Execute(@, p, s.currentTime),
               !.ganttChart = addGanttEntry(@, task[p].pid, s.currentTime)]
    IN  IF ~ IsComplete(t, p) THEN t
        ELSE [t EXCEPT !.events = Append(@, Event(t, "complete", p)),
                       !.levels = LevelsAfterRemove(t, p)]
executeProcess(s) ==
    LET p == s.currentProcess
        t == [s EXCEPT
               !.pcb[p] = Execute(@, p, s.currentTime),
               !.ganttChart = addGanttEntry(@, task[p].pid, s.currentTime)]
    IN  IF ~ IsComplete(t, p) THEN t
        ELSE [t EXCEPT !.events = Append(@, Event(t, "complete", p)),
                       !.levels = LevelsAfterRemove(t, p),
                       !.currentProcess = None]

(* The next I/O burst of p that is not Completed, as an index from 0.       *)
nextIOIndex(s, p) ==
    Min({i \in s.pcb[p].currentIOIndex..Len(task[p].ioBursts) :
            i + 1 \notin s.pcb[p].ioCompleted})

MutantIODue(s, p, burst) ==
    task[p].burstTime - s.pcb[p].remainingTime + 1 >= burst.afterCPUTime
ioDue(s, p, burst) ==
    /\ task[p].burstTime - s.pcb[p].remainingTime >= burst.afterCPUTime
    /\ burst.duration > 0

startIO(s, p, index) ==
    [s EXCEPT !.pcb[p] = [s.pcb[p] EXCEPT
                             !.currentIOIndex = index,
                             !.ioCompleted = @ \cup {index},
                             !.ioRemaining = task[p].ioBursts[index].duration,
                             !.state = "Waiting"],
              !.ioQueue = Append(@, p),
              !.events = Append(@, Event(s, "io_start", p)),
              !.currentProcess = None,
              !.timeQuantumUsed = 0]

checkIOBurst(s) ==
    IF s.currentProcess = None \/ IsComplete(s, s.currentProcess) THEN s
    ELSE LET p == s.currentProcess
             index == nextIOIndex(s, p)
         IN  IF index < Len(task[p].ioBursts) /\ ioDue(s, p, task[p].ioBursts[index + 1])
             THEN startIO(s, p, index + 1)
             ELSE [s EXCEPT !.pcb[p].currentIOIndex = index]

MutantQuantumExpired(s, p) ==
    QuantumFor(s, p) > 0 /\ s.timeQuantumUsed > QuantumFor(s, p)
quantumExpired(s, p) ==
    /\ QuantumFor(s, p) > 0
    /\ s.timeQuantumUsed >= QuantumFor(s, p)
    /\ ~ IsComplete(s, p)

requeueExpired(s, p) ==
    [s EXCEPT !.levels = LevelsAfterExpiry(s, p),
              !.events = Append(@, Event(s, "quantum_expire", p)),
              !.contextSwitches = @ + 1,
              !.pcb[p].state = "Ready",
              !.readyQueue = Append(@, p),
              !.currentProcess = None,
              !.timeQuantumUsed = 0]

expireQuantum(s, draw) ==
    IF s.currentProcess # None /\ quantumExpired(s, s.currentProcess)
    THEN scheduleNextProcess(requeueExpired(s, s.currentProcess), draw)
    ELSE s

idle(s) ==
    [s EXCEPT !.totalIdleTime = @ + 1,
              !.ganttChart = addGanttEntry(@, IdlePID, s.currentTime)]

chargeTick(s) == [s EXCEPT !.timeQuantumUsed = @ + 1]

(* currentTime++ and the waiting times of the processes left in the queue. *)
MutantAdvanceClock(s) ==
    [s EXCEPT !.currentTime = @ + 1,
              !.pcb = [p \in Procs |->
                  IF p \in ToSet(s.readyQueue) /\ s.currentProcess # None
                  THEN [s.pcb[p] EXCEPT !.waitingTime = @ + 1] ELSE s.pcb[p]]]
advanceClock(s) ==
    LET waits(p) == /\ p \in ToSet(s.readyQueue)
                    /\ s.pcb[p].state = "Ready"
                    /\ s.currentProcess = None \/ task[p].pid # task[s.currentProcess].pid
    IN  [s EXCEPT
          !.currentTime = @ + 1,
          !.pcb = [p \in Procs |->
                     IF waits(p) THEN [s.pcb[p] EXCEPT !.waitingTime = @ + 1]
                     ELSE s.pcb[p]]]

MutantExecuteTimeUnit(s, draw, redraw) ==
    LET d == dispatch(checkArrivals(s), draw)
    IN  advanceClock(tickIOQueue(
          IF d.currentProcess = None THEN idle(d)
          ELSE expireQuantum(checkIOBurst(chargeTick(executeProcess(d))), redraw)))
executeTimeUnit(s, draw, redraw) ==
    LET d == dispatch(tickIOQueue(checkArrivals(s)), draw)
    IN  advanceClock(
          IF d.currentProcess = None THEN idle(d)
          ELSE expireQuantum(checkIOBurst(chargeTick(executeProcess(d))), redraw))

----------------------------------------------------------------------------
Init ==
    /\ alg \in Algorithms
    /\ task \in Workloads
    /\ sim = NewSimulator

(* sort.Slice promises no order among equal arrival times, so every order  *)
(* sorted by arrival is possible.                                          *)
SortedByArrival(S) ==
    {q \in [1..Cardinality(S) -> S] :
        \A i, j \in DOMAIN q :
            i < j => q[i] # q[j] /\ task[q[i]].arrivalTime <= task[q[j]].arrivalTime}

AddProcess(p) ==
    /\ sim.currentTime <= LastAdd
    /\ p \notin ToSet(sim.processes)
    /\ \E q \in SortedByArrival(ToSet(sim.processes) \cup {p}) :
           sim' = [sim EXCEPT !.processes = q]
    /\ UNCHANGED <<alg, task>>

Tick ==
    /\ sim.currentTime < MaxTime
    /\ \E draw, redraw \in Draws : sim' = executeTimeUnit(sim, draw, redraw)
    /\ UNCHANGED <<alg, task>>

(* The part of Reset after Stop and the draining of the channels.          *)
MutantReset ==
    /\ sim' = [NewSimulator EXCEPT !.processes = sim.processes, !.levels = sim.levels]
    /\ UNCHANGED <<alg, task>>
Reset ==
    /\ sim' = [sim EXCEPT
          !.currentTime = 0, !.currentProcess = None, !.readyQueue = << >>,
          !.ioQueue = << >>, !.ganttChart = << >>, !.events = << >>,
          !.contextSwitches = 0, !.totalIdleTime = 0, !.timeQuantumUsed = 0,
          !.levels = << >>,
          !.pcb = [p \in Procs |-> IF p \in ToSet(sim.processes)
                                   THEN InitialPCB(p) ELSE sim.pcb[p]]]
    /\ UNCHANGED <<alg, task>>

Next == (\E p \in Procs : AddProcess(p)) \/ Tick \/ Reset

Spec == Init /\ [][Next]_vars

----------------------------------------------------------------------------
State == {"New", "Ready", "Running", "Waiting", "Terminated"}
PCB == [state : State, remainingTime : Nat, startTime : Int, completionTime : Nat,
        waitingTime : Int, turnaroundTime : Int, responseTime : Int,
        lastExecuted : Nat, vRuntime : Nat, hasStarted : BOOLEAN,
        currentIOIndex : Nat, ioRemaining : Nat, ioCompleted : SUBSET Nat]
GanttEntry == [pid : Int, start : Nat, end : Nat]
EventType == {"arrival", "start", "resume", "preempt", "quantum_expire",
              "io_start", "io_complete", "complete"}
EventRecord == [time : Nat, pid : Nat, type : EventType]

Levels == UNION {[D -> 0..(NumLevels - 1)] : D \in SUBSET Procs}
Simulator == [processes : Seq(Procs), readyQueue : Seq(Procs), ioQueue : Seq(Procs),
              currentProcess : Procs \cup {None}, currentTime : Nat,
              ganttChart : Seq(GanttEntry), events : Seq(EventRecord),
              contextSwitches : Nat, totalIdleTime : Nat, timeQuantumUsed : Nat,
              levels : Levels, pcb : [Procs -> PCB]]

(* Every field of the Simulator struct and of every process has its type,   *)
(* and the level map only holds levels of the scheduler's queues.           *)
TypeOK ==
    /\ alg \in Algorithm
    /\ task \in [Procs -> Task]
    /\ sim \in Simulator
=============================================================================
