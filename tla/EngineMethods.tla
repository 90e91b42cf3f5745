--------------------------- MODULE EngineMethods ---------------------------
(***************************************************************************)
(* What each method that executeTimeUnit calls does, field by field: the   *)
(* lemmas that the proofs about whole ticks (module TickProofs) rest on.   *)
(* EngineProofs has already shown that each leaves a Sound struct.         *)
(***************************************************************************)
EXTENDS EngineProofs

(* The processes that checkArrivals queues, and those tickIOQueue wakes.    *)
Arriving(s) == {p \in ToSet(s.processes) :
                   task[p].arrivalTime <= s.currentTime /\ s.pcb[p].state = "New"}
Waking(s) == {p \in ToSet(s.ioQueue) : s.pcb[p].ioRemaining - 1 <= 0}

(* The fields that only executeProcess, idle and advanceClock touch.        *)
SameClock(s, t) ==
    /\ t.processes = s.processes
    /\ t.currentTime = s.currentTime
    /\ t.ganttChart = s.ganttChart
    /\ t.totalIdleTime = s.totalIdleTime

(* The processes of a sound struct are pointers, and so are those arriving  *)
(* and those waking up.                                                     *)
LEMMA ProcessSets ==
  ASSUME NEW s, Sound(s)
  PROVE  /\ ToSet(s.processes) \subseteq Procs
         /\ Arriving(s) \subseteq Procs
         /\ ToSet(s.ioQueue) = In(s, "Waiting")
         /\ ToSet(s.readyQueue) = In(s, "Ready")
         /\ Waking(s) \subseteq In(s, "Waiting")
         /\ Waking(s) \subseteq Procs
<1>1. s.processes \in Seq(Procs)
  BY DEF Sound, Simulator
<1>2. DOMAIN s.processes = 1..Len(s.processes)
  BY <1>1, LenProperties
<1>3. ToSet(s.processes) \subseteq Procs
  BY <1>1, <1>2, ElementOfSeq DEF ToSet
<1>4. ToSet(s.ioQueue) = In(s, "Waiting") /\ ToSet(s.readyQueue) = In(s, "Ready")
  BY DEF Sound, Holds
<1> QED BY <1>3, <1>4 DEF Arriving, Waking, In

(* checkArrivals: the arriving processes become Ready.                      *)
LEMMA ArrivalsDo ==
  ASSUME Static, NEW s, Sound(s), NEW t, t = checkArrivals(s)
  PROVE  /\ SameClock(s, t)
         /\ t.ioQueue = s.ioQueue
         /\ t.currentProcess = s.currentProcess
         /\ t.contextSwitches = s.contextSwitches
         /\ t.timeQuantumUsed = s.timeQuantumUsed
         /\ t.levels = LevelsAfterAdd(s, Arriving(s))
         /\ t.events = s.events \o EventsOf(s, "arrival", Kept(s.processes, Arriving(s)))
         /\ \A p \in Procs :
              /\ p \notin Arriving(s) => t.pcb[p] = s.pcb[p]
              /\ p \in Arriving(s) => t.pcb[p].state = "Ready"
              /\ t.pcb[p].remainingTime = s.pcb[p].remainingTime
              /\ t.pcb[p].ioRemaining = s.pcb[p].ioRemaining
<1> DEFINE A == Arriving(s)
           q == Kept(s.processes, A)
           pcb == [p \in Procs |-> IF p \in A THEN [s.pcb[p] EXCEPT !.state = "Ready"]
                                   ELSE s.pcb[p]]
           u == [s EXCEPT !.pcb = pcb,
                          !.readyQueue = s.readyQueue \o q,
                          !.levels = LevelsAfterAdd(s, A),
                          !.events = s.events \o EventsOf(s, "arrival", q)]
<1>1. s \in Simulator
  BY DEF Sound
<1>2. t = u
  BY DEF checkArrivals, Arriving
<1>3. \A p \in Procs : s.pcb[p] \in PCB
  BY <1>1 DEF Simulator
<1> HIDE DEF A, q
<1>4. \A p \in Procs : pcb[p] = IF p \in A THEN [s.pcb[p] EXCEPT !.state = "Ready"]
                                ELSE s.pcb[p]
  OBVIOUS
<1> HIDE DEF pcb
<1>5. /\ u.processes = s.processes /\ u.currentTime = s.currentTime
      /\ u.ganttChart = s.ganttChart /\ u.totalIdleTime = s.totalIdleTime
      /\ u.ioQueue = s.ioQueue /\ u.currentProcess = s.currentProcess
      /\ u.contextSwitches = s.contextSwitches /\ u.timeQuantumUsed = s.timeQuantumUsed
      /\ u.levels = LevelsAfterAdd(s, A) /\ u.pcb = pcb
      /\ u.events = s.events \o EventsOf(s, "arrival", q)
  BY <1>1 DEF Simulator
<1> HIDE DEF u
<1>6. ASSUME NEW p \in Procs
      PROVE  /\ p \notin A => pcb[p] = s.pcb[p]
             /\ p \in A => pcb[p].state = "Ready"
             /\ pcb[p].remainingTime = s.pcb[p].remainingTime
             /\ pcb[p].ioRemaining = s.pcb[p].ioRemaining
  <2>1. CASE p \in A
    <3>1. pcb[p] = [s.pcb[p] EXCEPT !.state = "Ready"] /\ s.pcb[p] \in PCB
      BY <1>3, <1>4, <2>1
    <3>2. /\ pcb[p].state = "Ready" /\ pcb[p].remainingTime = s.pcb[p].remainingTime
          /\ pcb[p].ioRemaining = s.pcb[p].ioRemaining
      BY <3>1 DEF PCB
    <3> QED BY <2>1, <3>2
  <2>2. CASE p \notin A
    BY <1>4, <2>2
  <2> QED BY <2>1, <2>2
<1> QED BY <1>2, <1>5, <1>6 DEF SameClock, A, q

(* tickIOQueue: the waking processes become Ready, the other waiting ones   *)
(* have one tick less to wait.                                              *)
LEMMA TickIODoes ==
  ASSUME Static, NEW s, Sound(s), NEW t, t = tickIOQueue(s)
  PROVE  /\ SameClock(s, t)
         /\ t.currentProcess = s.currentProcess
         /\ t.contextSwitches = s.contextSwitches
         /\ t.timeQuantumUsed = s.timeQuantumUsed
         /\ t.levels = LevelsAfterAdd(s, Waking(s))
         /\ t.events = s.events \o EventsOf(s, "io_complete", Kept(s.ioQueue, Waking(s)))
         /\ \A p \in Procs :
              /\ s.pcb[p].state # "Waiting" => t.pcb[p] = s.pcb[p]
              /\ t.pcb[p].state = IF p \in Waking(s) THEN "Ready" ELSE s.pcb[p].state
              /\ t.pcb[p].remainingTime = s.pcb[p].remainingTime
              /\ s.pcb[p].state = "Waiting" =>
                   IF p \in Waking(s) THEN s.pcb[p].ioRemaining = 1
                   ELSE t.pcb[p].ioRemaining = s.pcb[p].ioRemaining - 1
<1> DEFINE W == ToSet(s.ioQueue)
           F == Waking(s)
           q == Kept(s.ioQueue, F)
           pcb == [p \in Procs |->
                     IF p \in F THEN [s.pcb[p] EXCEPT !.ioRemaining = 0, !.state = "Ready"]
                     ELSE IF p \in W THEN [s.pcb[p] EXCEPT !.ioRemaining = s.pcb[p].ioRemaining - 1]
                     ELSE s.pcb[p]]
           u == [s EXCEPT !.pcb = pcb,
                          !.readyQueue = s.readyQueue \o q,
                          !.ioQueue = Kept(s.ioQueue, W \ F),
                          !.levels = LevelsAfterAdd(s, F),
                          !.events = s.events \o EventsOf(s, "io_complete", q)]
<1>1. s \in Simulator
  BY DEF Sound
<1>2. t = u
  BY DEF tickIOQueue, Waking
<1>3. \A p \in Procs : s.pcb[p] \in PCB
  BY <1>1 DEF Simulator
<1>4. W = In(s, "Waiting") /\ F \subseteq W
  BY ProcessSets
<1>5. \A p \in Procs : p \in W <=> s.pcb[p].state = "Waiting"
  BY <1>4 DEF In
<1>6. \A p \in Procs : p \in W => s.pcb[p].ioRemaining > 0 /\ s.pcb[p].ioRemaining \in Nat
  BY <1>3, <1>5 DEF Sound, PCBSound, PCB
<1>7. \A p \in Procs : p \in W =>
        IF p \in F THEN s.pcb[p].ioRemaining = 1 ELSE s.pcb[p].ioRemaining - 1 \in Nat
  BY <1>6 DEF Waking
<1> HIDE DEF W, F, q
<1>8. \A p \in Procs :
        pcb[p] = IF p \in F THEN [s.pcb[p] EXCEPT !.ioRemaining = 0, !.state = "Ready"]
                 ELSE IF p \in W THEN [s.pcb[p] EXCEPT !.ioRemaining = s.pcb[p].ioRemaining - 1]
                 ELSE s.pcb[p]
  OBVIOUS
<1> HIDE DEF pcb
<1>9. /\ u.processes = s.processes /\ u.currentTime = s.currentTime
      /\ u.ganttChart = s.ganttChart /\ u.totalIdleTime = s.totalIdleTime
      /\ u.currentProcess = s.currentProcess
      /\ u.contextSwitches = s.contextSwitches /\ u.timeQuantumUsed = s.timeQuantumUsed
      /\ u.levels = LevelsAfterAdd(s, F) /\ u.pcb = pcb
      /\ u.events = s.events \o EventsOf(s, "io_complete", q)
  BY <1>1 DEF Simulator
<1> HIDE DEF u
<1>10. ASSUME NEW p \in Procs
       PROVE  /\ s.pcb[p].state # "Waiting" => pcb[p] = s.pcb[p]
              /\ pcb[p].state = IF p \in F THEN "Ready" ELSE s.pcb[p].state
              /\ pcb[p].remainingTime = s.pcb[p].remainingTime
              /\ s.pcb[p].state = "Waiting" =>
                   IF p \in F THEN s.pcb[p].ioRemaining = 1
                   ELSE pcb[p].ioRemaining = s.pcb[p].ioRemaining - 1
  <2>1. CASE p \in F
    <3>1. pcb[p] = [s.pcb[p] EXCEPT !.ioRemaining = 0, !.state = "Ready"]
      BY <1>8, <2>1
    <3>2. pcb[p].state = "Ready" /\ pcb[p].remainingTime = s.pcb[p].remainingTime
      BY <1>3, <3>1, IOFinished
    <3> QED BY <1>4, <1>5, <1>7, <2>1, <3>2
  <2>2. CASE p \in W \ F
    <3>1. pcb[p] = [s.pcb[p] EXCEPT !.ioRemaining = s.pcb[p].ioRemaining - 1]
      BY <1>8, <2>2
    <3>2. s.pcb[p].ioRemaining - 1 \in Nat
      BY <1>7, <2>2
    <3>3. /\ pcb[p].state = s.pcb[p].state /\ pcb[p].remainingTime = s.pcb[p].remainingTime
          /\ pcb[p].ioRemaining = s.pcb[p].ioRemaining - 1
      BY <1>3, <3>1, <3>2, IORemainingSet
    <3> QED BY <1>5, <2>2, <3>3
  <2>3. CASE p \notin W
    BY <1>4, <1>5, <1>8, <2>3
  <2> QED BY <2>1, <2>2, <2>3
<1> QED BY <1>2, <1>9, <1>10 DEF SameClock, F, q

----------------------------------------------------------------------------
(* One process is given another State; nothing else of any process changes  *)
(* that the properties read.                                                *)
Relabelled(s, t, p, st) ==
    \A r \in Procs :
        /\ r # p => t.pcb[r] = s.pcb[r]
        /\ t.pcb[r].state = IF r = p THEN st ELSE s.pcb[r].state
        /\ t.pcb[r].remainingTime = s.pcb[r].remainingTime
        /\ t.pcb[r].ioRemaining = s.pcb[r].ioRemaining

(* Setting the State field of one process relabels it.                      *)
LEMMA SettingStateRelabels ==
  ASSUME NEW s \in Simulator, NEW t, NEW p \in Procs, NEW st \in State,
         t.pcb = [s.pcb EXCEPT ![p] = [s.pcb[p] EXCEPT !.state = st]]
  PROVE  Relabelled(s, t, p, st)
<1>1. s.pcb \in [Procs -> PCB]
  BY DEF Simulator
<1>2. \A r \in Procs : r # p => t.pcb[r] = s.pcb[r]
  BY <1>1
<1> DEFINE c == [s.pcb[p] EXCEPT !.state = st]
<1>3. t.pcb[p] = c /\ s.pcb[p] \in PCB
  BY <1>1
<1>4. c.state = st /\ c.remainingTime = s.pcb[p].remainingTime /\ c.ioRemaining = s.pcb[p].ioRemaining
  BY <1>3, StateSet
<1> QED BY <1>2, <1>3, <1>4 DEF Relabelled

(* scheduleNextProcess, called without a current process: it leaves the     *)
(* struct alone when no process is ready, and otherwise runs the one the    *)
(* scheduler picks, with a fresh quantum.                                   *)
LEMMA ScheduleDoes ==
  ASSUME Static, NEW s, Sound(s), s.currentProcess = None, NEW draw \in Nat,
         NEW t, t = scheduleNextProcess(s, draw)
  PROVE  /\ SameClock(s, t)
         /\ t.ioQueue = s.ioQueue
         /\ t.contextSwitches = s.contextSwitches
         /\ t.levels = s.levels
         /\ IF s.readyQueue = << >> THEN t = s
            ELSE LET p == t.currentProcess
                 IN  /\ p = Schedule(s, draw)
                     /\ p \in ToSet(s.readyQueue)
                     /\ p \in Procs
                     /\ s.pcb[p].state = "Ready"
                     /\ t.timeQuantumUsed = 0
                     /\ Relabelled(s, t, p, "Running")
                     /\ \E type \in {"start", "resume"} :
                            t.events = Append(s.events, Event(s, type, p))
<1>1. s \in Simulator
  BY DEF Sound
<1>2. CASE s.readyQueue = << >>
  <2>1. [s EXCEPT !.currentProcess = None] = s
    BY <1>1 DEF Simulator
  <2>2. t = s
    BY <1>2, <2>1 DEF scheduleNextProcess
  <2> QED BY <1>2, <2>2 DEF SameClock
<1>3. CASE s.readyQueue # << >>
  <2> DEFINE p == Schedule(s, draw)
             type == IF s.pcb[p].hasStarted THEN "resume" ELSE "start"
             c == [s.pcb[p] EXCEPT !.state = "Running"]
             u == [s EXCEPT !.readyQueue = RemoveFirst(s.readyQueue, p),
                            !.contextSwitches = s.contextSwitches,
                            !.currentProcess = p,
                            !.pcb = [s.pcb EXCEPT ![p] = c],
                            !.timeQuantumUsed = 0,
                            !.events = Append(s.events, Event(s, type, p))]
  <2>1. p \in ToSet(s.readyQueue)
    BY <1>1, <1>3, ScheduleFromQueue DEF Static
  <2>2. p \in Procs /\ s.pcb[p].state = "Ready"
    BY <2>1, ProcessSets DEF In
  <2>3. t = u
    BY <1>1, <1>3 DEF scheduleNextProcess, Simulator
  <2>4. p = Schedule(s, draw) /\ type \in {"start", "resume"}
    OBVIOUS
  <2> HIDE DEF p, c, type
  <2>5. /\ u.processes = s.processes /\ u.currentTime = s.currentTime
        /\ u.ganttChart = s.ganttChart /\ u.totalIdleTime = s.totalIdleTime
        /\ u.ioQueue = s.ioQueue /\ u.contextSwitches = s.contextSwitches
        /\ u.levels = s.levels /\ u.currentProcess = p
        /\ u.timeQuantumUsed = 0 /\ u.events = Append(s.events, Event(s, type, p))
        /\ u.pcb = [s.pcb EXCEPT ![p] = c]
    BY <1>1 DEF Simulator
  <2> HIDE DEF u
  <2>6. Relabelled(s, u, p, "Running")
    <3>1. u.pcb = [s.pcb EXCEPT ![p] = [s.pcb[p] EXCEPT !.state = "Running"]]
      BY <2>5 DEF c
    <3>2. "Running" \in State
      BY DEF State
    <3> QED BY <1>1, <2>2, <3>1, <3>2, SettingStateRelabels
  <2> QED BY <1>3, <2>1, <2>2, <2>3, <2>4, <2>5, <2>6 DEF SameClock
<1> QED BY <1>2, <1>3

(* preemptCurrentProcess: the current process is Ready again, and the       *)
(* switch is counted and logged.                                            *)
LEMMA PreemptDoes ==
  ASSUME Static, NEW s, Sound(s), s.currentProcess # None,
         NEW t, t = preemptCurrentProcess(s)
  PROVE  /\ SameClock(s, t)
         /\ t.ioQueue = s.ioQueue
         /\ t.readyQueue = Append(s.readyQueue, s.currentProcess)
         /\ t.contextSwitches = s.contextSwitches + 1
         /\ t.levels = s.levels
         /\ t.currentProcess = None
         /\ t.events = Append(s.events, Event(s, "preempt", s.currentProcess))
         /\ Relabelled(s, t, s.currentProcess, "Ready")
<1> DEFINE p == s.currentProcess
           c == [s.pcb[p] EXCEPT !.state = "Ready"]
           u == [s EXCEPT !.events = Append(s.events, Event(s, "preempt", p)),
                          !.contextSwitches = s.contextSwitches + 1,
                          !.pcb = [s.pcb EXCEPT ![p] = c],
                          !.readyQueue = Append(s.readyQueue, p),
                          !.currentProcess = None]
<1>1. s \in Simulator /\ p \in Procs
  BY CurrentFacts DEF Sound
<1>2. t = u
  BY <1>1 DEF preemptCurrentProcess, Simulator
<1>3. /\ u.processes = s.processes /\ u.currentTime = s.currentTime
      /\ u.ganttChart = s.ganttChart /\ u.totalIdleTime = s.totalIdleTime
      /\ u.ioQueue = s.ioQueue /\ u.contextSwitches = s.contextSwitches + 1
      /\ u.readyQueue = Append(s.readyQueue, p)
      /\ u.levels = s.levels /\ u.currentProcess = None
      /\ u.events = Append(s.events, Event(s, "preempt", p))
      /\ u.pcb = [s.pcb EXCEPT ![p] = c]
  BY <1>1 DEF Simulator
<1> HIDE DEF u
<1>4. Relabelled(s, u, p, "Ready")
  <2> HIDE DEF p
  <2>1. "Ready" \in State
    BY DEF State
  <2> QED BY <1>1, <1>3, <2>1, SettingStateRelabels
<1> QED BY <1>2, <1>3, <1>4 DEF SameClock

(* requeueExpired: the same at the end of a quantum, and MLFQ demotes the   *)
(* process.                                                                 *)
LEMMA RequeueExpiredDoes ==
  ASSUME Static, NEW s, Sound(s), s.currentProcess # None,
         NEW t, t = requeueExpired(s, s.currentProcess)
  PROVE  /\ SameClock(s, t)
         /\ t.ioQueue = s.ioQueue
         /\ t.contextSwitches = s.contextSwitches + 1
         /\ t.levels = LevelsAfterExpiry(s, s.currentProcess)
         /\ t.currentProcess = None
         /\ t.readyQueue = Append(s.readyQueue, s.currentProcess)
         /\ t.events = Append(s.events, Event(s, "quantum_expire", s.currentProcess))
         /\ Relabelled(s, t, s.currentProcess, "Ready")
<1> DEFINE p == s.currentProcess
           c == [s.pcb[p] EXCEPT !.state = "Ready"]
           u == [s EXCEPT !.levels = LevelsAfterExpiry(s, p),
                          !.events = Append(s.events, Event(s, "quantum_expire", p)),
                          !.contextSwitches = s.contextSwitches + 1,
                          !.pcb = [s.pcb EXCEPT ![p] = c],
                          !.readyQueue = Append(s.readyQueue, p),
                          !.currentProcess = None,
                          !.timeQuantumUsed = 0]
<1>1. s \in Simulator /\ p \in Procs
  BY CurrentFacts DEF Sound
<1>2. t = u
  BY <1>1 DEF requeueExpired, Simulator
<1>3. /\ u.processes = s.processes /\ u.currentTime = s.currentTime
      /\ u.ganttChart = s.ganttChart /\ u.totalIdleTime = s.totalIdleTime
      /\ u.ioQueue = s.ioQueue /\ u.contextSwitches = s.contextSwitches + 1
      /\ u.readyQueue = Append(s.readyQueue, p)
      /\ u.levels = LevelsAfterExpiry(s, p) /\ u.currentProcess = None
      /\ u.events = Append(s.events, Event(s, "quantum_expire", p))
      /\ u.pcb = [s.pcb EXCEPT ![p] = c]
  BY <1>1 DEF Simulator
<1> HIDE DEF u
<1>4. Relabelled(s, u, p, "Ready")
  <2> HIDE DEF p
  <2>1. "Ready" \in State
    BY DEF State
  <2> QED BY <1>1, <1>3, <2>1, SettingStateRelabels
<1> QED BY <1>2, <1>3, <1>4 DEF SameClock

----------------------------------------------------------------------------
(* The fields that executeProcess, chargeTick, idle and advanceClock leave  *)
(* alone.                                                                   *)
SameQueues(s, t) ==
    /\ t.processes = s.processes
    /\ t.readyQueue = s.readyQueue
    /\ t.ioQueue = s.ioQueue
    /\ t.contextSwitches = s.contextSwitches

(* executeProcess: the current process has one tick less to run, and leaves *)
(* the CPU and the level map exactly when that was the last one.            *)
LEMMA ExecuteDoes ==
  ASSUME Static, NEW s, Sound(s), s.currentProcess # None,
         NEW t, t = executeProcess(s), NEW p, p = s.currentProcess
  PROVE  /\ SameQueues(s, t)
         /\ t.currentTime = s.currentTime
         /\ t.totalIdleTime = s.totalIdleTime
         /\ t.timeQuantumUsed = s.timeQuantumUsed
         /\ t.ganttChart = addGanttEntry(s.ganttChart, task[p].pid, s.currentTime)
         /\ \A r \in Procs : r # p => t.pcb[r] = s.pcb[r]
         /\ t.pcb[p] = Execute(s.pcb[p], p, s.currentTime)
         /\ t.pcb[p].remainingTime = s.pcb[p].remainingTime - 1
         /\ t.pcb[p].state \in {"Running", "Terminated"}
         /\ IF t.pcb[p].state = "Terminated"
            THEN /\ t.currentProcess = None
                 /\ t.levels = LevelsAfterRemove(s, p)
                 /\ t.events = Append(s.events, Event(s, "complete", p))
            ELSE /\ t.currentProcess = p
                 /\ t.levels = s.levels
                 /\ t.events = s.events
<1> DEFINE c == Execute(s.pcb[p], p, s.currentTime)
           chart == addGanttEntry(s.ganttChart, task[p].pid, s.currentTime)
           v == [s EXCEPT !.pcb = [s.pcb EXCEPT ![p] = c], !.ganttChart = chart]
           u == [v EXCEPT !.events = Append(v.events, Event(v, "complete", p)),
                          !.levels = LevelsAfterRemove(v, p),
                          !.currentProcess = None]
<1>1. /\ s \in Simulator /\ p \in Procs /\ s.pcb \in [Procs -> PCB] /\ s.pcb[p] \in PCB
      /\ PCBSound(s.pcb[p], p) /\ s.pcb[p].state = "Running" /\ s.pcb[p].remainingTime > 0
      /\ s.currentTime \in Nat
  BY CurrentFacts, SoundFacts DEF Simulator
<1>2. /\ c \in PCB /\ PCBSound(c, p) /\ c.state \in {"Running", "Terminated"}
      /\ c.remainingTime = s.pcb[p].remainingTime - 1
  BY <1>1, ExecuteFacts
<1>3. t = IF ~ IsComplete(v, p) THEN v ELSE u
  BY <1>1 DEF executeProcess, Simulator
<1> HIDE DEF c, chart
<1>4. /\ v.processes = s.processes /\ v.readyQueue = s.readyQueue /\ v.ioQueue = s.ioQueue
      /\ v.contextSwitches = s.contextSwitches /\ v.currentTime = s.currentTime
      /\ v.totalIdleTime = s.totalIdleTime /\ v.timeQuantumUsed = s.timeQuantumUsed
      /\ v.ganttChart = chart /\ v.levels = s.levels /\ v.events = s.events
      /\ v.currentProcess = s.currentProcess
      /\ v.pcb = [s.pcb EXCEPT ![p] = c]
  BY <1>1 DEF Simulator
<1>5. /\ u.processes = v.processes /\ u.readyQueue = v.readyQueue /\ u.ioQueue = v.ioQueue
      /\ u.contextSwitches = v.contextSwitches /\ u.currentTime = v.currentTime
      /\ u.totalIdleTime = v.totalIdleTime /\ u.timeQuantumUsed = v.timeQuantumUsed
      /\ u.ganttChart = v.ganttChart /\ u.levels = LevelsAfterRemove(v, p)
      /\ u.events = Append(v.events, Event(v, "complete", p))
      /\ u.currentProcess = None /\ u.pcb = v.pcb
  BY <1>1 DEF Simulator
<1> HIDE DEF u, v
<1>6. v.pcb[p] = c /\ \A r \in Procs : r # p => v.pcb[r] = s.pcb[r]
  BY <1>1, <1>4
<1>7. IsComplete(v, p) <=> c.state = "Terminated"
  <2>1. c.remainingTime \in Nat /\ (c.state = "Terminated" <=> c.remainingTime = 0)
    BY <1>2 DEF PCBSound, PCB
  <2> QED BY <1>6, <2>1 DEF IsComplete
<1>8. LevelsAfterRemove(v, p) = LevelsAfterRemove(s, p)
  BY <1>4 DEF LevelsAfterRemove
<1>9. Event(v, "complete", p) = Event(s, "complete", p)
  BY <1>4 DEF Event
<1>10. CASE c.state = "Terminated"
  <2>1. t = u
    BY <1>3, <1>7, <1>10
  <2>2. SameQueues(s, t)
    BY <1>4, <1>5, <2>1 DEF SameQueues
  <2>3. t.pcb[p] = c
    BY <1>5, <1>6, <2>1
  <2>4. t.ganttChart = chart
    BY <1>4, <1>5, <2>1
  <2>5. c = Execute(s.pcb[p], p, s.currentTime)
    BY DEF c
  <2>6. chart = addGanttEntry(s.ganttChart, task[p].pid, s.currentTime)
    BY DEF chart
  <2>7. /\ t.currentProcess = None
        /\ t.levels = LevelsAfterRemove(s, p)
        /\ t.events = Append(s.events, Event(s, "complete", p))
    BY <1>4, <1>5, <1>8, <1>9, <2>1
  <2>8. \A r \in Procs : r # p => t.pcb[r] = s.pcb[r]
    BY <1>5, <1>6, <2>1
  <2>9. /\ t.currentTime = s.currentTime /\ t.totalIdleTime = s.totalIdleTime
        /\ t.timeQuantumUsed = s.timeQuantumUsed
    BY <1>4, <1>5, <2>1
  <2>10. /\ t.pcb[p].remainingTime = s.pcb[p].remainingTime - 1
         /\ t.pcb[p].state = "Terminated"
    BY <1>2, <1>10, <2>3
  <2> QED BY <2>2, <2>3, <2>4, <2>5, <2>6, <2>7, <2>8, <2>9, <2>10
<1>11. CASE c.state # "Terminated"
  <2>1. t = v
    BY <1>3, <1>7, <1>11
  <2> QED BY <1>2, <1>4, <1>6, <1>11, <2>1 DEF SameQueues, c, chart
<1> QED BY <1>10, <1>11

(* timeQuantumUsed++ and nothing else.                                      *)
LEMMA ChargeDoes ==
  ASSUME NEW s, Sound(s), NEW t, t = chargeTick(s)
  PROVE  /\ SameQueues(s, t) /\ SameClock(s, t)
         /\ t.currentProcess = s.currentProcess
         /\ t.timeQuantumUsed = s.timeQuantumUsed + 1
         /\ t.levels = s.levels /\ t.events = s.events /\ t.pcb = s.pcb
<1>1. s \in Simulator
  BY DEF Sound
<1> DEFINE used == s.timeQuantumUsed + 1
<1>2. t = [s EXCEPT !.timeQuantumUsed = used]
  BY DEF chargeTick
<1> HIDE DEF used
<1>3. t.timeQuantumUsed = used
  BY <1>1, <1>2 DEF Simulator
<1>4. /\ SameQueues(s, t) /\ SameClock(s, t)
      /\ t.currentProcess = s.currentProcess
      /\ t.levels = s.levels /\ t.events = s.events /\ t.pcb = s.pcb
  BY <1>1, <1>2 DEF Simulator, SameQueues, SameClock
<1> QED BY <1>3, <1>4 DEF used

(* An idle tick is counted and charted.                                     *)
LEMMA IdleDoes ==
  ASSUME NEW s, Sound(s), NEW t, t = idle(s)
  PROVE  /\ SameQueues(s, t)
         /\ t.currentTime = s.currentTime
         /\ t.totalIdleTime = s.totalIdleTime + 1
         /\ t.ganttChart = addGanttEntry(s.ganttChart, IdlePID, s.currentTime)
         /\ t.currentProcess = s.currentProcess
         /\ t.timeQuantumUsed = s.timeQuantumUsed
         /\ t.levels = s.levels /\ t.events = s.events /\ t.pcb = s.pcb
<1>1. s \in Simulator
  BY DEF Sound
<1> DEFINE total == s.totalIdleTime + 1
           chart == addGanttEntry(s.ganttChart, IdlePID, s.currentTime)
<1>2. t = [s EXCEPT !.totalIdleTime = total, !.ganttChart = chart]
  BY DEF idle
<1> HIDE DEF total, chart
<1>3. /\ SameQueues(s, t) /\ t.currentTime = s.currentTime
      /\ t.totalIdleTime = total /\ t.ganttChart = chart
      /\ t.currentProcess = s.currentProcess
      /\ t.timeQuantumUsed = s.timeQuantumUsed
      /\ t.levels = s.levels /\ t.events = s.events /\ t.pcb = s.pcb
  BY <1>1, <1>2 DEF Simulator, SameQueues
<1> QED BY <1>3 DEF total, chart

(* The clock advances; of the processes only the waiting times of ready     *)
(* ones change.                                                             *)
LEMMA AdvanceDoes ==
  ASSUME NEW s, Sound(s), NEW t, t = advanceClock(s)
  PROVE  /\ SameQueues(s, t)
         /\ t.currentTime = s.currentTime + 1
         /\ t.totalIdleTime = s.totalIdleTime
         /\ t.ganttChart = s.ganttChart
         /\ t.currentProcess = s.currentProcess
         /\ t.timeQuantumUsed = s.timeQuantumUsed
         /\ t.levels = s.levels /\ t.events = s.events
         /\ \A p \in Procs :
              /\ s.pcb[p].state # "Ready" => t.pcb[p] = s.pcb[p]
              /\ t.pcb[p].state = s.pcb[p].state
              /\ t.pcb[p].remainingTime = s.pcb[p].remainingTime
              /\ t.pcb[p].ioRemaining = s.pcb[p].ioRemaining
<1> DEFINE waits(p) == /\ p \in ToSet(s.readyQueue)
                       /\ s.pcb[p].state = "Ready"
                       /\ s.currentProcess = None \/ task[p].pid # task[s.currentProcess].pid
           longer(p) == [s.pcb[p] EXCEPT !.waitingTime = s.pcb[p].waitingTime + 1]
           pcb == [p \in Procs |-> IF waits(p) THEN longer(p) ELSE s.pcb[p]]
           now == s.currentTime + 1
           u == [s EXCEPT !.currentTime = now, !.pcb = pcb]
<1>1. s \in Simulator
  BY DEF Sound
<1>2. t = u
  BY DEF advanceClock
<1>3. \A p \in Procs : waits(p) => s.pcb[p].state = "Ready"
  OBVIOUS
<1> HIDE DEF waits, now
<1>4. ASSUME NEW p \in Procs
      PROVE  /\ s.pcb[p].state # "Ready" => pcb[p] = s.pcb[p]
             /\ pcb[p].state = s.pcb[p].state
             /\ pcb[p].remainingTime = s.pcb[p].remainingTime
             /\ pcb[p].ioRemaining = s.pcb[p].ioRemaining
  <2> DEFINE b == s.pcb[p]
             wait == b.waitingTime + 1
             c == [b EXCEPT !.waitingTime = wait]
  <2>1. b \in PCB
    BY <1>1 DEF Simulator
  <2>2. IF waits(p) THEN pcb[p] = c ELSE pcb[p] = b
    OBVIOUS
  <2> HIDE DEF b, wait, pcb
  <2>3. c.state = b.state /\ c.remainingTime = b.remainingTime /\ c.ioRemaining = b.ioRemaining
    BY <2>1 DEF PCB
  <2> HIDE DEF c
  <2> QED BY <1>3, <2>2, <2>3 DEF b
<1> HIDE DEF pcb
<1>5. /\ SameQueues(s, u) /\ u.currentTime = now
      /\ u.totalIdleTime = s.totalIdleTime /\ u.ganttChart = s.ganttChart
      /\ u.currentProcess = s.currentProcess
      /\ u.timeQuantumUsed = s.timeQuantumUsed
      /\ u.levels = s.levels /\ u.events = s.events /\ u.pcb = pcb
  BY <1>1 DEF Simulator, SameQueues
<1> HIDE DEF u
<1> QED BY <1>2, <1>4, <1>5 DEF now, SameQueues

(* checkIOBurst: nothing, or the current process starts one of its bursts,  *)
(* which it has not done before.                                            *)
StartsBurst(b, c, p) ==
    \E k \in DOMAIN task[p].ioBursts \ b.ioCompleted :
        c = [b EXCEPT !.currentIOIndex = k, !.ioCompleted = b.ioCompleted \cup {k},
                      !.ioRemaining = task[p].ioBursts[k].duration, !.state = "Waiting"]
LEMMA CheckIODoes ==
  ASSUME Static, NEW s, Sound(s), NEW t, t = checkIOBurst(s), t # s,
         NEW p, p = s.currentProcess
  PROVE  /\ p \in Procs
         /\ SameClock(s, t)
         /\ t.readyQueue = s.readyQueue
         /\ t.contextSwitches = s.contextSwitches
         /\ t.currentProcess = None
         /\ t.levels = s.levels
         /\ t.events = Append(s.events, Event(s, "io_start", p))
         /\ \A r \in Procs : r # p => t.pcb[r] = s.pcb[r]
         /\ t.pcb[p].state = "Waiting"
         /\ t.pcb[p].remainingTime = s.pcb[p].remainingTime
         /\ \E k \in DOMAIN task[p].ioBursts :
                t.pcb[p].ioRemaining = task[p].ioBursts[k].duration
         /\ StartsBurst(s.pcb[p], t.pcb[p], p)
<1> DEFINE k == s.pcb[p].currentIOIndex
           b == s.pcb[p]
           c == [b EXCEPT !.currentIOIndex = k + 1, !.ioCompleted = b.ioCompleted \cup {k + 1},
                          !.ioRemaining = task[p].ioBursts[k + 1].duration, !.state = "Waiting"]
           u == [s EXCEPT !.pcb = [s.pcb EXCEPT ![p] = c],
                          !.ioQueue = Append(s.ioQueue, p),
                          !.events = Append(s.events, Event(s, "io_start", p)),
                          !.currentProcess = None,
                          !.timeQuantumUsed = 0]
<1>1. p # None
  BY DEF checkIOBurst
<1>2. /\ p \in Procs /\ s \in Simulator /\ s.pcb \in [Procs -> PCB] /\ s.pcb[p] \in PCB
      /\ task[p].ioBursts \in Seq(IOBurst) /\ Len(task[p].ioBursts) \in Nat
  BY <1>1, CurrentFacts, SoundFacts
<1>3. ~ IsComplete(s, p)
  BY <1>1, <1>2, CurrentFacts DEF IsComplete, PCB
<1>4. nextIOIndex(s, p) = k
  BY <1>2, NextIOIndexIsCurrent
<1>5. [s EXCEPT !.pcb[p].currentIOIndex = k] = s
  <2>1. [s.pcb[p] EXCEPT !.currentIOIndex = k] = s.pcb[p]
    BY <1>2 DEF PCB
  <2>2. [s.pcb EXCEPT ![p] = s.pcb[p]] = s.pcb
    BY <1>2
  <2>3. [s EXCEPT !.pcb = s.pcb] = s
    BY <1>2 DEF Simulator
  <2> QED BY <2>1, <2>2, <2>3
<1>6. k < Len(task[p].ioBursts) /\ t = startIO(s, p, k + 1)
  BY <1>1, <1>3, <1>4, <1>5 DEF checkIOBurst
<1>7. k \in Nat
  BY <1>2 DEF PCB
<1>8. k + 1 \in DOMAIN task[p].ioBursts
  <2>1. DOMAIN task[p].ioBursts = 1..Len(task[p].ioBursts)
    BY <1>2, LenProperties
  <2> HIDE DEF k
  <2> QED BY <1>2, <1>6, <1>7, <2>1
<1>9. t = u
  <2>1. startIO(s, p, k + 1) = [s EXCEPT !.pcb[p] = c,
                                     !.ioQueue = Append(@, p),
                                     !.events = Append(@, Event(s, "io_start", p)),
                                     !.currentProcess = None,
                                     !.timeQuantumUsed = 0]
    BY Zenon DEF startIO
  <2> HIDE DEF c, k
  <2> QED BY <1>2, <1>6, <2>1 DEF Simulator
<1>10. /\ c.state = "Waiting" /\ c.remainingTime = b.remainingTime
       /\ c.ioRemaining = task[p].ioBursts[k + 1].duration
  <2> HIDE DEF k
  <2> QED BY <1>2 DEF PCB
<1>10a. StartsBurst(b, c, p)
  <2>1. b.ioCompleted = 1..k
    BY <1>2, SoundFacts DEF PCBSound
  <2>2. k + 1 \notin b.ioCompleted
    <3> HIDE DEF k
    <3> QED BY <1>7, <2>1
  <2> HIDE DEF k
  <2> QED BY <1>8, <2>2 DEF StartsBurst
<1> HIDE DEF c
<1>11. /\ SameClock(s, u)
       /\ u.readyQueue = s.readyQueue /\ u.contextSwitches = s.contextSwitches
       /\ u.currentProcess = None
       /\ u.levels = s.levels /\ u.events = Append(s.events, Event(s, "io_start", p))
       /\ u.pcb = [s.pcb EXCEPT ![p] = c]
  BY <1>2 DEF Simulator, SameClock
<1> HIDE DEF u
<1>12. u.pcb[p] = c /\ \A r \in Procs : r # p => u.pcb[r] = s.pcb[r]
  BY <1>2, <1>11
<1>13. StartsBurst(s.pcb[p], u.pcb[p], p)
  BY <1>10a, <1>12
<1> QED BY <1>2, <1>8, <1>9, <1>10, <1>11, <1>12, <1>13
=============================================================================
