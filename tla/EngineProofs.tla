---------------------------- MODULE EngineProofs ----------------------------
(***************************************************************************)
(* The engine keeps every process in its place, for every workload, every  *)
(* algorithm and any number of processes.                                  *)
(*                                                                         *)
(* The invariant, Sound, is preserved by each method executeTimeUnit calls *)
(* and not only by a whole tick: one lemma per method, and a tick is their *)
(* composition.  Most methods move a single process; MoveSound says what   *)
(* such a step must do to the queues.                                      *)
(***************************************************************************)
EXTENDS EngineProperties, QueueLemmas, FiniteSetTheorems

(* What never changes: the algorithm and the submitted fields.              *)
Static == alg \in Algorithm /\ task \in [Procs -> Task]

----------------------------------------------------------------------------
(* The level map of MLFQ and MLQ, seen as a function from some of the       *)
(* processes to the levels.                                                 *)
LEMMA LevelsTyped ==
  ASSUME Static, NEW s \in Simulator
  PROVE  /\ NumLevels \in Nat \ {0}
         /\ DOMAIN s.levels \in SUBSET Procs
         /\ \A p \in DOMAIN s.levels : s.levels[p] \in 0..(NumLevels - 1)
         /\ s.levels \in [DOMAIN s.levels -> 0..(NumLevels - 1)]
<1>1. PICK D \in SUBSET Procs : s.levels \in [D -> 0..(NumLevels - 1)]
  BY DEF Simulator, Levels
<1>2. NumLevels \in Nat \ {0}
  <2>1. Len(FeedbackQuanta) \in Nat /\ Len(FeedbackQuanta) > 0
    BY QuantumAssumption, LenProperties
  <2>2. Len(FeedbackQuanta) \in Nat \ {0}
    BY <2>1
  <2> QED BY <2>2, QuantumAssumption DEF NumLevels
<1> QED BY <1>1, <1>2

(* A function from some of the processes to the levels is a level map.      *)
LEMMA LevelsIntro ==
  ASSUME NEW f, NEW D \in SUBSET Procs, f \in [D -> 0..(NumLevels - 1)]
  PROVE  f \in Levels
BY DEF Levels

(* AddProcess gives a process an existing level: 0 (MLFQ) or levelFor       *)
(* (MLQ).                                                                   *)
LEMMA LevelsAfterAddTyped ==
  ASSUME Static, NEW s \in Simulator, NEW A \in SUBSET Procs
  PROVE  LevelsAfterAdd(s, A) \in Levels
<1> DEFINE D == DOMAIN s.levels
<1>1. /\ NumLevels \in Nat \ {0} /\ D \in SUBSET Procs
      /\ \A p \in D : s.levels[p] \in 0..(NumLevels - 1)
  BY LevelsTyped
<1> HIDE DEF D
<1>2. D \cup A \in SUBSET Procs
  BY <1>1
<1>3. CASE alg = "mlfq"
  <2> DEFINE f == [p \in D \cup A |-> IF p \in D THEN s.levels[p] ELSE 0]
  <2>1. f \in [D \cup A -> 0..(NumLevels - 1)]
    BY <1>1
  <2>2. f \in Levels
    <3> HIDE DEF f
    <3> QED BY <1>2, <2>1, LevelsIntro
  <2> QED BY <1>3, <2>2 DEF LevelsAfterAdd, D
<1>4. CASE alg = "mlq"
  <2> DEFINE f == [p \in D \cup A |-> IF p \in A THEN levelFor[p] ELSE s.levels[p]]
  <2>1. ASSUME NEW p \in A PROVE levelFor[p] \in 0..(NumLevels - 1)
    <3>1. task[p] \in Task /\ p \in Procs
      BY DEF Static
    <3>2. task[p].priority \in Int
      BY <3>1 DEF Task
    <3>3. NumLevels = QueueLevels
      BY <1>4 DEF NumLevels
    <3> QED BY <1>1, <3>1, <3>2, <3>3 DEF levelFor
  <2>2. f \in [D \cup A -> 0..(NumLevels - 1)]
    BY <1>1, <2>1
  <2>3. f \in Levels
    <3> HIDE DEF f
    <3> QED BY <1>2, <2>2, LevelsIntro
  <2> QED BY <1>4, <2>3 DEF LevelsAfterAdd, D
<1>5. CASE alg # "mlfq" /\ alg # "mlq"
  BY <1>5 DEF LevelsAfterAdd, Simulator
<1> QED BY <1>3, <1>4, <1>5

(* RemoveProcess leaves a level map.                                        *)
LEMMA LevelsAfterRemoveTyped ==
  ASSUME Static, NEW s \in Simulator, NEW p \in Procs
  PROVE  LevelsAfterRemove(s, p) \in Levels
<1> DEFINE D == DOMAIN s.levels \ {p}
           f == [r \in D |-> s.levels[r]]
<1>1. D \in SUBSET Procs /\ f \in [D -> 0..(NumLevels - 1)]
  BY LevelsTyped
<1>2. f \in Levels
  <2> HIDE DEF f, D
  <2> QED BY <1>1, LevelsIntro
<1> QED BY <1>2 DEF LevelsAfterRemove

(* OnQuantumExpired never demotes a process below the last MLFQ queue.      *)
LEMMA LevelsAfterExpiryTyped ==
  ASSUME Static, NEW s \in Simulator, NEW p \in Procs
  PROVE  LevelsAfterExpiry(s, p) \in Levels
<1>1. CASE alg = "mlfq" /\ Level(s)[p] < Len(FeedbackQuanta) - 1
  <2> DEFINE D == DOMAIN s.levels \cup {p}
             f == [r \in D |-> IF r = p THEN Level(s)[p] + 1 ELSE s.levels[r]]
  <2>1. Level(s)[p] + 1 \in 0..(NumLevels - 1)
    <3>1. Level(s)[p] \in Nat
      BY KeysAreNat DEF Static
    <3>2. Len(FeedbackQuanta) \in Nat /\ NumLevels = Len(FeedbackQuanta)
      BY <1>1, QuantumAssumption, LenProperties DEF NumLevels
    <3> QED BY <1>1, <3>1, <3>2
  <2>2. D \in SUBSET Procs /\ f \in [D -> 0..(NumLevels - 1)]
    BY <2>1, LevelsTyped
  <2>3. f \in Levels
    <3> HIDE DEF f, D
    <3> QED BY <2>2, LevelsIntro
  <2> QED BY <1>1, <2>3 DEF LevelsAfterExpiry
<1>2. CASE ~ (alg = "mlfq" /\ Level(s)[p] < Len(FeedbackQuanta) - 1)
  BY <1>2 DEF LevelsAfterExpiry, Simulator
<1> QED BY <1>1, <1>2

----------------------------------------------------------------------------
(* addEvent records an event.                                               *)
LEMMA EventTyped ==
  ASSUME Static, NEW s \in Simulator, NEW type \in EventType, NEW p \in Procs
  PROVE  Event(s, type, p) \in EventRecord
<1>1. task[p].pid \in Nat /\ s.currentTime \in Nat
  BY DEF Static, Task, Simulator
<1> QED BY <1>1 DEF Event, EventRecord

(* The events of a whole batch, of arrivals or of finished I/O.             *)
LEMMA EventsOfTyped ==
  ASSUME Static, NEW s \in Simulator, NEW type \in EventType, NEW q \in Seq(Procs)
  PROVE  EventsOf(s, type, q) \in Seq(EventRecord)
<1>1. DOMAIN q = 1..Len(q) /\ Len(q) \in Nat /\ \A i \in 1..Len(q) : q[i] \in Procs
  BY LenProperties, ElementOfSeq
<1>2. \A i \in 1..Len(q) : Event(s, type, q[i]) \in EventRecord
  BY <1>1, EventTyped
<1>3. EventsOf(s, type, q) = [i \in 1..Len(q) |-> Event(s, type, q[i])]
  BY <1>1 DEF EventsOf
<1> QED BY <1>1, <1>2, <1>3, IsASeq

(* addGanttEntry extends the last slice or appends one.                     *)
LEMMA GanttTyped ==
  ASSUME NEW chart \in Seq(GanttEntry), NEW pid \in Int, NEW start \in Nat
  PROVE  addGanttEntry(chart, pid, start) \in Seq(GanttEntry)
<1>1. [pid |-> pid, start |-> start, end |-> start + 1] \in GanttEntry
  BY DEF GanttEntry
<1>2. CASE chart # << >> /\ chart[Len(chart)].pid = pid /\ chart[Len(chart)].end = start
  <2> DEFINE n == Len(chart)
             e == [chart[n] EXCEPT !.end = start + 1]
  <2>1. n \in 1..Len(chart)
    BY <1>2, EmptySeq, LenProperties
  <2>2. chart[n] \in GanttEntry
    BY <2>1, ElementOfSeq
  <2>3. e \in GanttEntry
    BY <2>2 DEF GanttEntry
  <2>4. [chart EXCEPT ![n] = e] \in Seq(GanttEntry)
    BY <2>1, <2>3, ExceptSeq
  <2> QED BY <1>2, <2>4 DEF addGanttEntry
<1>3. CASE ~ (chart # << >> /\ chart[Len(chart)].pid = pid /\ chart[Len(chart)].end = start)
  BY <1>1, <1>3, AppendProperties DEF addGanttEntry
<1> QED BY <1>2, <1>3

----------------------------------------------------------------------------
(* The processes in a State.                                                *)
In(s, st) == {p \in Procs : s.pcb[p].state = st}

(* One process: it is Terminated when it has no time left, and its I/O      *)
(* bursts are as IOBurstsInOrder says.                                      *)
PCBSound(b, p) ==
    /\ b.state = "Terminated" <=> b.remainingTime = 0
    /\ b.currentIOIndex <= Len(task[p].ioBursts)
    /\ b.ioCompleted = 1..b.currentIOIndex
    /\ \A i \in b.ioCompleted :
           task[p].burstTime - b.remainingTime >= task[p].ioBursts[i].afterCPUTime
    /\ b.state = "Waiting" <=> b.ioRemaining > 0
    /\ b.ioRemaining > 0 => /\ b.currentIOIndex > 0
                            /\ b.ioRemaining <= task[p].ioBursts[b.currentIOIndex].duration

(* Every process is in the place its State names: Placement, with the       *)
(* queues as sets.                                                          *)
Sound(s) ==
    /\ s \in Simulator
    /\ IsInjective(s.processes)
    /\ Holds(s.readyQueue, In(s, "Ready"))
    /\ Holds(s.ioQueue, In(s, "Waiting"))
    /\ In(s, "Running") = {s.currentProcess} \cap Procs
    /\ \A p \in Procs : s.pcb[p].state # "New" => p \in ToSet(s.processes)
    /\ \A p \in Procs : PCBSound(s.pcb[p], p)

(* The fields of a process after its State is set.                          *)
LEMMA StateSet ==
  ASSUME NEW b \in PCB, NEW st \in State,
         NEW c, c = [b EXCEPT !.state = st]
  PROVE  /\ c \in PCB /\ c.state = st
         /\ c.remainingTime = b.remainingTime /\ c.ioRemaining = b.ioRemaining
         /\ c.currentIOIndex = b.currentIOIndex /\ c.ioCompleted = b.ioCompleted
BY DEF PCB

(* The fields of a process after its IORemaining is set.                    *)
LEMMA IORemainingSet ==
  ASSUME NEW b \in PCB, NEW n \in Nat,
         NEW c, c = [b EXCEPT !.ioRemaining = n]
  PROVE  /\ c \in PCB /\ c.state = b.state
         /\ c.remainingTime = b.remainingTime /\ c.ioRemaining = n
         /\ c.currentIOIndex = b.currentIOIndex /\ c.ioCompleted = b.ioCompleted
BY DEF PCB

(* The fields of a process whose I/O burst is over.                         *)
LEMMA IOFinished ==
  ASSUME NEW b \in PCB,
         NEW c, c = [b EXCEPT !.ioRemaining = 0, !.state = "Ready"]
  PROVE  /\ c \in PCB /\ c.state = "Ready"
         /\ c.remainingTime = b.remainingTime /\ c.ioRemaining = 0
         /\ c.currentIOIndex = b.currentIOIndex /\ c.ioCompleted = b.ioCompleted
BY DEF PCB, State

(* checkArrivals queues every process that has arrived, once.               *)
LEMMA ArrivalsSound ==
  ASSUME Static, NEW s, Sound(s)
  PROVE  Sound(checkArrivals(s))
<1> DEFINE A == {p \in ToSet(s.processes) :
                    task[p].arrivalTime <= s.currentTime /\ s.pcb[p].state = "New"}
           q == Kept(s.processes, A)
           pcb == [p \in Procs |-> IF p \in A THEN [s.pcb[p] EXCEPT !.state = "Ready"]
                                   ELSE s.pcb[p]]
           t == [s EXCEPT !.pcb = pcb,
                          !.readyQueue = s.readyQueue \o q,
                          !.levels = LevelsAfterAdd(s, A),
                          !.events = s.events \o EventsOf(s, "arrival", q)]
<1>1. s \in Simulator /\ s.processes \in Seq(Procs) /\ IsInjective(s.processes)
  BY DEF Sound, Simulator
<1>2. ToSet(s.processes) \subseteq Procs
  <2>1. DOMAIN s.processes = 1..Len(s.processes)
    BY <1>1, LenProperties
  <2> QED BY <1>1, <2>1, ElementOfSeq DEF ToSet
<1>3. A \in SUBSET Procs /\ A \in SUBSET ToSet(s.processes)
  BY <1>2
<1>4. Holds(q, A)
  <2>1. Holds(s.processes, ToSet(s.processes))
    BY <1>1 DEF Holds
  <2>2. Holds(q, ToSet(s.processes) \cap A)
    BY <2>1, KeptHolds
  <2>3. ToSet(s.processes) \cap A = A
    OBVIOUS
  <2> QED BY <2>2, <2>3
<1>5. checkArrivals(s) = t
  BY DEF checkArrivals
<1>6. \A p \in A : s.pcb[p].state = "New"
  OBVIOUS
<1>7. /\ t.processes = s.processes /\ t.readyQueue = s.readyQueue \o q
      /\ t.ioQueue = s.ioQueue /\ t.currentProcess = s.currentProcess /\ t.pcb = pcb
  BY <1>1 DEF Simulator
<1> HIDE DEF A, q
<1>8. pcb \in [Procs -> PCB]
  <2>1. \A p \in Procs : s.pcb[p] \in PCB
    BY <1>1 DEF Simulator
  <2>2. \A p \in Procs : [s.pcb[p] EXCEPT !.state = "Ready"] \in PCB
    BY <2>1, StateSet DEF State
  <2> QED BY <2>1, <2>2
<1>9. t \in Simulator
  <2>1. LevelsAfterAdd(s, A) \in Levels
    BY <1>1, <1>3, LevelsAfterAddTyped
  <2>2. EventsOf(s, "arrival", q) \in Seq(EventRecord)
    BY <1>1, <1>4, EventsOfTyped DEF Holds, EventType
  <2>3. s.events \o EventsOf(s, "arrival", q) \in Seq(EventRecord)
    BY <1>1, <2>2, ConcatProperties DEF Simulator
  <2>4. s.readyQueue \o q \in Seq(Procs)
    BY <1>1, <1>4, ConcatProperties DEF Holds, Simulator
  <2> HIDE DEF pcb
  <2> QED BY <1>1, <1>8, <2>1, <2>3, <2>4 DEF Simulator
<1>10. \A p \in Procs : IF p \in A THEN pcb[p] = [s.pcb[p] EXCEPT !.state = "Ready"]
                        ELSE pcb[p] = s.pcb[p]
  OBVIOUS
<1>11. \A p \in Procs : pcb[p].state = IF p \in A THEN "Ready" ELSE s.pcb[p].state
  BY <1>1, <1>10 DEF Simulator, PCB
<1> HIDE DEF t, pcb
<1>12. In(t, "Ready") = In(s, "Ready") \cup A /\ In(s, "Ready") \cap A = {}
  BY <1>3, <1>6, <1>7, <1>11 DEF In
<1>13. In(t, "Waiting") = In(s, "Waiting") /\ In(t, "Running") = In(s, "Running")
  BY <1>6, <1>7, <1>11 DEF In
<1>14. Holds(t.readyQueue, In(t, "Ready"))
  BY <1>4, <1>7, <1>12, ConcatHolds DEF Sound
<1>15. ASSUME NEW p \in Procs PROVE PCBSound(t.pcb[p], p)
  <2>1. PCBSound(s.pcb[p], p) /\ s.pcb[p] \in PCB
    BY DEF Sound, Simulator
  <2>2. CASE p \in A
    <3>1. t.pcb[p] = [s.pcb[p] EXCEPT !.state = "Ready"]
      BY <1>7, <1>10, <2>2
    <3> QED BY <1>6, <2>1, <2>2, <3>1 DEF PCBSound, PCB
  <2>3. CASE p \notin A
    BY <1>7, <1>10, <2>1, <2>3
  <2> QED BY <2>2, <2>3
<1>16. \A p \in Procs : t.pcb[p].state # "New" => p \in ToSet(t.processes)
  BY <1>3, <1>7, <1>11 DEF Sound
<1> QED BY <1>5, <1>7, <1>9, <1>13, <1>14, <1>15, <1>16 DEF Sound

(* tickIOQueue moves every process whose I/O is over from the I/O queue to  *)
(* the ready queue and counts down the others.                              *)
LEMMA TickIOSound ==
  ASSUME Static, NEW s, Sound(s)
  PROVE  Sound(tickIOQueue(s))
<1> DEFINE W == ToSet(s.ioQueue)
           F == {p \in W : s.pcb[p].ioRemaining - 1 <= 0}
           q == Kept(s.ioQueue, F)
           pcb == [p \in Procs |->
                     IF p \in F THEN [s.pcb[p] EXCEPT !.ioRemaining = 0, !.state = "Ready"]
                     ELSE IF p \in W THEN [s.pcb[p] EXCEPT !.ioRemaining = s.pcb[p].ioRemaining - 1]
                     ELSE s.pcb[p]]
           t == [s EXCEPT !.pcb = pcb,
                          !.readyQueue = s.readyQueue \o q,
                          !.ioQueue = Kept(s.ioQueue, W \ F),
                          !.levels = LevelsAfterAdd(s, F),
                          !.events = s.events \o EventsOf(s, "io_complete", q)]
<1>1. s \in Simulator /\ Holds(s.ioQueue, W) /\ W = In(s, "Waiting")
  BY DEF Sound, Holds
<1>2. F \in SUBSET W /\ W \in SUBSET Procs
  BY <1>1 DEF In
<1>3. Holds(q, F) /\ Holds(Kept(s.ioQueue, W \ F), W \ F)
  <2>1. Holds(q, W \cap F) /\ Holds(Kept(s.ioQueue, W \ F), W \cap (W \ F))
    <3> HIDE DEF W, F
    <3> QED BY <1>1, KeptHolds
  <2>2. W \cap F = F /\ W \cap (W \ F) = W \ F
    BY <1>2
  <2> QED BY <2>1, <2>2
<1>4. tickIOQueue(s) = t
  BY DEF tickIOQueue
<1>5. \A p \in W : s.pcb[p].state = "Waiting"
  BY <1>1 DEF In
<1>6. /\ t.processes = s.processes /\ t.readyQueue = s.readyQueue \o q
      /\ t.ioQueue = Kept(s.ioQueue, W \ F)
      /\ t.currentProcess = s.currentProcess /\ t.pcb = pcb
  BY <1>1 DEF Simulator
<1>7. \A p \in W : s.pcb[p].ioRemaining > 0 /\ s.pcb[p].ioRemaining \in Nat
  BY <1>1, <1>2, <1>5 DEF Sound, PCBSound, Simulator, PCB
<1>8. \A p \in F : s.pcb[p].ioRemaining = 1
  BY <1>7
<1>9. \A p \in W \ F : s.pcb[p].ioRemaining > 1
  BY <1>7
<1> HIDE DEF F, W, q
<1>10. \A p \in Procs :
         pcb[p] = IF p \in F THEN [s.pcb[p] EXCEPT !.ioRemaining = 0, !.state = "Ready"]
                  ELSE IF p \in W THEN [s.pcb[p] EXCEPT !.ioRemaining = s.pcb[p].ioRemaining - 1]
                  ELSE s.pcb[p]
  OBVIOUS
<1>11. \A p \in Procs : s.pcb[p] \in PCB
  BY <1>1 DEF Simulator
<1>12. pcb \in [Procs -> PCB]
  <2>1. ASSUME NEW p \in Procs PROVE pcb[p] \in PCB
    <3> HIDE DEF pcb
    <3>1. CASE p \in F
      BY <1>10, <1>11, <3>1, IOFinished
    <3>2. CASE p \in W \ F
      <4>1. s.pcb[p].ioRemaining - 1 \in Nat
        BY <1>7, <1>9, <3>2
      <4>2. pcb[p] = [s.pcb[p] EXCEPT !.ioRemaining = s.pcb[p].ioRemaining - 1]
        BY <1>10, <3>2
      <4> QED BY <1>11, <4>1, <4>2, IORemainingSet
    <3>3. CASE p \notin W
      BY <1>2, <1>10, <1>11, <3>3
    <3> QED BY <1>2, <3>1, <3>2, <3>3
  <2> QED BY <2>1
<1>13. t \in Simulator
  <2>1. LevelsAfterAdd(s, F) \in Levels
    BY <1>1, <1>2, LevelsAfterAddTyped
  <2>2. EventsOf(s, "io_complete", q) \in Seq(EventRecord)
    BY <1>1, <1>3, EventsOfTyped DEF Holds, EventType
  <2>3. s.events \o EventsOf(s, "io_complete", q) \in Seq(EventRecord)
    BY <1>1, <2>2, ConcatProperties DEF Simulator
  <2>4. s.readyQueue \o q \in Seq(Procs) /\ Kept(s.ioQueue, W \ F) \in Seq(Procs)
    BY <1>1, <1>3, ConcatProperties DEF Holds, Simulator
  <2> HIDE DEF pcb
  <2> QED BY <1>1, <1>12, <2>1, <2>3, <2>4 DEF Simulator
<1> HIDE DEF pcb, t
<1>14. \A p \in Procs : pcb[p].state = IF p \in F THEN "Ready" ELSE s.pcb[p].state
  BY <1>10, <1>11 DEF PCB
<1>15. In(t, "Ready") = In(s, "Ready") \cup F /\ In(s, "Ready") \cap F = {}
  BY <1>2, <1>5, <1>6, <1>14 DEF In
<1>16. In(t, "Waiting") = W \ F /\ In(t, "Running") = In(s, "Running")
  BY <1>1, <1>2, <1>5, <1>6, <1>14 DEF In
<1>17. Holds(t.readyQueue, In(t, "Ready")) /\ Holds(t.ioQueue, In(t, "Waiting"))
  <2>1. Holds(s.readyQueue, In(s, "Ready"))
    BY DEF Sound
  <2>2. Holds(s.readyQueue \o q, In(s, "Ready") \cup F)
    BY <1>3, <1>15, <2>1, ConcatHolds
  <2> QED BY <1>3, <1>6, <1>15, <1>16, <2>2
<1>18. ASSUME NEW p \in Procs PROVE PCBSound(t.pcb[p], p)
  <2>1. PCBSound(s.pcb[p], p)
    BY DEF Sound
  <2>2. CASE p \in F
    <3>1. t.pcb[p] = [s.pcb[p] EXCEPT !.ioRemaining = 0, !.state = "Ready"]
      BY <1>6, <1>10, <2>2
    <3>2. /\ t.pcb[p].state = "Ready"
          /\ t.pcb[p].remainingTime = s.pcb[p].remainingTime
          /\ t.pcb[p].ioRemaining = 0
          /\ t.pcb[p].currentIOIndex = s.pcb[p].currentIOIndex
          /\ t.pcb[p].ioCompleted = s.pcb[p].ioCompleted
      BY <1>11, <3>1, IOFinished
    <3>3. s.pcb[p].state = "Waiting"
      BY <1>2, <1>5, <2>2
    <3> QED BY <2>1, <3>2, <3>3 DEF PCBSound
  <2>3. CASE p \in W \ F
    <3>1. t.pcb[p] = [s.pcb[p] EXCEPT !.ioRemaining = s.pcb[p].ioRemaining - 1]
      BY <1>6, <1>10, <2>3
    <3>2. task[p].ioBursts \in Seq(IOBurst)
      BY DEF Static, Task
    <3>3. Len(task[p].ioBursts) \in Nat
      BY <3>2, LenProperties
    <3>4. s.pcb[p].currentIOIndex \in 1..Len(task[p].ioBursts)
      BY <1>7, <1>11, <2>1, <2>3, <3>3 DEF PCBSound, PCB
    <3>5. task[p].ioBursts[s.pcb[p].currentIOIndex].duration \in Nat
      <4>1. task[p].ioBursts[s.pcb[p].currentIOIndex] \in IOBurst
        BY <3>2, <3>4, ElementOfSeq
      <4> QED BY <4>1 DEF IOBurst
    <3>6. s.pcb[p].ioRemaining \in Nat /\ s.pcb[p].ioRemaining > 1
      BY <1>7, <1>9, <2>3
    <3>7. /\ t.pcb[p].state = s.pcb[p].state
          /\ t.pcb[p].remainingTime = s.pcb[p].remainingTime
          /\ t.pcb[p].ioRemaining = s.pcb[p].ioRemaining - 1
          /\ t.pcb[p].currentIOIndex = s.pcb[p].currentIOIndex
          /\ t.pcb[p].ioCompleted = s.pcb[p].ioCompleted
      <4>1. s.pcb[p].ioRemaining - 1 \in Nat
        BY <3>6
      <4> QED BY <1>11, <3>1, <4>1, IORemainingSet
    <3>8. s.pcb[p].state = "Waiting"
      BY <1>5, <2>3
    <3> QED BY <2>1, <3>5, <3>6, <3>7, <3>8 DEF PCBSound
  <2>4. CASE p \notin W
    BY <1>2, <1>6, <1>10, <2>1, <2>4
  <2> QED BY <1>2, <2>2, <2>3, <2>4
<1>19. \A p \in Procs : t.pcb[p].state # "New" => p \in ToSet(t.processes)
  <2>1. \A p \in F : s.pcb[p].state # "New"
    BY <1>2, <1>5
  <2> QED BY <1>6, <1>14, <2>1 DEF Sound
<1> QED BY <1>4, <1>6, <1>13, <1>16, <1>17, <1>18, <1>19 DEF Sound

(* A step that changes one process p, from the PCB it has in s to c, and    *)
(* moves it to the place its new State names.                               *)
LEMMA MoveSound ==
  ASSUME NEW s, Sound(s), NEW t \in Simulator, NEW p \in Procs, NEW c,
         t.processes = s.processes,
         t.pcb = [s.pcb EXCEPT ![p] = c],
         s.pcb[p].state # "New", c.state # "New", PCBSound(c, p),
         Holds(t.readyQueue, (In(s, "Ready") \ {p}) \cup {r \in {p} : c.state = "Ready"}),
         Holds(t.ioQueue, (In(s, "Waiting") \ {p}) \cup {r \in {p} : c.state = "Waiting"}),
         {t.currentProcess} \cap Procs =
             (In(s, "Running") \ {p}) \cup {r \in {p} : c.state = "Running"}
  PROVE  Sound(t)
<1>1. s.pcb \in [Procs -> PCB]
  BY DEF Sound, Simulator
<1>2. \A r \in Procs : t.pcb[r] = IF r = p THEN c ELSE s.pcb[r]
  BY <1>1
<1>3. \A st : In(t, st) = (In(s, st) \ {p}) \cup {r \in {p} : c.state = st}
  BY <1>2 DEF In
<1>4. /\ Holds(t.readyQueue, In(t, "Ready"))
      /\ Holds(t.ioQueue, In(t, "Waiting"))
      /\ In(t, "Running") = {t.currentProcess} \cap Procs
  BY <1>3
<1>5. \A r \in Procs : t.pcb[r].state # "New" => r \in ToSet(t.processes)
  BY <1>2 DEF Sound
<1>6. \A r \in Procs : PCBSound(t.pcb[r], r)
  BY <1>2 DEF Sound
<1> QED BY <1>4, <1>5, <1>6 DEF Sound

(* A step that leaves the processes and the queues alone.                   *)
LEMMA FrameSound ==
  ASSUME NEW s, Sound(s), NEW t \in Simulator,
         t.processes = s.processes, t.pcb = s.pcb, t.readyQueue = s.readyQueue,
         t.ioQueue = s.ioQueue, t.currentProcess = s.currentProcess
  PROVE  Sound(t)
BY DEF Sound, In

(* The types of one process of a sound struct.                              *)
LEMMA SoundFacts ==
  ASSUME Static, NEW s, Sound(s), NEW p \in Procs
  PROVE  /\ s \in Simulator
         /\ s.pcb[p] \in PCB
         /\ s.pcb \in [Procs -> PCB]
         /\ PCBSound(s.pcb[p], p)
         /\ task[p] \in Task
         /\ task[p].ioBursts \in Seq(IOBurst)
         /\ Len(task[p].ioBursts) \in Nat
<1>1. s \in Simulator /\ PCBSound(s.pcb[p], p)
  BY DEF Sound
<1>2. s.pcb \in [Procs -> PCB]
  BY <1>1 DEF Simulator
<1>3. task[p] \in Task
  BY DEF Static
<1>4. task[p].ioBursts \in Seq(IOBurst)
  BY <1>3 DEF Task
<1> QED BY <1>1, <1>2, <1>3, <1>4, LenProperties

(* scheduleNextProcess takes one process out of the ready queue and makes   *)
(* it the current one; it is called with no current process.                *)
LEMMA ScheduleSound ==
  ASSUME Static, NEW s, Sound(s), s.currentProcess = None, NEW draw \in Nat
  PROVE  Sound(scheduleNextProcess(s, draw))
<1>1. s \in Simulator
  BY DEF Sound
<1>2. CASE s.readyQueue = << >>
  <2>1. [s EXCEPT !.currentProcess = None] = s
    BY <1>1 DEF Simulator
  <2> QED BY <1>2, <2>1 DEF scheduleNextProcess
<1>3. CASE s.readyQueue # << >>
  <2> DEFINE p == Schedule(s, draw)
             type == IF s.pcb[p].hasStarted THEN "resume" ELSE "start"
             c == [s.pcb[p] EXCEPT !.state = "Running"]
             t == [s EXCEPT !.readyQueue = RemoveFirst(s.readyQueue, p),
                            !.contextSwitches = s.contextSwitches,
                            !.currentProcess = p,
                            !.pcb = [s.pcb EXCEPT ![p] = c],
                            !.timeQuantumUsed = 0,
                            !.events = Append(s.events, Event(s, type, p))]
  <2>1. Holds(s.readyQueue, In(s, "Ready"))
    BY DEF Sound
  <2>2. p \in ToSet(s.readyQueue)
    BY <1>1, <1>3, ScheduleFromQueue DEF Static
  <2>3. p \in In(s, "Ready") /\ p \in Procs /\ s.pcb[p].state = "Ready"
    BY <2>1, <2>2 DEF Holds, In
  <2>4. scheduleNextProcess(s, draw) = t
    BY <1>1, <1>3 DEF scheduleNextProcess, Simulator
  <2> HIDE DEF p
  <2>5. Holds(RemoveFirst(s.readyQueue, p), In(s, "Ready") \ {p})
    BY <2>1, <2>3, RemoveHolds
  <2>6. s.pcb[p] \in PCB /\ s.pcb \in [Procs -> PCB] /\ PCBSound(s.pcb[p], p)
    BY <2>3, SoundFacts
  <2>7. /\ c \in PCB /\ c.state = "Running"
        /\ c.remainingTime = s.pcb[p].remainingTime /\ c.ioRemaining = s.pcb[p].ioRemaining
        /\ c.currentIOIndex = s.pcb[p].currentIOIndex /\ c.ioCompleted = s.pcb[p].ioCompleted
    BY <2>6, StateSet DEF State
  <2>8. Append(s.events, Event(s, type, p)) \in Seq(EventRecord)
    <3>1. Event(s, type, p) \in EventRecord
      BY <1>1, <2>3, EventTyped DEF EventType
    <3>2. s.events \in Seq(EventRecord)
      BY <1>1 DEF Simulator
    <3> QED BY <3>1, <3>2, AppendProperties
  <2> HIDE DEF c, type
  <2>9. PCBSound(c, p)
    BY <2>3, <2>6, <2>7 DEF PCBSound
  <2>10. /\ t.processes = s.processes /\ t.pcb = [s.pcb EXCEPT ![p] = c]
         /\ t.readyQueue = RemoveFirst(s.readyQueue, p)
         /\ t.ioQueue = s.ioQueue /\ t.currentProcess = p
    BY <1>1 DEF Simulator
  <2>11. t \in Simulator
    <3>1. [s.pcb EXCEPT ![p] = c] \in [Procs -> PCB]
      BY <2>6, <2>7
    <3>2. RemoveFirst(s.readyQueue, p) \in Seq(Procs)
      BY <2>5 DEF Holds
    <3> QED BY <1>1, <2>3, <2>8, <3>1, <3>2 DEF Simulator
  <2> HIDE DEF t
  <2>12. (In(s, "Running") \ {p}) \cup {r \in {p} : c.state = "Running"} = {p}
    BY <2>7, EngineAssumption DEF Sound
  <2>13. /\ (In(s, "Ready") \ {p}) \cup {r \in {p} : c.state = "Ready"} = In(s, "Ready") \ {p}
         /\ (In(s, "Waiting") \ {p}) \cup {r \in {p} : c.state = "Waiting"} = In(s, "Waiting")
    BY <2>3, <2>7 DEF In
  <2>14. Holds(s.ioQueue, In(s, "Waiting"))
    BY DEF Sound
  <2>15. Sound(t)
    <3>1. {t.currentProcess} \cap Procs = {p}
      BY <2>3, <2>10
    <3>2. Holds(t.readyQueue, (In(s, "Ready") \ {p}) \cup {r \in {p} : c.state = "Ready"})
      BY <2>5, <2>10, <2>13
    <3>3. Holds(t.ioQueue, (In(s, "Waiting") \ {p}) \cup {r \in {p} : c.state = "Waiting"})
      BY <2>10, <2>13, <2>14
    <3>4. s.pcb[p].state # "New" /\ c.state # "New"
      BY <2>3, <2>7
    <3> QED BY <2>3, <2>9, <2>10, <2>11, <2>12, <3>1, <3>2, <3>3, <3>4, MoveSound
  <2> QED BY <2>4, <2>15
<1> QED BY <1>2, <1>3

(* The running process is where Sound says it is.                           *)
LEMMA CurrentFacts ==
  ASSUME Static, NEW s, Sound(s), s.currentProcess # None
  PROVE  /\ s.currentProcess \in Procs
         /\ s.pcb[s.currentProcess].state = "Running"
         /\ In(s, "Running") = {s.currentProcess}
         /\ s.pcb[s.currentProcess].remainingTime > 0
         /\ s.pcb[s.currentProcess].ioRemaining = 0
<1>1. s.currentProcess \in Procs
  BY DEF Sound, Simulator
<1>2. In(s, "Running") = {s.currentProcess}
  BY <1>1 DEF Sound
<1>3. s.pcb[s.currentProcess].state = "Running"
  BY <1>2 DEF In
<1>4. s.pcb[s.currentProcess] \in PCB /\ PCBSound(s.pcb[s.currentProcess], s.currentProcess)
  BY <1>1, SoundFacts
<1>5. s.pcb[s.currentProcess].remainingTime \in Nat /\ s.pcb[s.currentProcess].ioRemaining \in Nat
  BY <1>4 DEF PCB
<1>6. s.pcb[s.currentProcess].remainingTime # 0 /\ ~ (s.pcb[s.currentProcess].ioRemaining > 0)
  BY <1>3, <1>4 DEF PCBSound
<1> QED BY <1>1, <1>2, <1>3, <1>5, <1>6

(* The current process goes back to the ready queue: preemption and expiry. *)
LEMMA RequeueSound ==
  ASSUME Static, NEW s, Sound(s), s.currentProcess # None, NEW t \in Simulator,
         t.processes = s.processes,
         t.pcb = [s.pcb EXCEPT ![s.currentProcess] =
                     [s.pcb[s.currentProcess] EXCEPT !.state = "Ready"]],
         t.readyQueue = Append(s.readyQueue, s.currentProcess),
         t.ioQueue = s.ioQueue,
         t.currentProcess = None
  PROVE  Sound(t)
<1> DEFINE p == s.currentProcess
           c == [s.pcb[p] EXCEPT !.state = "Ready"]
<1>1. /\ p \in Procs /\ s.pcb[p].state = "Running"
      /\ In(s, "Running") = {p} /\ s.pcb[p].ioRemaining = 0
  BY CurrentFacts
<1>2. s.pcb[p] \in PCB /\ PCBSound(s.pcb[p], p)
  BY <1>1, SoundFacts
<1>3. t.pcb = [s.pcb EXCEPT ![p] = c] /\ t.readyQueue = Append(s.readyQueue, p)
  OBVIOUS
<1> HIDE DEF p
<1>4. /\ c \in PCB /\ c.state = "Ready"
      /\ c.remainingTime = s.pcb[p].remainingTime /\ c.ioRemaining = s.pcb[p].ioRemaining
      /\ c.currentIOIndex = s.pcb[p].currentIOIndex /\ c.ioCompleted = s.pcb[p].ioCompleted
  BY <1>2, StateSet DEF State
<1> HIDE DEF c
<1>5. PCBSound(c, p)
  BY <1>1, <1>2, <1>4 DEF PCBSound
<1>6. /\ (In(s, "Ready") \ {p}) \cup {r \in {p} : c.state = "Ready"} = In(s, "Ready") \cup {p}
      /\ p \notin In(s, "Ready")
      /\ (In(s, "Waiting") \ {p}) \cup {r \in {p} : c.state = "Waiting"} = In(s, "Waiting")
  BY <1>1, <1>4 DEF In
<1>7. Holds(s.readyQueue, In(s, "Ready")) /\ Holds(s.ioQueue, In(s, "Waiting"))
  BY DEF Sound
<1>8. Holds(t.readyQueue, (In(s, "Ready") \ {p}) \cup {r \in {p} : c.state = "Ready"})
  <2>1. Holds(Append(s.readyQueue, p), In(s, "Ready") \cup {p})
    BY <1>1, <1>6, <1>7, AppendHolds
  <2> QED BY <1>3, <1>6, <2>1
<1>9. Holds(t.ioQueue, (In(s, "Waiting") \ {p}) \cup {r \in {p} : c.state = "Waiting"})
  BY <1>6, <1>7
<1>10. {t.currentProcess} \cap Procs =
         (In(s, "Running") \ {p}) \cup {r \in {p} : c.state = "Running"}
  BY <1>1, <1>4, EngineAssumption
<1>11. s.pcb[p].state # "New" /\ c.state # "New"
  BY <1>1, <1>4
<1> QED BY <1>1, <1>3, <1>5, <1>8, <1>9, <1>10, <1>11, MoveSound

(* preemptCurrentProcess puts the current process back in the queue.        *)
LEMMA PreemptSound ==
  ASSUME Static, NEW s, Sound(s), s.currentProcess # None
  PROVE  Sound(preemptCurrentProcess(s)) /\ preemptCurrentProcess(s).currentProcess = None
<1> DEFINE p == s.currentProcess
           c == [s.pcb[p] EXCEPT !.state = "Ready"]
           t == [s EXCEPT !.events = Append(s.events, Event(s, "preempt", p)),
                          !.contextSwitches = s.contextSwitches + 1,
                          !.pcb = [s.pcb EXCEPT ![p] = c],
                          !.readyQueue = Append(s.readyQueue, p),
                          !.currentProcess = None]
<1>1. s \in Simulator /\ p \in Procs /\ s.pcb \in [Procs -> PCB] /\ s.pcb[p] \in PCB
  BY CurrentFacts, SoundFacts
<1>2. preemptCurrentProcess(s) = t
  BY <1>1 DEF preemptCurrentProcess, Simulator
<1>3. /\ t.processes = s.processes /\ t.pcb = [s.pcb EXCEPT ![p] = c]
      /\ t.readyQueue = Append(s.readyQueue, p)
      /\ t.ioQueue = s.ioQueue /\ t.currentProcess = None
  BY <1>1 DEF Simulator
<1>4. c \in PCB
  BY <1>1, StateSet DEF State
<1>5. t \in Simulator
  <2> HIDE DEF c, p
  <2>1. Append(s.events, Event(s, "preempt", p)) \in Seq(EventRecord)
    <3>1. Event(s, "preempt", p) \in EventRecord
      BY <1>1, EventTyped DEF EventType
    <3> QED BY <1>1, <3>1, AppendProperties DEF Simulator
  <2>2. Append(s.readyQueue, p) \in Seq(Procs)
    BY <1>1, AppendProperties DEF Simulator
  <2>3. [s.pcb EXCEPT ![p] = c] \in [Procs -> PCB]
    BY <1>1, <1>4
  <2>4. s.contextSwitches + 1 \in Nat
    BY <1>1 DEF Simulator
  <2> QED BY <1>1, <2>1, <2>2, <2>3, <2>4 DEF Simulator
<1> HIDE DEF t
<1> QED BY <1>2, <1>3, <1>5, RequeueSound

(* A process whose quantum expired goes back to the ready queue.            *)
LEMMA RequeueExpiredSound ==
  ASSUME Static, NEW s, Sound(s), s.currentProcess # None
  PROVE  /\ Sound(requeueExpired(s, s.currentProcess))
         /\ requeueExpired(s, s.currentProcess).currentProcess = None
<1> DEFINE p == s.currentProcess
           c == [s.pcb[p] EXCEPT !.state = "Ready"]
           t == [s EXCEPT !.levels = LevelsAfterExpiry(s, p),
                          !.events = Append(s.events, Event(s, "quantum_expire", p)),
                          !.contextSwitches = s.contextSwitches + 1,
                          !.pcb = [s.pcb EXCEPT ![p] = c],
                          !.readyQueue = Append(s.readyQueue, p),
                          !.currentProcess = None,
                          !.timeQuantumUsed = 0]
<1>1. s \in Simulator /\ p \in Procs /\ s.pcb \in [Procs -> PCB] /\ s.pcb[p] \in PCB
  BY CurrentFacts, SoundFacts
<1>2. requeueExpired(s, p) = t
  BY <1>1 DEF requeueExpired, Simulator
<1>3. /\ t.processes = s.processes /\ t.pcb = [s.pcb EXCEPT ![p] = c]
      /\ t.readyQueue = Append(s.readyQueue, p)
      /\ t.ioQueue = s.ioQueue /\ t.currentProcess = None
  BY <1>1 DEF Simulator
<1>4. c \in PCB
  BY <1>1, StateSet DEF State
<1>5. t \in Simulator
  <2> HIDE DEF c, p
  <2>1. Append(s.events, Event(s, "quantum_expire", p)) \in Seq(EventRecord)
    <3>1. Event(s, "quantum_expire", p) \in EventRecord
      BY <1>1, EventTyped DEF EventType
    <3> QED BY <1>1, <3>1, AppendProperties DEF Simulator
  <2>2. Append(s.readyQueue, p) \in Seq(Procs)
    BY <1>1, AppendProperties DEF Simulator
  <2>3. [s.pcb EXCEPT ![p] = c] \in [Procs -> PCB]
    BY <1>1, <1>4
  <2>4. LevelsAfterExpiry(s, p) \in Levels
    BY <1>1, LevelsAfterExpiryTyped
  <2>5. s.contextSwitches + 1 \in Nat
    BY <1>1 DEF Simulator
  <2> QED BY <1>1, <2>1, <2>2, <2>3, <2>4, <2>5 DEF Simulator
<1> HIDE DEF t
<1> QED BY <1>2, <1>3, <1>5, RequeueSound

(* The choice at the top of executeTimeUnit: the current process is never   *)
(* complete there, because executeProcess has cleared it.                   *)
LEMMA DispatchSound ==
  ASSUME Static, NEW s, Sound(s), NEW draw \in Nat
  PROVE  Sound(dispatch(s, draw))
<1>1. CASE s.currentProcess = None
  BY <1>1, ScheduleSound DEF dispatch
<1>2. CASE s.currentProcess # None
  <2>1. ~ IsComplete(s, s.currentProcess)
    <3>1. s.pcb[s.currentProcess] \in PCB
      BY <1>2, CurrentFacts, SoundFacts
    <3> QED BY <1>2, <3>1, CurrentFacts DEF IsComplete, PCB
  <2>2. Sound(scheduleNextProcess(preemptCurrentProcess(s), draw))
    BY <1>2, PreemptSound, ScheduleSound
  <2> QED BY <1>2, <2>1, <2>2 DEF dispatch
<1> QED BY <1>1, <1>2

(* The end of the quantum, and the process scheduled in its place.          *)
LEMMA ExpireQuantumSound ==
  ASSUME Static, NEW s, Sound(s), NEW draw \in Nat
  PROVE  Sound(expireQuantum(s, draw))
BY RequeueExpiredSound, ScheduleSound DEF expireQuantum

(* Division of natural numbers.                                             *)
LEMMA DivIsNat ==
  ASSUME NEW a \in Nat, NEW b \in Nat, b > 0
  PROVE  a \div b \in Nat
OBVIOUS

(* One tick of CPU time for a running process.                              *)
LEMMA ExecuteFacts ==
  ASSUME Static, NEW p \in Procs, NEW b \in PCB, NEW now \in Nat,
         b.state = "Running", b.remainingTime > 0, PCBSound(b, p)
  PROVE  /\ Execute(b, p, now) \in PCB
         /\ PCBSound(Execute(b, p, now), p)
         /\ Execute(b, p, now).state \in {"Running", "Terminated"}
         /\ Execute(b, p, now).remainingTime = b.remainingTime - 1
<1> DEFINE m == markStarted(b, p, now)
           granule == VRuntimeScale \div task[p].weight
           ran == [m EXCEPT !.state = "Running", !.remainingTime = m.remainingTime - 1,
                            !.lastExecuted = now + 1, !.vRuntime = m.vRuntime + granule]
           turnaround == now + 1 - task[p].arrivalTime
           waiting == now + 1 - task[p].arrivalTime - task[p].burstTime
           done == [ran EXCEPT !.state = "Terminated", !.completionTime = now + 1,
                               !.turnaroundTime = turnaround,
                               !.waitingTime = waiting, !.remainingTime = 0]
<1>1. task[p] \in Task /\ Len(task[p].ioBursts) \in Nat /\ task[p].ioBursts \in Seq(IOBurst)
  <2>1. task[p] \in Task
    BY DEF Static
  <2>2. task[p].ioBursts \in Seq(IOBurst)
    BY <2>1 DEF Task
  <2> QED BY <2>1, <2>2, LenProperties
<1>2. /\ task[p].arrivalTime \in Nat /\ task[p].burstTime \in Nat
      /\ task[p].weight \in Nat /\ task[p].weight > 0
  BY <1>1 DEF Task
<1>3. granule \in Nat
  BY <1>2, QuantumAssumption, DivIsNat
<1>4. turnaround \in Int /\ waiting \in Int /\ now + 1 \in Nat
  BY <1>2
<1>5. /\ m \in PCB /\ m.remainingTime = b.remainingTime /\ m.vRuntime = b.vRuntime
      /\ m.ioRemaining = b.ioRemaining
      /\ m.currentIOIndex = b.currentIOIndex /\ m.ioCompleted = b.ioCompleted
  <2>1. now - task[p].arrivalTime \in Int
    BY <1>2
  <2>2. CASE b.hasStarted
    BY <2>2 DEF markStarted
  <2>3. CASE ~ b.hasStarted
    <3> DEFINE response == now - task[p].arrivalTime
    <3>1. m = [b EXCEPT !.hasStarted = TRUE, !.startTime = now, !.responseTime = response]
      BY <2>3 DEF markStarted
    <3> HIDE DEF m, response
    <3>2. response \in Int /\ now \in Int
      BY <2>1 DEF response
    <3> QED BY <3>1, <3>2 DEF PCB
  <2> QED BY <2>2, <2>3
<1>6. Execute(b, p, now) = IF ran.remainingTime > 0 THEN ran ELSE done
  BY DEF Execute
<1> HIDE DEF m, granule, turnaround, waiting
<1>7. m.remainingTime - 1 \in Nat /\ m.vRuntime + granule \in Nat
  BY <1>3, <1>5 DEF PCB
<1>8. /\ ran \in PCB /\ ran.state = "Running" /\ ran.remainingTime = b.remainingTime - 1
      /\ ran.ioRemaining = b.ioRemaining
      /\ ran.currentIOIndex = b.currentIOIndex /\ ran.ioCompleted = b.ioCompleted
  BY <1>4, <1>5, <1>7 DEF PCB, State
<1> HIDE DEF ran
<1>9. /\ done \in PCB /\ done.state = "Terminated" /\ done.remainingTime = 0
      /\ done.ioRemaining = b.ioRemaining
      /\ done.currentIOIndex = b.currentIOIndex /\ done.ioCompleted = b.ioCompleted
  BY <1>4, <1>8 DEF PCB, State
<1> HIDE DEF done
<1>10. b.remainingTime \in Nat /\ b.ioRemaining \in Nat /\ b.currentIOIndex \in Nat
  BY DEF PCB
<1>11. \A i \in b.ioCompleted : task[p].ioBursts[i].afterCPUTime \in Int
  <2>1. b.ioCompleted \subseteq 1..Len(task[p].ioBursts)
    BY <1>1, <1>10 DEF PCBSound
  <2>2. \A i \in 1..Len(task[p].ioBursts) : task[p].ioBursts[i] \in IOBurst
    BY <1>1, ElementOfSeq
  <2> QED BY <2>1, <2>2 DEF IOBurst
<1>12. ASSUME NEW c, c.remainingTime = b.remainingTime - 1, c.ioCompleted = b.ioCompleted,
              c.ioRemaining = b.ioRemaining, c.currentIOIndex = b.currentIOIndex,
              c.state = IF c.remainingTime > 0 THEN "Running" ELSE "Terminated"
       PROVE  PCBSound(c, p)
  <2>1. \A i \in b.ioCompleted :
           task[p].burstTime - c.remainingTime >= task[p].ioBursts[i].afterCPUTime
    BY <1>2, <1>10, <1>11, <1>12 DEF PCBSound
  <2>2. ~ (b.ioRemaining > 0)
    BY DEF PCBSound
  <2>3. c.state = "Terminated" <=> c.remainingTime = 0
    BY <1>10, <1>12
  <2>4. ~ (c.state = "Waiting")
    BY <1>12
  <2> QED BY <1>12, <2>1, <2>2, <2>3, <2>4 DEF PCBSound
<1>13. CASE b.remainingTime - 1 > 0
  <2>1. Execute(b, p, now) = ran
    BY <1>6, <1>8, <1>13
  <2> QED BY <1>8, <1>12, <1>13, <2>1
<1>14. CASE ~ (b.remainingTime - 1 > 0)
  <2>1. Execute(b, p, now) = done
    BY <1>6, <1>8, <1>14
  <2>2. b.remainingTime - 1 = 0
    BY <1>10, <1>14
  <2> QED BY <1>9, <1>12, <2>1, <2>2
<1> QED BY <1>13, <1>14

(* executeProcess runs the current process for one tick and clears it when  *)
(* it is complete.                                                          *)
LEMMA ExecuteSound ==
  ASSUME Static, NEW s, Sound(s), s.currentProcess # None
  PROVE  Sound(executeProcess(s))
<1> DEFINE p == s.currentProcess
           c == Execute(s.pcb[p], p, s.currentTime)
           chart == addGanttEntry(s.ganttChart, task[p].pid, s.currentTime)
           t == [s EXCEPT !.pcb = [s.pcb EXCEPT ![p] = c], !.ganttChart = chart]
           u == [t EXCEPT !.events = Append(t.events, Event(t, "complete", p)),
                          !.levels = LevelsAfterRemove(t, p),
                          !.currentProcess = None]
<1>1. /\ s \in Simulator /\ p \in Procs /\ s.pcb \in [Procs -> PCB] /\ s.pcb[p] \in PCB
      /\ PCBSound(s.pcb[p], p) /\ s.pcb[p].state = "Running" /\ s.pcb[p].remainingTime > 0
      /\ In(s, "Running") = {p} /\ s.currentTime \in Nat
  BY CurrentFacts, SoundFacts DEF Simulator
<1>2. /\ c \in PCB /\ PCBSound(c, p) /\ c.state \in {"Running", "Terminated"}
  BY <1>1, ExecuteFacts
<1>3. chart \in Seq(GanttEntry)
  <2>1. task[p].pid \in Int /\ s.ganttChart \in Seq(GanttEntry)
    BY <1>1 DEF Static, Task, Simulator
  <2> QED BY <1>1, <2>1, GanttTyped
<1>4. executeProcess(s) = IF ~ IsComplete(t, p) THEN t ELSE u
  BY <1>1 DEF executeProcess, Simulator
<1> HIDE DEF p, c, chart
<1>5. /\ t.processes = s.processes /\ t.pcb = [s.pcb EXCEPT ![p] = c]
      /\ t.readyQueue = s.readyQueue /\ t.ioQueue = s.ioQueue
      /\ t.currentProcess = s.currentProcess
  BY <1>1 DEF Simulator
<1>6. t \in Simulator
  <2>1. [s.pcb EXCEPT ![p] = c] \in [Procs -> PCB]
    BY <1>1, <1>2
  <2> QED BY <1>1, <1>3, <2>1 DEF Simulator
<1>7. t.pcb[p] = c
  BY <1>1, <1>5
<1> HIDE DEF t
<1>8. IsComplete(t, p) <=> c.state = "Terminated"
  BY <1>2, <1>7 DEF IsComplete, PCBSound, PCB
<1>9. /\ u.processes = t.processes /\ u.pcb = t.pcb /\ u.readyQueue = t.readyQueue
      /\ u.ioQueue = t.ioQueue /\ u.currentProcess = None
  BY <1>6 DEF Simulator
<1>10. u \in Simulator
  <2>1. Append(t.events, Event(t, "complete", p)) \in Seq(EventRecord)
    <3>1. Event(t, "complete", p) \in EventRecord
      BY <1>1, <1>6, EventTyped DEF EventType
    <3> QED BY <1>6, <3>1, AppendProperties DEF Simulator
  <2>2. LevelsAfterRemove(t, p) \in Levels
    BY <1>1, <1>6, LevelsAfterRemoveTyped
  <2> QED BY <1>6, <2>1, <2>2 DEF Simulator
<1> HIDE DEF u
<1>11. /\ (In(s, "Ready") \ {p}) \cup {r \in {p} : c.state = "Ready"} = In(s, "Ready")
       /\ (In(s, "Waiting") \ {p}) \cup {r \in {p} : c.state = "Waiting"} = In(s, "Waiting")
  BY <1>1, <1>2 DEF In
<1>12. Holds(s.readyQueue, In(s, "Ready")) /\ Holds(s.ioQueue, In(s, "Waiting"))
  BY DEF Sound
<1>13. s.pcb[p].state # "New" /\ c.state # "New"
  BY <1>1, <1>2
<1>14. CASE c.state = "Terminated"
  <2>1. {u.currentProcess} \cap Procs =
           (In(s, "Running") \ {p}) \cup {r \in {p} : c.state = "Running"}
    BY <1>1, <1>9, <1>14, EngineAssumption
  <2>2. /\ Holds(u.readyQueue, (In(s, "Ready") \ {p}) \cup {r \in {p} : c.state = "Ready"})
        /\ Holds(u.ioQueue, (In(s, "Waiting") \ {p}) \cup {r \in {p} : c.state = "Waiting"})
    BY <1>5, <1>9, <1>11, <1>12
  <2>3. u.processes = s.processes /\ u.pcb = [s.pcb EXCEPT ![p] = c]
    BY <1>5, <1>9
  <2>4. Sound(u)
    BY <1>1, <1>2, <1>10, <1>13, <2>1, <2>2, <2>3, MoveSound
  <2> QED BY <1>4, <1>8, <1>14, <2>4
<1>15. CASE c.state = "Running"
  <2>1. {t.currentProcess} \cap Procs =
           (In(s, "Running") \ {p}) \cup {r \in {p} : c.state = "Running"}
    BY <1>1, <1>5, <1>15 DEF p
  <2>2. Sound(t)
    BY <1>1, <1>2, <1>5, <1>6, <1>11, <1>12, <1>13, <2>1, MoveSound
  <2> QED BY <1>4, <1>8, <1>15, <2>2
<1> QED BY <1>2, <1>14, <1>15

(* The bursts done are the first CurrentIOIndex ones, so checkIOBurst's     *)
(* loop over completed bursts stops where it starts.                        *)
LEMMA NextIOIndexIsCurrent ==
  ASSUME Static, NEW s, Sound(s), NEW p \in Procs
  PROVE  nextIOIndex(s, p) = s.pcb[p].currentIOIndex
<1> DEFINE cur == s.pcb[p].currentIOIndex
           n == Len(task[p].ioBursts)
           T == {i \in cur..n : i + 1 \notin s.pcb[p].ioCompleted}
<1>1. cur \in Nat /\ n \in Nat /\ cur <= n /\ s.pcb[p].ioCompleted = 1..cur
  <2>1. s.pcb[p] \in PCB /\ PCBSound(s.pcb[p], p) /\ n \in Nat
    BY SoundFacts
  <2> QED BY <2>1 DEF PCB, PCBSound
<1>2. nextIOIndex(s, p) = Min(T)
  BY DEF nextIOIndex
<1> HIDE DEF cur, n
<1>3. T \in SUBSET Nat /\ cur \in T /\ \A i \in T : cur <= i
  BY <1>1
<1> HIDE DEF T
<1>4. Min(T) \in T /\ Min(T) <= cur
  BY <1>3, MinIsLeast
<1>5. Min(T) = cur
  <2>1. Min(T) \in Nat /\ cur <= Min(T)
    BY <1>3, <1>4
  <2> QED BY <1>1, <1>4, <2>1
<1> QED BY <1>2, <1>5 DEF cur

(* The current process starts its next I/O burst and leaves the CPU for the *)
(* I/O queue.                                                               *)
LEMMA StartIOSound ==
  ASSUME Static, NEW s, Sound(s), s.currentProcess # None,
         NEW k, k = s.pcb[s.currentProcess].currentIOIndex + 1,
         k <= Len(task[s.currentProcess].ioBursts),
         ioDue(s, s.currentProcess, task[s.currentProcess].ioBursts[k])
  PROVE  Sound(startIO(s, s.currentProcess, k))
<1> DEFINE p == s.currentProcess
           b == s.pcb[p]
           burst == task[p].ioBursts[k]
           c == [b EXCEPT !.currentIOIndex = k, !.ioCompleted = b.ioCompleted \cup {k},
                          !.ioRemaining = burst.duration, !.state = "Waiting"]
           t == [s EXCEPT !.pcb = [s.pcb EXCEPT ![p] = c],
                          !.ioQueue = Append(s.ioQueue, p),
                          !.events = Append(s.events, Event(s, "io_start", p)),
                          !.currentProcess = None,
                          !.timeQuantumUsed = 0]
<1>1. /\ s \in Simulator /\ p \in Procs /\ s.pcb \in [Procs -> PCB] /\ b \in PCB
      /\ PCBSound(b, p) /\ b.state = "Running" /\ In(s, "Running") = {p}
      /\ task[p].ioBursts \in Seq(IOBurst) /\ Len(task[p].ioBursts) \in Nat
  BY CurrentFacts, SoundFacts
<1>2. b.currentIOIndex \in Nat /\ k = b.currentIOIndex + 1 /\ k \in Nat /\ b.ioCompleted \in SUBSET Nat
  <2>1. b.currentIOIndex \in Nat /\ b.ioCompleted \in SUBSET Nat
    <3> HIDE DEF b
    <3> QED BY <1>1 DEF PCB
  <2> QED BY <2>1
<1>3. k \in 1..Len(task[p].ioBursts)
  BY <1>1, <1>2
<1>4. burst \in IOBurst
  BY <1>1, <1>3, ElementOfSeq
<1>5. burst.duration \in Nat /\ burst.duration > 0
  <2> HIDE DEF burst
  <2> QED BY <1>4 DEF IOBurst
<1>6. task[p].burstTime - b.remainingTime >= burst.afterCPUTime
  BY DEF ioDue
<1>7. startIO(s, p, k) = t
  <2>1. startIO(s, p, k) = [s EXCEPT !.pcb[p] = c,
                                     !.ioQueue = Append(@, p),
                                     !.events = Append(@, Event(s, "io_start", p)),
                                     !.currentProcess = None,
                                     !.timeQuantumUsed = 0]
    BY Zenon DEF startIO
  <2> HIDE DEF c, p
  <2> QED BY <1>1, <2>1 DEF Simulator
<1>8. b.remainingTime \in Nat /\ b.remainingTime # 0
  BY <1>1 DEF PCBSound, PCB
<1> HIDE DEF p, b, burst
<1>9. b.ioCompleted \cup {k} \in SUBSET Nat
  BY <1>2
<1>10. /\ c \in PCB /\ c.state = "Waiting" /\ c.remainingTime = b.remainingTime
       /\ c.currentIOIndex = k /\ c.ioCompleted = b.ioCompleted \cup {k}
       /\ c.ioRemaining = burst.duration
  BY <1>1, <1>2, <1>5, <1>9 DEF PCB, State
<1> HIDE DEF c
<1>11. PCBSound(c, p)
  <2>1. b.ioCompleted \cup {k} = 1..k
    BY <1>1, <1>2 DEF PCBSound
  <2>2. \A i \in c.ioCompleted :
          task[p].burstTime - c.remainingTime >= task[p].ioBursts[i].afterCPUTime
    BY <1>1, <1>6, <1>10 DEF PCBSound, burst
  <2>3. c.state = "Waiting" /\ c.ioRemaining > 0 /\ c.currentIOIndex > 0
    BY <1>3, <1>5, <1>10
  <2>4. c.ioRemaining <= task[p].ioBursts[c.currentIOIndex].duration
    <3>1. task[p].ioBursts[c.currentIOIndex] = burst
      BY <1>10 DEF burst
    <3> QED BY <1>5, <1>10, <3>1
  <2>5. c.currentIOIndex <= Len(task[p].ioBursts)
    BY <1>1, <1>3, <1>10
  <2> QED BY <1>8, <1>10, <2>1, <2>2, <2>3, <2>4, <2>5 DEF PCBSound
<1>12. /\ t.processes = s.processes /\ t.pcb = [s.pcb EXCEPT ![p] = c]
       /\ t.readyQueue = s.readyQueue /\ t.ioQueue = Append(s.ioQueue, p)
       /\ t.currentProcess = None
  BY <1>1 DEF Simulator
<1>13. t \in Simulator
  <2>1. Append(s.events, Event(s, "io_start", p)) \in Seq(EventRecord)
    <3>1. Event(s, "io_start", p) \in EventRecord
      BY <1>1, EventTyped DEF EventType
    <3> QED BY <1>1, <3>1, AppendProperties DEF Simulator
  <2>2. Append(s.ioQueue, p) \in Seq(Procs)
    BY <1>1, AppendProperties DEF Simulator
  <2>3. [s.pcb EXCEPT ![p] = c] \in [Procs -> PCB]
    BY <1>1, <1>10
  <2> QED BY <1>1, <2>1, <2>2, <2>3 DEF Simulator
<1> HIDE DEF t
<1>14. /\ (In(s, "Ready") \ {p}) \cup {r \in {p} : c.state = "Ready"} = In(s, "Ready")
       /\ (In(s, "Waiting") \ {p}) \cup {r \in {p} : c.state = "Waiting"}
             = In(s, "Waiting") \cup {p}
       /\ p \notin In(s, "Waiting")
  BY <1>1, <1>10 DEF In, b
<1>15. Holds(t.readyQueue, (In(s, "Ready") \ {p}) \cup {r \in {p} : c.state = "Ready"})
  BY <1>12, <1>14 DEF Sound
<1>16. Holds(t.ioQueue, (In(s, "Waiting") \ {p}) \cup {r \in {p} : c.state = "Waiting"})
  <2>1. Holds(s.ioQueue, In(s, "Waiting"))
    BY DEF Sound
  <2>2. Holds(Append(s.ioQueue, p), In(s, "Waiting") \cup {p})
    BY <1>1, <1>14, <2>1, AppendHolds
  <2> QED BY <1>12, <1>14, <2>2
<1>17. {t.currentProcess} \cap Procs =
         (In(s, "Running") \ {p}) \cup {r \in {p} : c.state = "Running"}
  BY <1>1, <1>10, <1>12, EngineAssumption
<1>18. s.pcb[p].state # "New" /\ c.state # "New"
  BY <1>1, <1>10 DEF b
<1>19. Sound(t)
  BY <1>1, <1>11, <1>12, <1>13, <1>15, <1>16, <1>17, <1>18, MoveSound
<1> QED BY <1>7, <1>19 DEF p

(* checkIOBurst starts the next burst when it is due and otherwise leaves   *)
(* the process as it is.                                                    *)
LEMMA CheckIOSound ==
  ASSUME Static, NEW s, Sound(s)
  PROVE  Sound(checkIOBurst(s))
<1> DEFINE p == s.currentProcess
           k == s.pcb[p].currentIOIndex
<1>1. CASE p = None
  BY <1>1 DEF checkIOBurst
<1>2. CASE p # None
  <2>1. p \in Procs /\ s \in Simulator /\ s.pcb \in [Procs -> PCB] /\ s.pcb[p] \in PCB
    BY <1>2, CurrentFacts, SoundFacts
  <2>2. ~ IsComplete(s, p)
    BY <1>2, <2>1, CurrentFacts DEF IsComplete, PCB
  <2>3. nextIOIndex(s, p) = k
    BY <2>1, NextIOIndexIsCurrent
  <2>4. [s EXCEPT !.pcb[p].currentIOIndex = k] = s
    <3>1. [s.pcb[p] EXCEPT !.currentIOIndex = k] = s.pcb[p]
      BY <2>1 DEF PCB
    <3>2. [s.pcb EXCEPT ![p] = s.pcb[p]] = s.pcb
      BY <2>1
    <3>3. [s EXCEPT !.pcb = s.pcb] = s
      BY <2>1 DEF Simulator
    <3> QED BY <3>1, <3>2, <3>3
  <2>5. k \in Nat /\ Len(task[p].ioBursts) \in Nat
    BY <2>1, SoundFacts DEF PCB
  <2>6. CASE k < Len(task[p].ioBursts) /\ ioDue(s, p, task[p].ioBursts[k + 1])
    <3>1. k + 1 <= Len(task[p].ioBursts)
      BY <2>5, <2>6
    <3>2. Sound(startIO(s, p, k + 1))
      BY <1>2, <2>6, <3>1, StartIOSound
    <3>3. checkIOBurst(s) = startIO(s, p, k + 1)
      BY <1>2, <2>2, <2>3, <2>6 DEF checkIOBurst
    <3> QED BY <3>2, <3>3
  <2>7. CASE ~ (k < Len(task[p].ioBursts) /\ ioDue(s, p, task[p].ioBursts[k + 1]))
    <3>1. checkIOBurst(s) = [s EXCEPT !.pcb[p].currentIOIndex = k]
      BY <1>2, <2>2, <2>3, <2>7 DEF checkIOBurst
    <3> QED BY <2>4, <3>1
  <2> QED BY <2>6, <2>7
<1> QED BY <1>1, <1>2

(* timeQuantumUsed++ touches no process and no queue.                       *)
LEMMA ChargeSound ==
  ASSUME NEW s, Sound(s)
  PROVE  Sound(chargeTick(s))
<1> DEFINE used == s.timeQuantumUsed + 1
           t == [s EXCEPT !.timeQuantumUsed = used]
<1>1. s \in Simulator /\ used \in Nat
  BY DEF Sound, Simulator
<1> HIDE DEF used
<1>2. /\ t \in Simulator /\ t.processes = s.processes /\ t.pcb = s.pcb
      /\ t.readyQueue = s.readyQueue /\ t.ioQueue = s.ioQueue
      /\ t.currentProcess = s.currentProcess
  BY <1>1 DEF Simulator
<1>3. Sound(t)
  <2> HIDE DEF t
  <2> QED BY <1>2, FrameSound
<1> QED BY <1>3 DEF chargeTick, used

(* An idle tick touches no process and no queue.                            *)
LEMMA IdleSound ==
  ASSUME NEW s, Sound(s)
  PROVE  Sound(idle(s))
<1> DEFINE total == s.totalIdleTime + 1
           chart == addGanttEntry(s.ganttChart, IdlePID, s.currentTime)
           t == [s EXCEPT !.totalIdleTime = total, !.ganttChart = chart]
<1>1. s \in Simulator /\ total \in Nat
  BY DEF Sound, Simulator
<1>2. chart \in Seq(GanttEntry)
  BY <1>1, GanttTyped DEF Simulator, IdlePID
<1> HIDE DEF total, chart
<1>3. /\ t \in Simulator /\ t.processes = s.processes /\ t.pcb = s.pcb
      /\ t.readyQueue = s.readyQueue /\ t.ioQueue = s.ioQueue
      /\ t.currentProcess = s.currentProcess
  BY <1>1, <1>2 DEF Simulator
<1>4. Sound(t)
  <2> HIDE DEF t
  <2> QED BY <1>3, FrameSound
<1> QED BY <1>4 DEF idle, total, chart

(* The clock and the waiting times advance; no process moves.               *)
LEMMA AdvanceSound ==
  ASSUME Static, NEW s, Sound(s)
  PROVE  Sound(advanceClock(s))
<1> DEFINE waits(p) == /\ p \in ToSet(s.readyQueue)
                       /\ s.pcb[p].state = "Ready"
                       /\ s.currentProcess = None \/ task[p].pid # task[s.currentProcess].pid
           longer(p) == [s.pcb[p] EXCEPT !.waitingTime = s.pcb[p].waitingTime + 1]
           pcb == [p \in Procs |-> IF waits(p) THEN longer(p) ELSE s.pcb[p]]
           now == s.currentTime + 1
           t == [s EXCEPT !.currentTime = now, !.pcb = pcb]
<1>1. s \in Simulator /\ now \in Nat
  BY DEF Sound, Simulator
<1>2. advanceClock(s) = t
  BY DEF advanceClock
<1>3. \A p \in Procs : pcb[p] = longer(p) \/ pcb[p] = s.pcb[p]
  OBVIOUS
<1> HIDE DEF waits, now
<1>4. ASSUME NEW p \in Procs
      PROVE  /\ pcb[p] \in PCB /\ pcb[p].state = s.pcb[p].state
             /\ pcb[p].remainingTime = s.pcb[p].remainingTime
             /\ pcb[p].ioRemaining = s.pcb[p].ioRemaining
             /\ pcb[p].currentIOIndex = s.pcb[p].currentIOIndex
             /\ pcb[p].ioCompleted = s.pcb[p].ioCompleted
  <2> DEFINE b == s.pcb[p]
             wait == b.waitingTime + 1
             c == [b EXCEPT !.waitingTime = wait]
  <2>1. b \in PCB
    BY <1>1 DEF Simulator
  <2>2. wait \in Int
    <3> HIDE DEF b
    <3> QED BY <2>1 DEF PCB
  <2>3. pcb[p] = c \/ pcb[p] = b
    BY <1>3
  <2> HIDE DEF b, wait, pcb
  <2>4. /\ c \in PCB /\ c.state = b.state /\ c.remainingTime = b.remainingTime
        /\ c.ioRemaining = b.ioRemaining
        /\ c.currentIOIndex = b.currentIOIndex /\ c.ioCompleted = b.ioCompleted
    BY <2>1, <2>2 DEF PCB
  <2> HIDE DEF c
  <2> QED BY <2>1, <2>3, <2>4 DEF b
<1>5. pcb \in [Procs -> PCB]
  BY <1>4
<1> HIDE DEF pcb
<1>6. /\ t \in Simulator /\ t.processes = s.processes /\ t.pcb = pcb
      /\ t.readyQueue = s.readyQueue /\ t.ioQueue = s.ioQueue
      /\ t.currentProcess = s.currentProcess
  BY <1>1, <1>5 DEF Simulator
<1> HIDE DEF t
<1>7. \A st : In(t, st) = In(s, st)
  BY <1>4, <1>6 DEF In
<1>8. \A p \in Procs : PCBSound(t.pcb[p], p)
  BY <1>4, <1>6 DEF Sound, PCBSound
<1>9. \A p \in Procs : t.pcb[p].state # "New" => p \in ToSet(t.processes)
  BY <1>4, <1>6 DEF Sound
<1>10. /\ IsInjective(t.processes) /\ Holds(t.readyQueue, In(t, "Ready"))
       /\ Holds(t.ioQueue, In(t, "Waiting"))
       /\ In(t, "Running") = {t.currentProcess} \cap Procs
  BY <1>6, <1>7 DEF Sound
<1> QED BY <1>2, <1>6, <1>8, <1>9, <1>10 DEF Sound

(* One tick, executeTimeUnit, from one sound struct to the next.            *)
LEMMA TickSound ==
  ASSUME Static, NEW s, Sound(s), NEW draw \in Nat, NEW redraw \in Nat
  PROVE  Sound(executeTimeUnit(s, draw, redraw))
<1> DEFINE d == dispatch(tickIOQueue(checkArrivals(s)), draw)
           w == IF d.currentProcess = None THEN idle(d)
                ELSE expireQuantum(checkIOBurst(chargeTick(executeProcess(d))), redraw)
<1>1. Sound(d)
  <2>1. Sound(checkArrivals(s))
    BY ArrivalsSound
  <2>2. Sound(tickIOQueue(checkArrivals(s)))
    BY <2>1, TickIOSound
  <2> QED BY <2>2, DispatchSound
<1> HIDE DEF d
<1>2. Sound(w)
  <2>1. CASE d.currentProcess = None
    BY <1>1, <2>1, IdleSound
  <2>2. CASE d.currentProcess # None
    <3>1. Sound(executeProcess(d))
      BY <1>1, <2>2, ExecuteSound
    <3>2. Sound(chargeTick(executeProcess(d)))
      BY <3>1, ChargeSound
    <3>3. Sound(checkIOBurst(chargeTick(executeProcess(d))))
      BY <3>2, CheckIOSound
    <3> QED BY <2>2, <3>3, ExpireQuantumSound
  <2> QED BY <2>1, <2>2
<1>3. Sound(advanceClock(w))
  <2> HIDE DEF w
  <2> QED BY <1>2, AdvanceSound
<1> QED BY <1>3 DEF executeTimeUnit, d

----------------------------------------------------------------------------
(* A new or reset process.                                                  *)
LEMMA InitialFacts ==
  ASSUME Static, NEW p \in Procs
  PROVE  InitialPCB(p) \in PCB /\ InitialPCB(p).state = "New" /\ PCBSound(InitialPCB(p), p)
<1> DEFINE b == InitialPCB(p)
<1>1. task[p].burstTime \in Nat /\ task[p].burstTime > 0 /\ task[p].ioBursts \in Seq(IOBurst)
  BY DEF Static, Task
<1>2. Len(task[p].ioBursts) \in Nat
  BY <1>1, LenProperties
<1>3. /\ b.state = "New" /\ b.remainingTime = task[p].burstTime /\ b.currentIOIndex = 0
      /\ b.ioCompleted = {} /\ b.ioRemaining = 0
  BY DEF InitialPCB
<1>4. b \in PCB
  BY <1>1 DEF InitialPCB, PCB, State
<1> HIDE DEF b
<1>5. PCBSound(b, p)
  <2>1. 1..0 = {}
    OBVIOUS
  <2> QED BY <1>1, <1>2, <1>3, <2>1 DEF PCBSound
<1> QED BY <1>3, <1>4, <1>5 DEF b

(* A scheduler that was just built has an empty level map.                  *)
LEMMA NoLevels ==
  ASSUME Static
  PROVE  << >> \in Levels
<1>1. << >> \in [{} -> 0..(NumLevels - 1)]
  OBVIOUS
<1> QED BY <1>1, LevelsIntro

(* A struct in which every process is new and every queue empty.            *)
LEMMA FreshSound ==
  ASSUME NEW t \in Simulator, IsInjective(t.processes),
         t.readyQueue = << >>, t.ioQueue = << >>, t.currentProcess = None,
         \A p \in Procs : t.pcb[p].state = "New" /\ PCBSound(t.pcb[p], p)
  PROVE  Sound(t)
<1>1. In(t, "Ready") = {} /\ In(t, "Waiting") = {} /\ In(t, "Running") = {}
  BY DEF In
<1>2. {None} \cap Procs = {}
  BY EngineAssumption
<1> QED BY <1>1, <1>2, EmptyHolds DEF Sound

(* NewSimulator makes a sound struct.                                       *)
LEMMA InitSound ==
  ASSUME Static
  PROVE  Sound(NewSimulator)
<1> DEFINE t == NewSimulator
           pcb == [p \in Procs |-> InitialPCB(p)]
<1>1. pcb \in [Procs -> PCB]
  BY InitialFacts
<1>2. << >> \in Levels
  BY NoLevels
<1>3. t.pcb = pcb
  BY DEF NewSimulator
<1>4. t \in Simulator
  <2> HIDE DEF pcb
  <2>1. /\ << >> \in Seq(Procs) /\ << >> \in Seq(GanttEntry) /\ << >> \in Seq(EventRecord)
    OBVIOUS
  <2>2. None \in Procs \cup {None}
    OBVIOUS
  <2> QED BY <1>1, <1>2, <2>1, <2>2 DEF NewSimulator, Simulator, pcb
<1>5. /\ t.processes = << >> /\ t.readyQueue = << >> /\ t.ioQueue = << >>
      /\ t.currentProcess = None
  BY DEF NewSimulator
<1>6. \A p \in Procs : t.pcb[p].state = "New" /\ PCBSound(t.pcb[p], p)
  BY <1>3, InitialFacts
<1>7. IsInjective(<< >>)
  BY EmptyHolds DEF Holds
<1> HIDE DEF t
<1>8. Sound(t)
  BY <1>4, <1>5, <1>6, <1>7, FreshSound
<1> QED BY <1>8 DEF t

(* Reset makes a sound struct: a process that is not in processes was never *)
(* anything but new.                                                        *)
LEMMA ResetSound ==
  ASSUME Static, Sound(sim), Reset
  PROVE  Sound(sim')
<1> DEFINE pcb == [p \in Procs |-> IF p \in ToSet(sim.processes)
                                   THEN InitialPCB(p) ELSE sim.pcb[p]]
           t == [sim EXCEPT
                  !.currentTime = 0, !.currentProcess = None, !.readyQueue = << >>,
                  !.ioQueue = << >>, !.ganttChart = << >>, !.events = << >>,
                  !.contextSwitches = 0, !.totalIdleTime = 0, !.timeQuantumUsed = 0,
                  !.levels = << >>, !.pcb = pcb]
<1>1. sim \in Simulator /\ \A p \in Procs : sim.pcb[p] \in PCB
  BY DEF Sound, Simulator
<1>2. sim' = t
  BY DEF Reset
<1>3. \A p \in Procs : pcb[p] = IF p \in ToSet(sim.processes) THEN InitialPCB(p)
                                ELSE sim.pcb[p]
  OBVIOUS
<1>4. pcb \in [Procs -> PCB]
  BY <1>1, InitialFacts
<1>5. << >> \in Levels
  BY NoLevels
<1> HIDE DEF pcb
<1>6. t \in Simulator
  <2>1. /\ << >> \in Seq(Procs) /\ << >> \in Seq(GanttEntry) /\ << >> \in Seq(EventRecord)
    OBVIOUS
  <2> QED BY <1>1, <1>4, <1>5, <2>1 DEF Simulator
<1>7. /\ t.processes = sim.processes /\ t.readyQueue = << >> /\ t.ioQueue = << >>
      /\ t.currentProcess = None /\ t.pcb = pcb
  BY <1>1 DEF Simulator
<1> HIDE DEF t
<1>8. \A p \in Procs : t.pcb[p].state = "New" /\ PCBSound(t.pcb[p], p)
  BY <1>3, <1>7, InitialFacts DEF Sound
<1>9. IsInjective(t.processes)
  BY <1>7 DEF Sound
<1> QED BY <1>2, <1>6, <1>7, <1>8, <1>9, FreshSound

(* AddProcess keeps every process it had: whatever order the sort leaves,   *)
(* it is a permutation of the old processes and the new one.                *)
LEMMA AddSound ==
  ASSUME Static, Sound(sim), NEW p \in Procs, AddProcess(p)
  PROVE  Sound(sim') /\ ToSet(sim'.processes) = ToSet(sim.processes) \cup {p}
<1> DEFINE S == ToSet(sim.processes) \cup {p}
<1>1. sim \in Simulator /\ sim.processes \in Seq(Procs)
  BY DEF Sound, Simulator
<1>2. S \in SUBSET Procs
  <2>1. DOMAIN sim.processes = 1..Len(sim.processes)
    BY <1>1, LenProperties
  <2> QED BY <1>1, <2>1, ElementOfSeq DEF ToSet
<1>3. PICK q \in SortedByArrival(S) : sim' = [sim EXCEPT !.processes = q]
  BY DEF AddProcess
<1>4. ToSet(sim.processes) \subseteq S
  OBVIOUS
<1> HIDE DEF S
<1>5. IsFiniteSet(S) /\ Cardinality(S) \in Nat
  BY <1>2, ProcsAssumption, FS_Subset, FS_CardinalityType
<1> DEFINE n == Cardinality(S)
<1>6. q \in [1..n -> S] /\ \A i, j \in 1..n : i < j => q[i] # q[j]
  BY <1>3 DEF SortedByArrival
<1>7. IsInjective(q)
  <2> HIDE DEF n
  <2> SUFFICES ASSUME NEW i \in 1..n, NEW j \in 1..n, q[i] = q[j] PROVE i = j
    BY <1>6 DEF IsInjective
  <2> QED BY <1>6
<1>8. q \in Seq(Procs)
  <2>1. q = [i \in 1..n |-> q[i]] /\ \A i \in 1..n : q[i] \in Procs
    BY <1>2, <1>6
  <2> QED BY <1>5, <2>1, IsASeq
<1>9. ToSet(q) = S
  <2>1. q \in Injection(1..n, S)
    BY <1>6, <1>7 DEF Injection
  <2>2. Cardinality(1..n) = n
    <3>1. Cardinality(1..n) = IF 1 > n THEN 0 ELSE n - 1 + 1
      BY <1>5, FS_Interval
    <3> HIDE DEF n
    <3>2. n \in Nat
      BY <1>5 DEF n
    <3> QED BY <3>1, <3>2
  <2>3. q \in Surjection(1..n, S)
    BY <1>5, <2>1, <2>2, FS_Injection
  <2> QED BY <1>6, <2>3 DEF Surjection, ToSet
<1>10. /\ sim' \in Simulator /\ sim'.processes = q /\ sim'.pcb = sim.pcb
       /\ sim'.readyQueue = sim.readyQueue /\ sim'.ioQueue = sim.ioQueue
       /\ sim'.currentProcess = sim.currentProcess
  BY <1>1, <1>3, <1>8 DEF Simulator
<1>11. \A st : In(sim', st) = In(sim, st)
  BY <1>10 DEF In
<1>12. \A r \in Procs : sim'.pcb[r].state # "New" => r \in ToSet(sim'.processes)
  BY <1>4, <1>9, <1>10 DEF Sound
<1>13. ToSet(sim'.processes) = ToSet(sim.processes) \cup {p}
  BY <1>9, <1>10 DEF S
<1>14. Sound(sim')
  BY <1>7, <1>10, <1>11, <1>12 DEF Sound
<1> QED BY <1>13, <1>14

----------------------------------------------------------------------------
(* The inductive invariant of the engine.                                   *)
EngineInv == Static /\ Sound(sim)

(* Nothing changes the algorithm and the submitted fields, so the invariant *)
(* of the next state is the one stated with their present values.           *)
LEMMA NextSound ==
  ASSUME Static, Sound(sim'), UNCHANGED <<alg, task>>
  PROVE  EngineInv'
<1>1. Static'
  BY DEF Static
<1>2. Simulator' = Simulator
  BY DEF Simulator, Levels, NumLevels
<1>3. \A b : \A p \in Procs : PCBSound(b, p) <=> PCBSound(b, p)'
  BY DEF PCBSound
<1> QED BY <1>1, <1>2, <1>3 DEF EngineInv, Sound, PCBSound

(* EngineInv holds initially and every step of the engine preserves it.     *)
LEMMA EngineInvInductive == Spec => []EngineInv
<1>1. Init => EngineInv
  <2> SUFFICES ASSUME Init PROVE EngineInv
    OBVIOUS
  <2>1. Static
    BY EngineAssumption DEF Init, Static
  <2> QED BY <2>1, InitSound DEF Init, EngineInv
<1>2. EngineInv /\ [Next]_vars => EngineInv'
  <2> SUFFICES ASSUME EngineInv, [Next]_vars PROVE EngineInv'
    OBVIOUS
  <2>1. Static /\ Sound(sim)
    BY DEF EngineInv
  <2>2. ASSUME NEW p \in Procs, AddProcess(p) PROVE EngineInv'
    <3>1. Sound(sim')
      BY <2>1, <2>2, AddSound
    <3> QED BY <2>1, <2>2, <3>1, NextSound DEF AddProcess
  <2>3. CASE Tick
    <3>1. PICK draw \in Draws, redraw \in Draws : sim' = executeTimeUnit(sim, draw, redraw)
      BY <2>3 DEF Tick
    <3>2. Draws \subseteq Nat
      <4>1. Cardinality(Procs) \in Nat
        BY ProcsAssumption, FS_CardinalityType
      <4> QED BY <4>1 DEF Draws
    <3>3. Sound(sim')
      BY <2>1, <3>1, <3>2, TickSound
    <3> QED BY <2>1, <2>3, <3>3, NextSound DEF Tick
  <2>4. CASE Reset
    <3>1. Sound(sim')
      BY <2>1, <2>4, ResetSound
    <3> QED BY <2>1, <2>4, <3>1, NextSound DEF Reset
  <2>5. CASE UNCHANGED vars
    BY <2>1, <2>5, NextSound DEF vars
  <2> QED BY <2>2, <2>3, <2>4, <2>5 DEF Next
<1> QED BY <1>1, <1>2, PTL DEF Spec

(* Type correctness for every workload, every algorithm and every number of *)
(* processes: no counter of simulator.go or process.go goes negative        *)
(* (RemainingTime, IORemaining), and MLFQ and MLQ never hold a level        *)
(* outside their queues.                                                    *)
THEOREM EngineTypes == Spec => []TypeOK
<1>1. EngineInv => TypeOK
  BY DEF EngineInv, Static, Sound, TypeOK
<1> QED BY <1>1, EngineInvInductive, PTL

(* Placement for every workload: executeTimeUnit, AddProcess and Reset      *)
(* never lose a process and never queue one twice.                          *)
THEOREM EveryProcessInItsPlace == Spec => []Placement
<1>1. EngineInv => Placement
  <2> SUFFICES ASSUME EngineInv PROVE Placement
    OBVIOUS
  <2>1. Sound(sim)
    BY DEF EngineInv
  <2>2. /\ IsInjective(sim.processes) /\ IsInjective(sim.readyQueue)
        /\ IsInjective(sim.ioQueue)
        /\ ToSet(sim.readyQueue) = In(sim, "Ready")
        /\ ToSet(sim.ioQueue) = In(sim, "Waiting")
    BY <2>1 DEF Sound, Holds
  <2>3. ASSUME NEW p \in Procs
        PROVE  /\ p \in ToSet(sim.readyQueue) <=> sim.pcb[p].state = "Ready"
               /\ p \in ToSet(sim.ioQueue) <=> sim.pcb[p].state = "Waiting"
               /\ p = sim.currentProcess <=> sim.pcb[p].state = "Running"
               /\ sim.pcb[p].state = "Terminated" <=> sim.pcb[p].remainingTime = 0
               /\ sim.pcb[p].state # "New" => p \in ToSet(sim.processes)
    <3>1. p \in In(sim, "Running") <=> p = sim.currentProcess
      BY <2>1 DEF Sound
    <3>2. PCBSound(sim.pcb[p], p)
      BY <2>1 DEF Sound
    <3> QED BY <2>1, <2>2, <3>1, <3>2 DEF In, PCBSound, Sound
  <2> QED BY <2>2, <2>3 DEF Placement
<1> QED BY <1>1, EngineInvInductive, PTL

(* IOBurstsInOrder for every workload: checkIOBurst and tickIOQueue serve   *)
(* the I/O bursts in the order given, each once and never early.            *)
THEOREM BurstsInOrder == Spec => []IOBurstsInOrder
<1>1. EngineInv => IOBurstsInOrder
  BY DEF EngineInv, Sound, PCBSound, IOBurstsInOrder, CPUTimeUsed
<1> QED BY <1>1, EngineInvInductive, PTL

(* Whatever the ready queue holds, the process Schedule returns is the one  *)
(* that the source's single pass, with its strict comparisons, ends with:   *)
(* the first of the best, under every algorithm that makes such a pass.     *)
THEOREM ScheduleMakesOnePass == Spec => []ScheduleIsTheScan
<1>1. EngineInv => ScheduleIsTheScan
  <2> SUFFICES ASSUME EngineInv, alg # "lottery", sim.readyQueue # << >>
               PROVE  Schedule(sim, 0) = Scan(sim)
    BY DEF ScheduleIsTheScan
  <2>1. alg \in Algorithm /\ task \in [Procs -> Task] /\ sim \in Simulator
    BY DEF EngineInv, Static, Sound
  <2> QED BY <2>1, ScheduleScans
<1> QED BY <1>1, EngineInvInductive, PTL
=============================================================================
