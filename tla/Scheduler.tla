----------------------------- MODULE Scheduler -----------------------------
(***************************************************************************)
(* The ten algorithms behind the Scheduler interface of                    *)
(* internal/scheduler/scheduler.go.                                        *)
(*                                                                         *)
(* A process is a pointer p \in Procs.  task[p] holds the fields a client  *)
(* submits and nothing changes afterwards; every other field lives in the  *)
(* Simulator record s (module Engine), which the interface methods below   *)
(* take as their argument: s.pcb[p], s.readyQueue, s.currentProcess,       *)
(* s.currentTime and s.levels, the map MLFQ and MLQ keep.                  *)
(***************************************************************************)
EXTENDS Integers, Sequences, FiniteSets, SequencesExt

CONSTANTS
    Procs,           \* pointers to the processes of the simulation
    Quantum,         \* the quantum buildScheduler hands to RR, Lottery and MLQ
    AgingInterval,   \* PriorityScheduler.agingInterval (10 in the program)
    FeedbackQuanta,  \* MLFQScheduler.timeQuantums (<<2, 4, 8>> in the program)
    QueueLevels,     \* MLQScheduler.numLevels (3 in the program)
    VRuntimeScale    \* process.VRuntimeScale (2^20 in the program)

Algorithm == {"fcfs", "sjf", "srtf", "rr", "priority", "priority_np",
              "cfs", "mlfq", "lottery", "mlq"}

(* What parseProcess and validateProcess let through: arrivalTime and pid  *)
(* are not negative, burstTime is at least 1, an I/O burst has a positive  *)
(* duration.  Nothing makes a pid unique.                                  *)
IOBurst == [afterCPUTime : Int, duration : Nat \ {0}]
Task == [pid : Nat, arrivalTime : Nat, burstTime : Nat \ {0}, priority : Int,
         weight : Nat \ {0}, ioBursts : Seq(IOBurst)]

ASSUME ProcsAssumption == IsFiniteSet(Procs)
ASSUME QuantumAssumption ==
    /\ Quantum \in Nat \ {0}
    /\ AgingInterval \in Nat \ {0}
    /\ FeedbackQuanta \in Seq(Nat \ {0})
    /\ Len(FeedbackQuanta) > 0
    /\ QueueLevels \in Nat \ {0}
    /\ VRuntimeScale \in Nat

VARIABLES
    alg,   \* the algorithm of the Simulator's scheduler
    task   \* the submitted fields of every process

----------------------------------------------------------------------------
\* The members of S with the smallest key: what a scan with a strict "<" keeps.
Least(S, key) == {p \in S : \A r \in S : key[p] <= key[r]}

FirstIndex(q, S) == SelectInSeq(q, LAMBDA p : p \in S)

(* The sequence of those elements of q that are in S, in their order in q. *)
(* A recursive function rather than SelectSeq, so that proofs reach it.    *)
KeptUpTo(q, S) ==
    LET kept[i \in 0..Len(q)] ==
            IF i = 0 THEN << >>
            ELSE IF q[i] \in S THEN Append(kept[i-1], q[i]) ELSE kept[i-1]
    IN  kept
Kept(q, S) == KeptUpTo(q, S)[Len(q)]

----------------------------------------------------------------------------
(* Keys, as functions of the process.                                      *)
ArrivalTime      == [p \in Procs |-> task[p].arrivalTime]
BurstTime        == [p \in Procs |-> task[p].burstTime]
PID              == [p \in Procs |-> task[p].pid]
RemainingTime(s) == [p \in Procs |-> s.pcb[p].remainingTime]
VRuntime(s)      == [p \in Procs |-> s.pcb[p].vRuntime]

\* A Go map returns 0 for a missing key.
Level(s) == [p \in Procs |-> IF p \in DOMAIN s.levels THEN s.levels[p] ELSE 0]

levelFor == [p \in Procs |->
    IF task[p].priority < 0 THEN 0
    ELSE IF task[p].priority >= QueueLevels THEN QueueLevels - 1
    ELSE task[p].priority]

effectivePriority(s) == [p \in Procs |->
    LET lastActivity == IF s.pcb[p].lastExecuted > task[p].arrivalTime
                        THEN s.pcb[p].lastExecuted ELSE task[p].arrivalTime
        waited == IF s.currentTime < lastActivity THEN 0
                  ELSE s.currentTime - lastActivity
        eff == task[p].priority - (waited \div AgingInterval)
    IN  IF eff < 0 THEN 0 ELSE eff]

----------------------------------------------------------------------------
(* Schedule.  Every algorithm but the lottery scans the ready queue for a   *)
(* strictly better process, so it returns the first process, in queue       *)
(* order, of those that are best.                                           *)
MutantBest(s) == Least(ToSet(s.readyQueue), RemainingTime(s))
Best(s) ==
    LET R == ToSet(s.readyQueue)
    IN  CASE alg = "fcfs" -> Least(R, ArrivalTime)
          [] alg = "sjf"  -> Least(Least(R, BurstTime), ArrivalTime)
          [] alg = "srtf" -> Least(Least(R, RemainingTime(s)), ArrivalTime)
          [] alg \in {"priority", "priority_np"} ->
                 Least(Least(R, effectivePriority(s)), ArrivalTime)
          [] alg = "cfs"  -> Least(Least(R, VRuntime(s)), PID)
          [] alg = "mlfq" -> Least(Least(Least(R, Level(s)), ArrivalTime), PID)
          [] alg = "mlq"  -> Least(Least(Least(R, levelFor), ArrivalTime), PID)
          [] OTHER -> R

(* The lottery draws one ticket.  Every process holds at least one, so any  *)
(* position can win; draw stands for the position whose tickets hold the    *)
(* number drawn.                                                            *)
Draws == IF alg = "lottery" THEN 0..(Cardinality(Procs) - 1) ELSE {0}

MutantScheduleLast(s, draw) == s.readyQueue[Len(s.readyQueue)]
Schedule(s, draw) ==
    IF alg = "lottery" THEN s.readyQueue[(draw % Len(s.readyQueue)) + 1]
    ELSE s.readyQueue[FirstIndex(s.readyQueue, Best(s))]

(* The same choice the way the code makes it: one pass over the queue that  *)
(* replaces the best so far by a strictly better process.  One comparison   *)
(* for each Schedule; round robin never replaces the head.                  *)
EarlierArrival(p, best) == ArrivalTime[p] < ArrivalTime[best]

ShorterJob(p, best) ==
    \/ BurstTime[p] < BurstTime[best]
    \/ BurstTime[p] = BurstTime[best] /\ EarlierArrival(p, best)

ShorterRemaining(s, p, best) ==
    LET left == RemainingTime(s) IN
    left[p] < left[best] \/ (left[p] = left[best] /\ EarlierArrival(p, best))

HigherPriority(s, p, best) ==
    LET eff == effectivePriority(s) IN
    eff[p] < eff[best] \/ (eff[p] = eff[best] /\ EarlierArrival(p, best))

SmallerVRuntime(s, p, best) ==
    \/ VRuntime(s)[p] < VRuntime(s)[best]
    \/ VRuntime(s)[p] = VRuntime(s)[best] /\ PID[p] < PID[best]

HigherLevel(level, p, best) ==
    \/ level[p] < level[best]
    \/ level[p] = level[best] /\ EarlierArrival(p, best)
    \/ level[p] = level[best] /\ ArrivalTime[p] = ArrivalTime[best] /\ PID[p] < PID[best]

Better(s, p, best) ==
    CASE alg = "fcfs" -> EarlierArrival(p, best)
      [] alg = "sjf"  -> ShorterJob(p, best)
      [] alg = "srtf" -> ShorterRemaining(s, p, best)
      [] alg \in {"priority", "priority_np"} -> HigherPriority(s, p, best)
      [] alg = "cfs"  -> SmallerVRuntime(s, p, best)
      [] alg = "mlfq" -> HigherLevel(Level(s), p, best)
      [] alg = "mlq"  -> HigherLevel(levelFor, p, best)
      [] OTHER -> FALSE

Scan(s) ==
    FoldLeft(LAMBDA best, p : IF Better(s, p, best) THEN p ELSE best,
             Head(s.readyQueue), Tail(s.readyQueue))

(* Preempt.  SRTF, Priority and CFS compare PIDs to leave the current       *)
(* process out, MLFQ and MLQ compare pointers.                              *)
OtherPIDs(s) == {p \in ToSet(s.readyQueue) : task[p].pid # task[s.currentProcess].pid}

ShorterWaits(s) ==
    \E p \in OtherPIDs(s) : RemainingTime(s)[p] < RemainingTime(s)[s.currentProcess]

HigherPriorityWaits(s) ==
    \E p \in OtherPIDs(s) : effectivePriority(s)[p] < effectivePriority(s)[s.currentProcess]

LaggardWaits(s) ==
    LET cur == s.currentProcess IN
    \E p \in OtherPIDs(s) :
        VRuntime(s)[p] < VRuntime(s)[cur] - (VRuntimeScale \div task[cur].weight)

HigherLevelWaits(s) ==
    \E p \in ToSet(s.readyQueue) \ {s.currentProcess} :
        Level(s)[p] < Level(s)[s.currentProcess]

MutantPreempt(s) ==
    alg = "srtf" /\ \E p \in ToSet(s.readyQueue) :
        RemainingTime(s)[p] <= RemainingTime(s)[s.currentProcess]
Preempt(s) ==
    CASE alg = "srtf" -> ShorterWaits(s)
      [] alg = "priority" -> HigherPriorityWaits(s)
      [] alg = "cfs" -> LaggardWaits(s)
      [] alg \in {"mlfq", "mlq"} -> HigherLevelWaits(s)
      [] OTHER -> FALSE

MutantQuantumFor(s, p) == Quantum
QuantumFor(s, p) ==
    CASE alg \in {"rr", "lottery", "mlq"} -> Quantum
      [] alg = "cfs"  -> 1
      [] alg = "mlfq" -> IF Level(s)[p] >= Len(FeedbackQuanta)
                         THEN FeedbackQuanta[Len(FeedbackQuanta)]
                         ELSE FeedbackQuanta[Level(s)[p] + 1]
      [] OTHER -> 0

----------------------------------------------------------------------------
(* The number of queues: numLevels of MLFQ and of MLQ.                      *)
NumLevels == IF alg = "mlfq" THEN Len(FeedbackQuanta) ELSE QueueLevels

(* The level map: AddProcess, RemoveProcess and OnQuantumExpired.  The      *)
(* other algorithms keep no state and leave the map empty.                  *)
LevelsAfterAdd(s, added) ==
    CASE alg = "mlfq" ->
           [p \in DOMAIN s.levels \cup added |->
               IF p \in DOMAIN s.levels THEN s.levels[p] ELSE 0]
      [] alg = "mlq" ->
           [p \in DOMAIN s.levels \cup added |->
               IF p \in added THEN levelFor[p] ELSE s.levels[p]]
      [] OTHER -> s.levels

MutantLevelsAfterRemove(s, p) == s.levels
LevelsAfterRemove(s, p) == [r \in DOMAIN s.levels \ {p} |-> s.levels[r]]

MutantLevelsAfterExpiry(s, p) ==
    IF alg = "mlfq"
    THEN [r \in DOMAIN s.levels \cup {p} |-> IF r = p THEN Level(s)[p] + 1 ELSE s.levels[r]]
    ELSE s.levels
LevelsAfterExpiry(s, p) ==
    IF alg = "mlfq" /\ Level(s)[p] < Len(FeedbackQuanta) - 1
    THEN [r \in DOMAIN s.levels \cup {p} |-> IF r = p THEN Level(s)[p] + 1 ELSE s.levels[r]]
    ELSE s.levels
=============================================================================
