------------------------- MODULE WorkConservingCPU -------------------------
(***************************************************************************)
(* What the engine promises whatever the algorithm: a single CPU that is   *)
(* never idle while a process can run.  In each tick it serves one unit of *)
(* one runnable process, which may then sleep for one of its I/O bursts,   *)
(* or it idles because nothing is runnable.                                *)
(***************************************************************************)
EXTENDS Integers, Sequences

CONSTANT Procs

VARIABLES
    task,    \* the submitted fields
    clock,   \* ticks so far
    added,   \* the processes of the simulation
    left,    \* CPU time each process still needs
    wakeAt   \* the first tick in which a sleeping process can run, 0 if awake

cpuVars == <<task, clock, added, left, wakeAt>>

Runnable(p) ==
    /\ p \in added
    /\ task[p].arrivalTime <= clock
    /\ left[p] > 0
    /\ wakeAt[p] <= clock

Init ==
    /\ clock = 0
    /\ added = {}
    /\ left = [p \in Procs |-> task[p].burstTime]
    /\ wakeAt = [p \in Procs |-> 0]

Add(p) ==
    /\ p \notin added
    /\ added' = added \cup {p}
    /\ UNCHANGED <<task, clock, left, wakeAt>>

StillAsleep == [p \in Procs |-> IF wakeAt[p] <= clock THEN 0 ELSE wakeAt[p]]

Serve(p) ==
    /\ Runnable(p)
    /\ clock' = clock + 1
    /\ left' = [left EXCEPT ![p] = @ - 1]
    /\ \/ wakeAt' = StillAsleep
       \/ /\ left[p] > 1
          /\ \E i \in DOMAIN task[p].ioBursts :
                wakeAt' = [StillAsleep EXCEPT ![p] = clock + task[p].ioBursts[i].duration]
    /\ UNCHANGED <<task, added>>

Idle ==
    /\ \A p \in Procs : ~ Runnable(p)
    /\ clock' = clock + 1
    /\ wakeAt' = StillAsleep
    /\ UNCHANGED <<task, added, left>>

StartOver ==
    /\ clock' = 0
    /\ left' = [p \in Procs |-> task[p].burstTime]
    /\ wakeAt' = [p \in Procs |-> 0]
    /\ UNCHANGED <<task, added>>

Next == (\E p \in Procs : Add(p) \/ Serve(p)) \/ Idle \/ StartOver

Spec == Init /\ [][Next]_cpuVars
=============================================================================
