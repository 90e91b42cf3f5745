----------------------------- MODULE TickProofs -----------------------------
(***************************************************************************)
(* What holds of a whole tick, for every workload, every algorithm and any *)
(* number of processes: the level map follows the live processes, expiry   *)
(* is noticed in time, context switches are counted once, an update shows  *)
(* every process once, Reset starts over, a non-preemptive algorithm never *)
(* takes the CPU away, a preemptive one runs the best process and preempts *)
(* only to run another, and the engine implements the work-conserving CPU. *)
(*                                                                         *)
(* Tracked is the invariant all but the last three rest on: like Sound it  *)
(* is preserved by each method and not only by a tick, so it has one lemma *)
(* per method, each from what module EngineMethods says the method does.   *)
(***************************************************************************)
EXTENDS EngineMethods

----------------------------------------------------------------------------
(* Counting the entries of a log, or of a queue, that are of some kind.     *)
Marked(log, M) == {i \in DOMAIN log : log[i] \in M}

(* There are finitely many.                                                 *)
LEMMA MarkedFinite ==
  ASSUME NEW Entry, NEW log \in Seq(Entry), NEW M
  PROVE  IsFiniteSet(Marked(log, M)) /\ Cardinality(Marked(log, M)) \in Nat
<1>1. DOMAIN log = 1..Len(log) /\ Len(log) \in Nat
  BY LenProperties
<1>2. IsFiniteSet(1..Len(log))
  BY <1>1, FS_Interval
<1>3. Marked(log, M) \in SUBSET (1..Len(log))
  BY <1>1 DEF Marked
<1> QED BY <1>2, <1>3, FS_Subset, FS_CardinalityType

(* addEvent adds one event to the count of its kind.                        *)
LEMMA MarkedAppend ==
  ASSUME NEW log \in Seq(EventRecord), NEW e \in EventRecord, NEW M
  PROVE  Cardinality(Marked(Append(log, e), M)) =
            IF e \in M THEN Cardinality(Marked(log, M)) + 1 ELSE Cardinality(Marked(log, M))
<1> DEFINE n == Len(log)
           c == Append(log, e)
<1>1. n \in Nat /\ DOMAIN log = 1..n
  BY LenProperties
<1>2. c \in Seq(EventRecord) /\ Len(c) = n + 1
  BY AppendProperties
<1>3. DOMAIN c = 1..(n + 1)
  BY <1>2, LenProperties
<1>4. c[n + 1] = e /\ \A i \in 1..n : c[i] = log[i]
  BY AppendProperties
<1> HIDE DEF n, c
<1>5. \A i : i \in 1..(n + 1) <=> (i \in 1..n \/ i = n + 1)
  BY <1>1
<1>6. n + 1 \notin 1..n
  BY <1>1
<1>7. IsFiniteSet(Marked(log, M)) /\ n + 1 \notin Marked(log, M)
  BY <1>1, <1>6, MarkedFinite DEF Marked
<1>8. CASE e \in M
  <2>1. Marked(c, M) = Marked(log, M) \cup {n + 1}
    BY <1>1, <1>3, <1>4, <1>5, <1>8 DEF Marked
  <2>2. Cardinality(Marked(log, M) \cup {n + 1}) = Cardinality(Marked(log, M)) + 1
    BY <1>7, FS_AddElement
  <2> QED BY <1>8, <2>1, <2>2 DEF c
<1>9. CASE e \notin M
  <2>1. Marked(c, M) = Marked(log, M)
    BY <1>1, <1>3, <1>4, <1>5, <1>9 DEF Marked
  <2> QED BY <1>9, <2>1 DEF c
<1> QED BY <1>8, <1>9

(* A batch adds as many events of a kind as it holds.                       *)
LEMMA MarkedConcat ==
  ASSUME NEW Entry, NEW log \in Seq(Entry), NEW more \in Seq(Entry), NEW M
  PROVE  Cardinality(Marked(log \o more, M)) =
            Cardinality(Marked(log, M)) + Cardinality(Marked(more, M))
<1> DEFINE n == Len(log)
           m == Len(more)
           c == log \o more
           A == Marked(log, M)
           B == Marked(more, M)
           S == {j \in (n+1)..(n+m) : j - n \in B}
           f == [i \in B |-> n + i]
<1>1. n \in Nat /\ DOMAIN log = 1..n /\ m \in Nat /\ DOMAIN more = 1..m
  BY LenProperties
<1>2. c \in Seq(Entry) /\ Len(c) = n + m
  BY ConcatProperties
<1>3. DOMAIN c = 1..(n + m)
  BY <1>2, LenProperties
<1>4. \A i \in 1..(n + m) : c[i] = IF i <= n THEN log[i] ELSE more[i - n]
  BY ConcatProperties
<1>5. IsFiniteSet(A) /\ IsFiniteSet(B) /\ Cardinality(A) \in Nat /\ Cardinality(B) \in Nat
  BY MarkedFinite
<1> HIDE DEF n, m, c
<1>6. A \subseteq 1..n /\ B \subseteq 1..m
  BY <1>1 DEF Marked
<1>7. Marked(c, M) = A \cup S
  <2>1. ASSUME NEW i \in Marked(c, M) PROVE i \in A \cup S
    <3>1. i \in 1..(n + m) /\ c[i] \in M
      BY <1>3 DEF Marked
    <3>2. CASE i <= n
      <4>1. i \in 1..n /\ log[i] \in M
        BY <1>1, <1>4, <3>1, <3>2
      <4> QED BY <1>1, <4>1 DEF Marked
    <3>3. CASE ~ (i <= n)
      <4>1. more[i - n] \in M /\ i - n \in 1..m /\ i \in (n+1)..(n+m)
        BY <1>1, <1>4, <3>1, <3>3
      <4> QED BY <1>1, <4>1 DEF Marked
    <3> QED BY <3>2, <3>3
  <2>2. ASSUME NEW i \in A PROVE i \in Marked(c, M)
    <3>1. i \in 1..n /\ log[i] \in M
      BY <1>1 DEF Marked
    <3>2. i \in 1..(n + m) /\ c[i] = log[i]
      BY <1>1, <1>4, <3>1
    <3> QED BY <1>3, <3>1, <3>2 DEF Marked
  <2>3. ASSUME NEW i \in S PROVE i \in Marked(c, M)
    <3>1. i \in (n+1)..(n+m) /\ more[i - n] \in M
      BY DEF Marked
    <3>2. i \in 1..(n + m) /\ c[i] = more[i - n]
      BY <1>1, <1>4, <3>1
    <3> QED BY <1>3, <3>1, <3>2 DEF Marked
  <2> HIDE DEF A, S
  <2> QED BY <2>1, <2>2, <2>3
<1>8. A \cap S = {}
  <2> HIDE DEF A, B
  <2> QED BY <1>1, <1>6
<1>9. IsFiniteSet(S) /\ Cardinality(S) = Cardinality(B)
  <2> HIDE DEF A, B
  <2>1. f \in [B -> S]
    BY <1>1, <1>6
  <2>2. \A i, j \in B : f[i] = f[j] => i = j
    BY <1>1, <1>6
  <2>3. \A j \in S : \E i \in B : f[i] = j
    <3> SUFFICES ASSUME NEW j \in S PROVE \E i \in B : f[i] = j
      OBVIOUS
    <3>1. j - n \in B /\ n + (j - n) = j
      BY <1>1
    <3> QED BY <3>1
  <2>4. f \in Bijection(B, S)
    <3> HIDE DEF f, S
    <3>1. IsInjective(f)
      BY <2>1, <2>2 DEF IsInjective
    <3> QED BY <2>1, <2>3, <3>1 DEF Bijection, Injection, Surjection
  <2>5. ExistsBijection(B, S)
    <3> HIDE DEF f, S
    <3> QED BY <2>4 DEF ExistsBijection
  <2> HIDE DEF S
  <2> QED BY <1>5, <2>5, FS_Bijection
<1> HIDE DEF A, B, S
<1>10. Cardinality(A \cup S) = Cardinality(A) + Cardinality(S) - Cardinality({})
  BY <1>5, <1>8, <1>9, FS_Union
<1>11. Cardinality({}) = 0
  BY FS_EmptySet
<1> QED BY <1>5, <1>7, <1>9, <1>10, <1>11 DEF A, B, c

(* A batch logs one event per process of the queue it is about.             *)
LEMMA MarkedBatch ==
  ASSUME NEW s, NEW type, NEW q, NEW A, Holds(q, A), NEW M
  PROVE  Cardinality(Marked(EventsOf(s, type, q), M)) =
            Cardinality({p \in A : Event(s, type, p) \in M})
<1> DEFINE I == {i \in DOMAIN q : Event(s, type, q[i]) \in M}
           S == {p \in A : Event(s, type, p) \in M}
           f == [i \in I |-> q[i]]
<1>1. q \in Seq(Procs) /\ IsInjective(q) /\ ToSet(q) = A
  BY DEF Holds
<1>2. DOMAIN q = 1..Len(q) /\ Len(q) \in Nat
  BY <1>1, LenProperties
<1>3. Marked(EventsOf(s, type, q), M) = I
  BY DEF Marked, EventsOf
<1>4. IsFiniteSet(I)
  <2>1. IsFiniteSet(1..Len(q)) /\ I \in SUBSET (1..Len(q))
    BY <1>2, FS_Interval
  <2> HIDE DEF I
  <2> QED BY <2>1, FS_Subset
<1>5. f \in [I -> S]
  BY <1>1 DEF ToSet
<1>6. IsInjective(f)
  BY <1>1 DEF IsInjective
<1>7. \A p \in S : \E i \in I : f[i] = p
  BY <1>1 DEF ToSet
<1>8. ExistsBijection(I, S)
  <2> HIDE DEF f, S, I
  <2> QED BY <1>5, <1>6, <1>7 DEF ExistsBijection, Bijection, Injection, Surjection
<1> HIDE DEF I, S
<1>9. Cardinality(S) = Cardinality(I)
  BY <1>4, <1>8, FS_Bijection
<1> QED BY <1>3, <1>9 DEF S

----------------------------------------------------------------------------
Live == {"Ready", "Running", "Waiting"}
Switching == {"preempt", "quantum_expire"}
Dispatching == {"start", "resume"}
Releasing == {"preempt", "quantum_expire", "io_start", "complete"}

(* The events about a PID, and the processes of a PID, of certain kinds.    *)
Entries(types, pid) == {e \in EventRecord : e.type \in types /\ e.pid = pid}
Tally(s, types, pid) == Cardinality(Marked(s.events, Entries(types, pid)))
Occupants(s, states, pid) == {p \in Procs : PID[p] = pid /\ s.pcb[p].state \in states}
Occupied(s, states, pid) == Cardinality(Occupants(s, states, pid))

(* A process that has not arrived is as NewProcess made it.                 *)
Fresh(s) == \A p \in Procs : s.pcb[p].state = "New" => s.pcb[p] = InitialPCB(p)

(* No process is early.                                                     *)
Arrived(s) == \A p \in Procs : s.pcb[p].state # "New" => task[p].arrivalTime <= s.currentTime

(* The level map is that of the live processes.                             *)
LevelsRight(s) ==
    IF alg \in {"mlfq", "mlq"}
    THEN /\ DOMAIN s.levels = {p \in Procs : s.pcb[p].state \in Live}
         /\ alg = "mlq" => \A p \in DOMAIN s.levels : s.levels[p] = levelFor[p]
    ELSE s.levels = << >>

(* The context switches counted are those logged.                           *)
SwitchesRight(s) ==
    s.contextSwitches = Cardinality(Marked(s.events, {e \in EventRecord : e.type \in Switching}))

(* Events are dated in order and not in the future.                         *)
Dated(s) ==
    \A i \in DOMAIN s.events :
        /\ s.events[i].time <= s.currentTime
        /\ i > 1 => s.events[i-1].time <= s.events[i].time

(* The log accounts for the State of every process.                         *)
Ledger(s) ==
    \A pid \in Nat :
        /\ Tally(s, {"arrival"}, pid) = Occupied(s, State \ {"New"}, pid)
        /\ Tally(s, {"complete"}, pid) = Occupied(s, {"Terminated"}, pid)
        /\ Tally(s, {"io_start"}, pid) =
              Tally(s, {"io_complete"}, pid) + Occupied(s, {"Waiting"}, pid)
        /\ Tally(s, Dispatching, pid) = Tally(s, Releasing, pid) + Occupied(s, {"Running"}, pid)

Tracked(s) ==
    /\ Fresh(s)
    /\ Arrived(s)
    /\ LevelsRight(s)
    /\ SwitchesRight(s)
    /\ Dated(s)
    /\ Ledger(s)

(* Both counts are natural numbers.                                         *)
LEMMA CountsAreNat ==
  ASSUME NEW s \in Simulator, NEW types, NEW states, NEW pid
  PROVE  /\ Tally(s, types, pid) \in Nat
         /\ IsFiniteSet(Occupants(s, states, pid))
         /\ Occupied(s, states, pid) \in Nat
<1>1. s.events \in Seq(EventRecord)
  BY DEF Simulator
<1>2. Occupants(s, states, pid) \in SUBSET Procs
  BY DEF Occupants
<1>3. IsFiniteSet(Occupants(s, states, pid))
  BY <1>2, ProcsAssumption, FS_Subset
<1> QED BY <1>1, <1>3, MarkedFinite, FS_CardinalityType DEF Tally, Occupied

(* One event more.                                                          *)
LEMMA TallyAppend ==
  ASSUME Static, NEW s \in Simulator, NEW t, NEW type \in EventType, NEW p \in Procs,
         t.events = Append(s.events, Event(s, type, p)),
         NEW types, NEW pid
  PROVE  Tally(t, types, pid) =
            IF type \in types /\ PID[p] = pid THEN Tally(s, types, pid) + 1
            ELSE Tally(s, types, pid)
<1> DEFINE e == Event(s, type, p)
<1>1. e \in EventRecord /\ s.events \in Seq(EventRecord)
  BY EventTyped DEF Simulator
<1>2. e.type = type /\ e.pid = PID[p]
  BY DEF Event, PID
<1> HIDE DEF e
<1>3. e \in Entries(types, pid) <=> type \in types /\ PID[p] = pid
  BY <1>1, <1>2 DEF Entries
<1>4. t.events = Append(s.events, e)
  BY DEF e
<1> QED BY <1>1, <1>3, <1>4, MarkedAppend DEF Tally

(* One process in another State.                                            *)
LEMMA OccupiedMove ==
  ASSUME NEW s \in Simulator, NEW t \in Simulator, NEW p \in Procs,
         \A r \in Procs : r # p => t.pcb[r].state = s.pcb[r].state,
         NEW states, NEW pid
  PROVE  Occupied(t, states, pid) =
            IF PID[p] # pid \/ (s.pcb[p].state \in states <=> t.pcb[p].state \in states)
            THEN Occupied(s, states, pid)
            ELSE IF t.pcb[p].state \in states THEN Occupied(s, states, pid) + 1
            ELSE Occupied(s, states, pid) - 1
<1> DEFINE A == Occupants(s, states, pid)
           B == Occupants(t, states, pid)
<1>1. IsFiniteSet(A)
  BY CountsAreNat
<1>2. CASE PID[p] # pid \/ (s.pcb[p].state \in states <=> t.pcb[p].state \in states)
  <2>1. B = A
    BY <1>2 DEF Occupants
  <2> QED BY <1>2, <2>1 DEF Occupied
<1>3. CASE PID[p] = pid /\ s.pcb[p].state \notin states /\ t.pcb[p].state \in states
  <2>1. B = A \cup {p} /\ p \notin A
    BY <1>3 DEF Occupants
  <2> HIDE DEF A, B
  <2>2. Cardinality(B) = Cardinality(A) + 1
    BY <1>1, <2>1, FS_AddElement
  <2> QED BY <1>3, <2>2 DEF Occupied, A, B
<1>4. CASE PID[p] = pid /\ s.pcb[p].state \in states /\ t.pcb[p].state \notin states
  <2>1. B = A \ {p} /\ p \in A
    BY <1>4 DEF Occupants
  <2> HIDE DEF A, B
  <2>2. Cardinality(B) = Cardinality(A) - 1
    BY <1>1, <2>1, FS_RemoveElement
  <2> QED BY <1>4, <2>2 DEF Occupied, A, B
<1> QED BY <1>2, <1>3, <1>4

----------------------------------------------------------------------------
(* The moves of a single process, with the event each is logged as.         *)
IsMove(type, from, to) ==
    \/ type \in Dispatching /\ from = "Ready" /\ to = "Running"
    \/ type \in Switching /\ from = "Running" /\ to = "Ready"
    \/ type = "io_start" /\ from = "Running" /\ to = "Waiting"
    \/ type = "complete" /\ from = "Running" /\ to = "Terminated"

(* One process p moves and the move is logged.                              *)
LoggedMove(s, t, p, type) ==
    /\ p \in Procs
    /\ IsMove(type, s.pcb[p].state, t.pcb[p].state)
    /\ \A r \in Procs : r # p => t.pcb[r] = s.pcb[r]
    /\ t.events = Append(s.events, Event(s, type, p))
    /\ t.currentTime = s.currentTime

(* A logged move keeps the log in step with the States.                     *)
LEMMA LedgerMove ==
  ASSUME Static, NEW s \in Simulator, NEW t \in Simulator, NEW p, NEW type,
         LoggedMove(s, t, p, type), Ledger(s)
  PROVE  Ledger(t)
<1> SUFFICES ASSUME NEW pid \in Nat
             PROVE  /\ Tally(t, {"arrival"}, pid) = Occupied(t, State \ {"New"}, pid)
                    /\ Tally(t, {"complete"}, pid) = Occupied(t, {"Terminated"}, pid)
                    /\ Tally(t, {"io_start"}, pid) =
                          Tally(t, {"io_complete"}, pid) + Occupied(t, {"Waiting"}, pid)
                    /\ Tally(t, Dispatching, pid) =
                          Tally(t, Releasing, pid) + Occupied(t, {"Running"}, pid)
  BY DEF Ledger
<1>1. /\ Tally(s, {"arrival"}, pid) = Occupied(s, State \ {"New"}, pid)
      /\ Tally(s, {"complete"}, pid) = Occupied(s, {"Terminated"}, pid)
      /\ Tally(s, {"io_start"}, pid) =
            Tally(s, {"io_complete"}, pid) + Occupied(s, {"Waiting"}, pid)
      /\ Tally(s, Dispatching, pid) = Tally(s, Releasing, pid) + Occupied(s, {"Running"}, pid)
  BY DEF Ledger
<1>2. /\ p \in Procs /\ IsMove(type, s.pcb[p].state, t.pcb[p].state)
      /\ \A r \in Procs : r # p => t.pcb[r].state = s.pcb[r].state
      /\ t.events = Append(s.events, Event(s, type, p))
      /\ type \in EventType
  BY DEF LoggedMove, IsMove, EventType, Dispatching, Switching
<1>3. \A types : Tally(s, types, pid) \in Nat
  BY CountsAreNat
<1>4. \A states : Occupied(s, states, pid) \in Nat
  BY CountsAreNat
<1>5. \A types : Tally(t, types, pid) =
         IF type \in types /\ PID[p] = pid THEN Tally(s, types, pid) + 1
         ELSE Tally(s, types, pid)
  BY <1>2, TallyAppend
<1>6. \A states : Occupied(t, states, pid) =
         IF PID[p] # pid \/ (s.pcb[p].state \in states <=> t.pcb[p].state \in states)
         THEN Occupied(s, states, pid)
         ELSE IF t.pcb[p].state \in states THEN Occupied(s, states, pid) + 1
         ELSE Occupied(s, states, pid) - 1
  BY <1>2, OccupiedMove
<1>7. CASE PID[p] # pid
  <2>1. \A types : Tally(t, types, pid) = Tally(s, types, pid)
    BY <1>5, <1>7
  <2>2. \A states : Occupied(t, states, pid) = Occupied(s, states, pid)
    BY <1>6, <1>7
  <2> QED BY <1>1, <2>1, <2>2
<1>8. CASE PID[p] = pid
  <2>1. Tally(t, {"arrival"}, pid) = Tally(s, {"arrival"}, pid)
    BY <1>2, <1>5 DEF IsMove, Dispatching, Switching
  <2>2. Occupied(t, State \ {"New"}, pid) = Occupied(s, State \ {"New"}, pid)
    BY <1>2, <1>6 DEF IsMove, State
  <2>3. Tally(t, {"complete"}, pid) = Occupied(t, {"Terminated"}, pid)
    <3>1. CASE type = "complete"
      BY <1>1, <1>2, <1>5, <1>6, <1>8, <3>1 DEF IsMove, Dispatching, Switching
    <3>2. CASE type # "complete"
      BY <1>1, <1>2, <1>5, <1>6, <1>8, <3>2 DEF IsMove, Dispatching, Switching
    <3> QED BY <3>1, <3>2
  <2>4. Tally(t, {"io_complete"}, pid) = Tally(s, {"io_complete"}, pid)
    BY <1>2, <1>5 DEF IsMove, Dispatching, Switching
  <2>5. Tally(t, {"io_start"}, pid) =
           Tally(t, {"io_complete"}, pid) + Occupied(t, {"Waiting"}, pid)
    <3>1. CASE type = "io_start"
      <4>1. Tally(t, {"io_start"}, pid) = Tally(s, {"io_start"}, pid) + 1
        BY <1>5, <1>8, <3>1
      <4>2. Occupied(t, {"Waiting"}, pid) = Occupied(s, {"Waiting"}, pid) + 1
        BY <1>2, <1>6, <1>8, <3>1 DEF IsMove, Dispatching, Switching
      <4> QED BY <1>1, <1>3, <1>4, <2>4, <4>1, <4>2
    <3>2. CASE type # "io_start"
      <4>1. Tally(t, {"io_start"}, pid) = Tally(s, {"io_start"}, pid)
        BY <1>5, <3>2
      <4>2. Occupied(t, {"Waiting"}, pid) = Occupied(s, {"Waiting"}, pid)
        BY <1>2, <1>6, <3>2 DEF IsMove, Dispatching, Switching
      <4> QED BY <1>1, <2>4, <4>1, <4>2
    <3> QED BY <3>1, <3>2
  <2>6. Tally(t, Dispatching, pid) = Tally(t, Releasing, pid) + Occupied(t, {"Running"}, pid)
    <3>1. CASE type \in Dispatching
      <4>1. Tally(t, Dispatching, pid) = Tally(s, Dispatching, pid) + 1
        BY <1>5, <1>8, <3>1
      <4>2. Tally(t, Releasing, pid) = Tally(s, Releasing, pid)
        BY <1>5, <3>1 DEF Dispatching, Releasing
      <4>3. Occupied(t, {"Running"}, pid) = Occupied(s, {"Running"}, pid) + 1
        BY <1>2, <1>6, <1>8, <3>1 DEF IsMove, Dispatching, Switching
      <4> QED BY <1>1, <1>3, <1>4, <4>1, <4>2, <4>3
    <3>2. CASE type \notin Dispatching
      <4>1. Tally(t, Dispatching, pid) = Tally(s, Dispatching, pid)
        BY <1>5, <3>2
      <4>2. type \in Releasing /\ s.pcb[p].state = "Running" /\ t.pcb[p].state # "Running"
        BY <1>2, <3>2 DEF IsMove, Releasing, Switching
      <4>3. Tally(t, Releasing, pid) = Tally(s, Releasing, pid) + 1
        BY <1>5, <1>8, <4>2
      <4>4. Occupied(t, {"Running"}, pid) = Occupied(s, {"Running"}, pid) - 1
        BY <1>6, <1>8, <4>2
      <4> QED BY <1>1, <1>3, <1>4, <4>1, <4>3, <4>4
    <3> QED BY <3>1, <3>2
  <2> QED BY <1>1, <2>1, <2>2, <2>3, <2>5, <2>6
<1> QED BY <1>7, <1>8

(* Appending an event of the present keeps the log in order.                *)
LEMMA DatedAppend ==
  ASSUME Static, NEW s \in Simulator, NEW t, NEW p \in Procs, NEW type \in EventType,
         Dated(s), t.events = Append(s.events, Event(s, type, p)),
         t.currentTime = s.currentTime
  PROVE  Dated(t)
<1> DEFINE n == Len(s.events)
           e == Event(s, type, p)
<1>1. s.events \in Seq(EventRecord) /\ e \in EventRecord /\ e.time = s.currentTime
  BY EventTyped DEF Simulator, Event
<1>2. n \in Nat /\ DOMAIN s.events = 1..n
  BY <1>1, LenProperties
<1>3. /\ DOMAIN t.events = 1..(n + 1) /\ t.events[n + 1] = e
      /\ \A i \in 1..n : t.events[i] = s.events[i]
  <2>1. /\ t.events \in Seq(EventRecord) /\ Len(t.events) = n + 1 /\ t.events[n + 1] = e
        /\ \A i \in 1..n : t.events[i] = s.events[i]
    BY <1>1, AppendProperties
  <2> QED BY <2>1, LenProperties
<1>4. s.currentTime \in Nat
  BY DEF Simulator
<1>5. \A i \in 1..n :
        /\ s.events[i].time <= s.currentTime
        /\ i > 1 => s.events[i-1].time <= s.events[i].time
  BY <1>2 DEF Dated
<1> HIDE DEF n, e
<1>6. ASSUME NEW i \in 1..(n + 1)
      PROVE  /\ t.events[i].time <= t.currentTime
             /\ i > 1 => t.events[i-1].time <= t.events[i].time
  <2>1. CASE i \in 1..n
    <3>1. i > 1 => i - 1 \in 1..n
      BY <1>2, <2>1
    <3>2. t.events[i] = s.events[i] /\ (i > 1 => t.events[i-1] = s.events[i-1])
      BY <1>3, <2>1, <3>1
    <3>3. /\ s.events[i].time <= s.currentTime
          /\ i > 1 => s.events[i-1].time <= s.events[i].time
      BY <1>2, <1>5, <2>1
    <3> QED BY <3>2, <3>3
  <2>2. CASE i = n + 1
    <3>1. i > 1 => i - 1 \in 1..n
      BY <1>2, <2>2
    <3>2. t.events[i] = e /\ (i > 1 => t.events[i-1] = s.events[i-1])
      BY <1>3, <2>2, <3>1
    <3>3. i > 1 => s.events[i-1].time <= s.currentTime
      BY <1>2, <1>5, <3>1
    <3>4. t.events[i].time = s.currentTime
      BY <1>1, <3>2
    <3>5. s.currentTime <= s.currentTime
      BY <1>4
    <3> QED BY <3>2, <3>3, <3>4, <3>5
  <2> QED BY <1>2, <2>1, <2>2
<1> QED BY <1>3, <1>6 DEF Dated

(* A logged move keeps all but the level map.                               *)
LEMMA MoveTracked ==
  ASSUME Static, NEW s \in Simulator, NEW t \in Simulator, NEW p, NEW type,
         LoggedMove(s, t, p, type), Tracked(s), LevelsRight(t),
         t.contextSwitches = IF type \in Switching THEN s.contextSwitches + 1
                             ELSE s.contextSwitches
  PROVE  Tracked(t)
<1>1. /\ p \in Procs /\ s.pcb[p].state # "New" /\ t.pcb[p].state # "New"
      /\ \A r \in Procs : r # p => t.pcb[r] = s.pcb[r]
      /\ t.currentTime = s.currentTime
      /\ t.events = Append(s.events, Event(s, type, p))
      /\ type \in EventType
  BY DEF LoggedMove, IsMove, EventType, Dispatching, Switching
<1>2. Fresh(t) /\ Arrived(t)
  <2>1. Fresh(t)
    BY <1>1 DEF Tracked, Fresh
  <2>2. Arrived(t)
    BY <1>1 DEF Tracked, Arrived
  <2> QED BY <2>1, <2>2
<1>3. SwitchesRight(t)
  <2> DEFINE e == Event(s, type, p)
             M == {x \in EventRecord : x.type \in Switching}
  <2>1. e \in EventRecord /\ e.type = type /\ s.events \in Seq(EventRecord)
    BY <1>1, EventTyped DEF Event, Simulator
  <2>2. e \in M <=> type \in Switching
    BY <2>1
  <2>3. s.contextSwitches = Cardinality(Marked(s.events, M))
    BY DEF Tracked, SwitchesRight
  <2> HIDE DEF e, M
  <2>4. Cardinality(Marked(Append(s.events, e), M)) =
          IF e \in M THEN Cardinality(Marked(s.events, M)) + 1
          ELSE Cardinality(Marked(s.events, M))
    BY <2>1, MarkedAppend
  <2>5. t.contextSwitches = Cardinality(Marked(t.events, M))
    BY <1>1, <2>2, <2>3, <2>4 DEF e
  <2> QED BY <2>5 DEF SwitchesRight, M
<1>4. Dated(t)
  BY <1>1, DatedAppend DEF Tracked
<1>5. Ledger(t)
  BY LedgerMove DEF Tracked
<1> QED BY <1>2, <1>3, <1>4, <1>5 DEF Tracked

(* A step that moves no process and logs nothing.                           *)
LEMMA FrameTracked ==
  ASSUME Static, NEW s \in Simulator, NEW t \in Simulator, Tracked(s),
         t.events = s.events, t.contextSwitches = s.contextSwitches, t.levels = s.levels,
         t.currentTime >= s.currentTime,
         \A r \in Procs : t.pcb[r].state = s.pcb[r].state,
         \A r \in Procs : s.pcb[r].state = "New" => t.pcb[r] = s.pcb[r]
  PROVE  Tracked(t)
<1>1. Fresh(t)
  BY DEF Tracked, Fresh
<1>2. Arrived(t)
  <2>1. s.currentTime \in Nat /\ t.currentTime \in Nat
    BY DEF Simulator
  <2>2. \A p \in Procs : task[p].arrivalTime \in Nat
    BY DEF Static, Task
  <2> QED BY <2>1, <2>2 DEF Tracked, Arrived
<1>3. LevelsRight(t)
  BY DEF Tracked, LevelsRight
<1>4. SwitchesRight(t)
  BY DEF Tracked, SwitchesRight
<1>5. Dated(t)
  <2>1. s.currentTime \in Nat /\ t.currentTime \in Nat /\ s.events \in Seq(EventRecord)
    BY DEF Simulator
  <2>2. \A i \in DOMAIN s.events : s.events[i].time \in Nat
    <3>1. DOMAIN s.events = 1..Len(s.events)
      BY <2>1, LenProperties
    <3>2. \A i \in DOMAIN s.events : s.events[i] \in EventRecord
      BY <2>1, <3>1, ElementOfSeq
    <3> QED BY <3>2 DEF EventRecord
  <2>3. ASSUME NEW i \in DOMAIN t.events
        PROVE  /\ t.events[i].time <= t.currentTime
               /\ i > 1 => t.events[i-1].time <= t.events[i].time
    <3>1. /\ s.events[i].time <= s.currentTime
          /\ i > 1 => s.events[i-1].time <= s.events[i].time
      BY DEF Tracked, Dated
    <3>2. s.events[i].time <= t.currentTime
      BY <2>1, <2>2, <3>1
    <3> QED BY <3>1, <3>2
  <2> QED BY <2>3 DEF Dated
<1>6. Ledger(t)
  <2>1. \A types, pid : Tally(t, types, pid) = Tally(s, types, pid)
    BY DEF Tally
  <2>2. \A states, pid : Occupied(t, states, pid) = Occupied(s, states, pid)
    BY DEF Occupied, Occupants
  <2> QED BY <2>1, <2>2 DEF Tracked, Ledger
<1> QED BY <1>1, <1>2, <1>3, <1>4, <1>5, <1>6 DEF Tracked

----------------------------------------------------------------------------
(* The members of A with a PID.                                             *)
OfPID(A, pid) == {p \in A : PID[p] = pid}

(* The events of a batch are logged.                                        *)
LogsBatch(s, t, type, q) == t.events = s.events \o EventsOf(s, type, q)

(* A batch of events of one type about the processes of A.                  *)
LEMMA TallyBatch ==
  ASSUME Static, NEW s \in Simulator, NEW t, NEW type \in EventType,
         NEW A \in SUBSET Procs, NEW q, Holds(q, A),
         LogsBatch(s, t, type, q), NEW types, NEW pid
  PROVE  /\ type \in types =>
              Tally(t, types, pid) = Tally(s, types, pid) + Cardinality(OfPID(A, pid))
         /\ type \notin types => Tally(t, types, pid) = Tally(s, types, pid)
<1> DEFINE M == Entries(types, pid)
           batch == EventsOf(s, type, q)
<1>1. s.events \in Seq(EventRecord) /\ batch \in Seq(EventRecord)
  BY EventsOfTyped DEF Simulator, Holds
<1>2. \A p \in A :
        /\ Event(s, type, p) \in EventRecord
        /\ Event(s, type, p).type = type
        /\ Event(s, type, p).pid = PID[p]
  BY EventTyped DEF Event, PID
<1>3. {p \in A : Event(s, type, p) \in M} = IF type \in types THEN OfPID(A, pid) ELSE {}
  BY <1>2 DEF Entries, OfPID
<1>4. Cardinality(Marked(batch, M)) = Cardinality({p \in A : Event(s, type, p) \in M})
  BY MarkedBatch
<1>5. Tally(t, types, pid) = Tally(s, types, pid) + Cardinality(Marked(batch, M))
  <2> HIDE DEF M, batch
  <2>1. Cardinality(Marked(s.events \o batch, M)) =
          Cardinality(Marked(s.events, M)) + Cardinality(Marked(batch, M))
    BY <1>1, MarkedConcat
  <2> QED BY <2>1 DEF Tally, LogsBatch, M, batch
<1>6. Tally(s, types, pid) \in Nat
  BY CountsAreNat
<1>7. Cardinality({}) = 0
  BY FS_EmptySet
<1>8. CASE type \in types
  BY <1>3, <1>4, <1>5, <1>8
<1>9. CASE type \notin types
  <2>1. Tally(t, types, pid) = Tally(s, types, pid) + 0
    BY <1>3, <1>4, <1>5, <1>7, <1>9
  <2> QED BY <1>6, <1>9, <2>1
<1> QED BY <1>8, <1>9

(* The processes of A enter the states.                                     *)
LEMMA OccupiedGain ==
  ASSUME NEW s \in Simulator, NEW t \in Simulator, NEW A \in SUBSET Procs, NEW states, NEW pid,
         \A p \in Procs : t.pcb[p].state \in states <=> (s.pcb[p].state \in states \/ p \in A),
         \A p \in A : s.pcb[p].state \notin states
  PROVE  Occupied(t, states, pid) = Occupied(s, states, pid) + Cardinality(OfPID(A, pid))
<1> DEFINE S == Occupants(s, states, pid)
           B == OfPID(A, pid)
<1>1. Occupants(t, states, pid) = S \cup B /\ S \cap B = {}
  BY DEF Occupants, OfPID
<1>2. IsFiniteSet(S) /\ IsFiniteSet(B)
  <2>1. S \in SUBSET Procs /\ B \in SUBSET Procs
    BY DEF Occupants, OfPID
  <2> HIDE DEF S, B
  <2> QED BY <2>1, ProcsAssumption, FS_Subset
<1> HIDE DEF S, B
<1>3. Cardinality(S \cup B) = Cardinality(S) + Cardinality(B) - Cardinality({})
  BY <1>1, <1>2, FS_Union
<1>4. Cardinality({}) = 0 /\ Cardinality(S) \in Nat /\ Cardinality(B) \in Nat
  BY <1>2, FS_EmptySet, FS_CardinalityType
<1> QED BY <1>1, <1>3, <1>4 DEF Occupied, S, B

(* A batch of events of the present keeps the log in order.                 *)
LEMMA DatedBatch ==
  ASSUME Static, NEW s \in Simulator, NEW t, NEW type \in EventType, NEW q \in Seq(Procs),
         Dated(s), t.events = s.events \o EventsOf(s, type, q),
         t.currentTime = s.currentTime
  PROVE  Dated(t)
<1> DEFINE n == Len(s.events)
           batch == EventsOf(s, type, q)
           m == Len(batch)
<1>1. s.events \in Seq(EventRecord) /\ batch \in Seq(EventRecord) /\ s.currentTime \in Nat
  BY EventsOfTyped DEF Simulator
<1>2. n \in Nat /\ m \in Nat /\ DOMAIN s.events = 1..n /\ DOMAIN batch = 1..m
  BY <1>1, LenProperties
<1>3. /\ DOMAIN t.events = 1..(n + m)
      /\ \A i \in 1..(n + m) : t.events[i] = IF i <= n THEN s.events[i] ELSE batch[i - n]
  <2>1. t.events \in Seq(EventRecord) /\ Len(t.events) = n + m
    BY <1>1, ConcatProperties
  <2>2. \A i \in 1..(n + m) : t.events[i] = IF i <= n THEN s.events[i] ELSE batch[i - n]
    BY <1>1, ConcatProperties
  <2> QED BY <2>1, <2>2, LenProperties
<1>4. \A i \in 1..m : batch[i].time = s.currentTime
  BY <1>2 DEF EventsOf, Event
<1>5. \A i \in 1..n :
        /\ s.events[i].time <= s.currentTime
        /\ i > 1 => s.events[i-1].time <= s.events[i].time
  BY <1>2 DEF Dated
<1> HIDE DEF n, m, batch
<1>6. ASSUME NEW i \in 1..(n + m)
      PROVE  /\ t.events[i].time <= s.currentTime
             /\ i > n => t.events[i].time = s.currentTime
  <2>1. CASE i <= n
    <3>1. i \in 1..n /\ t.events[i] = s.events[i] /\ ~ (i > n)
      BY <1>2, <1>3, <2>1
    <3> QED BY <1>5, <3>1
  <2>2. CASE ~ (i <= n)
    <3>1. i - n \in 1..m /\ t.events[i] = batch[i - n]
      BY <1>2, <1>3, <2>2
    <3>2. t.events[i].time = s.currentTime
      BY <1>4, <3>1
    <3> QED BY <1>1, <3>2
  <2> QED BY <2>1, <2>2
<1>7. ASSUME NEW i \in 1..(n + m), i > 1
      PROVE  t.events[i-1].time <= t.events[i].time
  <2>1. i - 1 \in 1..(n + m)
    BY <1>2, <1>7
  <2>2. CASE i <= n
    <3>1. i \in 1..n /\ i - 1 <= n
      BY <1>2, <2>2
    <3>2. t.events[i] = s.events[i] /\ t.events[i-1] = s.events[i-1]
      BY <1>3, <2>1, <2>2, <3>1
    <3>3. s.events[i-1].time <= s.events[i].time
      BY <1>5, <1>7, <3>1
    <3> QED BY <3>2, <3>3
  <2>3. CASE i > n
    <3>1. t.events[i].time = s.currentTime
      BY <1>6, <2>3
    <3>2. t.events[i-1].time <= s.currentTime
      BY <1>6, <2>1
    <3> QED BY <3>1, <3>2
  <2>4. i <= n \/ i > n
    BY <1>2
  <2> QED BY <2>2, <2>3, <2>4
<1>8. \A i \in DOMAIN t.events : t.events[i].time <= t.currentTime
  BY <1>3, <1>6
<1> QED BY <1>3, <1>7, <1>8 DEF Dated

(* A batch that is neither a preemption nor an expiry counts no switch.     *)
LEMMA SwitchesBatch ==
  ASSUME Static, NEW s \in Simulator, NEW t, NEW type \in EventType, type \notin Switching,
         NEW A \in SUBSET Procs, NEW q, Holds(q, A),
         t.events = s.events \o EventsOf(s, type, q),
         t.contextSwitches = s.contextSwitches, SwitchesRight(s)
  PROVE  SwitchesRight(t)
<1> DEFINE M == {e \in EventRecord : e.type \in Switching}
           batch == EventsOf(s, type, q)
<1>1. s.events \in Seq(EventRecord) /\ batch \in Seq(EventRecord)
  BY EventsOfTyped DEF Simulator, Holds
<1>2. {p \in A : Event(s, type, p) \in M} = {}
  BY DEF Event
<1>3. Cardinality(Marked(batch, M)) = 0
  <2>1. Cardinality(Marked(batch, M)) = Cardinality({p \in A : Event(s, type, p) \in M})
    BY MarkedBatch
  <2> QED BY <1>2, <2>1, FS_EmptySet
<1>4. s.contextSwitches = Cardinality(Marked(s.events, M))
  BY DEF SwitchesRight
<1> HIDE DEF M, batch
<1>5. Cardinality(Marked(s.events \o batch, M)) = Cardinality(Marked(s.events, M)) + 0
  BY <1>1, <1>3, MarkedConcat
<1>6. Cardinality(Marked(s.events, M)) \in Nat
  BY <1>1, MarkedFinite
<1>7. t.contextSwitches = Cardinality(Marked(t.events, M))
  BY <1>4, <1>5, <1>6 DEF batch
<1> QED BY <1>7 DEF SwitchesRight, M

(* AddProcess of MLFQ and MLQ enters the processes of A in the level map.   *)
LEMMA LevelsGain ==
  ASSUME Static, NEW s \in Simulator, NEW t, NEW A \in SUBSET Procs,
         t.levels = LevelsAfterAdd(s, A), LevelsRight(s),
         \A p \in Procs : t.pcb[p].state \in Live <=> (s.pcb[p].state \in Live \/ p \in A)
  PROVE  LevelsRight(t)
<1>1. CASE alg = "mlfq"
  <2>1. DOMAIN t.levels = DOMAIN s.levels \cup A
    BY <1>1 DEF LevelsAfterAdd
  <2> QED BY <1>1, <2>1 DEF LevelsRight
<1>2. CASE alg = "mlq"
  <2>1. t.levels = [p \in DOMAIN s.levels \cup A |->
                      IF p \in A THEN levelFor[p] ELSE s.levels[p]]
    BY <1>2 DEF LevelsAfterAdd
  <2>2. DOMAIN s.levels = {p \in Procs : s.pcb[p].state \in Live}
    BY <1>2 DEF LevelsRight
  <2>3. \A p \in DOMAIN s.levels : s.levels[p] = levelFor[p]
    BY <1>2 DEF LevelsRight
  <2>4. DOMAIN t.levels = DOMAIN s.levels \cup A
    BY <2>1
  <2>5. \A p \in DOMAIN t.levels : t.levels[p] = levelFor[p]
    BY <2>1, <2>3
  <2>6. DOMAIN t.levels = {p \in Procs : t.pcb[p].state \in Live}
    BY <2>2, <2>4
  <2> QED BY <1>2, <2>5, <2>6 DEF LevelsRight
<1>3. CASE alg \notin {"mlfq", "mlq"}
  BY <1>3 DEF LevelsAfterAdd, LevelsRight
<1> QED BY <1>1, <1>2, <1>3

----------------------------------------------------------------------------
(* checkArrivals.                                                           *)
LEMMA ArrivalsTracked ==
  ASSUME Static, NEW s, Sound(s), Tracked(s)
  PROVE  Tracked(checkArrivals(s))
<1> DEFINE A == Arriving(s)
           q == Kept(s.processes, A)
<1>1. PICK t : t = checkArrivals(s)
  OBVIOUS
<1>2. s \in Simulator /\ t \in Simulator
  BY <1>1, ArrivalsSound DEF Sound
<1>3. A \in SUBSET Procs /\ A \subseteq ToSet(s.processes)
  BY ProcessSets DEF Arriving
<1>4. \A p \in A : s.pcb[p].state = "New" /\ task[p].arrivalTime <= s.currentTime
  BY DEF Arriving
<1>5. Holds(q, A)
  <2>1. Holds(s.processes, ToSet(s.processes))
    BY DEF Sound, Simulator, Holds
  <2>2. Holds(q, ToSet(s.processes) \cap A)
    BY <2>1, KeptHolds
  <2>3. ToSet(s.processes) \cap A = A
    BY <1>3
  <2> QED BY <2>2, <2>3
<1>6. /\ t.currentTime = s.currentTime
      /\ t.contextSwitches = s.contextSwitches
      /\ t.levels = LevelsAfterAdd(s, A)
      /\ t.events = s.events \o EventsOf(s, "arrival", q)
      /\ \A p \in Procs :
           /\ p \notin A => t.pcb[p] = s.pcb[p]
           /\ t.pcb[p].state = IF p \in A THEN "Ready" ELSE s.pcb[p].state
  <2>1. /\ SameClock(s, t)
        /\ t.contextSwitches = s.contextSwitches
        /\ t.levels = LevelsAfterAdd(s, Arriving(s))
        /\ t.events = s.events \o EventsOf(s, "arrival", Kept(s.processes, Arriving(s)))
    BY <1>1, ArrivalsDo
  <2>2. ASSUME NEW p \in Procs
        PROVE  /\ p \notin Arriving(s) => t.pcb[p] = s.pcb[p]
               /\ p \in Arriving(s) => t.pcb[p].state = "Ready"
    BY <1>1, ArrivalsDo
  <2> QED BY <2>1, <2>2 DEF SameClock
<1> HIDE DEF A, q
<1>7. Fresh(t)
  BY <1>6 DEF Tracked, Fresh
<1>8. Arrived(t)
  BY <1>4, <1>6 DEF Tracked, Arrived
<1>9. LevelsRight(t)
  <2>1. \A p \in Procs : t.pcb[p].state \in Live <=> (s.pcb[p].state \in Live \/ p \in A)
    BY <1>6 DEF Live
  <2> QED BY <1>2, <1>3, <1>6, <2>1, LevelsGain DEF Tracked
<1>10. "arrival" \in EventType /\ "arrival" \notin Switching
  BY DEF EventType, Switching
<1>11. SwitchesRight(t)
  BY <1>2, <1>3, <1>5, <1>6, <1>10, SwitchesBatch DEF Tracked
<1>12. Dated(t)
  BY <1>2, <1>5, <1>6, <1>10, DatedBatch DEF Tracked, Holds
<1>13. Ledger(t)
  <2> SUFFICES ASSUME NEW pid \in Nat
               PROVE  /\ Tally(t, {"arrival"}, pid) = Occupied(t, State \ {"New"}, pid)
                      /\ Tally(t, {"complete"}, pid) = Occupied(t, {"Terminated"}, pid)
                      /\ Tally(t, {"io_start"}, pid) =
                            Tally(t, {"io_complete"}, pid) + Occupied(t, {"Waiting"}, pid)
                      /\ Tally(t, Dispatching, pid) =
                            Tally(t, Releasing, pid) + Occupied(t, {"Running"}, pid)
    BY DEF Ledger
  <2>1. /\ Tally(s, {"arrival"}, pid) = Occupied(s, State \ {"New"}, pid)
        /\ Tally(s, {"complete"}, pid) = Occupied(s, {"Terminated"}, pid)
        /\ Tally(s, {"io_start"}, pid) =
              Tally(s, {"io_complete"}, pid) + Occupied(s, {"Waiting"}, pid)
        /\ Tally(s, Dispatching, pid) = Tally(s, Releasing, pid) + Occupied(s, {"Running"}, pid)
    BY DEF Tracked, Ledger
  <2>2. ASSUME NEW types
        PROVE  /\ "arrival" \in types =>
                    Tally(t, types, pid) = Tally(s, types, pid) + Cardinality(OfPID(A, pid))
               /\ "arrival" \notin types => Tally(t, types, pid) = Tally(s, types, pid)
    <3>1. PICK type : type = "arrival"
      OBVIOUS
    <3>2. type \in EventType /\ LogsBatch(s, t, type, q)
      BY <1>6, <1>10, <3>1 DEF LogsBatch
    <3>3. A \in SUBSET Procs
      BY <1>3
    <3>4. /\ type \in types =>
                Tally(t, types, pid) = Tally(s, types, pid) + Cardinality(OfPID(A, pid))
          /\ type \notin types => Tally(t, types, pid) = Tally(s, types, pid)
      BY <1>2, <1>5, <3>2, <3>3, TallyBatch
    <3> QED BY <3>1, <3>4
  <2>3. Occupied(t, State \ {"New"}, pid) =
           Occupied(s, State \ {"New"}, pid) + Cardinality(OfPID(A, pid))
    <3>1. \A p \in Procs : t.pcb[p].state \in State \ {"New"} <=>
             (s.pcb[p].state \in State \ {"New"} \/ p \in A)
      BY <1>6 DEF State
    <3>2. \A p \in A : s.pcb[p].state \notin State \ {"New"}
      BY <1>4
    <3> QED BY <1>2, <1>3, <3>1, <3>2, OccupiedGain
  <2>4. ASSUME NEW st, st # "New", st # "Ready"
        PROVE  Occupied(t, {st}, pid) = Occupied(s, {st}, pid)
    <3>1. \A p \in Procs : t.pcb[p].state = st <=> s.pcb[p].state = st
      BY <1>4, <1>6, <2>4
    <3> QED BY <3>1 DEF Occupied, Occupants
  <2>5. /\ Occupied(t, {"Terminated"}, pid) = Occupied(s, {"Terminated"}, pid)
        /\ Occupied(t, {"Waiting"}, pid) = Occupied(s, {"Waiting"}, pid)
        /\ Occupied(t, {"Running"}, pid) = Occupied(s, {"Running"}, pid)
    BY <2>4
  <2>6. Tally(t, {"arrival"}, pid) = Tally(s, {"arrival"}, pid) + Cardinality(OfPID(A, pid))
    BY <2>2
  <2>7. /\ Tally(t, {"complete"}, pid) = Tally(s, {"complete"}, pid)
        /\ Tally(t, {"io_start"}, pid) = Tally(s, {"io_start"}, pid)
        /\ Tally(t, {"io_complete"}, pid) = Tally(s, {"io_complete"}, pid)
        /\ Tally(t, Dispatching, pid) = Tally(s, Dispatching, pid)
        /\ Tally(t, Releasing, pid) = Tally(s, Releasing, pid)
    BY <2>2 DEF Dispatching, Releasing
  <2> QED BY <2>1, <2>3, <2>5, <2>6, <2>7
<1>14. Tracked(t)
  BY <1>7, <1>8, <1>9, <1>11, <1>12, <1>13 DEF Tracked
<1> QED BY <1>1, <1>14

(* tickIOQueue.                                                             *)
LEMMA TickIOTracked ==
  ASSUME Static, NEW s, Sound(s), Tracked(s)
  PROVE  Tracked(tickIOQueue(s))
<1> DEFINE A == Waking(s)
           q == Kept(s.ioQueue, A)
<1>1. PICK t : t = tickIOQueue(s)
  OBVIOUS
<1>2. s \in Simulator /\ t \in Simulator
  BY <1>1, TickIOSound DEF Sound
<1>3. A \in SUBSET Procs /\ A \subseteq In(s, "Waiting")
  BY ProcessSets
<1>4. \A p \in A : s.pcb[p].state = "Waiting"
  BY <1>3 DEF In
<1>5. Holds(q, A)
  <2>1. Holds(s.ioQueue, In(s, "Waiting"))
    BY DEF Sound
  <2>2. Holds(q, In(s, "Waiting") \cap A)
    BY <2>1, KeptHolds
  <2>3. In(s, "Waiting") \cap A = A
    BY <1>3
  <2> QED BY <2>2, <2>3
<1>6. /\ t.currentTime = s.currentTime
      /\ t.contextSwitches = s.contextSwitches
      /\ t.levels = LevelsAfterAdd(s, A)
      /\ t.events = s.events \o EventsOf(s, "io_complete", q)
      /\ \A p \in Procs :
           /\ s.pcb[p].state # "Waiting" => t.pcb[p] = s.pcb[p]
           /\ t.pcb[p].state = IF p \in A THEN "Ready" ELSE s.pcb[p].state
  <2>1. /\ SameClock(s, t)
        /\ t.contextSwitches = s.contextSwitches
        /\ t.levels = LevelsAfterAdd(s, Waking(s))
        /\ t.events = s.events \o EventsOf(s, "io_complete", Kept(s.ioQueue, Waking(s)))
    BY <1>1, TickIODoes
  <2>2. ASSUME NEW p \in Procs
        PROVE  /\ s.pcb[p].state # "Waiting" => t.pcb[p] = s.pcb[p]
               /\ t.pcb[p].state = IF p \in Waking(s) THEN "Ready" ELSE s.pcb[p].state
    BY <1>1, TickIODoes
  <2> QED BY <2>1, <2>2 DEF SameClock
<1> HIDE DEF A, q
<1>7. Fresh(t)
  BY <1>6 DEF Tracked, Fresh
<1>8. Arrived(t)
  BY <1>4, <1>6 DEF Tracked, Arrived
<1>9. LevelsRight(t)
  <2>1. \A p \in Procs : t.pcb[p].state \in Live <=> (s.pcb[p].state \in Live \/ p \in A)
    BY <1>4, <1>6 DEF Live
  <2> QED BY <1>2, <1>3, <1>6, <2>1, LevelsGain DEF Tracked
<1>10. "io_complete" \in EventType /\ "io_complete" \notin Switching
  BY DEF EventType, Switching
<1>11. SwitchesRight(t)
  BY <1>2, <1>3, <1>5, <1>6, <1>10, SwitchesBatch DEF Tracked
<1>12. Dated(t)
  BY <1>2, <1>5, <1>6, <1>10, DatedBatch DEF Tracked, Holds
<1>13. Ledger(t)
  <2> SUFFICES ASSUME NEW pid \in Nat
               PROVE  /\ Tally(t, {"arrival"}, pid) = Occupied(t, State \ {"New"}, pid)
                      /\ Tally(t, {"complete"}, pid) = Occupied(t, {"Terminated"}, pid)
                      /\ Tally(t, {"io_start"}, pid) =
                            Tally(t, {"io_complete"}, pid) + Occupied(t, {"Waiting"}, pid)
                      /\ Tally(t, Dispatching, pid) =
                            Tally(t, Releasing, pid) + Occupied(t, {"Running"}, pid)
    BY DEF Ledger
  <2>1. /\ Tally(s, {"arrival"}, pid) = Occupied(s, State \ {"New"}, pid)
        /\ Tally(s, {"complete"}, pid) = Occupied(s, {"Terminated"}, pid)
        /\ Tally(s, {"io_start"}, pid) =
              Tally(s, {"io_complete"}, pid) + Occupied(s, {"Waiting"}, pid)
        /\ Tally(s, Dispatching, pid) = Tally(s, Releasing, pid) + Occupied(s, {"Running"}, pid)
    BY DEF Tracked, Ledger
  <2>2. ASSUME NEW types
        PROVE  /\ "io_complete" \in types =>
                    Tally(t, types, pid) = Tally(s, types, pid) + Cardinality(OfPID(A, pid))
               /\ "io_complete" \notin types => Tally(t, types, pid) = Tally(s, types, pid)
    <3>1. PICK type : type = "io_complete"
      OBVIOUS
    <3>2. type \in EventType /\ LogsBatch(s, t, type, q)
      BY <1>6, <1>10, <3>1 DEF LogsBatch
    <3>3. A \in SUBSET Procs
      BY <1>3
    <3>4. /\ type \in types =>
                Tally(t, types, pid) = Tally(s, types, pid) + Cardinality(OfPID(A, pid))
          /\ type \notin types => Tally(t, types, pid) = Tally(s, types, pid)
      BY <1>2, <1>5, <3>2, <3>3, TallyBatch
    <3> QED BY <3>1, <3>4
  <2>3. Occupied(s, {"Waiting"}, pid) =
           Occupied(t, {"Waiting"}, pid) + Cardinality(OfPID(A, pid))
    <3>1. \A p \in Procs : s.pcb[p].state \in {"Waiting"} <=>
             (t.pcb[p].state \in {"Waiting"} \/ p \in A)
      BY <1>4, <1>6
    <3>2. \A p \in A : t.pcb[p].state \notin {"Waiting"}
      BY <1>3, <1>6
    <3> QED BY <1>2, <1>3, <3>1, <3>2, OccupiedGain
  <2>4. /\ Occupied(t, {"Terminated"}, pid) = Occupied(s, {"Terminated"}, pid)
        /\ Occupied(t, {"Running"}, pid) = Occupied(s, {"Running"}, pid)
        /\ Occupied(t, State \ {"New"}, pid) = Occupied(s, State \ {"New"}, pid)
    <3>1. \A p \in Procs : t.pcb[p].state = "Terminated" <=> s.pcb[p].state = "Terminated"
      BY <1>4, <1>6
    <3>2. \A p \in Procs : t.pcb[p].state = "Running" <=> s.pcb[p].state = "Running"
      BY <1>4, <1>6
    <3>3. \A p \in Procs : t.pcb[p].state \in State \ {"New"}
                            <=> s.pcb[p].state \in State \ {"New"}
      BY <1>4, <1>6 DEF State
    <3> QED BY <3>1, <3>2, <3>3 DEF Occupied, Occupants
  <2>5. Tally(t, {"io_complete"}, pid) =
           Tally(s, {"io_complete"}, pid) + Cardinality(OfPID(A, pid))
    BY <2>2
  <2>6. /\ Tally(t, {"complete"}, pid) = Tally(s, {"complete"}, pid)
        /\ Tally(t, {"arrival"}, pid) = Tally(s, {"arrival"}, pid)
        /\ Tally(t, {"io_start"}, pid) = Tally(s, {"io_start"}, pid)
        /\ Tally(t, Dispatching, pid) = Tally(s, Dispatching, pid)
        /\ Tally(t, Releasing, pid) = Tally(s, Releasing, pid)
    BY <2>2 DEF Dispatching, Releasing
  <2>7. /\ Tally(s, {"io_complete"}, pid) \in Nat
        /\ Occupied(t, {"Waiting"}, pid) \in Nat
        /\ Cardinality(OfPID(A, pid)) \in Nat
    <3>1. OfPID(A, pid) \in SUBSET Procs
      BY <1>3 DEF OfPID
    <3>2. IsFiniteSet(OfPID(A, pid))
      BY <3>1, ProcsAssumption, FS_Subset
    <3> QED BY <1>2, <3>2, CountsAreNat, FS_CardinalityType
  <2>8. Tally(t, {"io_start"}, pid) =
           Tally(t, {"io_complete"}, pid) + Occupied(t, {"Waiting"}, pid)
    BY <2>1, <2>3, <2>5, <2>6, <2>7
  <2> QED BY <2>1, <2>4, <2>6, <2>8
<1>14. Tracked(t)
  BY <1>7, <1>8, <1>9, <1>11, <1>12, <1>13 DEF Tracked
<1> QED BY <1>1, <1>14

(* A move between live States leaves the level map right.                   *)
LEMMA LevelsFrame ==
  ASSUME NEW s, NEW t, t.levels = s.levels, LevelsRight(s),
         \A p \in Procs : t.pcb[p].state \in Live <=> s.pcb[p].state \in Live
  PROVE  LevelsRight(t)
BY DEF LevelsRight

(* scheduleNextProcess.                                                     *)
LEMMA ScheduleTracked ==
  ASSUME Static, NEW s, Sound(s), Tracked(s), s.currentProcess = None, NEW draw \in Nat
  PROVE  Tracked(scheduleNextProcess(s, draw))
<1>1. PICK t : t = scheduleNextProcess(s, draw)
  OBVIOUS
<1>2. s \in Simulator /\ t \in Simulator
  BY <1>1, ScheduleSound DEF Sound
<1>3. CASE s.readyQueue = << >>
  <2>1. t = s
    BY <1>1, <1>3, ScheduleDoes
  <2> QED BY <1>1, <2>1
<1>4. CASE s.readyQueue # << >>
  <2>1. PICK p : p = t.currentProcess
    OBVIOUS
  <2>2. /\ p \in Procs /\ s.pcb[p].state = "Ready" /\ Relabelled(s, t, p, "Running")
        /\ SameClock(s, t) /\ t.contextSwitches = s.contextSwitches /\ t.levels = s.levels
    BY <1>1, <1>4, <2>1, ScheduleDoes
  <2>3. PICK type \in {"start", "resume"} : t.events = Append(s.events, Event(s, type, p))
    BY <1>1, <1>4, <2>1, ScheduleDoes
  <2>4. LoggedMove(s, t, p, type)
    <3>1. t.pcb[p].state = "Running" /\ \A r \in Procs : r # p => t.pcb[r] = s.pcb[r]
      BY <2>2 DEF Relabelled
    <3>2. IsMove(type, s.pcb[p].state, t.pcb[p].state)
      BY <2>2, <2>3, <3>1 DEF IsMove, Dispatching
    <3> QED BY <2>2, <2>3, <3>1, <3>2 DEF LoggedMove, SameClock
  <2>5. LevelsRight(t)
    <3>1. \A r \in Procs : t.pcb[r].state \in Live <=> s.pcb[r].state \in Live
      BY <2>2 DEF Relabelled, Live
    <3> QED BY <2>2, <3>1, LevelsFrame DEF Tracked
  <2>6. type \notin Switching
    BY <2>3 DEF Switching
  <2>7. Tracked(t)
    BY <1>2, <2>2, <2>4, <2>5, <2>6, MoveTracked
  <2> QED BY <1>1, <2>7
<1> QED BY <1>3, <1>4

(* preemptCurrentProcess.                                                   *)
LEMMA PreemptTracked ==
  ASSUME Static, NEW s, Sound(s), Tracked(s), s.currentProcess # None
  PROVE  Tracked(preemptCurrentProcess(s))
<1>1. PICK t : t = preemptCurrentProcess(s)
  OBVIOUS
<1>2. PICK p : p = s.currentProcess
  OBVIOUS
<1>3. s \in Simulator /\ t \in Simulator
  BY <1>1, PreemptSound DEF Sound
<1>4. p \in Procs /\ s.pcb[p].state = "Running"
  BY <1>2, CurrentFacts
<1>5. /\ SameClock(s, t) /\ t.contextSwitches = s.contextSwitches + 1
      /\ t.levels = s.levels /\ t.events = Append(s.events, Event(s, "preempt", p))
      /\ Relabelled(s, t, p, "Ready")
  BY <1>1, <1>2, PreemptDoes
<1>6. LoggedMove(s, t, p, "preempt")
  <2>1. t.pcb[p].state = "Ready" /\ \A r \in Procs : r # p => t.pcb[r] = s.pcb[r]
    BY <1>4, <1>5 DEF Relabelled
  <2>2. IsMove("preempt", s.pcb[p].state, t.pcb[p].state)
    BY <1>4, <2>1 DEF IsMove, Switching
  <2> QED BY <1>4, <1>5, <2>1, <2>2 DEF LoggedMove, SameClock
<1>7. LevelsRight(t)
  <2>1. \A r \in Procs : t.pcb[r].state \in Live <=> s.pcb[r].state \in Live
    BY <1>4, <1>5 DEF Relabelled, Live
  <2> QED BY <1>5, <2>1, LevelsFrame DEF Tracked
<1>8. "preempt" \in Switching
  BY DEF Switching
<1>9. Tracked(t)
  BY <1>3, <1>5, <1>6, <1>7, <1>8, MoveTracked
<1> QED BY <1>1, <1>9

(* requeueExpired.                                                          *)
LEMMA RequeueExpiredTracked ==
  ASSUME Static, NEW s, Sound(s), Tracked(s), s.currentProcess # None
  PROVE  Tracked(requeueExpired(s, s.currentProcess))
<1>1. PICK t : t = requeueExpired(s, s.currentProcess)
  OBVIOUS
<1>2. PICK p : p = s.currentProcess
  OBVIOUS
<1>3. s \in Simulator /\ t \in Simulator
  BY <1>1, RequeueExpiredSound DEF Sound
<1>4. p \in Procs /\ s.pcb[p].state = "Running"
  BY <1>2, CurrentFacts
<1>5. /\ SameClock(s, t) /\ t.contextSwitches = s.contextSwitches + 1
      /\ t.levels = LevelsAfterExpiry(s, p)
      /\ t.events = Append(s.events, Event(s, "quantum_expire", p))
      /\ Relabelled(s, t, p, "Ready")
  BY <1>1, <1>2, RequeueExpiredDoes
<1>6. LoggedMove(s, t, p, "quantum_expire")
  <2>1. t.pcb[p].state = "Ready" /\ \A r \in Procs : r # p => t.pcb[r] = s.pcb[r]
    BY <1>4, <1>5 DEF Relabelled
  <2>2. IsMove("quantum_expire", s.pcb[p].state, t.pcb[p].state)
    BY <1>4, <2>1 DEF IsMove, Switching
  <2> QED BY <1>4, <1>5, <2>1, <2>2 DEF LoggedMove, SameClock
<1>7. LevelsRight(t)
  <2>1. \A r \in Procs : t.pcb[r].state \in Live <=> s.pcb[r].state \in Live
    BY <1>4, <1>5 DEF Relabelled, Live
  <2>2. CASE t.levels = s.levels
    BY <2>1, <2>2, LevelsFrame DEF Tracked
  <2>3. CASE t.levels # s.levels
    <3>1. alg = "mlfq" /\ DOMAIN t.levels = DOMAIN s.levels \cup {p}
      BY <1>5, <2>3 DEF LevelsAfterExpiry
    <3>2. DOMAIN s.levels = {r \in Procs : s.pcb[r].state \in Live}
      BY <3>1 DEF Tracked, LevelsRight
    <3>3. DOMAIN t.levels = {r \in Procs : t.pcb[r].state \in Live}
      BY <1>4, <2>1, <3>1, <3>2 DEF Live
    <3> QED BY <3>1, <3>3 DEF LevelsRight
  <2> QED BY <2>2, <2>3
<1>8. "quantum_expire" \in Switching
  BY DEF Switching
<1>9. Tracked(t)
  BY <1>3, <1>5, <1>6, <1>7, <1>8, MoveTracked
<1> QED BY <1>1, <1>9

(* executeProcess.                                                          *)
LEMMA ExecuteTracked ==
  ASSUME Static, NEW s, Sound(s), Tracked(s), s.currentProcess # None
  PROVE  Tracked(executeProcess(s))
<1>1. PICK t : t = executeProcess(s)
  OBVIOUS
<1>2. PICK p : p = s.currentProcess
  OBVIOUS
<1>3. s \in Simulator /\ t \in Simulator
  BY <1>1, ExecuteSound DEF Sound
<1>4. p \in Procs /\ s.pcb[p].state = "Running"
  BY <1>2, CurrentFacts
<1>5. /\ SameQueues(s, t) /\ t.currentTime = s.currentTime
      /\ \A r \in Procs : r # p => t.pcb[r] = s.pcb[r]
      /\ t.pcb[p].state \in {"Running", "Terminated"}
  BY <1>1, <1>2, ExecuteDoes
<1>6. CASE t.pcb[p].state = "Terminated"
  <2>1. /\ t.levels = LevelsAfterRemove(s, p)
        /\ t.events = Append(s.events, Event(s, "complete", p))
    BY <1>1, <1>2, <1>6, ExecuteDoes
  <2>2. LoggedMove(s, t, p, "complete")
    <3>1. IsMove("complete", s.pcb[p].state, t.pcb[p].state)
      BY <1>4, <1>6 DEF IsMove
    <3> QED BY <1>4, <1>5, <2>1, <3>1 DEF LoggedMove
  <2>3. LevelsRight(t)
    <3>1. t.levels = [r \in DOMAIN s.levels \ {p} |-> s.levels[r]]
      BY <2>1 DEF LevelsAfterRemove
    <3>2. CASE alg \in {"mlfq", "mlq"}
      <4>1. DOMAIN s.levels = {r \in Procs : s.pcb[r].state \in Live}
        BY <3>2 DEF Tracked, LevelsRight
      <4>2. DOMAIN t.levels = {r \in Procs : t.pcb[r].state \in Live}
        BY <1>5, <1>6, <3>1, <4>1 DEF Live
      <4>3. alg = "mlq" => \A r \in DOMAIN t.levels : t.levels[r] = levelFor[r]
        BY <3>1 DEF Tracked, LevelsRight
      <4> QED BY <3>2, <4>2, <4>3 DEF LevelsRight
    <3>3. CASE alg \notin {"mlfq", "mlq"}
      <4>1. s.levels = << >>
        BY <3>3 DEF Tracked, LevelsRight
      <4>2. DOMAIN s.levels \ {p} = {}
        BY <4>1
      <4>3. t.levels = [r \in {} |-> s.levels[r]]
        BY <3>1, <4>2
      <4>4. t.levels = << >>
        BY <4>3
      <4> QED BY <3>3, <4>4 DEF LevelsRight
    <3> QED BY <3>2, <3>3
  <2>4. "complete" \notin Switching
    BY DEF Switching
  <2>5. Tracked(t)
    BY <1>3, <1>5, <2>2, <2>3, <2>4, MoveTracked DEF SameQueues
  <2> QED BY <1>1, <2>5
<1>7. CASE t.pcb[p].state = "Running"
  <2>1. t.levels = s.levels /\ t.events = s.events
    BY <1>1, <1>2, <1>7, ExecuteDoes
  <2>2. /\ \A r \in Procs : t.pcb[r].state = s.pcb[r].state
        /\ \A r \in Procs : s.pcb[r].state = "New" => t.pcb[r] = s.pcb[r]
    BY <1>4, <1>5, <1>7
  <2>3. t.currentTime >= s.currentTime
    BY <1>3, <1>5 DEF Simulator
  <2>4. Tracked(t)
    BY <1>3, <1>5, <2>1, <2>2, <2>3, FrameTracked DEF SameQueues
  <2> QED BY <1>1, <2>4
<1> QED BY <1>5, <1>6, <1>7

(* checkIOBurst.                                                            *)
LEMMA CheckIOTracked ==
  ASSUME Static, NEW s, Sound(s), Tracked(s)
  PROVE  Tracked(checkIOBurst(s))
<1>1. PICK t : t = checkIOBurst(s)
  OBVIOUS
<1>2. PICK p : p = s.currentProcess
  OBVIOUS
<1>3. s \in Simulator /\ t \in Simulator
  BY <1>1, CheckIOSound DEF Sound
<1>4. CASE t = s
  BY <1>1, <1>4
<1>5. CASE t # s
  <2>1. /\ p \in Procs /\ SameClock(s, t) /\ t.contextSwitches = s.contextSwitches
        /\ t.levels = s.levels /\ t.events = Append(s.events, Event(s, "io_start", p))
        /\ \A r \in Procs : r # p => t.pcb[r] = s.pcb[r]
        /\ t.pcb[p].state = "Waiting"
    BY <1>1, <1>2, <1>5, CheckIODoes
  <2>2. s.pcb[p].state = "Running"
    BY <1>2, <2>1, CurrentFacts, EngineAssumption
  <2>3. LoggedMove(s, t, p, "io_start")
    <3>1. IsMove("io_start", s.pcb[p].state, t.pcb[p].state)
      BY <2>1, <2>2 DEF IsMove
    <3> QED BY <2>1, <3>1 DEF LoggedMove, SameClock
  <2>4. LevelsRight(t)
    <3>1. \A r \in Procs : t.pcb[r].state \in Live <=> s.pcb[r].state \in Live
      BY <2>1, <2>2 DEF Live
    <3> QED BY <2>1, <3>1, LevelsFrame DEF Tracked
  <2>5. "io_start" \notin Switching
    BY DEF Switching
  <2>6. Tracked(t)
    BY <1>3, <2>1, <2>3, <2>4, <2>5, MoveTracked
  <2> QED BY <1>1, <2>6
<1> QED BY <1>4, <1>5

(* chargeTick, idle and advanceClock move no process and log nothing.       *)
LEMMA ChargeTracked ==
  ASSUME Static, NEW s, Sound(s), Tracked(s)
  PROVE  Tracked(chargeTick(s))
<1>1. PICK t : t = chargeTick(s)
  OBVIOUS
<1>2. s \in Simulator /\ t \in Simulator
  BY <1>1, ChargeSound DEF Sound
<1>3. /\ t.contextSwitches = s.contextSwitches /\ t.currentTime = s.currentTime
      /\ t.levels = s.levels /\ t.events = s.events /\ t.pcb = s.pcb
  BY <1>1, ChargeDoes DEF SameQueues, SameClock
<1>4. t.currentTime >= s.currentTime
  BY <1>2, <1>3 DEF Simulator
<1>5. Tracked(t)
  BY <1>2, <1>3, <1>4, FrameTracked
<1> QED BY <1>1, <1>5

LEMMA IdleTracked ==
  ASSUME Static, NEW s, Sound(s), Tracked(s)
  PROVE  Tracked(idle(s))
<1>1. PICK t : t = idle(s)
  OBVIOUS
<1>2. s \in Simulator /\ t \in Simulator
  BY <1>1, IdleSound DEF Sound
<1>3. /\ t.contextSwitches = s.contextSwitches /\ t.currentTime = s.currentTime
      /\ t.levels = s.levels /\ t.events = s.events /\ t.pcb = s.pcb
  BY <1>1, IdleDoes DEF SameQueues
<1>4. t.currentTime >= s.currentTime
  BY <1>2, <1>3 DEF Simulator
<1>5. Tracked(t)
  BY <1>2, <1>3, <1>4, FrameTracked
<1> QED BY <1>1, <1>5

LEMMA AdvanceTracked ==
  ASSUME Static, NEW s, Sound(s), Tracked(s)
  PROVE  Tracked(advanceClock(s))
<1>1. PICK t : t = advanceClock(s)
  OBVIOUS
<1>2. s \in Simulator /\ t \in Simulator
  BY <1>1, AdvanceSound DEF Sound
<1>3. /\ t.contextSwitches = s.contextSwitches /\ t.currentTime = s.currentTime + 1
      /\ t.levels = s.levels /\ t.events = s.events
      /\ \A p \in Procs :
           /\ s.pcb[p].state # "Ready" => t.pcb[p] = s.pcb[p]
           /\ t.pcb[p].state = s.pcb[p].state
  BY <1>1, AdvanceDoes DEF SameQueues
<1>4. t.currentTime >= s.currentTime
  BY <1>2, <1>3 DEF Simulator
<1>5. \A p \in Procs : s.pcb[p].state = "New" => t.pcb[p] = s.pcb[p]
  BY <1>3
<1>6. Tracked(t)
  BY <1>2, <1>3, <1>4, <1>5, FrameTracked
<1> QED BY <1>1, <1>6

(* The current process of a sound struct is not complete.                   *)
LEMMA CurrentIncomplete ==
  ASSUME Static, NEW s, Sound(s), s.currentProcess # None
  PROVE  ~ IsComplete(s, s.currentProcess)
<1>1. s.pcb[s.currentProcess] \in PCB
  BY CurrentFacts, SoundFacts
<1> QED BY <1>1, CurrentFacts DEF IsComplete, PCB

(* The choice at the top of executeTimeUnit.                                *)
LEMMA DispatchTracked ==
  ASSUME Static, NEW s, Sound(s), Tracked(s), NEW draw \in Nat
  PROVE  Tracked(dispatch(s, draw))
<1>1. CASE s.currentProcess = None
  BY <1>1, ScheduleTracked DEF dispatch
<1>2. CASE s.currentProcess # None
  <2>1. ~ IsComplete(s, s.currentProcess)
    BY <1>2, CurrentIncomplete
  <2>2. PICK u : u = preemptCurrentProcess(s)
    OBVIOUS
  <2>3. Sound(u) /\ Tracked(u) /\ u.currentProcess = None
    BY <1>2, <2>2, PreemptSound, PreemptTracked
  <2>4. Tracked(scheduleNextProcess(u, draw))
    BY <2>3, ScheduleTracked
  <2> QED BY <1>2, <2>1, <2>2, <2>4 DEF dispatch
<1> QED BY <1>1, <1>2

(* The end of the quantum.                                                  *)
LEMMA ExpireQuantumTracked ==
  ASSUME Static, NEW s, Sound(s), Tracked(s), NEW draw \in Nat
  PROVE  Tracked(expireQuantum(s, draw))
<1>1. CASE s.currentProcess # None /\ quantumExpired(s, s.currentProcess)
  <2>1. PICK u : u = requeueExpired(s, s.currentProcess)
    OBVIOUS
  <2>2. Sound(u) /\ Tracked(u) /\ u.currentProcess = None
    BY <1>1, <2>1, RequeueExpiredSound, RequeueExpiredTracked
  <2>3. Tracked(scheduleNextProcess(u, draw))
    BY <2>2, ScheduleTracked
  <2> QED BY <1>1, <2>1, <2>3 DEF expireQuantum
<1>2. CASE ~ (s.currentProcess # None /\ quantumExpired(s, s.currentProcess))
  BY <1>2 DEF expireQuantum
<1> QED BY <1>1, <1>2

(* One tick.                                                                *)
LEMMA TickTracked ==
  ASSUME Static, NEW s, Sound(s), Tracked(s), NEW draw \in Nat, NEW redraw \in Nat
  PROVE  Tracked(executeTimeUnit(s, draw, redraw))
<1> DEFINE d == dispatch(tickIOQueue(checkArrivals(s)), draw)
           w == IF d.currentProcess = None THEN idle(d)
                ELSE expireQuantum(checkIOBurst(chargeTick(executeProcess(d))), redraw)
<1>1. Sound(d) /\ Tracked(d)
  <2>1. Sound(checkArrivals(s)) /\ Tracked(checkArrivals(s))
    BY ArrivalsSound, ArrivalsTracked
  <2>2. Sound(tickIOQueue(checkArrivals(s))) /\ Tracked(tickIOQueue(checkArrivals(s)))
    BY <2>1, TickIOSound, TickIOTracked
  <2> QED BY <2>2, DispatchSound, DispatchTracked
<1> HIDE DEF d
<1>2. Sound(w) /\ Tracked(w)
  <2>1. CASE d.currentProcess = None
    BY <1>1, <2>1, IdleSound, IdleTracked
  <2>2. CASE d.currentProcess # None
    <3>1. Sound(executeProcess(d)) /\ Tracked(executeProcess(d))
      BY <1>1, <2>2, ExecuteSound, ExecuteTracked
    <3>2. Sound(chargeTick(executeProcess(d))) /\ Tracked(chargeTick(executeProcess(d)))
      BY <3>1, ChargeSound, ChargeTracked
    <3>3. /\ Sound(checkIOBurst(chargeTick(executeProcess(d))))
          /\ Tracked(checkIOBurst(chargeTick(executeProcess(d))))
      BY <3>2, CheckIOSound, CheckIOTracked
    <3> QED BY <2>2, <3>3, ExpireQuantumSound, ExpireQuantumTracked
  <2> QED BY <2>1, <2>2
<1>3. Tracked(advanceClock(w))
  <2> HIDE DEF w
  <2> QED BY <1>2, AdvanceTracked
<1> QED BY <1>3 DEF executeTimeUnit, d

----------------------------------------------------------------------------
(* A struct in which nothing has happened is tracked.                       *)
LEMMA FreshTracked ==
  ASSUME Static, NEW t \in Simulator, t.levels = << >>, t.events = << >>,
         t.contextSwitches = 0, \A p \in Procs : t.pcb[p] = InitialPCB(p)
  PROVE  Tracked(t)
<1>1. \A p \in Procs : t.pcb[p].state = "New"
  BY InitialFacts
<1>2. Fresh(t) /\ Arrived(t)
  BY <1>1 DEF Fresh, Arrived
<1>3. LevelsRight(t)
  <2>1. DOMAIN t.levels = {} /\ {p \in Procs : t.pcb[p].state \in Live} = {}
    BY <1>1 DEF Live
  <2> QED BY <2>1 DEF LevelsRight
<1>4. \A M : Marked(t.events, M) = {}
  BY DEF Marked
<1>5. SwitchesRight(t)
  BY <1>4, FS_EmptySet DEF SwitchesRight
<1>6. Dated(t)
  BY DEF Dated
<1>7. Ledger(t)
  <2>1. \A types, pid : Tally(t, types, pid) = 0
    BY <1>4, FS_EmptySet DEF Tally
  <2>2. \A states, pid : "New" \notin states => Occupants(t, states, pid) = {}
    BY <1>1 DEF Occupants
  <2>3. \A states, pid : "New" \notin states => Occupied(t, states, pid) = 0
    BY <2>2, FS_EmptySet DEF Occupied
  <2>4. /\ "New" \notin State \ {"New"} /\ "New" \notin {"Terminated"}
        /\ "New" \notin {"Waiting"} /\ "New" \notin {"Running"}
    OBVIOUS
  <2>5. ASSUME NEW pid \in Nat
        PROVE  /\ Occupied(t, State \ {"New"}, pid) = 0
               /\ Occupied(t, {"Terminated"}, pid) = 0
               /\ Occupied(t, {"Waiting"}, pid) = 0
               /\ Occupied(t, {"Running"}, pid) = 0
    BY <2>3, <2>4
  <2>6. ASSUME NEW pid \in Nat
        PROVE  /\ Tally(t, {"arrival"}, pid) = 0 /\ Tally(t, {"complete"}, pid) = 0
               /\ Tally(t, {"io_start"}, pid) = 0 /\ Tally(t, {"io_complete"}, pid) = 0
               /\ Tally(t, Dispatching, pid) = 0 /\ Tally(t, Releasing, pid) = 0
    BY <2>1
  <2>7. 0 = 0 + 0
    OBVIOUS
  <2> QED BY <2>5, <2>6, <2>7 DEF Ledger
<1> QED BY <1>2, <1>3, <1>5, <1>6, <1>7 DEF Tracked

(* NewSimulator.                                                            *)
LEMMA InitTracked ==
  ASSUME Static
  PROVE  Tracked(NewSimulator)
<1>1. PICK t : t = NewSimulator
  OBVIOUS
<1>2. t \in Simulator
  BY <1>1, InitSound DEF Sound
<1>3. /\ t.levels = << >> /\ t.events = << >> /\ t.contextSwitches = 0
      /\ t.pcb = [p \in Procs |-> InitialPCB(p)]
  BY <1>1 DEF NewSimulator
<1>4. \A p \in Procs : t.pcb[p] = InitialPCB(p)
  BY <1>3
<1>5. Tracked(t)
  BY <1>2, <1>3, <1>4, FreshTracked
<1> QED BY <1>1, <1>5

(* Two structs with the same fields are the same.                           *)
LEMMA SimulatorsEqual ==
  ASSUME NEW s \in Simulator, NEW t \in Simulator,
         t.processes = s.processes, t.readyQueue = s.readyQueue, t.ioQueue = s.ioQueue,
         t.currentProcess = s.currentProcess, t.currentTime = s.currentTime,
         t.ganttChart = s.ganttChart, t.events = s.events,
         t.contextSwitches = s.contextSwitches, t.totalIdleTime = s.totalIdleTime,
         t.timeQuantumUsed = s.timeQuantumUsed, t.levels = s.levels, t.pcb = s.pcb
  PROVE  t = s
<1>1. s = [processes |-> s.processes, readyQueue |-> s.readyQueue, ioQueue |-> s.ioQueue,
             currentProcess |-> s.currentProcess, currentTime |-> s.currentTime, ganttChart |-> s.ganttChart,
             events |-> s.events, contextSwitches |-> s.contextSwitches, totalIdleTime |-> s.totalIdleTime,
             timeQuantumUsed |-> s.timeQuantumUsed, levels |-> s.levels, pcb |-> s.pcb]
  BY DEF Simulator
<1>2. t = [processes |-> t.processes, readyQueue |-> t.readyQueue, ioQueue |-> t.ioQueue,
             currentProcess |-> t.currentProcess, currentTime |-> t.currentTime, ganttChart |-> t.ganttChart,
             events |-> t.events, contextSwitches |-> t.contextSwitches, totalIdleTime |-> t.totalIdleTime,
             timeQuantumUsed |-> t.timeQuantumUsed, levels |-> t.levels, pcb |-> t.pcb]
  BY DEF Simulator
<1> QED BY <1>1, <1>2

(* Reset gives every process its initial fields: those it does not touch,   *)
(* of processes that were never added, still have them.                     *)
LEMMA ResetDoes ==
  ASSUME Static, Sound(sim), Tracked(sim), Reset
  PROVE  /\ sim'.processes = sim.processes
         /\ sim'.levels = << >> /\ sim'.events = << >> /\ sim'.contextSwitches = 0
         /\ sim'.currentTime = 0 /\ sim'.currentProcess = None
         /\ \A p \in Procs : sim'.pcb[p] = InitialPCB(p)
         /\ sim' = [NewSimulator EXCEPT !.processes = sim.processes]
<1> DEFINE pcb == [p \in Procs |-> IF p \in ToSet(sim.processes)
                                   THEN InitialPCB(p) ELSE sim.pcb[p]]
           fresh == [p \in Procs |-> InitialPCB(p)]
           t == [sim EXCEPT
                  !.currentTime = 0, !.currentProcess = None, !.readyQueue = << >>,
                  !.ioQueue = << >>, !.ganttChart = << >>, !.events = << >>,
                  !.contextSwitches = 0, !.totalIdleTime = 0, !.timeQuantumUsed = 0,
                  !.levels = << >>, !.pcb = pcb]
<1>1. sim \in Simulator
  BY DEF Sound
<1>2. sim' = t
  BY DEF Reset
<1>3. pcb = fresh
  <2>1. ASSUME NEW p \in Procs, p \notin ToSet(sim.processes) PROVE sim.pcb[p] = InitialPCB(p)
    BY <2>1 DEF Sound, Tracked, Fresh
  <2> QED BY <2>1
<1>4. \A p \in Procs : fresh[p] = InitialPCB(p)
  OBVIOUS
<1> HIDE DEF pcb, fresh
<1>5. /\ sim'.processes = sim.processes /\ sim'.readyQueue = << >> /\ sim'.ioQueue = << >>
      /\ sim'.currentProcess = None /\ sim'.currentTime = 0 /\ sim'.ganttChart = << >>
      /\ sim'.events = << >> /\ sim'.contextSwitches = 0 /\ sim'.totalIdleTime = 0
      /\ sim'.timeQuantumUsed = 0 /\ sim'.levels = << >> /\ sim'.pcb = pcb
  BY <1>1, <1>2 DEF Simulator
<1> DEFINE u == [NewSimulator EXCEPT !.processes = sim.processes]
<1>6. /\ u.processes = sim.processes /\ u.readyQueue = << >> /\ u.ioQueue = << >>
      /\ u.currentProcess = None /\ u.currentTime = 0 /\ u.ganttChart = << >>
      /\ u.events = << >> /\ u.contextSwitches = 0 /\ u.totalIdleTime = 0
      /\ u.timeQuantumUsed = 0 /\ u.levels = << >> /\ u.pcb = fresh
  BY DEF NewSimulator, fresh
<1>7. u \in Simulator /\ sim' \in Simulator
  <2>1. NewSimulator \in Simulator
    BY InitSound DEF Sound
  <2>2. sim.processes \in Seq(Procs)
    BY <1>1 DEF Simulator
  <2>3. u \in Simulator
    BY <2>1, <2>2 DEF Simulator
  <2> QED BY <2>3, ResetSound DEF Sound
<1>8. sim' = u
  <2> HIDE DEF u
  <2> QED BY <1>3, <1>5, <1>6, <1>7, SimulatorsEqual
<1> QED BY <1>3, <1>4, <1>5, <1>8

(* AddProcess touches nothing but the list of processes.                    *)
LEMMA AddDoes ==
  ASSUME Static, Sound(sim), NEW p \in Procs, AddProcess(p)
  PROVE  /\ sim'.readyQueue = sim.readyQueue /\ sim'.ioQueue = sim.ioQueue
         /\ sim'.currentProcess = sim.currentProcess
         /\ sim'.currentTime = sim.currentTime
         /\ sim'.ganttChart = sim.ganttChart /\ sim'.events = sim.events
         /\ sim'.contextSwitches = sim.contextSwitches
         /\ sim'.totalIdleTime = sim.totalIdleTime
         /\ sim'.timeQuantumUsed = sim.timeQuantumUsed
         /\ sim'.levels = sim.levels /\ sim'.pcb = sim.pcb
<1>1. PICK q \in SortedByArrival(ToSet(sim.processes) \cup {p}) :
          sim' = [sim EXCEPT !.processes = q]
  BY DEF AddProcess
<1>2. sim \in Simulator
  BY DEF Sound
<1> QED BY <1>1, <1>2 DEF Simulator

LEMMA AddTracked ==
  ASSUME Static, Sound(sim), Tracked(sim), NEW p \in Procs, AddProcess(p)
  PROVE  Tracked(sim')
<1>1. PICK t : t = sim'
  OBVIOUS
<1>2. sim \in Simulator /\ t \in Simulator
  BY <1>1, AddSound DEF Sound
<1>3. /\ t.currentTime = sim.currentTime /\ t.events = sim.events
      /\ t.contextSwitches = sim.contextSwitches
      /\ t.levels = sim.levels /\ t.pcb = sim.pcb
  BY <1>1, AddDoes
<1>4. t.currentTime >= sim.currentTime
  BY <1>2, <1>3 DEF Simulator
<1>5. Tracked(t)
  BY <1>2, <1>3, <1>4, FrameTracked
<1> QED BY <1>1, <1>5

LEMMA ResetTracked ==
  ASSUME Static, Sound(sim), Tracked(sim), Reset
  PROVE  Tracked(sim')
<1>1. PICK t : t = sim'
  OBVIOUS
<1>2. t \in Simulator
  BY <1>1, ResetSound DEF Sound
<1>3. /\ t.levels = << >> /\ t.events = << >> /\ t.contextSwitches = 0
      /\ \A p \in Procs : t.pcb[p] = InitialPCB(p)
  BY <1>1, ResetDoes
<1>4. Tracked(t)
  BY <1>2, <1>3, FreshTracked
<1> QED BY <1>1, <1>4

----------------------------------------------------------------------------
(* Between ticks the current process has some of its quantum left.          *)
QuantumLeft(s) ==
    s.currentProcess # None /\ QuantumFor(s, s.currentProcess) > 0 =>
        s.timeQuantumUsed < QuantumFor(s, s.currentProcess)

(* A quantum is a number of ticks; 0 says that there is none.               *)
LEMMA QuantumIsNat ==
  ASSUME Static, NEW s \in Simulator, NEW p \in Procs
  PROVE  QuantumFor(s, p) \in Nat
<1>1. CASE alg = "mlfq"
  <2>1. Level(s)[p] \in Nat
    BY KeysAreNat DEF Static
  <2>2. /\ FeedbackQuanta \in Seq(Nat \ {0}) /\ Len(FeedbackQuanta) \in Nat
        /\ Len(FeedbackQuanta) > 0
    BY QuantumAssumption, LenProperties
  <2>3. \A i \in 1..Len(FeedbackQuanta) : FeedbackQuanta[i] \in Nat
    BY <2>2, ElementOfSeq
  <2>4. CASE Level(s)[p] >= Len(FeedbackQuanta)
    BY <1>1, <2>2, <2>3, <2>4 DEF QuantumFor
  <2>5. CASE ~ (Level(s)[p] >= Len(FeedbackQuanta))
    <3>1. Level(s)[p] + 1 \in 1..Len(FeedbackQuanta)
      BY <2>1, <2>2, <2>5
    <3>2. QuantumFor(s, p) = FeedbackQuanta[Level(s)[p] + 1]
      BY <1>1, <2>5 DEF QuantumFor
    <3> QED BY <2>3, <3>1, <3>2
  <2> QED BY <2>4, <2>5
<1>2. CASE alg # "mlfq"
  BY <1>2, QuantumAssumption DEF QuantumFor
<1> QED BY <1>1, <1>2

(* expireQuantum leaves a process that has not used up its quantum: the one *)
(* it found, or one that was just dispatched.                               *)
LEMMA ExpireQuantumLeaves ==
  ASSUME Static, NEW s, Sound(s), NEW draw \in Nat
  PROVE  QuantumLeft(expireQuantum(s, draw))
<1>1. s \in Simulator
  BY DEF Sound
<1>2. CASE s.currentProcess # None /\ quantumExpired(s, s.currentProcess)
  <2>1. PICK u : u = requeueExpired(s, s.currentProcess)
    OBVIOUS
  <2>2. Sound(u) /\ u.currentProcess = None
    BY <1>2, <2>1, RequeueExpiredSound
  <2>3. PICK t : t = scheduleNextProcess(u, draw)
    OBVIOUS
  <2>4. t \in Simulator
    BY <2>2, <2>3, ScheduleSound DEF Sound
  <2>5. QuantumLeft(t)
    <3>1. CASE u.readyQueue = << >>
      <4>1. t = u
        BY <2>2, <2>3, <3>1, ScheduleDoes
      <4> QED BY <2>2, <4>1 DEF QuantumLeft
    <3>2. CASE u.readyQueue # << >>
      <4>1. t.timeQuantumUsed = 0 /\ t.currentProcess \in Procs
        BY <2>2, <2>3, <3>2, ScheduleDoes
      <4>2. QuantumFor(t, t.currentProcess) \in Nat
        BY <2>4, <4>1, QuantumIsNat
      <4> QED BY <4>1, <4>2 DEF QuantumLeft
    <3> QED BY <3>1, <3>2
  <2> QED BY <1>2, <2>1, <2>3, <2>5 DEF expireQuantum
<1>3. CASE ~ (s.currentProcess # None /\ quantumExpired(s, s.currentProcess))
  <2>1. expireQuantum(s, draw) = s
    BY <1>3 DEF expireQuantum
  <2>2. QuantumLeft(s)
    <3> SUFFICES ASSUME s.currentProcess # None, QuantumFor(s, s.currentProcess) > 0
                 PROVE  s.timeQuantumUsed < QuantumFor(s, s.currentProcess)
      BY DEF QuantumLeft
    <3>1. s.currentProcess \in Procs
      BY CurrentFacts
    <3>2. QuantumFor(s, s.currentProcess) \in Nat /\ s.timeQuantumUsed \in Nat
      BY <1>1, <3>1, QuantumIsNat DEF Simulator
    <3>3. ~ (s.timeQuantumUsed >= QuantumFor(s, s.currentProcess))
      BY <1>3, CurrentIncomplete DEF quantumExpired
    <3> QED BY <3>2, <3>3
  <2> QED BY <2>1, <2>2
<1> QED BY <1>2, <1>3

(* A step that touches neither the current process nor the levels.          *)
LEMMA QuantumFrame ==
  ASSUME NEW s, NEW t, QuantumLeft(s), t.currentProcess = s.currentProcess,
         t.levels = s.levels, t.timeQuantumUsed = s.timeQuantumUsed
  PROVE  QuantumLeft(t)
<1>1. Level(t) = Level(s)
  BY DEF Level
<1>2. \A p : QuantumFor(t, p) = QuantumFor(s, p)
  BY <1>1 DEF QuantumFor
<1> QED BY <1>2 DEF QuantumLeft

(* The stages of a tick: the struct d once the CPU has been given to a      *)
(* process or to none, and the struct w at the end of the tick's work.      *)
Stages(s, t, draw, redraw, i, d, w) ==
    /\ i = tickIOQueue(checkArrivals(s))
    /\ d = dispatch(i, draw)
    /\ w = IF d.currentProcess = None THEN idle(d)
           ELSE expireQuantum(checkIOBurst(chargeTick(executeProcess(d))), redraw)
    /\ t = advanceClock(w)
    /\ Sound(i) /\ Sound(d) /\ Sound(w)

LEMMA TickStages ==
  ASSUME Static, NEW s, Sound(s), NEW draw \in Nat, NEW redraw \in Nat,
         NEW t, t = executeTimeUnit(s, draw, redraw)
  PROVE  \E i, d, w : Stages(s, t, draw, redraw, i, d, w)
<1>1. PICK i : i = tickIOQueue(checkArrivals(s))
  OBVIOUS
<1>2. PICK d : d = dispatch(i, draw)
  OBVIOUS
<1>3. PICK w : w = IF d.currentProcess = None THEN idle(d)
                   ELSE expireQuantum(checkIOBurst(chargeTick(executeProcess(d))), redraw)
  OBVIOUS
<1>4. Sound(i)
  BY <1>1, ArrivalsSound, TickIOSound
<1>5. Sound(d)
  BY <1>2, <1>4, DispatchSound
<1>6. Sound(w)
  <2>1. CASE d.currentProcess = None
    BY <1>3, <1>5, <2>1, IdleSound
  <2>2. CASE d.currentProcess # None
    <3>1. Sound(executeProcess(d))
      BY <1>5, <2>2, ExecuteSound
    <3>2. Sound(checkIOBurst(chargeTick(executeProcess(d))))
      BY <3>1, ChargeSound, CheckIOSound
    <3> QED BY <1>3, <2>2, <3>2, ExpireQuantumSound
  <2> QED BY <2>1, <2>2
<1>7. t = advanceClock(w)
  BY <1>1, <1>2, <1>3 DEF executeTimeUnit
<1> QED BY <1>1, <1>2, <1>3, <1>4, <1>5, <1>6, <1>7 DEF Stages

(* The algorithms that never preempt and have no quantum.                   *)
NonPreemptive == {"fcfs", "sjf", "priority_np"}

(* tickIOQueue as its effect on one process.                                *)
LEMMA WakingDoes ==
  ASSUME Static, NEW s, Sound(s), NEW t, t = tickIOQueue(s), NEW p \in Procs
  PROVE  /\ s.pcb[p].state # "Waiting" => t.pcb[p] = s.pcb[p]
         /\ t.pcb[p].remainingTime = s.pcb[p].remainingTime
         /\ s.pcb[p].state = "Waiting" =>
              \/ t.pcb[p].state = "Ready" /\ s.pcb[p].ioRemaining = 1
              \/ /\ t.pcb[p].state = "Waiting"
                 /\ t.pcb[p].ioRemaining = s.pcb[p].ioRemaining - 1
<1>1. /\ s.pcb[p].state # "Waiting" => t.pcb[p] = s.pcb[p]
      /\ t.pcb[p].state = IF p \in Waking(s) THEN "Ready" ELSE s.pcb[p].state
  BY TickIODoes
<1>2. t.pcb[p].remainingTime = s.pcb[p].remainingTime
  BY TickIODoes
<1>3. s.pcb[p].state = "Waiting" =>
        IF p \in Waking(s) THEN s.pcb[p].ioRemaining = 1
        ELSE t.pcb[p].ioRemaining = s.pcb[p].ioRemaining - 1
  BY TickIODoes
<1> QED BY <1>1, <1>2, <1>3

(* What the first two methods do: arrivals and finished I/O become Ready,   *)
(* the other I/O bursts have one tick less to go.                           *)
SameTime(s, t) == t.currentTime = s.currentTime /\ t.processes = s.processes
LEMMA ReadyingDoes ==
  ASSUME Static, NEW s, Sound(s), NEW t, t = tickIOQueue(checkArrivals(s))
  PROVE  /\ SameTime(s, t)
         /\ t.currentProcess = s.currentProcess
         /\ \A p \in Procs :
              /\ t.pcb[p].remainingTime = s.pcb[p].remainingTime
              /\ p \in Arriving(s) => t.pcb[p].state = "Ready"
              /\ p \notin Arriving(s) /\ s.pcb[p].state # "Waiting" => t.pcb[p] = s.pcb[p]
              /\ s.pcb[p].state = "Waiting" =>
                   \/ t.pcb[p].state = "Ready" /\ s.pcb[p].ioRemaining = 1
                   \/ /\ t.pcb[p].state = "Waiting"
                      /\ t.pcb[p].ioRemaining = s.pcb[p].ioRemaining - 1
<1>1. PICK a : a = checkArrivals(s)
  OBVIOUS
<1>2. Sound(a) /\ t = tickIOQueue(a)
  BY <1>1, ArrivalsSound
<1>3. SameClock(s, a) /\ a.currentProcess = s.currentProcess
  BY <1>1, ArrivalsDo
<1>3a. ASSUME NEW p \in Procs
       PROVE  /\ p \notin Arriving(s) => a.pcb[p] = s.pcb[p]
              /\ p \in Arriving(s) => a.pcb[p].state = "Ready"
              /\ a.pcb[p].remainingTime = s.pcb[p].remainingTime
  <2>1. /\ p \notin Arriving(s) => a.pcb[p] = s.pcb[p]
        /\ p \in Arriving(s) => a.pcb[p].state = "Ready"
    BY <1>1, ArrivalsDo
  <2>2. a.pcb[p].remainingTime = s.pcb[p].remainingTime
    BY <1>1, ArrivalsDo
  <2> QED BY <2>1, <2>2
<1>4. /\ SameClock(a, t) /\ t.currentProcess = a.currentProcess
  BY <1>2, TickIODoes
<1>5. ASSUME NEW p \in Procs
      PROVE  /\ a.pcb[p].state # "Waiting" => t.pcb[p] = a.pcb[p]
             /\ t.pcb[p].remainingTime = a.pcb[p].remainingTime
             /\ a.pcb[p].state = "Waiting" =>
                  \/ t.pcb[p].state = "Ready" /\ a.pcb[p].ioRemaining = 1
                  \/ /\ t.pcb[p].state = "Waiting"
                     /\ t.pcb[p].ioRemaining = a.pcb[p].ioRemaining - 1
  BY <1>2, WakingDoes
<1>6. \A p \in Arriving(s) : s.pcb[p].state = "New"
  BY DEF Arriving
<1>7. ASSUME NEW p \in Procs
      PROVE  /\ t.pcb[p].remainingTime = s.pcb[p].remainingTime
             /\ p \in Arriving(s) => t.pcb[p].state = "Ready"
             /\ p \notin Arriving(s) /\ s.pcb[p].state # "Waiting" => t.pcb[p] = s.pcb[p]
             /\ s.pcb[p].state = "Waiting" =>
                  \/ t.pcb[p].state = "Ready" /\ s.pcb[p].ioRemaining = 1
                  \/ /\ t.pcb[p].state = "Waiting"
                     /\ t.pcb[p].ioRemaining = s.pcb[p].ioRemaining - 1
  <2>1. CASE p \in Arriving(s)
    BY <1>3a, <1>5, <1>6, <2>1
  <2>2. CASE p \notin Arriving(s)
    BY <1>3a, <1>5, <2>2
  <2> QED BY <2>1, <2>2
<1>8. SameTime(s, t) /\ t.currentProcess = s.currentProcess
  BY <1>3, <1>4 DEF SameTime, SameClock
<1> QED BY <1>7, <1>8

(* dispatch gives the CPU to a process unless there is none to give it to,  *)
(* and takes it away only when Preempt says so.                             *)
LEMMA DispatchDoes ==
  ASSUME Static, NEW s, Sound(s), NEW draw \in Nat, NEW t, t = dispatch(s, draw)
  PROVE  /\ SameTime(s, t)
         /\ \A p \in Procs :
              /\ t.pcb[p].remainingTime = s.pcb[p].remainingTime
              /\ t.pcb[p].ioRemaining = s.pcb[p].ioRemaining
              /\ t.pcb[p].state = "Waiting" <=> s.pcb[p].state = "Waiting"
              /\ s.pcb[p].state \in {"Ready", "Running"} <=> t.pcb[p].state \in {"Ready", "Running"}
         /\ t.currentProcess = None => s.currentProcess = None /\ s.readyQueue = << >>
         /\ s.currentProcess # None /\ ~ Preempt(s) => t = s
<1>1. CASE s.currentProcess = None
  <2>1. t = scheduleNextProcess(s, draw)
    BY <1>1 DEF dispatch
  <2>2. SameTime(s, t)
    BY <1>1, <2>1, ScheduleDoes DEF SameTime, SameClock
  <2>3. CASE s.readyQueue = << >>
    <3>1. t = s
      BY <1>1, <2>1, <2>3, ScheduleDoes
    <3> QED BY <1>1, <2>2, <2>3, <3>1
  <2>4. CASE s.readyQueue # << >>
    <3>1. PICK p : p = t.currentProcess
      OBVIOUS
    <3>2. p \in Procs /\ s.pcb[p].state = "Ready" /\ Relabelled(s, t, p, "Running")
      BY <1>1, <2>1, <2>4, <3>1, ScheduleDoes
    <3>3. p # None
      BY <3>2, EngineAssumption
    <3> QED BY <1>1, <2>2, <3>1, <3>2, <3>3 DEF Relabelled
  <2> QED BY <2>3, <2>4
<1>2. CASE s.currentProcess # None /\ ~ Preempt(s)
  <2>1. t = s
    BY <1>2, CurrentIncomplete DEF dispatch
  <2> QED BY <1>2, <2>1 DEF SameTime
<1>3. CASE s.currentProcess # None /\ Preempt(s)
  <2>1. PICK c : c = s.currentProcess
    OBVIOUS
  <2>2. c \in Procs /\ s.pcb[c].state = "Running"
    BY <1>3, <2>1, CurrentFacts
  <2>3. PICK u : u = preemptCurrentProcess(s)
    OBVIOUS
  <2>4. t = scheduleNextProcess(u, draw)
    BY <1>3, <2>3, CurrentIncomplete DEF dispatch
  <2>5. Sound(u) /\ u.currentProcess = None
    BY <1>3, <2>3, PreemptSound
  <2>6. /\ SameClock(s, u) /\ u.readyQueue = Append(s.readyQueue, c)
        /\ Relabelled(s, u, c, "Ready")
    BY <1>3, <2>1, <2>3, PreemptDoes
  <2>7. u.readyQueue # << >>
    <3>1. s.readyQueue \in Seq(Procs)
      BY DEF Sound, Simulator
    <3>2. Len(Append(s.readyQueue, c)) = Len(s.readyQueue) + 1 /\ Len(s.readyQueue) \in Nat
      BY <2>2, <3>1, AppendProperties, LenProperties
    <3>3. Len(Append(s.readyQueue, c)) # 0
      BY <3>2
    <3> QED BY <2>6, <3>3
  <2>8. PICK p : p = t.currentProcess
    OBVIOUS
  <2>9. /\ p \in Procs /\ u.pcb[p].state = "Ready" /\ Relabelled(u, t, p, "Running")
        /\ SameClock(u, t)
    BY <2>4, <2>5, <2>7, <2>8, ScheduleDoes
  <2>10. p # None
    BY <2>9, EngineAssumption
  <2>11. SameTime(s, t)
    BY <2>6, <2>9 DEF SameTime, SameClock
  <2> QED BY <1>3, <2>2, <2>6, <2>8, <2>9, <2>10, <2>11 DEF Relabelled
<1> QED BY <1>1, <1>2, <1>3

(* The rest of a busy tick: the current process has one unit less to run    *)
(* and may start an I/O burst; no other process is served or blocked.       *)
LEMMA ServeDoes ==
  ASSUME Static, NEW s, Sound(s), s.currentProcess # None, NEW draw \in Nat,
         NEW c, c = s.currentProcess,
         NEW t, t = expireQuantum(checkIOBurst(chargeTick(executeProcess(s))), draw)
  PROVE  /\ SameTime(s, t)
         /\ \A r \in Procs :
              /\ t.pcb[r].remainingTime = IF r = c THEN s.pcb[r].remainingTime - 1
                                          ELSE s.pcb[r].remainingTime
              /\ r # c => t.pcb[r].ioRemaining = s.pcb[r].ioRemaining
              /\ r # c => (t.pcb[r].state = "Waiting" <=> s.pcb[r].state = "Waiting")
              /\ r # c /\ t.pcb[r].state = "Ready" => s.pcb[r].state = "Ready"
         /\ t.pcb[c].state = "Waiting" =>
              \E k \in DOMAIN task[c].ioBursts :
                 t.pcb[c].ioRemaining = task[c].ioBursts[k].duration
         /\ alg \in NonPreemptive =>
              t.pcb[c].state \in {"Terminated", "Waiting"} \/ t.currentProcess = c
<1>1. PICK e : e = executeProcess(s)
  OBVIOUS
<1>2. PICK g : g = chargeTick(e)
  OBVIOUS
<1>3. PICK h : h = checkIOBurst(g)
  OBVIOUS
<1>4. t = expireQuantum(h, draw)
  BY <1>1, <1>2, <1>3
<1>5. Sound(e) /\ Sound(g) /\ Sound(h)
  BY <1>1, <1>2, <1>3, ExecuteSound, ChargeSound, CheckIOSound
<1>6. c \in Procs /\ s.pcb[c].ioRemaining = 0 /\ s.pcb[c].state = "Running"
  BY CurrentFacts
<1>7. /\ SameTime(s, g)
      /\ \A r \in Procs : r # c => g.pcb[r] = s.pcb[r]
      /\ g.pcb[c].remainingTime = s.pcb[c].remainingTime - 1
      /\ g.pcb[c].state \in {"Running", "Terminated"}
      /\ g.pcb[c].state = "Running" => g.currentProcess = c
      /\ g.pcb[c].state = "Terminated" => g.currentProcess = None
  <2>1. /\ SameQueues(s, e) /\ e.currentTime = s.currentTime
        /\ \A r \in Procs : r # c => e.pcb[r] = s.pcb[r]
        /\ e.pcb[c].remainingTime = s.pcb[c].remainingTime - 1
        /\ e.pcb[c].state \in {"Running", "Terminated"}
        /\ e.pcb[c].state = "Terminated" => e.currentProcess = None
        /\ e.pcb[c].state = "Running" => e.currentProcess = c
    BY <1>1, ExecuteDoes
  <2>2. /\ SameQueues(e, g) /\ SameClock(e, g)
        /\ g.currentProcess = e.currentProcess /\ g.pcb = e.pcb
    BY <1>2, <1>5, ChargeDoes
  <2> QED BY <2>1, <2>2 DEF SameTime, SameQueues, SameClock
<1>8. /\ SameTime(g, h)
      /\ \A r \in Procs : r # c => h.pcb[r] = g.pcb[r]
      /\ h.pcb[c].remainingTime = g.pcb[c].remainingTime
      /\ h.pcb[c].state = "Waiting" =>
           \E k \in DOMAIN task[c].ioBursts :
              h.pcb[c].ioRemaining = task[c].ioBursts[k].duration
      /\ h = g \/ h.pcb[c].state = "Waiting"
  <2>1. CASE h = g
    BY <1>7, <2>1 DEF SameTime
  <2>2. CASE h # g
    <3>1. PICK p : p = g.currentProcess
      OBVIOUS
    <3>2. /\ p \in Procs /\ SameClock(g, h)
          /\ \A r \in Procs : r # p => h.pcb[r] = g.pcb[r]
          /\ h.pcb[p].state = "Waiting"
          /\ h.pcb[p].remainingTime = g.pcb[p].remainingTime
          /\ \E k \in DOMAIN task[p].ioBursts :
                h.pcb[p].ioRemaining = task[p].ioBursts[k].duration
      BY <1>3, <1>5, <2>2, <3>1, CheckIODoes
    <3>3. p = c
      BY <1>7, <3>1, <3>2, EngineAssumption
    <3> QED BY <3>2, <3>3 DEF SameTime, SameClock
  <2> QED BY <2>1, <2>2
<1>9. /\ SameTime(h, t)
      /\ \A r \in Procs :
           /\ t.pcb[r].remainingTime = h.pcb[r].remainingTime
           /\ t.pcb[r].ioRemaining = h.pcb[r].ioRemaining
           /\ t.pcb[r].state = "Waiting" <=> h.pcb[r].state = "Waiting"
      /\ \A r \in Procs : r # h.currentProcess /\ t.pcb[r].state = "Ready" =>
            h.pcb[r].state = "Ready"
      /\ \/ t = h
         \/ h.currentProcess # None /\ QuantumFor(h, h.currentProcess) > 0
  <2>1. CASE ~ (h.currentProcess # None /\ quantumExpired(h, h.currentProcess))
    <3>1. t = h
      BY <1>4, <2>1 DEF expireQuantum
    <3>2. SameTime(h, t)
      BY <3>1 DEF SameTime
    <3>3. ASSUME NEW r \in Procs
          PROVE  /\ t.pcb[r].remainingTime = h.pcb[r].remainingTime
                 /\ t.pcb[r].ioRemaining = h.pcb[r].ioRemaining
                 /\ t.pcb[r].state = "Waiting" <=> h.pcb[r].state = "Waiting"
                 /\ t.pcb[r].state = h.pcb[r].state
      BY <3>1
    <3> QED BY <3>1, <3>2, <3>3
  <2>2. CASE h.currentProcess # None /\ quantumExpired(h, h.currentProcess)
    <3>1. PICK p : p = h.currentProcess
      OBVIOUS
    <3>2. p \in Procs /\ h.pcb[p].state = "Running"
      BY <1>5, <2>2, <3>1, CurrentFacts
    <3>3. PICK u : u = requeueExpired(h, p)
      OBVIOUS
    <3>4. Sound(u) /\ u.currentProcess = None
      BY <1>5, <2>2, <3>1, <3>3, RequeueExpiredSound
    <3>5. SameClock(h, u) /\ Relabelled(h, u, p, "Ready")
      BY <1>5, <2>2, <3>1, <3>3, RequeueExpiredDoes
    <3>6. t = scheduleNextProcess(u, draw)
      BY <1>4, <2>2, <3>1, <3>3 DEF expireQuantum
    <3>7. /\ SameClock(u, t)
          /\ \A r \in Procs :
               /\ t.pcb[r].remainingTime = u.pcb[r].remainingTime
               /\ t.pcb[r].ioRemaining = u.pcb[r].ioRemaining
               /\ t.pcb[r].state = "Waiting" <=> u.pcb[r].state = "Waiting"
               /\ t.pcb[r].state = "Ready" => u.pcb[r].state = "Ready"
      <4>1. CASE u.readyQueue = << >>
        <5>1. t = u
          BY <3>4, <3>6, <4>1, ScheduleDoes
        <5> QED BY <5>1 DEF SameClock
      <4>2. CASE u.readyQueue # << >>
        <5>1. PICK n : n = t.currentProcess
          OBVIOUS
        <5>2. /\ n \in Procs /\ u.pcb[n].state = "Ready"
              /\ Relabelled(u, t, n, "Running") /\ SameClock(u, t)
          BY <3>4, <3>6, <4>2, <5>1, ScheduleDoes
        <5> QED BY <5>2 DEF Relabelled
      <4> QED BY <4>1, <4>2
    <3>8. ASSUME NEW r \in Procs, r # h.currentProcess, t.pcb[r].state = "Ready"
          PROVE  h.pcb[r].state = "Ready"
      BY <3>1, <3>5, <3>7, <3>8 DEF Relabelled
    <3>9. /\ SameTime(h, t)
          /\ \A r \in Procs :
               /\ t.pcb[r].remainingTime = h.pcb[r].remainingTime
               /\ t.pcb[r].ioRemaining = h.pcb[r].ioRemaining
               /\ t.pcb[r].state = "Waiting" <=> h.pcb[r].state = "Waiting"
      BY <3>2, <3>5, <3>7 DEF SameTime, SameClock, Relabelled
    <3>10. QuantumFor(h, h.currentProcess) > 0
      BY <2>2 DEF quantumExpired
    <3> QED BY <2>2, <3>8, <3>9, <3>10
  <2> QED BY <2>1, <2>2
<1>10. SameTime(s, t)
  BY <1>7, <1>8, <1>9 DEF SameTime
<1>14. h.currentProcess \in {c, None}
  <2>1. CASE h = g
    BY <1>7, <2>1
  <2>2. CASE h # g
    BY <1>3, <1>5, <2>2, CheckIODoes
  <2> QED BY <2>1, <2>2
<1>11. ASSUME NEW r \in Procs
       PROVE  /\ t.pcb[r].remainingTime = IF r = c THEN s.pcb[r].remainingTime - 1
                                          ELSE s.pcb[r].remainingTime
              /\ r # c => t.pcb[r].ioRemaining = s.pcb[r].ioRemaining
              /\ r # c => (t.pcb[r].state = "Waiting" <=> s.pcb[r].state = "Waiting")
              /\ r # c /\ t.pcb[r].state = "Ready" => s.pcb[r].state = "Ready"
  <2>1. /\ t.pcb[r].remainingTime = IF r = c THEN s.pcb[r].remainingTime - 1
                                    ELSE s.pcb[r].remainingTime
        /\ r # c => t.pcb[r].ioRemaining = s.pcb[r].ioRemaining
    BY <1>7, <1>8, <1>9
  <2>2. r # c => (t.pcb[r].state = "Waiting" <=> s.pcb[r].state = "Waiting")
    BY <1>7, <1>8, <1>9
  <2>3. ASSUME r # c, t.pcb[r].state = "Ready" PROVE s.pcb[r].state = "Ready"
    <3>1. r # h.currentProcess
      BY <1>14, <2>3, EngineAssumption
    <3> QED BY <1>7, <1>8, <1>9, <2>3, <3>1
  <2> QED BY <2>1, <2>2, <2>3
<1>12. t.pcb[c].state = "Waiting" =>
         \E k \in DOMAIN task[c].ioBursts :
            t.pcb[c].ioRemaining = task[c].ioBursts[k].duration
  BY <1>6, <1>8, <1>9
<1>13. ASSUME alg \in NonPreemptive
       PROVE  t.pcb[c].state \in {"Terminated", "Waiting"} \/ t.currentProcess = c
  <2>1. QuantumFor(h, h.currentProcess) = 0
    BY <1>13 DEF QuantumFor, NonPreemptive
  <2>2. t = h
    BY <1>9, <2>1
  <2> QED BY <1>7, <1>8, <2>2
<1> QED BY <1>10, <1>11, <1>12, <1>13

(* A tick advances the clock by one and adds no process.                    *)
LEMMA TickClock ==
  ASSUME Static, NEW s, Sound(s), NEW draw \in Nat, NEW redraw \in Nat,
         NEW t, t = executeTimeUnit(s, draw, redraw)
  PROVE  t.currentTime = s.currentTime + 1 /\ t.processes = s.processes
<1>1. PICK i, d, w : Stages(s, t, draw, redraw, i, d, w)
  BY TickStages
<1>2. Sound(i) /\ Sound(d) /\ Sound(w) /\ t = advanceClock(w)
  BY <1>1 DEF Stages
<1>3. SameTime(s, i)
  BY <1>1, ReadyingDoes DEF Stages
<1>4. SameTime(i, d)
  BY <1>1, <1>2, DispatchDoes DEF Stages
<1>5. SameTime(d, w)
  <2>1. CASE d.currentProcess = None
    BY <1>1, <1>2, <2>1, IdleDoes DEF Stages, SameTime, SameQueues
  <2>2. CASE d.currentProcess # None
    BY <1>1, <1>2, <2>2, ServeDoes DEF Stages
  <2> QED BY <2>1, <2>2
<1>6. t.currentTime = w.currentTime + 1 /\ t.processes = w.processes
  BY <1>2, AdvanceDoes DEF SameQueues
<1> QED BY <1>3, <1>4, <1>5, <1>6 DEF SameTime

(* QuantumLeft needs nothing of the struct a tick starts from.              *)
LEMMA TickQuantum ==
  ASSUME Static, NEW s, Sound(s), NEW draw \in Nat, NEW redraw \in Nat,
         NEW t, t = executeTimeUnit(s, draw, redraw)
  PROVE  QuantumLeft(t)
<1>1. PICK i, d, w : Stages(s, t, draw, redraw, i, d, w)
  BY TickStages
<1>2. Sound(d) /\ Sound(w) /\ t = advanceClock(w)
  BY <1>1 DEF Stages
<1>3. QuantumLeft(w)
  <2>1. CASE d.currentProcess = None
    <3>1. w = idle(d)
      BY <1>1, <2>1 DEF Stages
    <3>2. w.currentProcess = None
      BY <1>2, <2>1, <3>1, IdleDoes
    <3> QED BY <3>2 DEF QuantumLeft
  <2>2. CASE d.currentProcess # None
    <3>1. Sound(checkIOBurst(chargeTick(executeProcess(d))))
      BY <1>2, <2>2, ExecuteSound, ChargeSound, CheckIOSound
    <3>2. w = expireQuantum(checkIOBurst(chargeTick(executeProcess(d))), redraw)
      BY <1>1, <2>2 DEF Stages
    <3> QED BY <3>1, <3>2, ExpireQuantumLeaves
  <2> QED BY <2>1, <2>2
<1>4. /\ t.currentProcess = w.currentProcess /\ t.levels = w.levels
      /\ t.timeQuantumUsed = w.timeQuantumUsed
  BY <1>2, AdvanceDoes
<1> QED BY <1>3, <1>4, QuantumFrame

----------------------------------------------------------------------------
(* The inductive invariant of this module.                                  *)
TickInv == EngineInv /\ Tracked(sim) /\ QuantumLeft(sim)

(* As for EngineInv: the algorithm and the submitted fields do not change.  *)
LEMMA NextTracked ==
  ASSUME Static, Sound(sim'), Tracked(sim'), QuantumLeft(sim'), UNCHANGED <<alg, task>>
  PROVE  TickInv'
<1>1. EngineInv'
  BY NextSound
<1>2. Fresh(sim)' /\ Arrived(sim)'
  BY DEF Tracked, Fresh, Arrived, InitialPCB
<1>3. LevelsRight(sim)' /\ SwitchesRight(sim)' /\ Dated(sim)'
  BY DEF Tracked, LevelsRight, SwitchesRight, Dated, levelFor
<1>4. Ledger(sim)'
  <2>1. PID' = PID
    BY DEF PID
  <2>2. \A types, pid : Tally(sim, types, pid)' = Tally(sim', types, pid)
    BY DEF Tally
  <2>3. \A states, pid : Occupied(sim, states, pid)' = Occupied(sim', states, pid)
    BY <2>1 DEF Occupied, Occupants
  <2>4. Ledger(sim')
    BY DEF Tracked
  <2> QED BY <2>2, <2>3, <2>4 DEF Ledger
<1>5. QuantumLeft(sim)'
  <2>1. Level(sim)' = Level(sim')
    BY DEF Level
  <2> QED BY <2>1 DEF QuantumLeft, QuantumFor
<1> QED BY <1>1, <1>2, <1>3, <1>4, <1>5 DEF TickInv, Tracked

LEMMA DrawsAreNat == Draws \subseteq Nat
<1>1. Cardinality(Procs) \in Nat
  BY ProcsAssumption, FS_CardinalityType
<1> QED BY <1>1 DEF Draws

(* TickInv holds initially and every step of the engine preserves it.       *)
LEMMA TickInvInductive == Spec => []TickInv
<1>1. Init => TickInv
  <2> SUFFICES ASSUME Init PROVE TickInv
    OBVIOUS
  <2>1. Static
    BY EngineAssumption DEF Init, Static
  <2>2. sim = NewSimulator /\ sim.currentProcess = None
    BY DEF Init, NewSimulator
  <2>3. Sound(sim) /\ Tracked(sim)
    BY <2>1, <2>2, InitSound, InitTracked
  <2> QED BY <2>1, <2>2, <2>3 DEF TickInv, EngineInv, QuantumLeft
<1>2. TickInv /\ [Next]_vars => TickInv'
  <2> SUFFICES ASSUME TickInv, [Next]_vars PROVE TickInv'
    OBVIOUS
  <2>1. Static /\ Sound(sim) /\ Tracked(sim) /\ QuantumLeft(sim)
    BY DEF TickInv, EngineInv
  <2>2. ASSUME NEW p \in Procs, AddProcess(p) PROVE TickInv'
    <3>1. Sound(sim') /\ Tracked(sim')
      BY <2>1, <2>2, AddSound, AddTracked
    <3>2. QuantumLeft(sim')
      BY <2>1, <2>2, AddDoes, QuantumFrame
    <3> QED BY <2>1, <2>2, <3>1, <3>2, NextTracked DEF AddProcess
  <2>3. CASE Tick
    <3>1. PICK draw \in Draws, redraw \in Draws : sim' = executeTimeUnit(sim, draw, redraw)
      BY <2>3 DEF Tick
    <3>2. Sound(sim') /\ Tracked(sim') /\ QuantumLeft(sim')
      BY <2>1, <3>1, DrawsAreNat, TickSound, TickTracked, TickQuantum
    <3> QED BY <2>1, <2>3, <3>2, NextTracked DEF Tick
  <2>4. CASE Reset
    <3>1. Sound(sim') /\ Tracked(sim')
      BY <2>1, <2>4, ResetSound, ResetTracked
    <3>2. sim'.currentProcess = None
      BY <2>1, <2>4, ResetDoes
    <3>3. QuantumLeft(sim')
      BY <3>2 DEF QuantumLeft
    <3> QED BY <2>1, <2>4, <3>1, <3>3, NextTracked DEF Reset
  <2>5. CASE UNCHANGED vars
    BY <2>1, <2>5, NextTracked DEF vars
  <2> QED BY <2>2, <2>3, <2>4, <2>5 DEF Next
<1> QED BY <1>1, <1>2, PTL DEF Spec

(* QuantumRespected for every workload and every quantum: whatever path     *)
(* dispatched the current process, executeTimeUnit notices the end of its   *)
(* quantum in the tick in which it happens.                                 *)
THEOREM ExpiryIsNoticed == Spec => []QuantumRespected
<1>1. TickInv => QuantumRespected
  BY DEF TickInv, QuantumLeft, QuantumRespected
<1> QED BY <1>1, TickInvInductive, PTL

(* LevelsTrackLiveProcesses for every workload: AddProcess, RemoveProcess   *)
(* and OnQuantumExpired keep no stale level and drop no live one, and MLQ's *)
(* Preempt and Schedule see the same levels.                                *)
THEOREM LevelsOfTheLive == Spec => []LevelsTrackLiveProcesses
<1>1. TickInv => LevelsTrackLiveProcesses
  <2> SUFFICES ASSUME TickInv PROVE LevelsTrackLiveProcesses
    OBVIOUS
  <2>1. Static /\ sim \in Simulator /\ LevelsRight(sim)
    BY DEF TickInv, EngineInv, Sound, Tracked
  <2>2. \A p \in DOMAIN sim.levels : sim.levels[p] \in 0..(NumLevels - 1)
    BY <2>1, LevelsTyped
  <2>3. alg = "mlfq" => NumLevels = Len(FeedbackQuanta)
    BY DEF NumLevels
  <2> QED BY <2>1, <2>2, <2>3 DEF LevelsRight, LevelsTrackLiveProcesses, Live
<1> QED BY <1>1, TickInvInductive, PTL

----------------------------------------------------------------------------
(* Between them, two kinds of events are as many as each of them together.  *)
LEMMA TallyUnion ==
  ASSUME NEW s \in Simulator, NEW A, NEW B, A \cap B = {}, NEW pid
  PROVE  Tally(s, A \cup B, pid) = Tally(s, A, pid) + Tally(s, B, pid)
<1> DEFINE MA == Marked(s.events, Entries(A, pid))
           MB == Marked(s.events, Entries(B, pid))
<1>1. s.events \in Seq(EventRecord)
  BY DEF Simulator
<1>2. /\ IsFiniteSet(MA) /\ Cardinality(MA) \in Nat
      /\ IsFiniteSet(MB) /\ Cardinality(MB) \in Nat
  BY <1>1, MarkedFinite
<1>3. MA \cap MB = {}
  BY DEF Marked, Entries
<1>4. Marked(s.events, Entries(A \cup B, pid)) = MA \cup MB
  BY DEF Marked, Entries
<1> HIDE DEF MA, MB
<1>5. Cardinality(MA \cup MB) = Cardinality(MA) + Cardinality(MB) - Cardinality({})
  BY <1>2, <1>3, FS_Union
<1>6. Cardinality({}) = 0
  BY FS_EmptySet
<1>7. Cardinality(MA \cup MB) = Cardinality(MA) + Cardinality(MB)
  BY <1>2, <1>5, <1>6
<1>8. Tally(s, A, pid) = Cardinality(MA) /\ Tally(s, B, pid) = Cardinality(MB)
  BY DEF Tally, MA, MB
<1>9. Tally(s, A \cup B, pid) = Cardinality(MA \cup MB)
  BY <1>4 DEF Tally
<1> QED BY <1>7, <1>8, <1>9

(* The dispatching and the releasing events by type.                        *)
LEMMA TallyByType ==
  ASSUME NEW s \in Simulator, NEW pid
  PROVE  /\ Tally(s, Dispatching, pid) = Tally(s, {"start"}, pid) + Tally(s, {"resume"}, pid)
         /\ Tally(s, Releasing, pid) =
               Tally(s, {"preempt"}, pid) + Tally(s, {"quantum_expire"}, pid)
               + Tally(s, {"io_start"}, pid) + Tally(s, {"complete"}, pid)
<1>1. /\ Dispatching = {"start"} \cup {"resume"} /\ {"start"} \cap {"resume"} = {}
  BY DEF Dispatching
<1>2. Tally(s, Dispatching, pid) = Tally(s, {"start"}, pid) + Tally(s, {"resume"}, pid)
  BY <1>1, TallyUnion
<1> DEFINE two == {"preempt"} \cup {"quantum_expire"}
           three == two \cup {"io_start"}
<1>3. /\ {"preempt"} \cap {"quantum_expire"} = {}
      /\ two \cap {"io_start"} = {} /\ three \cap {"complete"} = {}
      /\ Releasing = three \cup {"complete"}
  BY DEF Releasing
<1>4. Tally(s, two, pid) = Tally(s, {"preempt"}, pid) + Tally(s, {"quantum_expire"}, pid)
  BY <1>3, TallyUnion
<1> HIDE DEF two
<1>5. Tally(s, three, pid) = Tally(s, two, pid) + Tally(s, {"io_start"}, pid)
  BY <1>3, TallyUnion
<1> HIDE DEF three
<1>6. Tally(s, Releasing, pid) = Tally(s, three, pid) + Tally(s, {"complete"}, pid)
  BY <1>3, TallyUnion
<1> QED BY <1>2, <1>4, <1>5, <1>6

(* Of the three places that count a context switch, two clear              *)
(* currentProcess, so the third finds nothing to count and each switch is   *)
(* counted when it is logged.                                               *)
LEMMA SwitchesAreLogged == TickInv => SwitchesCountedOnce
<1> SUFFICES ASSUME TickInv PROVE SwitchesCountedOnce
  OBVIOUS
<1>1. sim \in Simulator /\ SwitchesRight(sim)
  BY DEF TickInv, EngineInv, Sound, Tracked
<1>2. \A i \in DOMAIN sim.events : sim.events[i] \in EventRecord
  <2>1. sim.events \in Seq(EventRecord)
    BY <1>1 DEF Simulator
  <2>2. DOMAIN sim.events = 1..Len(sim.events)
    BY <2>1, LenProperties
  <2> QED BY <2>1, <2>2, ElementOfSeq
<1>3. Marked(sim.events, {e \in EventRecord : e.type \in Switching}) =
        {i \in DOMAIN sim.events : sim.events[i].type \in {"preempt", "quantum_expire"}}
  BY <1>2 DEF Marked, Switching
<1>4. snapshotState(sim).metrics.contextSwitches = sim.contextSwitches
  BY DEF snapshotState, calculateMetrics
<1> QED BY <1>1, <1>3, <1>4 DEF SwitchesRight, SwitchesCountedOnce

(* EventsAccountForStates for every workload: each method logs the event of *)
(* the move it makes, so the log is a double-entry account of where every   *)
(* process is, however many processes share a PID.                          *)
THEOREM LogAccountsForStates == Spec => []EventsAccountForStates
<1>1. TickInv => EventsAccountForStates
  <2> SUFFICES ASSUME TickInv PROVE EventsAccountForStates
    OBVIOUS
  <2>1. Static /\ sim \in Simulator /\ Dated(sim) /\ Ledger(sim)
    BY DEF TickInv, EngineInv, Sound, Tracked
  <2>2. \A i \in DOMAIN sim.events : sim.events[i] \in EventRecord
    <3>1. sim.events \in Seq(EventRecord)
      BY <2>1 DEF Simulator
    <3>2. DOMAIN sim.events = 1..Len(sim.events)
      BY <3>1, LenProperties
    <3> QED BY <3>1, <3>2, ElementOfSeq
  <2>3. \A type, pid : Count(type, pid) = Tally(sim, {type}, pid)
    <3> SUFFICES ASSUME NEW type, NEW pid PROVE Count(type, pid) = Tally(sim, {type}, pid)
      OBVIOUS
    <3>1. Marked(sim.events, Entries({type}, pid)) =
            {i \in DOMAIN sim.events : sim.events[i].type = type /\ sim.events[i].pid = pid}
      BY <2>2 DEF Marked, Entries
    <3> QED BY <3>1 DEF Count, Tally
  <2>4. \A states, pid : InStates(states, pid) = Occupied(sim, states, pid)
    BY DEF InStates, Occupied, Occupants
  <2>5. ASSUME NEW p \in Procs, NEW pid, pid = PID[p]
        PROVE  /\ Count("arrival", pid) = InStates(State \ {"New"}, pid)
               /\ Count("complete", pid) = InStates({"Terminated"}, pid)
               /\ Count("io_start", pid) = Count("io_complete", pid) + InStates({"Waiting"}, pid)
               /\ Count("start", pid) + Count("resume", pid) =
                     Count("preempt", pid) + Count("quantum_expire", pid)
                     + Count("io_start", pid) + Count("complete", pid)
                     + InStates({"Running"}, pid)
    <3>1. pid \in Nat
      BY <2>1, <2>5 DEF Static, Task, PID
    <3>2. /\ Tally(sim, {"arrival"}, pid) = Occupied(sim, State \ {"New"}, pid)
          /\ Tally(sim, {"complete"}, pid) = Occupied(sim, {"Terminated"}, pid)
          /\ Tally(sim, {"io_start"}, pid) =
                Tally(sim, {"io_complete"}, pid) + Occupied(sim, {"Waiting"}, pid)
          /\ Tally(sim, Dispatching, pid) =
                Tally(sim, Releasing, pid) + Occupied(sim, {"Running"}, pid)
      BY <2>1, <3>1 DEF Ledger
    <3>3. /\ Tally(sim, Dispatching, pid) =
                Tally(sim, {"start"}, pid) + Tally(sim, {"resume"}, pid)
          /\ Tally(sim, Releasing, pid) =
                Tally(sim, {"preempt"}, pid) + Tally(sim, {"quantum_expire"}, pid)
                + Tally(sim, {"io_start"}, pid) + Tally(sim, {"complete"}, pid)
      BY <2>1, TallyByType
    <3> QED BY <2>3, <2>4, <3>2, <3>3
  <2> QED BY <2>1, <2>5, SwitchesAreLogged DEF EventsAccountForStates, Dated
<1> QED BY <1>1, TickInvInductive, PTL

(* ResetStartsOver for every workload: Reset restores every field of the    *)
(* struct and of every process, those of processes that never arrived too,  *)
(* and nothing else turns the clock back.                                   *)
THEOREM ResetIsComplete == Spec => ResetStartsOver
<1>1. ASSUME TickInv, [Next]_vars
      PROVE  [sim'.currentTime < sim.currentTime =>
                sim' = [NewSimulator EXCEPT !.processes = sim.processes]]_vars
  <2>1. Static /\ Sound(sim) /\ Tracked(sim) /\ sim.currentTime \in Nat
    BY <1>1 DEF TickInv, EngineInv, Sound, Simulator
  <2>2. ASSUME NEW p \in Procs, AddProcess(p) PROVE ~ (sim'.currentTime < sim.currentTime)
    <3>1. sim'.currentTime = sim.currentTime
      BY <2>1, <2>2, AddDoes
    <3> QED BY <2>1, <3>1
  <2>3. ASSUME Tick PROVE ~ (sim'.currentTime < sim.currentTime)
    <3>1. PICK draw \in Draws, redraw \in Draws : sim' = executeTimeUnit(sim, draw, redraw)
      BY <2>3 DEF Tick
    <3>2. PICK t : t = sim'
      OBVIOUS
    <3>3. t.currentTime >= sim.currentTime
      BY <2>1, <3>1, <3>2, DrawsAreNat, TickClock
    <3>4. t.currentTime \in Nat
      BY <2>1, <3>1, <3>2, DrawsAreNat, TickSound DEF Sound, Simulator
    <3> QED BY <2>1, <3>2, <3>3, <3>4
  <2>4. ASSUME Reset PROVE sim' = [NewSimulator EXCEPT !.processes = sim.processes]
    BY <2>1, <2>4, ResetDoes
  <2> QED BY <1>1, <2>2, <2>3, <2>4 DEF Next
<1> QED BY <1>1, TickInvInductive, PTL DEF Spec, ResetStartsOver

----------------------------------------------------------------------------
(* A process that can be given the CPU in the tick that starts in s.        *)
CanRun(s, p) ==
    \/ p \in Arriving(s)
    \/ s.pcb[p].state \in {"Ready", "Running"}
    \/ s.pcb[p].state = "Waiting" /\ s.pcb[p].ioRemaining = 1

(* The I/O of a process that is not served goes on for another tick.        *)
Sleeps(s, t, p) ==
    /\ t.pcb[p].state = "Waiting" <=>
          s.pcb[p].state = "Waiting" /\ s.pcb[p].ioRemaining # 1
    /\ t.pcb[p].state = "Waiting" => t.pcb[p].ioRemaining = s.pcb[p].ioRemaining - 1

(* What a whole tick from s to t does when nobody, and when c, is served.   *)
Idles(s, t) ==
    \A p \in Procs :
        /\ ~ CanRun(s, p)
        /\ t.pcb[p].remainingTime = s.pcb[p].remainingTime
        /\ Sleeps(s, t, p)
Serves(s, t, c) ==
    /\ CanRun(s, c)
    /\ t.pcb[c].remainingTime = s.pcb[c].remainingTime - 1
    /\ \A r \in Procs \ {c} :
          /\ t.pcb[r].remainingTime = s.pcb[r].remainingTime
          /\ Sleeps(s, t, r)
    /\ t.pcb[c].state = "Waiting" =>
          \E k \in DOMAIN task[c].ioBursts :
              t.pcb[c].ioRemaining = task[c].ioBursts[k].duration
    /\ alg \in NonPreemptive =>
          /\ s.currentProcess # None => c = s.currentProcess
          /\ t.pcb[c].state \in {"Terminated", "Waiting"} \/ t.currentProcess = c

(* The processes that are Ready or Running, and those still Waiting, once   *)
(* arrivals and finished I/O have been dealt with.                          *)
LEMMA ReadyingReadies ==
  ASSUME Static, NEW s, Sound(s), NEW i, i = tickIOQueue(checkArrivals(s)),
         NEW p \in Procs
  PROVE  /\ i.pcb[p].state \in {"Ready", "Running"} <=> CanRun(s, p)
         /\ Sleeps(s, i, p)
<1>1. PICK st : st = s.pcb[p].state
  OBVIOUS
<1>2. st \in State
  BY <1>1, SoundFacts DEF PCB
<1>3. p \in Arriving(s) => st = "New"
  BY <1>1 DEF Arriving
<1>4. /\ p \in Arriving(s) => i.pcb[p].state = "Ready"
      /\ p \notin Arriving(s) /\ st # "Waiting" => i.pcb[p].state = st
  BY <1>1, ReadyingDoes
<1>5. st = "Waiting" =>
        \/ i.pcb[p].state = "Ready" /\ s.pcb[p].ioRemaining = 1
        \/ i.pcb[p].state = "Waiting" /\ i.pcb[p].ioRemaining = s.pcb[p].ioRemaining - 1
  <2>1. s.pcb[p].state = "Waiting" =>
          \/ i.pcb[p].state = "Ready" /\ s.pcb[p].ioRemaining = 1
          \/ /\ i.pcb[p].state = "Waiting"
             /\ i.pcb[p].ioRemaining = s.pcb[p].ioRemaining - 1
    BY ReadyingDoes
  <2> QED BY <1>1, <2>1
<1>6. i.pcb[p].state = "Waiting" => i.pcb[p].ioRemaining > 0 /\ i.pcb[p].ioRemaining \in Nat
  <2>1. Sound(i)
    BY ArrivalsSound, TickIOSound
  <2>2. PCBSound(i.pcb[p], p) /\ i.pcb[p] \in PCB
    BY <2>1, SoundFacts
  <2> QED BY <2>2 DEF PCBSound, PCB
<1>7. s.pcb[p].ioRemaining \in Nat
  BY SoundFacts DEF PCB
<1>8. CASE st = "Waiting"
  <2>1. CASE i.pcb[p].state = "Ready" /\ s.pcb[p].ioRemaining = 1
    BY <1>1, <1>8, <2>1 DEF CanRun, Sleeps
  <2>2. CASE i.pcb[p].state = "Waiting" /\ i.pcb[p].ioRemaining = s.pcb[p].ioRemaining - 1
    <3>1. s.pcb[p].ioRemaining # 1
      BY <1>6, <1>7, <2>2
    <3>2. p \notin Arriving(s)
      BY <1>3, <1>8
    <3> QED BY <1>1, <1>8, <2>2, <3>1, <3>2 DEF CanRun, Sleeps
  <2> QED BY <1>5, <1>8, <2>1, <2>2
<1>9. CASE st # "Waiting"
  <2>1. CASE p \in Arriving(s)
    BY <1>1, <1>4, <1>9, <2>1 DEF CanRun, Sleeps
  <2>2. CASE p \notin Arriving(s)
    BY <1>1, <1>4, <1>9, <2>2 DEF CanRun, Sleeps
  <2> QED BY <2>1, <2>2
<1> QED BY <1>8, <1>9

(* Every tick idles because nobody can run, or serves one who can.          *)
LEMMA TickServesOrIdles ==
  ASSUME Static, NEW s, Sound(s), NEW draw \in Nat, NEW redraw \in Nat,
         NEW t, t = executeTimeUnit(s, draw, redraw)
  PROVE  Idles(s, t) \/ \E c \in Procs : Serves(s, t, c)
<1>1. PICK i, d, w : Stages(s, t, draw, redraw, i, d, w)
  BY TickStages
<1>2. /\ i = tickIOQueue(checkArrivals(s)) /\ d = dispatch(i, draw) /\ t = advanceClock(w)
      /\ Sound(i) /\ Sound(d) /\ Sound(w)
  BY <1>1 DEF Stages
<1>3. i.currentProcess = s.currentProcess
  BY <1>2, ReadyingDoes
<1>4. ASSUME NEW p \in Procs
      PROVE  /\ i.pcb[p].remainingTime = s.pcb[p].remainingTime
             /\ d.pcb[p].remainingTime = i.pcb[p].remainingTime
             /\ t.pcb[p].remainingTime = w.pcb[p].remainingTime
  BY <1>2, ReadyingDoes, DispatchDoes, AdvanceDoes
<1>5. ASSUME NEW p \in Procs
      PROVE  /\ d.pcb[p].ioRemaining = i.pcb[p].ioRemaining
             /\ t.pcb[p].ioRemaining = w.pcb[p].ioRemaining
  BY <1>2, DispatchDoes, AdvanceDoes
<1>6. ASSUME NEW p \in Procs
      PROVE  /\ d.pcb[p].state = "Waiting" <=> i.pcb[p].state = "Waiting"
             /\ i.pcb[p].state \in {"Ready", "Running"} <=>
                   d.pcb[p].state \in {"Ready", "Running"}
             /\ t.pcb[p].state = w.pcb[p].state
  BY <1>2, DispatchDoes, AdvanceDoes
<1>7. ASSUME NEW p \in Procs
      PROVE  /\ i.pcb[p].state \in {"Ready", "Running"} <=> CanRun(s, p)
             /\ Sleeps(s, i, p)
  BY <1>2, ReadyingReadies
<1>8. ASSUME NEW p \in Procs, w.pcb[p].ioRemaining = d.pcb[p].ioRemaining,
             w.pcb[p].state = "Waiting" <=> d.pcb[p].state = "Waiting"
      PROVE  Sleeps(s, t, p)
  <2>1. t.pcb[p].ioRemaining = i.pcb[p].ioRemaining
    BY <1>5, <1>8
  <2>2. t.pcb[p].state = "Waiting" <=> i.pcb[p].state = "Waiting"
    BY <1>6, <1>8
  <2> QED BY <1>7, <2>1, <2>2 DEF Sleeps
<1>9. CASE d.currentProcess = None
  <2>1. w = idle(d)
    BY <1>1, <1>9 DEF Stages
  <2>2. w.pcb = d.pcb
    BY <1>2, <2>1, IdleDoes
  <2>3. i.currentProcess = None /\ i.readyQueue = << >>
    BY <1>2, <1>9, DispatchDoes
  <2>4. ASSUME NEW p \in Procs PROVE i.pcb[p].state \notin {"Ready", "Running"}
    <3>1. In(i, "Ready") = {}
      BY <1>2, <2>3, ProcessSets DEF ToSet
    <3>2. In(i, "Running") = {}
      BY <1>2, <2>3, EngineAssumption DEF Sound
    <3> QED BY <3>1, <3>2 DEF In
  <2>5. ASSUME NEW p \in Procs
        PROVE  /\ ~ CanRun(s, p)
               /\ t.pcb[p].remainingTime = s.pcb[p].remainingTime
               /\ Sleeps(s, t, p)
    <3>1. ~ CanRun(s, p)
      BY <1>7, <2>4
    <3>2. t.pcb[p].remainingTime = s.pcb[p].remainingTime
      BY <1>4, <2>2
    <3>3. Sleeps(s, t, p)
      BY <1>8, <2>2
    <3> QED BY <3>1, <3>2, <3>3
  <2>6. Idles(s, t)
    BY <2>5 DEF Idles
  <2> QED BY <2>6
<1>10. CASE d.currentProcess # None
  <2>1. PICK c : c = d.currentProcess
    OBVIOUS
  <2>2. c \in Procs /\ d.pcb[c].state = "Running"
    BY <1>2, <1>10, <2>1, CurrentFacts
  <2>3. w = expireQuantum(checkIOBurst(chargeTick(executeProcess(d))), redraw)
    BY <1>1, <1>10 DEF Stages
  <2>4. ASSUME NEW r \in Procs
        PROVE  w.pcb[r].remainingTime = IF r = c THEN d.pcb[r].remainingTime - 1
                                        ELSE d.pcb[r].remainingTime
    BY <1>2, <1>10, <2>1, <2>3, ServeDoes
  <2>5. ASSUME NEW r \in Procs, r # c
        PROVE  /\ w.pcb[r].ioRemaining = d.pcb[r].ioRemaining
               /\ w.pcb[r].state = "Waiting" <=> d.pcb[r].state = "Waiting"
    BY <1>2, <1>10, <2>1, <2>3, <2>5, ServeDoes
  <2>6. w.pcb[c].state = "Waiting" =>
          \E k \in DOMAIN task[c].ioBursts :
             w.pcb[c].ioRemaining = task[c].ioBursts[k].duration
    BY <1>2, <1>10, <2>1, <2>3, ServeDoes
  <2>7. alg \in NonPreemptive =>
          w.pcb[c].state \in {"Terminated", "Waiting"} \/ w.currentProcess = c
    BY <1>2, <1>10, <2>1, <2>3, ServeDoes
  <2>8. CanRun(s, c)
    BY <1>6, <1>7, <2>2
  <2>9. t.pcb[c].remainingTime = s.pcb[c].remainingTime - 1
    BY <1>4, <2>2, <2>4
  <2>10. ASSUME NEW r \in Procs \ {c}
         PROVE  /\ t.pcb[r].remainingTime = s.pcb[r].remainingTime
                /\ Sleeps(s, t, r)
    <3>1. t.pcb[r].remainingTime = s.pcb[r].remainingTime
      BY <1>4, <2>4
    <3>2. Sleeps(s, t, r)
      BY <1>8, <2>5
    <3> QED BY <3>1, <3>2
  <2>11. t.pcb[c].state = "Waiting" =>
           \E k \in DOMAIN task[c].ioBursts :
              t.pcb[c].ioRemaining = task[c].ioBursts[k].duration
    BY <1>5, <1>6, <2>2, <2>6
  <2>12. ASSUME alg \in NonPreemptive
         PROVE  /\ s.currentProcess # None => c = s.currentProcess
                /\ t.pcb[c].state \in {"Terminated", "Waiting"} \/ t.currentProcess = c
    <3>1. ~ Preempt(i)
      BY <2>12 DEF Preempt, NonPreemptive
    <3>2. i.currentProcess # None => d = i
      BY <1>2, <3>1, DispatchDoes
    <3>3. t.currentProcess = w.currentProcess
      BY <1>2, AdvanceDoes
    <3> QED BY <1>3, <1>6, <2>1, <2>2, <2>7, <2>12, <3>2, <3>3
  <2>13. Serves(s, t, c)
    BY <2>8, <2>9, <2>10, <2>11, <2>12 DEF Serves
  <2> QED BY <2>2, <2>13
<1> QED BY <1>9, <1>10

(* NonPreemptiveRunsOn for every workload: under FCFS, SJF and              *)
(* non-preemptive priority executeTimeUnit never takes the CPU from a       *)
(* process that can go on.                                                  *)
THEOREM NonPreemptiveKeepsTheCPU == Spec => NonPreemptiveRunsOn
<1>1. ASSUME TickInv, [Next]_vars
      PROVE  [/\ alg \in {"fcfs", "sjf", "priority_np"}
              /\ sim'.currentTime > sim.currentTime
              => \A p \in Procs :
                   /\ p = sim.currentProcess => Ran(p)
                   /\ Ran(p) => \/ sim'.pcb[p].state \in {"Terminated", "Waiting"}
                                \/ sim'.currentProcess = p]_vars
  <2> SUFFICES ASSUME Next, alg \in NonPreemptive, sim'.currentTime > sim.currentTime,
                      NEW p \in Procs
               PROVE  /\ p = sim.currentProcess => Ran(p)
                      /\ Ran(p) => \/ sim'.pcb[p].state \in {"Terminated", "Waiting"}
                                   \/ sim'.currentProcess = p
    BY <1>1 DEF NonPreemptive
  <2>1. Static /\ Sound(sim) /\ Tracked(sim) /\ sim.currentTime \in Nat
    BY <1>1 DEF TickInv, EngineInv, Sound, Simulator
  <2>2. ASSUME NEW r \in Procs, AddProcess(r) PROVE FALSE
    <3>1. sim'.currentTime = sim.currentTime
      BY <2>1, <2>2, AddDoes
    <3> QED BY <2>1, <3>1
  <2>3. ASSUME Reset PROVE FALSE
    <3>1. sim'.currentTime = 0
      BY <2>1, <2>3, ResetDoes
    <3> QED BY <2>1, <3>1
  <2>4. Tick
    BY <2>2, <2>3 DEF Next
  <2>5. PICK draw \in Draws, redraw \in Draws : sim' = executeTimeUnit(sim, draw, redraw)
    BY <2>4 DEF Tick
  <2>6. Idles(sim, sim') \/ \E c \in Procs : Serves(sim, sim', c)
    BY <2>1, <2>5, DrawsAreNat, TickServesOrIdles
  <2>7. \A r \in Procs : sim.pcb[r].remainingTime \in Nat
    BY <2>1, SoundFacts DEF PCB
  <2>8. CASE Idles(sim, sim')
    <3>1. ~ Ran(p)
      BY <2>7, <2>8 DEF Idles, Ran
    <3>2. p # sim.currentProcess
      <4>1. ~ CanRun(sim, p)
        BY <2>8 DEF Idles
      <4>2. sim.pcb[p].state # "Running"
        BY <4>1 DEF CanRun
      <4> QED BY <2>1, <4>2, CurrentFacts, EngineAssumption
    <3> QED BY <3>1, <3>2
  <2>9. ASSUME NEW c \in Procs, Serves(sim, sim', c)
        PROVE  /\ p = sim.currentProcess => Ran(p)
               /\ Ran(p) => \/ sim'.pcb[p].state \in {"Terminated", "Waiting"}
                            \/ sim'.currentProcess = p
    <3>1. Ran(p) <=> p = c
      <4>1. p = c => sim'.pcb[p].remainingTime = sim.pcb[p].remainingTime - 1
        BY <2>9 DEF Serves
      <4>2. p # c => sim'.pcb[p].remainingTime = sim.pcb[p].remainingTime
        BY <2>9 DEF Serves
      <4> QED BY <2>7, <4>1, <4>2 DEF Ran
    <3>2. /\ sim.currentProcess # None => c = sim.currentProcess
          /\ sim'.pcb[c].state \in {"Terminated", "Waiting"} \/ sim'.currentProcess = c
      BY <2>9 DEF Serves
    <3>3. p # None
      BY EngineAssumption
    <3> QED BY <3>1, <3>2, <3>3
  <2> QED BY <2>6, <2>8, <2>9
<1> QED BY <1>1, TickInvInductive, PTL DEF Spec, NonPreemptiveRunsOn

----------------------------------------------------------------------------
(* The abstract CPU's view of a struct.                                     *)
WakeTime(s, p) == IF s.pcb[p].state = "Waiting"
                  THEN s.currentTime + s.pcb[p].ioRemaining - 1 ELSE 0
Wanted(s, p) ==
    /\ p \in ToSet(s.processes)
    /\ task[p].arrivalTime <= s.currentTime
    /\ s.pcb[p].remainingTime > 0
    /\ WakeTime(s, p) <= s.currentTime

(* A process is runnable for the abstract CPU when the engine could give it *)
(* the CPU in the next tick.                                                *)
LEMMA RunnableIsCanRun ==
  ASSUME Static, NEW s, Sound(s), Arrived(s), NEW p \in Procs
  PROVE  Wanted(s, p) <=> CanRun(s, p)
<1>1. PICK b : b = s.pcb[p]
  OBVIOUS
<1>2. b \in PCB /\ PCBSound(b, p)
  BY <1>1, SoundFacts
<1>3. b.remainingTime \in Nat /\ b.ioRemaining \in Nat /\ b.state \in State
  BY <1>2 DEF PCB
<1>4. /\ b.state = "Terminated" <=> b.remainingTime = 0
      /\ b.state = "Waiting" <=> b.ioRemaining > 0
  BY <1>2 DEF PCBSound
<1>5. s.currentTime \in Nat
  BY DEF Sound, Simulator
<1>6. b.state # "New" => p \in ToSet(s.processes) /\ task[p].arrivalTime <= s.currentTime
  BY <1>1 DEF Sound, Arrived
<1>7. p \in Arriving(s) <=> /\ p \in ToSet(s.processes) /\ b.state = "New"
                            /\ task[p].arrivalTime <= s.currentTime
  BY <1>1 DEF Arriving
<1>8. b.state # "Terminated" <=> b.remainingTime > 0
  BY <1>3, <1>4
<1>9. CASE b.state = "New"
  <2>1. WakeTime(s, p) <= s.currentTime
    BY <1>1, <1>5, <1>9 DEF WakeTime
  <2> QED BY <1>1, <1>7, <1>8, <1>9, <2>1 DEF Wanted, CanRun
<1>10. CASE b.state \in {"Ready", "Running"}
  <2>1. WakeTime(s, p) <= s.currentTime
    BY <1>1, <1>5, <1>10 DEF WakeTime
  <2> QED BY <1>1, <1>6, <1>8, <1>10, <2>1 DEF Wanted, CanRun
<1>11. CASE b.state = "Waiting"
  <2>1. WakeTime(s, p) = s.currentTime + b.ioRemaining - 1
    BY <1>1, <1>11 DEF WakeTime
  <2>2. WakeTime(s, p) <= s.currentTime <=> b.ioRemaining = 1
    BY <1>3, <1>4, <1>5, <1>11, <2>1
  <2> QED BY <1>1, <1>6, <1>7, <1>8, <1>11, <2>2 DEF Wanted, CanRun
<1>12. CASE b.state = "Terminated"
  BY <1>1, <1>7, <1>8, <1>12 DEF Wanted, CanRun
<1> QED BY <1>3, <1>9, <1>10, <1>11, <1>12 DEF State

(* A process that sleeps on keeps its waking time, and one whose time has   *)
(* come is awake.                                                           *)
LEMMA SleepersKeepTheirTime ==
  ASSUME Static, NEW s, Sound(s), NEW t, NEW p \in Procs, Sleeps(s, t, p),
         t.currentTime = s.currentTime + 1
  PROVE  WakeTime(t, p) = IF WakeTime(s, p) <= s.currentTime THEN 0 ELSE WakeTime(s, p)
<1>1. /\ s.currentTime \in Nat
  BY DEF Sound, Simulator
<1>2. s.pcb[p].ioRemaining \in Nat
  BY SoundFacts DEF PCB
<1>3. s.pcb[p].state = "Waiting" => s.pcb[p].ioRemaining > 0
  BY SoundFacts DEF PCBSound
<1>4. CASE s.pcb[p].state = "Waiting" /\ s.pcb[p].ioRemaining # 1
  <2>1. t.pcb[p].state = "Waiting" /\ t.pcb[p].ioRemaining = s.pcb[p].ioRemaining - 1
    BY <1>4 DEF Sleeps
  <2>2. WakeTime(s, p) = s.currentTime + s.pcb[p].ioRemaining - 1
    BY <1>4 DEF WakeTime
  <2>3. WakeTime(t, p) = s.currentTime + 1 + (s.pcb[p].ioRemaining - 1) - 1
    BY <2>1 DEF WakeTime
  <2> QED BY <1>1, <1>2, <1>3, <1>4, <2>2, <2>3
<1>5. CASE ~ (s.pcb[p].state = "Waiting" /\ s.pcb[p].ioRemaining # 1)
  <2>1. WakeTime(t, p) = 0
    BY <1>5 DEF Sleeps, WakeTime
  <2>2. WakeTime(s, p) <= s.currentTime
    <3>1. CASE s.pcb[p].state = "Waiting"
      <4>1. s.pcb[p].ioRemaining = 1
        BY <1>5, <3>1
      <4>2. WakeTime(s, p) = s.currentTime + 1 - 1
        BY <3>1, <4>1 DEF WakeTime
      <4> QED BY <1>1, <4>2
    <3>2. CASE s.pcb[p].state # "Waiting"
      BY <1>1, <3>2 DEF WakeTime
    <3> QED BY <3>1, <3>2
  <2> QED BY <2>1, <2>2
<1> QED BY <1>4, <1>5

(* A served process that starts I/O sleeps for one of its bursts.           *)
LEMMA ServedMaySleep ==
  ASSUME Static, NEW s, Sound(s), NEW t, Sound(t), NEW c \in Procs, Serves(s, t, c),
         t.currentTime = s.currentTime + 1
  PROVE  \/ WakeTime(t, c) = 0
         \/ /\ s.pcb[c].remainingTime > 1
            /\ \E k \in DOMAIN task[c].ioBursts :
                  WakeTime(t, c) = s.currentTime + task[c].ioBursts[k].duration
<1>1. CASE t.pcb[c].state # "Waiting"
  BY <1>1 DEF WakeTime
<1>2. CASE t.pcb[c].state = "Waiting"
  <2>1. PICK k \in DOMAIN task[c].ioBursts :
            t.pcb[c].ioRemaining = task[c].ioBursts[k].duration
    BY <1>2 DEF Serves
  <2>2. s.currentTime \in Nat
    BY DEF Sound, Simulator
  <2>3. t.pcb[c].ioRemaining \in Nat /\ t.pcb[c].remainingTime \in Nat
    BY SoundFacts DEF PCB
  <2>4. s.pcb[c].remainingTime \in Nat
    BY SoundFacts DEF PCB
  <2>5. t.pcb[c].remainingTime # 0
    BY <1>2, SoundFacts DEF PCBSound
  <2>6. t.pcb[c].remainingTime = s.pcb[c].remainingTime - 1
    BY DEF Serves
  <2>7. s.pcb[c].remainingTime > 1
    BY <2>3, <2>4, <2>5, <2>6
  <2>8. WakeTime(t, c) = s.currentTime + 1 + t.pcb[c].ioRemaining - 1
    BY <1>2 DEF WakeTime
  <2>9. WakeTime(t, c) = s.currentTime + task[c].ioBursts[k].duration
    BY <2>1, <2>2, <2>3, <2>8
  <2> QED BY <2>7, <2>9
<1> QED BY <1>1, <1>2

(* A tick is a step of the abstract CPU.                                    *)
LEMMA TickIsCPUStep ==
  ASSUME TickInv, TickInv', Tick
  PROVE  CPU!Next
<1>1. Static /\ Sound(sim) /\ Arrived(sim) /\ task' = task
  BY DEF TickInv, EngineInv, Tracked, Tick
<1>2. PICK draw \in Draws, redraw \in Draws : sim' = executeTimeUnit(sim, draw, redraw)
  BY DEF Tick
<1>3. PICK t : t = sim'
  OBVIOUS
<1>4. Sound(t)
  BY <1>1, <1>2, <1>3, DrawsAreNat, TickSound
<1>5. t.currentTime = sim.currentTime + 1 /\ t.processes = sim.processes
  BY <1>1, <1>2, <1>3, DrawsAreNat, TickClock
<1>6. Idles(sim, t) \/ \E c \in Procs : Serves(sim, t, c)
  BY <1>1, <1>2, <1>3, DrawsAreNat, TickServesOrIdles
<1> DEFINE left == [p \in Procs |-> sim.pcb[p].remainingTime]
           leftNext == [p \in Procs |-> t.pcb[p].remainingTime]
           wake == [p \in Procs |-> WakeTime(sim, p)]
           wakeNext == [p \in Procs |-> WakeTime(t, p)]
           asleep == [p \in Procs |-> IF wake[p] <= sim.currentTime THEN 0 ELSE wake[p]]
<1>7. CASE Idles(sim, t)
  <2>1. \A p \in Procs : ~ Wanted(sim, p)
    BY <1>1, <1>7, RunnableIsCanRun DEF Idles
  <2>2. leftNext = left
    BY <1>7 DEF Idles
  <2>3. wakeNext = asleep
    <3>1. ASSUME NEW p \in Procs
          PROVE  WakeTime(t, p) = IF WakeTime(sim, p) <= sim.currentTime THEN 0
                                  ELSE WakeTime(sim, p)
      BY <1>1, <1>5, <1>7, SleepersKeepTheirTime DEF Idles
    <3> QED BY <3>1
  <2>4. CPU!Idle
    BY <1>1, <1>3, <1>5, <2>1, <2>2, <2>3
       DEF CPU!Idle, CPU!Runnable, CPU!StillAsleep, RemainingTime, WakeTime, Wanted
  <2> QED BY <2>4 DEF CPU!Next
<1>8. ASSUME NEW c \in Procs, Serves(sim, t, c) PROVE CPU!Next
  <2>1. Wanted(sim, c)
    BY <1>1, <1>8, RunnableIsCanRun DEF Serves
  <2>2. leftNext = [left EXCEPT ![c] = left[c] - 1]
    BY <1>8 DEF Serves
  <2>3. \A p \in Procs \ {c} : wakeNext[p] = asleep[p]
    <3>1. ASSUME NEW p \in Procs \ {c}
          PROVE  WakeTime(t, p) = IF WakeTime(sim, p) <= sim.currentTime THEN 0
                                  ELSE WakeTime(sim, p)
      BY <1>1, <1>5, <1>8, SleepersKeepTheirTime DEF Serves
    <3> QED BY <3>1
  <2>4. asleep[c] = 0
    BY <2>1 DEF Wanted
  <2>5. \/ wakeNext = asleep
        \/ /\ left[c] > 1
           /\ \E k \in DOMAIN task[c].ioBursts :
                 wakeNext = [asleep EXCEPT ![c] = sim.currentTime + task[c].ioBursts[k].duration]
    <3>1. CASE WakeTime(t, c) = 0
      BY <2>3, <2>4, <3>1
    <3>2. CASE WakeTime(t, c) # 0
      <4>1. left[c] > 1
        BY <1>1, <1>4, <1>5, <1>8, <3>2, ServedMaySleep
      <4>2. PICK k \in DOMAIN task[c].ioBursts :
                WakeTime(t, c) = sim.currentTime + task[c].ioBursts[k].duration
        BY <1>1, <1>4, <1>5, <1>8, <3>2, ServedMaySleep
      <4>3. wakeNext = [asleep EXCEPT ![c] = sim.currentTime + task[c].ioBursts[k].duration]
        BY <2>3, <4>2
      <4> QED BY <4>1, <4>3
    <3> QED BY <3>1, <3>2
  <2>6. CPU!Serve(c)
    BY <1>1, <1>3, <1>5, <2>1, <2>2, <2>5
       DEF CPU!Serve, CPU!Runnable, CPU!StillAsleep, RemainingTime, WakeTime, Wanted
  <2> QED BY <2>6 DEF CPU!Next
<1> QED BY <1>6, <1>7, <1>8

(* AddProcess is a step of the abstract CPU.                                *)
LEMMA AddIsCPUStep ==
  ASSUME TickInv, NEW p \in Procs, AddProcess(p)
  PROVE  CPU!Next
<1>1. Static /\ Sound(sim) /\ task' = task
  BY DEF TickInv, EngineInv, AddProcess
<1>2. sim'.currentTime = sim.currentTime /\ sim'.pcb = sim.pcb
  BY <1>1, AddDoes
<1>3. ToSet(sim'.processes) = ToSet(sim.processes) \cup {p} /\ p \notin ToSet(sim.processes)
  BY <1>1, AddSound DEF AddProcess
<1>4. CPU!Add(p)
  BY <1>1, <1>2, <1>3 DEF CPU!Add, RemainingTime
<1> QED BY <1>4 DEF CPU!Next

(* Before it runs a process needs its whole burst.                          *)
LEMMA InitialRemaining ==
  ASSUME NEW p, NEW b, b = InitialPCB(p)
  PROVE  b.remainingTime = task[p].burstTime
BY DEF InitialPCB

(* Reset is a step of the abstract CPU.                                     *)
LEMMA ResetIsCPUStep ==
  ASSUME TickInv, Reset
  PROVE  CPU!Next
<1>1. Static /\ Sound(sim) /\ Tracked(sim) /\ task' = task
  BY DEF TickInv, EngineInv, Reset
<1>2. /\ sim'.currentTime = 0 /\ sim'.processes = sim.processes
      /\ \A p \in Procs : sim'.pcb[p] = InitialPCB(p)
  BY <1>1, ResetDoes
<1>3. ASSUME NEW p \in Procs
      PROVE  sim'.pcb[p].state = "New" /\ sim'.pcb[p].remainingTime = task[p].burstTime
  <2>1. PICK b : b = sim'.pcb[p]
    OBVIOUS
  <2>2. b = InitialPCB(p)
    BY <1>2, <2>1
  <2>3. b.state = "New"
    BY <1>1, <2>2, InitialFacts
  <2>4. b.remainingTime = task[p].burstTime
    BY <2>2, InitialRemaining
  <2> QED BY <2>1, <2>3, <2>4
<1>4. CPU!StartOver
  BY <1>1, <1>2, <1>3 DEF CPU!StartOver, RemainingTime
<1> QED BY <1>4 DEF CPU!Next

(* The engine implements the work-conserving CPU for every workload, every  *)
(* algorithm and any number of processes: each tick serves one unit of one  *)
(* runnable process, which may then sleep for one of its I/O bursts, and    *)
(* idles only when nobody is runnable.                                      *)
THEOREM EngineIsWorkConserving == Spec => IsWorkConserving
<1>1. Init => CPU!Init
  <2> SUFFICES ASSUME Init PROVE CPU!Init
    OBVIOUS
  <2>1. /\ sim.currentTime = 0 /\ sim.processes = << >>
        /\ \A p \in Procs : sim.pcb[p] = InitialPCB(p)
    BY DEF Init, NewSimulator
  <2>2. \A p \in Procs : sim.pcb[p].state = "New"
    <3>1. Static
      BY EngineAssumption DEF Init, Static
    <3> QED BY <2>1, <3>1, InitialFacts
  <2>4. \A p \in Procs : sim.pcb[p].remainingTime = task[p].burstTime
    BY <2>1, InitialRemaining
  <2>3. ToSet(sim.processes) = {}
    BY <2>1 DEF ToSet
  <2> QED BY <2>1, <2>2, <2>3, <2>4 DEF CPU!Init, RemainingTime
<1>2. TickInv /\ TickInv' /\ [Next]_vars => [CPU!Next]_(CPU!cpuVars)
  <2> SUFFICES ASSUME TickInv, TickInv', [Next]_vars PROVE [CPU!Next]_(CPU!cpuVars)
    OBVIOUS
  <2>1. CASE Next
    <3>1. CPU!Next
      BY <2>1, AddIsCPUStep, TickIsCPUStep, ResetIsCPUStep DEF Next
    <3> QED BY <3>1
  <2>2. CASE UNCHANGED vars
    BY <2>2 DEF vars, CPU!cpuVars, RemainingTime
  <2> QED BY <2>1, <2>2
<1> QED BY <1>1, <1>2, TickInvInductive, PTL DEF Spec, IsWorkConserving, CPU!Spec

----------------------------------------------------------------------------
(* How often a process is in a queue.                                       *)
LEMMA OnceInQueue ==
  ASSUME NEW q, NEW A, Holds(q, A), NEW p
  PROVE  Cardinality(Marked(q, {p})) = IF p \in A THEN 1 ELSE 0
<1>1. q \in Seq(Procs) /\ IsInjective(q) /\ ToSet(q) = A
  BY DEF Holds
<1>2. CASE p \in A
  <2>1. PICK i \in DOMAIN q : q[i] = p
    BY <1>1, <1>2 DEF ToSet
  <2>2. Marked(q, {p}) = {i}
    BY <1>1, <2>1 DEF Marked, IsInjective
  <2> QED BY <1>2, <2>2, FS_Singleton
<1>3. CASE p \notin A
  <2>1. Marked(q, {p}) = {}
    BY <1>1, <1>3 DEF Marked, ToSet
  <2> QED BY <1>3, <2>1, FS_EmptySet
<1> QED BY <1>2, <1>3

(* UpdateShowsEveryProcess for every workload: snapshotState finds every    *)
(* process that has arrived in exactly one of the four places it copies.    *)
THEOREM UpdatesShowEveryProcess == Spec => []UpdateShowsEveryProcess
<1>1. TickInv => UpdateShowsEveryProcess
  <2> SUFFICES ASSUME TickInv, NEW p \in ToSet(sim.processes)
               PROVE  LET u == snapshotState(sim)
                          shown == <<u.currentProcess>> \o u.readyQueue \o u.waitingQueue
                                   \o u.completedProcesses
                      IN  Cardinality({i \in DOMAIN shown : shown[i] = p}) =
                             IF sim.pcb[p].state = "New" THEN 0 ELSE 1
    BY DEF UpdateShowsEveryProcess
  <2> DEFINE cur == <<sim.currentProcess>>
             ready == sim.readyQueue
             io == sim.ioQueue
             done == Kept(sim.processes, Completed(sim))
             shown == cur \o ready \o io \o done
             Ptr == Procs \cup {None}
             n(q) == Cardinality(Marked(q, {p}))
  <2>1. Static /\ Sound(sim) /\ sim \in Simulator
    BY DEF TickInv, EngineInv, Sound
  <2>2. p \in Procs /\ ToSet(sim.processes) \subseteq Procs
    BY <2>1, ProcessSets
  <2>3. Holds(ready, In(sim, "Ready")) /\ Holds(io, In(sim, "Waiting"))
    BY <2>1 DEF Sound
  <2>4. Holds(done, ToSet(sim.processes) \cap Completed(sim))
    <3>1. Holds(sim.processes, ToSet(sim.processes))
      BY <2>1 DEF Sound, Simulator, Holds
    <3> QED BY <3>1, KeptHolds
  <2>5. p \in Completed(sim) <=> sim.pcb[p].state = "Terminated"
    <3>1. sim.pcb[p].remainingTime \in Nat
      BY <2>1, <2>2, SoundFacts DEF PCB
    <3>2. sim.pcb[p].state = "Terminated" <=> sim.pcb[p].remainingTime = 0
      BY <2>1, <2>2, SoundFacts DEF PCBSound
    <3> QED BY <3>1, <3>2 DEF Completed, IsComplete
  <2>6. sim.pcb[p].state = "Running" <=> p = sim.currentProcess
    BY <2>1, <2>2 DEF Sound, In
  <2>7. /\ n(ready) = IF sim.pcb[p].state = "Ready" THEN 1 ELSE 0
        /\ n(io) = IF sim.pcb[p].state = "Waiting" THEN 1 ELSE 0
    <3>1. /\ p \in In(sim, "Ready") <=> sim.pcb[p].state = "Ready"
          /\ p \in In(sim, "Waiting") <=> sim.pcb[p].state = "Waiting"
      BY <2>2 DEF In
    <3>2. n(ready) = IF p \in In(sim, "Ready") THEN 1 ELSE 0
      BY <2>3, OnceInQueue
    <3>3. n(io) = IF p \in In(sim, "Waiting") THEN 1 ELSE 0
      BY <2>3, OnceInQueue
    <3> QED BY <3>1, <3>2, <3>3
  <2>8. n(done) = IF sim.pcb[p].state = "Terminated" THEN 1 ELSE 0
    BY <2>4, <2>5, OnceInQueue
  <2>9. n(cur) = IF sim.pcb[p].state = "Running" THEN 1 ELSE 0
    <3>1. CASE p = sim.currentProcess
      <4>1. Marked(cur, {p}) = {1}
        BY <3>1 DEF Marked
      <4> QED BY <2>6, <3>1, <4>1, FS_Singleton
    <3>2. CASE p # sim.currentProcess
      <4>1. Marked(cur, {p}) = {}
        BY <3>2 DEF Marked
      <4> QED BY <2>6, <3>2, <4>1, FS_EmptySet
    <3> QED BY <3>1, <3>2
  <2>10. /\ cur \in Seq(Ptr) /\ ready \in Seq(Ptr) /\ io \in Seq(Ptr) /\ done \in Seq(Ptr)
    <3>1. Seq(Procs) \subseteq Seq(Ptr)
      OBVIOUS
    <3>2. sim.currentProcess \in Ptr
      BY <2>1 DEF Simulator
    <3>3. ready \in Seq(Procs) /\ io \in Seq(Procs) /\ done \in Seq(Procs)
      BY <2>3, <2>4 DEF Holds
    <3> QED BY <3>1, <3>2, <3>3
  <2> HIDE DEF cur, ready, io, done, Ptr
  <2> DEFINE two == cur \o ready
             three == two \o io
  <2>11. n(two) = n(cur) + n(ready) /\ two \in Seq(Ptr)
    BY <2>10, MarkedConcat, ConcatProperties
  <2> HIDE DEF two
  <2>12. n(three) = n(two) + n(io) /\ three \in Seq(Ptr)
    BY <2>10, <2>11, MarkedConcat, ConcatProperties
  <2> HIDE DEF three
  <2>13. n(three \o done) = n(three) + n(done)
    BY <2>10, <2>12, MarkedConcat
  <2>13a. shown = three \o done
    BY DEF two, three
  <2>14. sim.pcb[p].state \in State
    BY <2>1, <2>2, SoundFacts DEF PCB
  <2>15. n(shown) = IF sim.pcb[p].state = "New" THEN 0 ELSE 1
    <3> HIDE DEF n, shown
    <3> QED BY <2>7, <2>8, <2>9, <2>11, <2>12, <2>13, <2>13a, <2>14 DEF State
  <2>16. Marked(shown, {p}) = {i \in DOMAIN shown : shown[i] = p}
    <3> HIDE DEF shown
    <3> QED BY DEF Marked
  <2> QED BY <2>15, <2>16 DEF snapshotState, cur, ready, io, done
<1> QED BY <1>1, TickInvInductive, PTL

----------------------------------------------------------------------------
(* The fields the algorithms compare processes by.                          *)
SameKey(b, c) ==
    /\ c.remainingTime = b.remainingTime
    /\ c.lastExecuted = b.lastExecuted
    /\ c.vRuntime = b.vRuntime

SameKeys(s, t) ==
    /\ t.currentTime = s.currentTime
    /\ \A p \in Procs : SameKey(s.pcb[p], t.pcb[p])

LEMMA ArrivalsKeepKeys ==
  ASSUME Static, NEW s, Sound(s), NEW t, t = checkArrivals(s)
  PROVE  SameKeys(s, t)
<1>1. s \in Simulator
  BY DEF Sound
<1>2. ASSUME NEW p \in Procs
      PROVE  t.pcb[p] \in {s.pcb[p], [s.pcb[p] EXCEPT !.state = "Ready"]}
  BY <1>1 DEF checkArrivals, Simulator
<1>3. ASSUME NEW p \in Procs
      PROVE  SameKey(s.pcb[p], t.pcb[p])
  <2>1. PICK b : b = s.pcb[p]
    OBVIOUS
  <2>2. PICK c : c = t.pcb[p]
    OBVIOUS
  <2>3. b \in PCB
    BY <2>1, SoundFacts
  <2>4. c \in {b, [b EXCEPT !.state = "Ready"]}
    BY <1>2, <2>1, <2>2
  <2>5. SameKey(b, c)
    BY <2>3, <2>4 DEF PCB, SameKey
  <2> QED BY <2>1, <2>2, <2>5
<1>4. t.currentTime = s.currentTime
  BY ArrivalsDo DEF SameClock
<1> QED BY <1>3, <1>4 DEF SameKeys

LEMMA TickIOKeepsKeys ==
  ASSUME Static, NEW s, Sound(s), NEW t, t = tickIOQueue(s)
  PROVE  SameKeys(s, t)
<1>1. s \in Simulator
  BY DEF Sound
<1>2. ASSUME NEW p \in Procs
      PROVE  t.pcb[p] \in {s.pcb[p], [s.pcb[p] EXCEPT !.ioRemaining = 0, !.state = "Ready"],
                           [s.pcb[p] EXCEPT !.ioRemaining = s.pcb[p].ioRemaining - 1]}
  BY <1>1 DEF tickIOQueue, Simulator, PCB
<1>3. ASSUME NEW p \in Procs
      PROVE  SameKey(s.pcb[p], t.pcb[p])
  <2>1. PICK b : b = s.pcb[p]
    OBVIOUS
  <2>2. PICK c : c = t.pcb[p]
    OBVIOUS
  <2>3. b \in PCB
    BY <2>1, SoundFacts
  <2>4. c \in {b, [b EXCEPT !.ioRemaining = 0, !.state = "Ready"],
              [b EXCEPT !.ioRemaining = b.ioRemaining - 1]}
    BY <1>2, <2>1, <2>2
  <2>5. SameKey(b, c)
    BY <2>3, <2>4 DEF PCB, SameKey
  <2> QED BY <2>1, <2>2, <2>5
<1>4. t.currentTime = s.currentTime
  BY TickIODoes DEF SameClock
<1> QED BY <1>3, <1>4 DEF SameKeys

LEMMA PreemptKeepsKeys ==
  ASSUME Static, NEW s, Sound(s), s.currentProcess # None, NEW t, t = preemptCurrentProcess(s)
  PROVE  SameKeys(s, t)
<1>1. s \in Simulator /\ s.currentProcess \in Procs
  BY CurrentFacts DEF Sound
<1>2. ASSUME NEW p \in Procs
      PROVE  t.pcb[p] \in {s.pcb[p], [s.pcb[p] EXCEPT !.state = "Ready"]}
  BY <1>1 DEF preemptCurrentProcess, Simulator
<1>3. ASSUME NEW p \in Procs
      PROVE  SameKey(s.pcb[p], t.pcb[p])
  <2>1. PICK b : b = s.pcb[p]
    OBVIOUS
  <2>2. PICK c : c = t.pcb[p]
    OBVIOUS
  <2>3. b \in PCB
    BY <2>1, SoundFacts
  <2>4. c \in {b, [b EXCEPT !.state = "Ready"]}
    BY <1>2, <2>1, <2>2
  <2>5. SameKey(b, c)
    BY <2>3, <2>4 DEF PCB, SameKey
  <2> QED BY <2>1, <2>2, <2>5
<1>4. t.currentTime = s.currentTime
  BY PreemptDoes DEF SameClock
<1> QED BY <1>3, <1>4 DEF SameKeys

(* A process without a level counts as one of level 0, which is the level   *)
(* MLFQ's AddProcess gives it.                                              *)
LEMMA AddKeepsLevel ==
  ASSUME Static, NEW s \in Simulator, NEW t, NEW A \in SUBSET Procs,
         t.levels = LevelsAfterAdd(s, A), alg = "mlfq"
  PROVE  Level(t) = Level(s)
<1>1. DOMAIN s.levels \in SUBSET Procs
  BY LevelsTyped
<1>2. t.levels = [p \in DOMAIN s.levels \cup A |-> IF p \in DOMAIN s.levels THEN s.levels[p] ELSE 0]
  BY DEF LevelsAfterAdd
<1>3. /\ DOMAIN t.levels = DOMAIN s.levels \cup A
      /\ \A p \in DOMAIN t.levels : t.levels[p] = IF p \in DOMAIN s.levels THEN s.levels[p] ELSE 0
  BY <1>2
<1> QED BY <1>3 DEF Level

(* Equal fields are compared alike.                                         *)
LEMMA RankKept ==
  ASSUME Static, NEW s, NEW t, SameKeys(s, t), alg = "mlfq" => Level(t) = Level(s)
  PROVE  Rank(t) = Rank(s)
<1>1. RemainingTime(t) = RemainingTime(s) /\ VRuntime(t) = VRuntime(s)
  BY DEF SameKeys, SameKey, RemainingTime, VRuntime
<1>2. effectivePriority(t) = effectivePriority(s)
  BY DEF SameKeys, SameKey, effectivePriority
<1> QED BY <1>1, <1>2 DEF Rank
----------------------------------------------------------------------------
(* Schedule's choice has the least rank of the ready queue.                 *)
LEMMA PickedIsLeast ==
  ASSUME Static, NEW s \in Simulator, s.readyQueue # << >>, NEW draw \in Nat,
         NEW r \in ToSet(s.readyQueue)
  PROVE  Rank(s)[Schedule(s, draw)] <= Rank(s)[r]
<1>1. PICK p : p = Schedule(s, draw)
  OBVIOUS
<1>2. p \in ToSet(s.readyQueue) /\ (alg # "lottery" => p \in Best(s))
  BY <1>1, ScheduleFromQueue DEF Static
<1>3. p \in Procs /\ r \in Procs
  BY <1>2, ElementOfSeq, LenProperties DEF Simulator, ToSet
<1>4. CASE alg = "srtf"
  <2>1. RemainingTime(s)[p] <= RemainingTime(s)[r]
    BY <1>2, <1>4 DEF Best, Least
  <2> QED BY <1>1, <1>4, <2>1 DEF Rank
<1>5. CASE alg = "priority"
  <2>1. effectivePriority(s)[p] <= effectivePriority(s)[r]
    BY <1>2, <1>5 DEF Best, Least
  <2> QED BY <1>1, <1>5, <2>1 DEF Rank
<1>6. CASE alg = "cfs"
  <2>1. VRuntime(s)[p] <= VRuntime(s)[r]
    BY <1>2, <1>6 DEF Best, Least
  <2> QED BY <1>1, <1>6, <2>1 DEF Rank
<1>7. CASE alg = "mlfq"
  <2>1. Level(s)[p] <= Level(s)[r]
    BY <1>2, <1>7 DEF Best, Least
  <2> QED BY <1>1, <1>7, <2>1 DEF Rank
<1>8. CASE alg = "mlq"
  <2>1. levelFor[p] <= levelFor[r]
    BY <1>2, <1>8 DEF Best, Least
  <2> QED BY <1>1, <1>8, <2>1 DEF Rank
<1>9. CASE alg \notin {"srtf", "priority", "cfs", "mlfq", "mlq"}
  <2>1. Rank(s) = [q \in Procs |-> 0]
    BY <1>9 DEF Rank
  <2> QED BY <1>1, <1>3, <2>1
<1> QED BY <1>4, <1>5, <1>6, <1>7, <1>8, <1>9

(* Ranks are natural numbers, and so is the slack CFS gives.                *)
LEMMA RanksAreNat ==
  ASSUME Static, NEW s \in Simulator, NEW p \in Procs
  PROVE  Rank(s)[p] \in Nat /\ Slack(p) \in Nat
<1>1. /\ RemainingTime(s)[p] \in Nat /\ VRuntime(s)[p] \in Nat /\ Level(s)[p] \in Nat
      /\ levelFor[p] \in Nat /\ effectivePriority(s)[p] \in Nat
  BY KeysAreNat DEF Static
<1>2. Slack(p) \in Nat
  <2>1. task[p].weight \in Nat \ {0}
    BY DEF Static, Task
  <2>2. VRuntimeScale \div task[p].weight \in Nat
    BY <2>1, QuantumAssumption
  <2> QED BY <2>2 DEF Slack
<1>3. Rank(s)[p] \in Nat
  <2>1. CASE alg = "srtf"
    BY <1>1, <2>1 DEF Rank
  <2>2. CASE alg = "priority"
    BY <1>1, <2>2 DEF Rank
  <2>3. CASE alg = "cfs"
    BY <1>1, <2>3 DEF Rank
  <2>4. CASE alg = "mlfq"
    BY <1>1, <2>4 DEF Rank
  <2>5. CASE alg = "mlq"
    BY <1>1, <2>5 DEF Rank
  <2>6. CASE alg \notin {"srtf", "priority", "cfs", "mlfq", "mlq"}
    <3>1. Rank(s) = [q \in Procs |-> 0]
      BY <2>6 DEF Rank
    <3> QED BY <3>1
  <2> QED BY <2>1, <2>2, <2>3, <2>4, <2>5, <2>6
<1> QED BY <1>2, <1>3

(* MLQ's map holds levelFor of every live process.                          *)
LEMMA MLQLevels ==
  ASSUME NEW s, LevelsRight(s), alg = "mlq", NEW p \in Procs, s.pcb[p].state \in Live
  PROVE  Level(s)[p] = levelFor[p]
BY DEF LevelsRight, Level

(* Preempt asks for a ready process of smaller rank, by more than the slack,*)
(* with another PID.                                                        *)
LEMMA PreemptCompares ==
  ASSUME Static, NEW s, Sound(s), LevelsRight(s), s.currentProcess # None,
         NEW c, c = s.currentProcess
  PROVE  /\ Preempt(s) => \E r \in ToSet(s.readyQueue) : Rank(s)[r] < Rank(s)[c]
         /\ ~ Preempt(s) => \A r \in ToSet(s.readyQueue) :
                               PID[r] # PID[c] => Rank(s)[c] <= Rank(s)[r] + Slack(c)
<1> DEFINE R == ToSet(s.readyQueue)
<1>1. c \in Procs /\ s.pcb[c].state = "Running" /\ s \in Simulator
  BY CurrentFacts DEF Sound
<1>2. R \subseteq Procs /\ \A r \in R : s.pcb[r].state = "Ready"
  BY DEF Sound, Holds, In
<1>3. \A p \in Procs : Rank(s)[p] \in Nat /\ Slack(p) \in Nat
  BY <1>1, RanksAreNat
<1>4. \A r \in R : r # c
  BY <1>1, <1>2
<1>5. \A r \in R : PID[r] = task[r].pid /\ PID[c] = task[c].pid
  BY <1>1, <1>2 DEF PID
<1> HIDE DEF R
<1>6. CASE alg = "srtf"
  <2>1. Rank(s) = RemainingTime(s) /\ Slack(c) = 0
    BY <1>6 DEF Rank, Slack
  <2>2. Preempt(s) <=> \E r \in R : task[r].pid # task[c].pid /\ Rank(s)[r] < Rank(s)[c]
    BY <1>6, <2>1 DEF Preempt, ShorterWaits, OtherPIDs, R
  <2> QED BY <1>1, <1>2, <1>3, <1>5, <2>1, <2>2 DEF R
<1>7. CASE alg = "priority"
  <2>1. Rank(s) = effectivePriority(s) /\ Slack(c) = 0
    BY <1>7 DEF Rank, Slack
  <2>2. Preempt(s) <=> \E r \in R : task[r].pid # task[c].pid /\ Rank(s)[r] < Rank(s)[c]
    BY <1>7, <2>1 DEF Preempt, HigherPriorityWaits, OtherPIDs, R
  <2> QED BY <1>1, <1>2, <1>3, <1>5, <2>1, <2>2 DEF R
<1>8. CASE alg = "cfs"
  <2>1. Rank(s) = VRuntime(s) /\ Slack(c) = VRuntimeScale \div task[c].weight
    BY <1>8 DEF Rank, Slack
  <2>2. Preempt(s) <=> \E r \in R : task[r].pid # task[c].pid
                                    /\ Rank(s)[r] < Rank(s)[c] - Slack(c)
    BY <1>8, <2>1 DEF Preempt, LaggardWaits, OtherPIDs, R
  <2> HIDE DEF R
  <2> QED BY <1>1, <1>2, <1>3, <1>5, <2>2 DEF R
<1>9. CASE alg \in {"mlfq", "mlq"}
  <2>1. Slack(c) = 0
    BY <1>9 DEF Slack
  <2>2. ASSUME NEW p \in Procs, s.pcb[p].state \in {"Ready", "Running"}
        PROVE  Rank(s)[p] = Level(s)[p]
    <3>1. CASE alg = "mlfq"
      BY <3>1 DEF Rank
    <3>2. CASE alg = "mlq"
      <4>1. Level(s)[p] = levelFor[p]
        BY <2>2, <3>2, MLQLevels DEF Live
      <4> QED BY <3>2, <4>1 DEF Rank
    <3> QED BY <1>9, <3>1, <3>2
  <2>3. Preempt(s) <=> \E r \in R \ {c} : Level(s)[r] < Level(s)[c]
    BY <1>9 DEF Preempt, HigherLevelWaits, R
  <2>4. Preempt(s) <=> \E r \in R : Rank(s)[r] < Rank(s)[c]
    BY <1>1, <1>2, <1>4, <2>2, <2>3
  <2> QED BY <1>1, <1>2, <1>3, <2>1, <2>4 DEF R
<1>10. CASE alg \notin {"srtf", "priority", "cfs", "mlfq", "mlq"}
  <2>1. Rank(s) = [q \in Procs |-> 0]
    BY <1>10 DEF Rank
  <2>2. ~ Preempt(s)
    BY <1>10 DEF Preempt
  <2> QED BY <1>1, <1>2, <1>3, <2>1, <2>2 DEF R
<1> QED BY <1>6, <1>7, <1>8, <1>9, <1>10
(* The process dispatch chooses: nobody it leaves ready outranks it, and it *)
(* is not the one just preempted.                                           *)
LEMMA DispatchPicks ==
  ASSUME Static, NEW s, Sound(s), LevelsRight(s), NEW draw \in Nat,
         NEW t, t = dispatch(s, draw), NEW p, p = t.currentProcess, p # None
  PROVE  /\ \A r \in Procs : t.pcb[r].state = "Ready" /\ PID[r] # PID[p] =>
                                Rank(s)[p] <= Rank(s)[r] + Slack(p)
         /\ s.currentProcess # None /\ Preempt(s) => p # s.currentProcess
<1>1. s \in Simulator /\ \A r \in Procs : Rank(s)[r] \in Nat /\ Slack(r) \in Nat
  BY RanksAreNat DEF Sound
<1>2. \A r \in Procs : r \in ToSet(s.readyQueue) <=> s.pcb[r].state = "Ready"
  BY DEF Sound, Holds, In
<1>3. CASE s.currentProcess = None
  <2>1. t = scheduleNextProcess(s, draw)
    BY <1>3 DEF dispatch
  <2>2. s.readyQueue # << >>
    <3>1. ASSUME s.readyQueue = << >>
          PROVE  FALSE
      <4>1. t = s
        BY <1>3, <2>1, <3>1, ScheduleDoes
      <4> QED BY <1>3, <4>1
    <3> QED BY <3>1
  <2>3. /\ p \in Procs /\ p = Schedule(s, draw) /\ Relabelled(s, t, p, "Running")
    BY <1>3, <2>1, <2>2, ScheduleDoes
  <2>4. ASSUME NEW r \in Procs, t.pcb[r].state = "Ready"
        PROVE  Rank(s)[p] <= Rank(s)[r] + Slack(p)
    <3>1. r \in ToSet(s.readyQueue)
      BY <1>2, <2>3, <2>4 DEF Relabelled
    <3>2. Rank(s)[p] <= Rank(s)[r]
      BY <1>1, <2>2, <2>3, <3>1, PickedIsLeast
    <3> QED BY <1>1, <2>3, <3>2
  <2> QED BY <1>3, <2>4
<1>4. CASE s.currentProcess # None /\ ~ Preempt(s)
  <2>1. t = s
    BY <1>4, DispatchDoes
  <2>2. \A r \in ToSet(s.readyQueue) :
           PID[r] # PID[p] => Rank(s)[p] <= Rank(s)[r] + Slack(p)
    BY <1>4, <2>1, PreemptCompares
  <2> QED BY <1>2, <1>4, <2>1, <2>2
<1>5. CASE s.currentProcess # None /\ Preempt(s)
  <2>1. PICK c : c = s.currentProcess
    OBVIOUS
  <2>2. c \in Procs /\ s.pcb[c].state = "Running"
    BY <1>5, <2>1, CurrentFacts
  <2>3. PICK u : u = preemptCurrentProcess(s)
    OBVIOUS
  <2>4. t = scheduleNextProcess(u, draw)
    BY <1>5, <2>3, CurrentIncomplete DEF dispatch
  <2>5. Sound(u) /\ u.currentProcess = None /\ u \in Simulator
    BY <1>5, <2>3, PreemptSound DEF Sound
  <2>6. /\ u.readyQueue = Append(s.readyQueue, c) /\ u.levels = s.levels
        /\ Relabelled(s, u, c, "Ready")
    BY <1>5, <2>1, <2>3, PreemptDoes
  <2>7. Rank(u) = Rank(s)
    <3>1. SameKeys(s, u)
      BY <1>5, <2>3, PreemptKeepsKeys
    <3>2. Level(u) = Level(s)
      BY <2>6 DEF Level
    <3> QED BY <3>1, <3>2, RankKept
  <2>8. \A r \in Procs : r \in ToSet(u.readyQueue) <=> u.pcb[r].state = "Ready"
    BY <2>5 DEF Sound, Holds, In
  <2>9. u.readyQueue # << >>
    <3>1. c \in ToSet(u.readyQueue)
      BY <2>2, <2>6, <2>8 DEF Relabelled
    <3> QED BY <3>1 DEF ToSet
  <2>10. p \in Procs /\ p = Schedule(u, draw) /\ Relabelled(u, t, p, "Running")
    BY <2>4, <2>5, <2>9, ScheduleDoes
  <2>11. ASSUME NEW r \in Procs, u.pcb[r].state = "Ready"
         PROVE  Rank(s)[p] <= Rank(s)[r]
    <3>1. r \in ToSet(u.readyQueue)
      BY <2>8, <2>11
    <3>2. Rank(u)[p] <= Rank(u)[r]
      BY <2>5, <2>9, <2>10, <3>1, PickedIsLeast
    <3> QED BY <2>7, <3>2
  <2>12. ASSUME NEW r \in Procs, t.pcb[r].state = "Ready"
         PROVE  Rank(s)[p] <= Rank(s)[r] + Slack(p)
    <3>1. u.pcb[r].state = "Ready"
      BY <2>10, <2>12 DEF Relabelled
    <3> QED BY <1>1, <2>10, <2>11, <3>1
  <2>13. p # c
    <3>1. PICK r \in ToSet(s.readyQueue) : Rank(s)[r] < Rank(s)[c]
      BY <1>5, <2>1, PreemptCompares
    <3>2. r \in Procs
      BY <3>1 DEF Sound, Holds, In
    <3>3. u.pcb[r].state = "Ready"
      BY <1>2, <2>6, <3>1, <3>2 DEF Relabelled
    <3>4. Rank(s)[p] <= Rank(s)[r]
      BY <2>11, <3>2, <3>3
    <3> QED BY <1>1, <2>2, <2>10, <3>1, <3>2, <3>4
  <2> QED BY <2>1, <2>12, <2>13
<1> QED BY <1>3, <1>4, <1>5

(* A tick as ranks see it: the process c that is served, if any, is one     *)
(* that nobody still ready outranks, and not one that was preempted.        *)
LEMMA TickRanks ==
  ASSUME Static, NEW s, Sound(s), Tracked(s), NEW draw \in Nat, NEW redraw \in Nat,
         NEW t, t = executeTimeUnit(s, draw, redraw), NEW i, NEW d, NEW w,
         Stages(s, t, draw, redraw, i, d, w), NEW c, c = d.currentProcess
  PROVE  /\ \A p \in Procs : t.pcb[p].remainingTime < s.pcb[p].remainingTime <=> p = c
         /\ c # None => \A r \in ToSet(t.readyQueue) \ {c} :
               PID[r] # PID[c] => Rank(s)[c] <= Rank(s)[r] + Slack(c)
         /\ i.currentProcess # None /\ Preempt(i) => c \in Procs /\ c # s.currentProcess
<1>1. /\ i = tickIOQueue(checkArrivals(s)) /\ d = dispatch(i, draw) /\ t = advanceClock(w)
      /\ Sound(i) /\ Sound(d) /\ Sound(w) /\ Sound(t)
  <2>1. /\ i = tickIOQueue(checkArrivals(s)) /\ d = dispatch(i, draw) /\ t = advanceClock(w)
        /\ Sound(i) /\ Sound(d) /\ Sound(w)
    BY DEF Stages
  <2> QED BY <2>1, AdvanceSound
<1>2. i.currentProcess = s.currentProcess
  BY <1>1, ReadyingDoes
<1>3. c # None => c \in Procs
  BY <1>1, CurrentFacts
<1>4. ASSUME NEW p \in Procs
      PROVE  /\ d.pcb[p].remainingTime = s.pcb[p].remainingTime
             /\ t.pcb[p].remainingTime = w.pcb[p].remainingTime
             /\ s.pcb[p].remainingTime \in Nat
  <2>1. i.pcb[p].remainingTime = s.pcb[p].remainingTime
    BY <1>1, ReadyingDoes
  <2>2. d.pcb[p].remainingTime = i.pcb[p].remainingTime
    BY <1>1, DispatchDoes
  <2>3. t.pcb[p].remainingTime = w.pcb[p].remainingTime
    BY <1>1, AdvanceDoes
  <2>4. s.pcb[p].remainingTime \in Nat
    BY SoundFacts DEF PCB
  <2> QED BY <2>1, <2>2, <2>3, <2>4
<1>5. Rank(i) = Rank(s) /\ LevelsRight(i)
  <2>1. PICK a : a = checkArrivals(s)
    OBVIOUS
  <2>2. Sound(a) /\ i = tickIOQueue(a)
    BY <1>1, <2>1, ArrivalsSound
  <2>3. a \in Simulator /\ s \in Simulator
    BY <2>2 DEF Sound
  <2>4. Arriving(s) \in SUBSET Procs /\ Waking(a) \in SUBSET Procs
    BY <2>2, ProcessSets
  <2>5. Rank(a) = Rank(s)
    <3>1. SameKeys(s, a)
      BY <2>1, ArrivalsKeepKeys
    <3>2. a.levels = LevelsAfterAdd(s, Arriving(s))
      BY <2>1, ArrivalsDo
    <3>3. alg = "mlfq" => Level(a) = Level(s)
      BY <2>3, <2>4, <3>2, AddKeepsLevel
    <3> QED BY <3>1, <3>3, RankKept
  <2>6. Rank(i) = Rank(a)
    <3>1. SameKeys(a, i)
      BY <2>2, TickIOKeepsKeys
    <3>2. i.levels = LevelsAfterAdd(a, Waking(a))
      BY <2>2, TickIODoes
    <3>3. alg = "mlfq" => Level(i) = Level(a)
      BY <2>3, <2>4, <3>2, AddKeepsLevel
    <3> QED BY <3>1, <3>3, RankKept
  <2>7. Tracked(i)
    BY <2>1, <2>2, ArrivalsTracked, TickIOTracked
  <2> QED BY <2>5, <2>6, <2>7 DEF Tracked
<1>6. c # None =>
        \A r \in Procs : d.pcb[r].state = "Ready" /\ PID[r] # PID[c] =>
                            Rank(s)[c] <= Rank(s)[r] + Slack(c)
  <2>1. c # None =>
        \A r \in Procs : d.pcb[r].state = "Ready" /\ PID[r] # PID[c] =>
                            Rank(i)[c] <= Rank(i)[r] + Slack(c)
    BY <1>1, <1>5, DispatchPicks
  <2> QED BY <1>5, <2>1
<1>7. i.currentProcess # None /\ Preempt(i) => c \in Procs /\ c # s.currentProcess
  <2>1. i.currentProcess # None => c # None
    BY <1>1, DispatchDoes
  <2>2. i.currentProcess # None /\ Preempt(i) => c # i.currentProcess
    BY <1>1, <1>5, <2>1, DispatchPicks
  <2> QED BY <1>2, <1>3, <2>1, <2>2
<1>8. CASE c = None
  <2>1. w = idle(d)
    BY <1>8 DEF Stages
  <2>2. w.pcb = d.pcb
    BY <1>1, <2>1, IdleDoes
  <2>3. \A p \in Procs : p # c
    BY <1>8, EngineAssumption
  <2>4. \A p \in Procs : ~ (t.pcb[p].remainingTime < s.pcb[p].remainingTime)
    BY <1>4, <2>2
  <2> QED BY <1>7, <1>8, <2>3, <2>4
<1>9. CASE c # None
  <2>1. w = expireQuantum(checkIOBurst(chargeTick(executeProcess(d))), redraw)
    BY <1>9 DEF Stages
  <2>2. ASSUME NEW r \in Procs
        PROVE  /\ w.pcb[r].remainingTime = IF r = c THEN d.pcb[r].remainingTime - 1
                                           ELSE d.pcb[r].remainingTime
               /\ r # c /\ w.pcb[r].state = "Ready" => d.pcb[r].state = "Ready"
    BY <1>1, <1>9, <2>1, ServeDoes
  <2>3. \A p \in Procs : t.pcb[p].remainingTime < s.pcb[p].remainingTime <=> p = c
    BY <1>4, <2>2
  <2>4. ASSUME NEW r \in ToSet(t.readyQueue) \ {c}
        PROVE  r \in Procs /\ d.pcb[r].state = "Ready"
    <3>1. r \in Procs /\ t.pcb[r].state = "Ready"
      BY <1>1, <2>4 DEF Sound, Holds, In
    <3>2. w.pcb[r].state = "Ready"
      BY <1>1, <3>1, AdvanceDoes
    <3> QED BY <2>2, <2>4, <3>1, <3>2
  <2> QED BY <1>6, <1>7, <1>9, <2>3, <2>4
<1> QED BY <1>8, <1>9
----------------------------------------------------------------------------
(* The log grows from a to b, and no preemption is among what is added.     *)
Quiet(a, b) ==
    /\ a \in Seq(EventRecord) /\ b \in Seq(EventRecord)
    /\ Len(a) <= Len(b)
    /\ \A k \in (Len(a) + 1)..Len(b) : b[k].type # "preempt"

LEMMA QuietSame ==
  ASSUME NEW a \in Seq(EventRecord)
  PROVE  Quiet(a, a)
<1>1. Len(a) \in Nat
  BY LenProperties
<1> QED BY <1>1 DEF Quiet

LEMMA QuietAppend ==
  ASSUME NEW a \in Seq(EventRecord), NEW b \in Seq(EventRecord), Quiet(a, b),
         NEW e \in EventRecord, e.type # "preempt", NEW c, c = Append(b, e)
  PROVE  Quiet(a, c)
<1>1. c \in Seq(EventRecord) /\ Len(c) = Len(b) + 1 /\ c[Len(b) + 1] = e
  BY AppendProperties
<1>2. Len(a) \in Nat /\ Len(b) \in Nat
  BY LenProperties
<1>3. \A k \in 1..Len(b) : c[k] = b[k]
  BY AppendProperties
<1>4. ASSUME NEW k \in (Len(a) + 1)..Len(c)
      PROVE  c[k].type # "preempt"
  <2>1. CASE k = Len(b) + 1
    BY <1>1, <2>1
  <2>2. CASE k # Len(b) + 1
    <3>1. k \in (Len(a) + 1)..Len(b) /\ k \in 1..Len(b)
      BY <1>1, <1>2, <2>2
    <3> QED BY <1>3, <3>1 DEF Quiet
  <2> QED BY <2>1, <2>2
<1> QED BY <1>1, <1>2, <1>4 DEF Quiet

LEMMA QuietBatch ==
  ASSUME NEW a \in Seq(EventRecord), NEW b \in Seq(EventRecord), Quiet(a, b),
         NEW e \in Seq(EventRecord), \A k \in 1..Len(e) : e[k].type # "preempt",
         NEW c, c = b \o e
  PROVE  Quiet(a, c)
<1>1. c \in Seq(EventRecord) /\ Len(c) = Len(b) + Len(e)
  BY ConcatProperties
<1>2. Len(a) \in Nat /\ Len(b) \in Nat /\ Len(e) \in Nat
  BY LenProperties
<1>3. \A k \in 1..Len(c) : c[k] = IF k <= Len(b) THEN b[k] ELSE e[k - Len(b)]
  BY <1>1, ConcatProperties
<1>4. ASSUME NEW k \in (Len(a) + 1)..Len(c)
      PROVE  c[k].type # "preempt"
  <2>1. k \in 1..Len(c)
    BY <1>1, <1>2
  <2>2. CASE k <= Len(b)
    <3>1. k \in (Len(a) + 1)..Len(b)
      BY <1>1, <1>2, <2>2
    <3> QED BY <1>3, <2>1, <2>2, <3>1 DEF Quiet
  <2>3. CASE ~ (k <= Len(b))
    <3>1. k - Len(b) \in 1..Len(e)
      BY <1>1, <1>2, <2>3
    <3> QED BY <1>3, <2>1, <2>3, <3>1
  <2> QED BY <2>2, <2>3
<1> QED BY <1>1, <1>2, <1>4 DEF Quiet

(* The log of the struct s, seen from the log a at the start of the tick,   *)
(* after one more event or a batch of them.                                 *)
LEMMA StepIsQuiet ==
  ASSUME Static, NEW s, Sound(s), NEW t, NEW a, Quiet(a, s.events),
         NEW type \in EventType \ {"preempt"}, NEW p \in Procs,
         t.events = Append(s.events, Event(s, type, p))
  PROVE  Quiet(a, t.events)
<1>1. s \in Simulator
  BY DEF Sound
<1>2. Event(s, type, p) \in EventRecord
  BY <1>1, EventTyped
<1>3. Event(s, type, p).type # "preempt"
  BY DEF Event
<1>4. a \in Seq(EventRecord) /\ s.events \in Seq(EventRecord)
  BY DEF Quiet
<1> QED BY <1>2, <1>3, <1>4, QuietAppend

LEMMA BatchIsQuiet ==
  ASSUME Static, NEW s, Sound(s), NEW t, NEW a, Quiet(a, s.events),
         NEW type \in EventType \ {"preempt"}, NEW q \in Seq(Procs),
         t.events = s.events \o EventsOf(s, type, q)
  PROVE  Quiet(a, t.events)
<1>1. s \in Simulator
  BY DEF Sound
<1>2. PICK e : e = EventsOf(s, type, q)
  OBVIOUS
<1>3. e \in Seq(EventRecord)
  BY <1>1, <1>2, EventsOfTyped
<1>4. \A k \in 1..Len(e) : e[k].type # "preempt"
  <2>1. DOMAIN e = 1..Len(e)
    BY <1>3, LenProperties
  <2>2. DOMAIN e = DOMAIN q
    BY <1>2 DEF EventsOf
  <2>3. \A k \in DOMAIN q : e[k] = Event(s, type, q[k])
    BY <1>2 DEF EventsOf
  <2>4. \A k \in DOMAIN q : Event(s, type, q[k]).type = type
    BY DEF Event
  <2> QED BY <2>1, <2>2, <2>3, <2>4
<1>5. a \in Seq(EventRecord) /\ s.events \in Seq(EventRecord)
  BY DEF Quiet
<1> QED BY <1>2, <1>3, <1>4, <1>5, QuietBatch

(* Only dispatch logs a preemption, when Preempt tells it to.               *)
LEMMA OnlyDispatchPreempts ==
  ASSUME Static, NEW s, Sound(s), NEW draw \in Nat, NEW redraw \in Nat,
         NEW t, NEW i, NEW d, NEW w, Stages(s, t, draw, redraw, i, d, w),
         ~ (i.currentProcess # None /\ Preempt(i))
  PROVE  Quiet(s.events, t.events)
<1>1. /\ i = tickIOQueue(checkArrivals(s)) /\ d = dispatch(i, draw) /\ t = advanceClock(w)
      /\ Sound(i) /\ Sound(d) /\ Sound(w)
  BY DEF Stages
<1>2. PICK l : l = s.events
  OBVIOUS
<1>3. Quiet(l, s.events)
  BY <1>2, QuietSame DEF Sound, Simulator
<1>4. Quiet(l, i.events)
  <2>1. PICK a : a = checkArrivals(s)
    OBVIOUS
  <2>2. Sound(a) /\ i = tickIOQueue(a)
    BY <1>1, <2>1, ArrivalsSound
  <2>3. a.events = s.events \o EventsOf(s, "arrival", Kept(s.processes, Arriving(s)))
    BY <2>1, ArrivalsDo
  <2>4. i.events = a.events \o EventsOf(a, "io_complete", Kept(a.ioQueue, Waking(a)))
    BY <2>2, TickIODoes
  <2>5. s.processes \in Seq(Procs) /\ a.ioQueue \in Seq(Procs)
    BY <2>2 DEF Sound, Simulator
  <2>6. /\ Kept(s.processes, Arriving(s)) \in Seq(Procs)
        /\ Kept(a.ioQueue, Waking(a)) \in Seq(Procs)
    <3>1. Holds(s.processes, ToSet(s.processes)) /\ Holds(a.ioQueue, In(a, "Waiting"))
      BY <2>2, <2>5 DEF Sound, Holds
    <3> QED BY <3>1, KeptHolds DEF Holds
  <2>7. Quiet(l, a.events)
    BY <1>3, <2>3, <2>6, BatchIsQuiet DEF EventType
  <2> QED BY <2>2, <2>4, <2>6, <2>7, BatchIsQuiet DEF EventType
<1>5. ASSUME NEW x, Sound(x), x.currentProcess = None, NEW dr \in Nat,
             Quiet(l, x.events), NEW y, y = scheduleNextProcess(x, dr)
      PROVE  Quiet(l, y.events)
  <2>1. CASE x.readyQueue = << >>
    BY <1>5, <2>1, ScheduleDoes
  <2>2. CASE x.readyQueue # << >>
    <3>1. PICK p : p = y.currentProcess
      OBVIOUS
    <3>2. p \in Procs /\ \E type \in {"start", "resume"} :
                             y.events = Append(x.events, Event(x, type, p))
      BY <1>5, <2>2, <3>1, ScheduleDoes
    <3> QED BY <1>5, <3>2, StepIsQuiet DEF EventType
  <2> QED BY <2>1, <2>2
<1>6. Quiet(l, d.events)
  <2>1. CASE i.currentProcess = None
    BY <1>1, <1>4, <1>5, <2>1 DEF dispatch
  <2>2. CASE i.currentProcess # None
    <3>1. d = i
      BY <1>1, <2>2, DispatchDoes
    <3> QED BY <1>4, <3>1
  <2> QED BY <2>1, <2>2
<1>7. t.events = w.events
  BY <1>1, AdvanceDoes
<1>8. CASE d.currentProcess = None
  <2>1. w = idle(d)
    BY <1>8 DEF Stages
  <2>2. w.events = d.events
    BY <1>1, <2>1, IdleDoes
  <2> QED BY <1>2, <1>6, <1>7, <2>2
<1>9. CASE d.currentProcess # None
  <2>1. w = expireQuantum(checkIOBurst(chargeTick(executeProcess(d))), redraw)
    BY <1>9 DEF Stages
  <2>2. PICK c : c = d.currentProcess
    OBVIOUS
  <2>3. c \in Procs
    BY <1>1, <1>9, <2>2, CurrentFacts
  <2>4. PICK e : e = executeProcess(d)
    OBVIOUS
  <2>5. PICK g : g = chargeTick(e)
    OBVIOUS
  <2>6. PICK h : h = checkIOBurst(g)
    OBVIOUS
  <2>7. Sound(e) /\ Sound(g) /\ Sound(h)
    BY <1>1, <1>9, <2>4, <2>5, <2>6, ExecuteSound, ChargeSound, CheckIOSound
  <2>8. Quiet(l, g.events)
    <3>1. \/ e.events = d.events
          \/ e.events = Append(d.events, Event(d, "complete", c))
      BY <1>1, <1>9, <2>2, <2>4, ExecuteDoes
    <3>2. g.events = e.events
      BY <2>5, <2>7, ChargeDoes
    <3>3. Quiet(l, e.events)
      <4>1. CASE e.events = d.events
        BY <1>6, <4>1
      <4>2. CASE e.events = Append(d.events, Event(d, "complete", c))
        BY <1>1, <1>6, <2>3, <4>2, StepIsQuiet DEF EventType
      <4> QED BY <3>1, <4>1, <4>2
    <3> QED BY <3>2, <3>3
  <2>9. Quiet(l, h.events)
    <3>1. CASE h = g
      BY <2>8, <3>1
    <3>2. CASE h # g
      <4>1. PICK p : p = g.currentProcess
        OBVIOUS
      <4>2. p \in Procs /\ h.events = Append(g.events, Event(g, "io_start", p))
        BY <2>6, <2>7, <3>2, <4>1, CheckIODoes
      <4> QED BY <2>7, <2>8, <4>2, StepIsQuiet DEF EventType
    <3> QED BY <3>1, <3>2
  <2>10. w = expireQuantum(h, redraw)
    BY <2>1, <2>4, <2>5, <2>6
  <2>11. CASE w = h
    BY <1>2, <1>7, <2>9, <2>11
  <2>12. CASE w # h
    <3>1. PICK p : p = h.currentProcess
      OBVIOUS
    <3>2. PICK u : u = requeueExpired(h, p)
      OBVIOUS
    <3>3. h.currentProcess # None /\ w = scheduleNextProcess(u, redraw)
      BY <2>10, <2>12, <3>1, <3>2 DEF expireQuantum
    <3>4. p \in Procs /\ u.events = Append(h.events, Event(h, "quantum_expire", p))
      BY <2>7, <3>1, <3>2, <3>3, CurrentFacts, RequeueExpiredDoes
    <3>5. Sound(u) /\ u.currentProcess = None
      BY <2>7, <3>1, <3>2, <3>3, RequeueExpiredSound, RequeueExpiredDoes
    <3>6. Quiet(l, u.events)
      BY <2>7, <2>9, <3>4, StepIsQuiet DEF EventType
    <3>7. Quiet(l, w.events)
      BY <1>5, <3>3, <3>5, <3>6
    <3> QED BY <1>2, <1>7, <3>7
  <2> QED BY <2>11, <2>12
<1> QED BY <1>8, <1>9
(* A step that logs a preemption, or after which a process has run and      *)
(* others are ready, is a tick.                                             *)
LEMMA OnlyTicksRun ==
  ASSUME Static, Sound(sim), Next, NEW p \in Procs, Ran(p), NEW r \in ToSet(sim'.readyQueue)
  PROVE  Tick
<1>1. ASSUME NEW q \in Procs, AddProcess(q) PROVE FALSE
  <2>1. sim'.pcb = sim.pcb
    BY <1>1, AddDoes
  <2>2. sim.pcb[p].remainingTime \in Nat
    BY SoundFacts DEF PCB
  <2> QED BY <2>1, <2>2 DEF Ran
<1>2. ASSUME Reset PROVE FALSE
  <2>1. sim'.readyQueue = << >>
    BY <1>2 DEF Reset, Sound, Simulator
  <2> QED BY <2>1 DEF ToSet
<1> QED BY <1>1, <1>2 DEF Next

LEMMA OnlyTicksPreempt ==
  ASSUME Static, Sound(sim), Tracked(sim), Next, Logged("preempt")
  PROVE  Tick
<1>1. Len(sim.events) \in Nat
  BY LenProperties DEF Sound, Simulator
<1>2. ASSUME NEW q \in Procs, AddProcess(q) PROVE FALSE
  <2>1. sim'.events = sim.events
    BY <1>2, AddDoes
  <2> QED BY <1>1, <2>1 DEF Logged
<1>3. ASSUME Reset PROVE FALSE
  <2>1. sim'.events = << >>
    BY <1>3, ResetDoes
  <2>2. Len(sim'.events) = 0
    BY <2>1
  <2> QED BY <1>1, <2>2 DEF Logged
<1> QED BY <1>2, <1>3 DEF Next

(* NeverOutranked for every workload: Preempt and Schedule together keep    *)
(* the CPU from a process that a ready one outranks.                        *)
THEOREM TheBestReadyProcessRuns == Spec => NeverOutranked
<1>1. ASSUME TickInv, [Next]_vars
      PROVE  [UniquePIDs =>
                \A p \in Procs : Ran(p) =>
                   \A r \in ToSet(sim'.readyQueue) \ {p} :
                       Rank(sim)[p] <= Rank(sim)[r] + Slack(p)]_vars
  <2> SUFFICES ASSUME Next, UniquePIDs, NEW p \in Procs, Ran(p),
                      NEW r \in ToSet(sim'.readyQueue) \ {p}
               PROVE  Rank(sim)[p] <= Rank(sim)[r] + Slack(p)
    BY <1>1
  <2>1. Static /\ Sound(sim) /\ Tracked(sim)
    BY <1>1 DEF TickInv, EngineInv
  <2>2. Tick
    BY <2>1, OnlyTicksRun
  <2>3. PICK draw \in Nat, redraw \in Nat : sim' = executeTimeUnit(sim, draw, redraw)
    BY <2>2, DrawsAreNat DEF Tick
  <2>4. PICK t : t = sim'
    OBVIOUS
  <2>5. PICK i, d, w : Stages(sim, t, draw, redraw, i, d, w)
    BY <2>1, <2>3, <2>4, TickStages
  <2>6. PICK c : c = d.currentProcess
    OBVIOUS
  <2>7. /\ \A q \in Procs : t.pcb[q].remainingTime < sim.pcb[q].remainingTime <=> q = c
        /\ c # None => \A q \in ToSet(t.readyQueue) \ {c} :
              PID[q] # PID[c] => Rank(sim)[c] <= Rank(sim)[q] + Slack(c)
    BY <2>1, <2>3, <2>4, <2>5, <2>6, TickRanks
  <2>8. p = c /\ p # None
    BY <2>4, <2>7, EngineAssumption DEF Ran
  <2>9. r \in Procs
    <3>1. Sound(t)
      BY <2>1, <2>3, <2>4, TickSound
    <3> QED BY <2>4, <3>1 DEF Sound, Holds, In
  <2>10. PID[r] # PID[p]
    BY <2>9 DEF UniquePIDs
  <2> QED BY <2>4, <2>7, <2>8, <2>10
<1> QED BY <1>1, TickInvInductive, PTL DEF Spec, NeverOutranked

(* NoVainPreemption for every workload: when Preempt takes the CPU from a   *)
(* process, Schedule does not hand it back in the same tick.                *)
THEOREM PreemptionChangesTheProcess == Spec => NoVainPreemption
<1>1. ASSUME TickInv, [Next]_vars
      PROVE  [Logged("preempt") =>
                 /\ ~ Ran(sim.currentProcess)
                 /\ \E p \in Procs : Ran(p)]_vars
  <2> SUFFICES ASSUME Next, Logged("preempt")
               PROVE  ~ Ran(sim.currentProcess) /\ \E p \in Procs : Ran(p)
    BY <1>1
  <2>1. Static /\ Sound(sim) /\ Tracked(sim)
    BY <1>1 DEF TickInv, EngineInv
  <2>2. Tick
    BY <2>1, OnlyTicksPreempt
  <2>3. PICK draw \in Nat, redraw \in Nat : sim' = executeTimeUnit(sim, draw, redraw)
    BY <2>2, DrawsAreNat DEF Tick
  <2>4. PICK t : t = sim'
    OBVIOUS
  <2>5. PICK i, d, w : Stages(sim, t, draw, redraw, i, d, w)
    BY <2>1, <2>3, <2>4, TickStages
  <2>6. PICK c : c = d.currentProcess
    OBVIOUS
  <2>7. i.currentProcess # None /\ Preempt(i)
    <3>1. ~ Quiet(sim.events, t.events)
      BY <2>4 DEF Quiet, Logged
    <3> QED BY <2>1, <2>5, <3>1, OnlyDispatchPreempts
  <2>8. /\ \A q \in Procs : t.pcb[q].remainingTime < sim.pcb[q].remainingTime <=> q = c
        /\ c \in Procs /\ c # sim.currentProcess
    BY <2>1, <2>3, <2>4, <2>5, <2>6, <2>7, TickRanks
  <2>9. sim.currentProcess \in Procs
    <3>1. i.currentProcess = sim.currentProcess
      BY <2>1, <2>5, ReadyingDoes DEF Stages
    <3> QED BY <2>1, <2>7, <3>1, CurrentFacts
  <2> QED BY <2>4, <2>8, <2>9 DEF Ran
<1> QED BY <1>1, TickInvInductive, PTL DEF Spec, NoVainPreemption
=============================================================================
