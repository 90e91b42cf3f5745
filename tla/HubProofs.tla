----------------------------- MODULE HubProofs -----------------------------
(***************************************************************************)
(* Proofs about the WebSocket server, for any number of connections,       *)
(* simulators, run goroutines and messages, any limit on clients and any   *)
(* size of the broadcast queue.                                            *)
(***************************************************************************)
EXTENDS Hub, FiniteSetTheorems, SequenceTheorems, TLAPS

(* Where a handler can be: outside, before its reader loop, initializing a  *)
(* simulator, using the one it read, and in its cleanup.                    *)
InitPlaces == {"init", "initSend", "initWait", "initAssign"}
UsingPlaces ==
    {"init", "initSend", "initWait", "start", "pause", "resume", "stop", "stopSend",
     "stopWait", "reset", "resetSend", "resetWait", "resetDrain", "resetState", "step",
     "stepExecute", "stepSend", "stepComplete", "stepLast", "addProcess", "push"}
LoopPlaces == UsingPlaces \cup {"initAssign", "read"}
Handling == LoopPlaces \cup {"upgrade", "register", "cleanup"}
Places == Handling \cup {"none", "returned"}

Updates == [sim : 0..MaxSims, final : BOOLEAN]

Simulators ==
    [state : {"idle", "running", "paused", "complete"}, stop : {0, 1},
     run : [Runs -> {"none", "loop", "execute", "send", "complete", "last"}], todo : Nat]

(* The handlers that are in P.                                              *)
AtCount(pcs, P) == Cardinality({c \in Conns : pcs[c] \in P})

(* A handler uses a simulator that exists.                                  *)
HandlerTypes ==
    /\ hpc \in [Conns -> Places]
    /\ ref \in [Conns -> 0..MaxSims]
    /\ messages \in 0..MaxMessages
    /\ \A c \in Conns : hpc[c] \in UsingPlaces => ref[c] # NoSim

SimTypes ==
    /\ created \in Nat
    /\ simulator \in 0..created
    /\ sims \in [Sims -> Simulators]

ConnTypes ==
    /\ maxClients \in Limits
    /\ clients \subseteq Conns
    /\ conn \in [Conns -> {"none", "open", "closed"}]

QueueTypes ==
    /\ broadcast \in Seq(Updates)
    /\ Len(broadcast) <= BufferSize
    /\ owed \subseteq Conns \X (0..MaxSims)
    /\ update \in Updates
    /\ writing \subseteq Conns

DownTypes ==
    /\ spc \in {"serving", "getSimulator", "stop", "stopSend", "stopWait", "closeConns", "wait",
               "closeQueue", "serverClose", "done"}
    /\ sref \in 0..MaxSims
    /\ spc \in {"stop", "stopSend", "stopWait"} => sref # NoSim
    /\ crashed \in BOOLEAN

(* What bounds the counters: the WaitGroup counts the handlers inside, a    *)
(* simulator is only created by a handler that the guard of init counted,   *)
(* and a process is only added by a message.                                *)
Counts ==
    /\ clientWg = AtCount(hpc, Handling)
    /\ created + AtCount(hpc, InitPlaces) <= MaxSims
    /\ AtCount(hpc, {"addProcess"}) <= messages
    /\ \A s \in Sims : sims[s].todo + AtCount(hpc, {"addProcess"}) <= Ticks + messages

HubInv ==
    /\ HandlerTypes
    /\ SimTypes
    /\ ConnTypes
    /\ QueueTypes
    /\ DownTypes
    /\ Counts

----------------------------------------------------------------------------
(* One handler moves: how the number of those in P changes.                 *)
LEMMA HandlerMoves ==
  ASSUME hpc \in [Conns -> Places], NEW c \in Conns, hpc' = [hpc EXCEPT ![c] = hpc'[c]],
         NEW P
  PROVE  /\ AtCount(hpc, P) \in Nat
         /\ AtCount(hpc', P) \in Nat
         /\ hpc[c] \notin P /\ hpc'[c] \in P => AtCount(hpc', P) = AtCount(hpc, P) + 1
         /\ hpc[c] \in P /\ hpc'[c] \notin P => AtCount(hpc', P) = AtCount(hpc, P) - 1
         /\ (hpc[c] \in P <=> hpc'[c] \in P) => AtCount(hpc', P) = AtCount(hpc, P)
<1> DEFINE A == {d \in Conns : hpc[d] \in P}
           B == {d \in Conns : hpc'[d] \in P}
<1>1. \A d \in Conns : d # c => hpc'[d] = hpc[d]
  OBVIOUS
<1>2. AtCount(hpc, P) = Cardinality(A) /\ AtCount(hpc', P) = Cardinality(B)
  BY DEF AtCount
<1>3. IsFiniteSet(A) /\ IsFiniteSet(B)
  BY FS_Subset, HubAssumption
<1>4. Cardinality(A) \in Nat /\ Cardinality(B) \in Nat
  BY <1>3, FS_CardinalityType
<1>5. ASSUME hpc[c] \notin P, hpc'[c] \in P PROVE Cardinality(B) = Cardinality(A) + 1
  <2>1. B = A \cup {c} /\ c \notin A
    BY <1>1, <1>5
  <2> QED BY <1>3, <2>1, FS_AddElement
<1>6. ASSUME hpc[c] \in P, hpc'[c] \notin P PROVE Cardinality(B) = Cardinality(A) - 1
  <2>1. B = A \ {c} /\ c \in A
    BY <1>1, <1>6
  <2> QED BY <1>3, <2>1, FS_RemoveElement
<1>7. ASSUME hpc[c] \in P <=> hpc'[c] \in P PROVE B = A
  BY <1>1, <1>7
<1> QED BY <1>2, <1>4, <1>5, <1>6, <1>7

(* Any number of handlers is a number.                                      *)
LEMMA CountIsNat == \A P : AtCount(hpc, P) \in Nat
<1>1. \A P : IsFiniteSet({c \in Conns : hpc[c] \in P})
  BY FS_Subset, HubAssumption
<1> QED BY <1>1, FS_CardinalityType DEF AtCount

(* The steps that move no handler, create nothing and add no work.          *)
LEMMA CountsStay ==
  ASSUME HubInv, SimTypes', UNCHANGED <<hpc, clientWg, created, messages>>,
         \A s \in Sims : sims'[s].todo <= sims[s].todo
  PROVE  Counts'
<1>1. AtCount(hpc, {"addProcess"}) \in Nat
  BY CountIsNat
<1>2. messages \in Nat /\ Ticks \in Nat
  BY HubAssumption DEF HubInv, HandlerTypes
<1>3. ASSUME NEW s \in Sims
      PROVE  sims'[s].todo + AtCount(hpc, {"addProcess"}) <= Ticks + messages
  <2>1. sims[s].todo \in Nat /\ sims'[s].todo \in Nat
    BY DEF HubInv, SimTypes, Simulators
  <2> QED BY <1>1, <1>2, <2>1 DEF HubInv, Counts
<1> QED BY <1>3 DEF HubInv, Counts

(* The steps of a handler inside HandleWebSocket that neither create a      *)
(* simulator nor add work.                                                  *)
LEMMA CountsMove ==
  ASSUME HubInv, SimTypes', NEW c \in Conns, hpc' = [hpc EXCEPT ![c] = hpc'[c]],
         hpc[c] \in Handling, hpc'[c] \in Handling, hpc'[c] # "addProcess",
         hpc'[c] \in InitPlaces => hpc[c] \in InitPlaces,
         UNCHANGED <<clientWg, created, messages>>,
         \A s \in Sims : sims'[s].todo <= sims[s].todo \/ sims'[s].todo = Ticks
  PROVE  Counts'
<1>0. hpc \in [Conns -> Places]
  BY DEF HubInv, HandlerTypes
<1>1. AtCount(hpc', Handling) = AtCount(hpc, Handling)
  BY <1>0, HandlerMoves
<1>2. /\ AtCount(hpc, InitPlaces) \in Nat /\ AtCount(hpc', InitPlaces) \in Nat
      /\ AtCount(hpc', InitPlaces) <= AtCount(hpc, InitPlaces)
  BY <1>0, HandlerMoves
<1>3. /\ AtCount(hpc, {"addProcess"}) \in Nat /\ AtCount(hpc', {"addProcess"}) \in Nat
      /\ AtCount(hpc', {"addProcess"}) <= AtCount(hpc, {"addProcess"})
  BY <1>0, HandlerMoves
<1>4. messages \in Nat /\ Ticks \in Nat /\ created \in Nat /\ MaxSims \in Nat
  BY HubAssumption DEF HubInv, HandlerTypes, SimTypes
<1>5. ASSUME NEW s \in Sims
      PROVE  sims'[s].todo + AtCount(hpc', {"addProcess"}) <= Ticks + messages
  <2>1. sims[s].todo \in Nat /\ sims'[s].todo \in Nat
    BY DEF HubInv, SimTypes, Simulators
  <2> QED BY <1>3, <1>4, <2>1 DEF HubInv, Counts
<1>6. created + AtCount(hpc', InitPlaces) <= MaxSims
  BY <1>2, <1>4 DEF HubInv, Counts
<1>7. AtCount(hpc', {"addProcess"}) <= messages
  BY <1>3, <1>4 DEF HubInv, Counts
<1> QED BY <1>1, <1>5, <1>6, <1>7 DEF HubInv, Counts

(* What Goto does to the handlers.                                          *)
LEMMA GotoTypes ==
  ASSUME HubInv, NEW c \in Conns, NEW pc \in Places, Goto(c, pc), messages' = messages,
         pc \in UsingPlaces => hpc[c] \in UsingPlaces
  PROVE  HandlerTypes' /\ hpc' = [hpc EXCEPT ![c] = hpc'[c]] /\ hpc'[c] = pc
<1>1. hpc \in [Conns -> Places] /\ ref \in [Conns -> 0..MaxSims] /\ messages \in 0..MaxMessages
  BY DEF HubInv, HandlerTypes
<1>2. hpc' = [hpc EXCEPT ![c] = pc] /\ (ref' = ref \/ (pc = "read" /\ ref' = [ref EXCEPT ![c] = NoSim]))
  BY DEF Goto
<1>3. hpc' \in [Conns -> Places] /\ hpc' = [hpc EXCEPT ![c] = hpc'[c]] /\ hpc'[c] = pc
  BY <1>1, <1>2
<1>4. ref' \in [Conns -> 0..MaxSims]
  BY <1>1, <1>2, HubAssumption DEF NoSim
<1>5. ASSUME NEW d \in Conns, hpc'[d] \in UsingPlaces PROVE ref'[d] # NoSim
  <2>1. hpc[d] \in UsingPlaces
    BY <1>1, <1>2, <1>5
  <2>2. ref'[d] = ref[d]
    <3>1. CASE ref' = ref
      BY <3>1
    <3>2. CASE pc = "read" /\ ref' = [ref EXCEPT ![c] = NoSim]
      <4>1. d # c
        BY <1>3, <1>5, <3>2 DEF UsingPlaces
      <4> QED BY <1>1, <3>2, <4>1
    <3> QED BY <1>2, <3>1, <3>2
  <2> QED BY <2>1, <2>2 DEF HubInv, HandlerTypes
<1> QED BY <1>1, <1>3, <1>4, <1>5 DEF HandlerTypes

(* The steps of a handler that stays inside HandleWebSocket.                *)
LEMMA HandlerInside ==
  ASSUME HubInv, NEW c \in Conns, NEW pc \in Handling \ {"addProcess"}, Goto(c, pc),
         hpc[c] \in Handling,
         pc \in InitPlaces => hpc[c] \in InitPlaces,
         pc \in UsingPlaces => hpc[c] \in UsingPlaces,
         UNCHANGED <<clientWg, created, messages>>,
         SimTypes', ConnTypes', QueueTypes', DownTypes',
         \A s \in Sims : sims'[s].todo <= sims[s].todo \/ sims'[s].todo = Ticks
  PROVE  HubInv'
<1>1. HandlerTypes' /\ hpc' = [hpc EXCEPT ![c] = hpc'[c]] /\ hpc'[c] = pc
  BY GotoTypes DEF Places
<1>2. Counts'
  BY <1>1, CountsMove
<1> QED BY <1>1, <1>2 DEF HubInv

(* The steps in which no handler moves.                                     *)
LEMMA HandlersStay ==
  ASSUME HubInv, UNCHANGED <<hpc, ref, clientWg, created, messages>>,
         SimTypes', ConnTypes', QueueTypes', DownTypes',
         \A s \in Sims : sims'[s].todo <= sims[s].todo
  PROVE  HubInv'
<1>1. HandlerTypes'
  BY DEF HubInv, HandlerTypes
<1>2. Counts'
  BY CountsStay
<1> QED BY <1>1, <1>2 DEF HubInv

(* The first part of Stop keeps the simulator's type and its work.          *)
LEMMA StoppedTyped ==
  ASSUME NEW sim \in Simulators
  PROVE  Stopped(sim) \in Simulators /\ Stopped(sim).todo = sim.todo /\ Stopped(sim).run = sim.run
         /\ Stopped(sim).state = "idle"
BY DEF Stopped, Simulators

(* What the sends do to the queue, whichever branch the select takes.       *)
LEMMA SendTyped ==
  ASSUME HubInv, NEW u \in Updates, Send(u), UNCHANGED castVars
  PROVE  QueueTypes'
<1>1. CASE /\ Len(broadcast) < BufferSize
           /\ broadcast' = Append(broadcast, u)
           /\ owed' = IF u.final THEN owed \cup (clients \X {u.sim}) ELSE owed
  <2>1. broadcast' \in Seq(Updates) /\ Len(broadcast') = Len(broadcast) + 1
    BY <1>1 DEF HubInv, QueueTypes
  <2>2. Len(broadcast') <= BufferSize
    BY <1>1, <2>1, HubAssumption DEF HubInv, QueueTypes
  <2>3. owed' \subseteq Conns \X (0..MaxSims)
    BY <1>1 DEF HubInv, QueueTypes, ConnTypes, Updates
  <2> QED BY <2>1, <2>2, <2>3 DEF HubInv, QueueTypes, castVars
<1>2. CASE UNCHANGED queueVars
  BY <1>2 DEF HubInv, QueueTypes, castVars, queueVars
<1> QED BY <1>1, <1>2 DEF Send

LEMMA UpdatesTyped ==
  ASSUME NEW s \in 0..MaxSims
  PROVE  Update(s) \in Updates /\ FinalUpdate(s) \in Updates /\ NoUpdate \in Updates
BY HubAssumption DEF Update, FinalUpdate, NoUpdate, NoSim, Updates

----------------------------------------------------------------------------
(* One simulator changes: its goroutine g moves, and its state and its work *)
(* may change with it.                                                      *)
LEMMA SimChanges ==
  ASSUME sims \in [Sims -> Simulators], NEW s \in Sims, NEW t \in Simulators,
         sims' = [sims EXCEPT ![s] = t], t.todo <= sims[s].todo
  PROVE  sims' \in [Sims -> Simulators] /\ \A q \in Sims : sims'[q].todo <= sims[q].todo
<1>1. sims' \in [Sims -> Simulators]
  OBVIOUS
<1>2. ASSUME NEW q \in Sims PROVE sims'[q].todo <= sims[q].todo
  <2>1. sims[q].todo \in Nat
    BY DEF Simulators
  <2>2. CASE q = s
    BY <2>2
  <2>3. CASE q # s
    BY <2>1, <2>3
  <2> QED BY <2>2, <2>3
<1> QED BY <1>1, <1>2

(* The run goroutines.                                                      *)
LEMMA RunTyped ==
  ASSUME HubInv, NEW s \in Sims, NEW g \in Runs, RunStep(s, g)
  PROVE  HubInv'
<1>0. /\ sims \in [Sims -> Simulators] /\ s \in 0..MaxSims
      /\ sims[s].todo \in Nat /\ \A q \in Sims : sims[q].todo \in Nat
  BY DEF HubInv, SimTypes, Sims, Simulators
<1>1. ASSUME UNCHANGED <<simulator, created, connVars, handlers, castVars, downVars>>,
             sims' \in [Sims -> Simulators], QueueTypes', crashed' \in BOOLEAN,
             \A q \in Sims : sims'[q].todo <= sims[q].todo
      PROVE  HubInv'
  <2>1. SimTypes' /\ ConnTypes' /\ DownTypes'
    BY <1>1 DEF HubInv, SimTypes, ConnTypes, DownTypes, connVars, downVars
  <2> QED BY <1>1, <2>1, HandlersStay DEF connVars, handlers
<1>2. crashed \in BOOLEAN
  BY DEF HubInv, DownTypes
<1>3. UNCHANGED <<queueVars, castVars>> => QueueTypes'
  BY DEF HubInv, QueueTypes, queueVars, castVars
<1>4. CASE TakeStop(s, g)
  <2>1. sims' \in [Sims -> Simulators] /\ \A q \in Sims : sims'[q].todo <= sims[q].todo
    BY <1>0, <1>4 DEF TakeStop, Simulators
  <2> QED BY <1>1, <1>2, <1>3, <1>4, <2>1 DEF TakeStop
<1>5. CASE Tick(s, g)
  <2> DEFINE t == [sims[s] EXCEPT !.run = [sims[s].run EXCEPT ![g] = "execute"]]
  <2>1. t \in Simulators /\ t.todo <= sims[s].todo
    BY <1>0 DEF Simulators
  <2>2. sims' = [sims EXCEPT ![s] = t]
    BY <1>0, <1>5 DEF Tick, RunTo, Simulators
  <2>3. sims' \in [Sims -> Simulators] /\ \A q \in Sims : sims'[q].todo <= sims[q].todo
    BY <1>0, <2>1, <2>2, SimChanges
  <2> QED BY <1>1, <1>2, <1>3, <1>5, <2>3 DEF Tick
<1>6. CASE RunExecute(s, g)
  <2> DEFINE runs == [sims[s].run EXCEPT ![g] = "send"]
             t == [sims[s] EXCEPT !.run = runs, !.todo = Executed(sims[s].todo)]
  <2>0. /\ runs \in [Runs -> {"none", "loop", "execute", "send", "complete", "last"}]
        /\ Executed(sims[s].todo) \in Nat /\ Executed(sims[s].todo) <= sims[s].todo
    BY <1>0 DEF Simulators, Executed
  <2>1. t \in Simulators /\ t.todo <= sims[s].todo
    BY <1>0, <2>0 DEF Simulators
  <2>2. sims' = [sims EXCEPT ![s] = t]
    BY <1>0, <1>6 DEF RunExecute, Simulators
  <2>3. sims' \in [Sims -> Simulators] /\ \A q \in Sims : sims'[q].todo <= sims[q].todo
    BY <1>0, <2>1, <2>2, SimChanges
  <2> QED BY <1>1, <1>2, <1>3, <1>6, <2>3 DEF RunExecute
<1>7. CASE RunSend(s, g)
  <2> DEFINE t == [sims[s] EXCEPT !.run = [sims[s].run EXCEPT ![g] = IF sims[s].todo = 0 THEN "complete" ELSE "loop"]]
  <2>1. t \in Simulators /\ t.todo <= sims[s].todo
    BY <1>0 DEF Simulators
  <2>2. sims' = [sims EXCEPT ![s] = t]
    BY <1>0, <1>7 DEF RunSend, RunTo, Simulators
  <2>3. sims' \in [Sims -> Simulators] /\ \A q \in Sims : sims'[q].todo <= sims[q].todo
    BY <1>0, <2>1, <2>2, SimChanges
  <2>4. QueueTypes'
    BY <1>0, <1>7, SendTyped, UpdatesTyped DEF RunSend
  <2> QED BY <1>1, <1>2, <1>7, <2>3, <2>4 DEF RunSend
<1>8. CASE RunComplete(s, g)
  <2> DEFINE runs == [sims[s].run EXCEPT ![g] = "last"]
             t == [sims[s] EXCEPT !.state = "complete", !.run = runs]
  <2>0. runs \in [Runs -> {"none", "loop", "execute", "send", "complete", "last"}]
    BY <1>0 DEF Simulators
  <2>1. t \in Simulators /\ t.todo <= sims[s].todo
    <3> HIDE DEF runs
    <3>1. t.todo = sims[s].todo
      BY <1>0 DEF Simulators
    <3>2. t \in Simulators
      BY <1>0, <2>0 DEF Simulators
    <3> QED BY <1>0, <3>1, <3>2
  <2>2. sims' = [sims EXCEPT ![s] = t]
    BY <1>0, <1>8 DEF RunComplete, Simulators
  <2>3. sims' \in [Sims -> Simulators] /\ \A q \in Sims : sims'[q].todo <= sims[q].todo
    BY <1>0, <2>1, <2>2, SimChanges
  <2> QED BY <1>1, <1>2, <1>3, <1>8, <2>3 DEF RunComplete
<1>9. CASE RunLast(s, g)
  <2> DEFINE t == [sims[s] EXCEPT !.run = [sims[s].run EXCEPT ![g] = "none"]]
  <2>1. t \in Simulators /\ t.todo <= sims[s].todo
    BY <1>0 DEF Simulators
  <2>2. sims' = [sims EXCEPT ![s] = t]
    BY <1>0, <1>9 DEF RunLast, RunTo, Simulators
  <2>3. sims' \in [Sims -> Simulators] /\ \A q \in Sims : sims'[q].todo <= sims[q].todo
    BY <1>0, <2>1, <2>2, SimChanges
  <2>4. QueueTypes'
    BY <1>0, <1>9, SendTyped, UpdatesTyped DEF RunLast
  <2> QED BY <1>1, <1>2, <1>9, <2>3, <2>4 DEF RunLast
<1>10. CASE RunPanics(s, g)
  BY <1>0, <1>1, <1>3, <1>10 DEF RunPanics, simVars
<1> QED BY <1>4, <1>5, <1>7, <1>8, <1>9, <1>10, <1>6 DEF RunStep

(* handleBroadcasts and Shutdown.                                           *)
LEMMA BroadcastTyped ==
  ASSUME HubInv, BroadcastStep
  PROVE  HubInv'
<1>0. sims \in [Sims -> Simulators] /\ \A q \in Sims : sims[q].todo \in Nat
  BY DEF HubInv, SimTypes, Simulators
<1>1. ASSUME UNCHANGED <<simVars, handlers, downVars, crashed, maxClients, clientWg>>,
             clients' \subseteq clients, conn' \in [Conns -> {"none", "open", "closed"}],
             QueueTypes'
      PROVE  HubInv'
  <2>1. SimTypes' /\ ConnTypes' /\ DownTypes' /\ sims' = sims
    BY <1>1 DEF HubInv, SimTypes, ConnTypes, DownTypes, simVars, downVars
  <2> QED BY <1>0, <1>1, <2>1, HandlersStay DEF simVars, handlers
<1>2. NoUpdate \in Updates
  BY UpdatesTyped, HubAssumption DEF NoUpdate, NoSim, Updates
<1>3. conn \in [Conns -> {"none", "open", "closed"}] /\ clients \subseteq Conns
  BY DEF HubInv, ConnTypes
<1>4. CASE TakeUpdate
  <2>1. broadcast \in Seq(Updates) /\ broadcast # <<>> /\ Len(broadcast) \in Nat
    BY <1>4 DEF TakeUpdate, HubInv, QueueTypes
  <2>2. /\ Tail(broadcast) \in Seq(Updates) /\ Len(Tail(broadcast)) = Len(broadcast) - 1
        /\ Head(broadcast) \in Updates
    BY <2>1, HeadTailProperties
  <2>3. QueueTypes'
    BY <1>2, <1>3, <1>4, <2>1, <2>2, HubAssumption DEF TakeUpdate, HubInv, QueueTypes
  <2> QED BY <1>1, <1>3, <1>4, <2>3 DEF TakeUpdate, connVars
<1>5. ASSUME NEW c \in Conns, Write(c) PROVE HubInv'
  <2>1. QueueTypes'
    BY <1>2, <1>5 DEF Write, Written, HubInv, QueueTypes
  <2> QED BY <1>1, <1>3, <1>5, <2>1 DEF Write, connVars
<1>6. ASSUME NEW c \in Conns, WriteFails(c) PROVE HubInv'
  <2>1. QueueTypes'
    BY <1>2, <1>6 DEF WriteFails, Written, Remove, HubInv, QueueTypes
  <2>2. clients' \subseteq clients /\ conn' \in [Conns -> {"none", "open", "closed"}]
    BY <1>3, <1>6 DEF WriteFails, Remove
  <2> QED BY <1>1, <1>6, <2>1, <2>2 DEF WriteFails
<1> QED BY <1>4, <1>5, <1>6 DEF BroadcastStep

LEMMA ShutdownTyped ==
  ASSUME HubInv, ShutdownBegins \/ ShutdownStep
  PROVE  HubInv'
<1>0. /\ sims \in [Sims -> Simulators] /\ \A q \in Sims : sims[q].todo \in Nat
      /\ created \in Nat /\ simulator \in 0..created
      /\ conn \in [Conns -> {"none", "open", "closed"}] /\ clients \subseteq Conns
  BY DEF HubInv, SimTypes, Simulators, ConnTypes
<1>1. simulator \in 0..MaxSims
  <2>1. AtCount(hpc, InitPlaces) \in Nat
    BY CountIsNat
  <2> QED BY <1>0, <2>1, HubAssumption DEF HubInv, Counts
<1>2. ASSUME UNCHANGED <<simulator, created, maxClients, clientWg, handlers, broadcast, castVars, crashed>>,
             clients' \subseteq clients, conn' \in [Conns -> {"none", "open", "closed"}],
             owed' \subseteq owed, sims' \in [Sims -> Simulators], DownTypes',
             \A q \in Sims : sims'[q].todo = sims[q].todo
      PROVE  HubInv'
  <2>1. SimTypes' /\ ConnTypes' /\ QueueTypes'
    BY <1>2 DEF HubInv, SimTypes, ConnTypes, QueueTypes, castVars
  <2>2. \A q \in Sims : sims'[q].todo <= sims[q].todo
    BY <1>0, <1>2
  <2> QED BY <1>2, <2>1, <2>2, HandlersStay DEF handlers
<1>3. CASE ShutdownGetSimulator
  <2>1. DownTypes'
    BY <1>1, <1>3 DEF ShutdownGetSimulator, HubInv, DownTypes
  <2> QED BY <1>0, <1>2, <1>3, <2>1 DEF ShutdownGetSimulator, simVars, connVars, queueVars
<1>4. CASE ShutdownStop
  <2>1. sref \in Sims
    BY <1>4 DEF ShutdownStop, HubInv, DownTypes, Sims, NoSim
  <2>2. Stopped(sims[sref]) \in Simulators /\ Stopped(sims[sref]).todo = sims[sref].todo
    BY <1>0, <2>1, StoppedTyped
  <2>3. sims' \in [Sims -> Simulators] /\ \A q \in Sims : sims'[q].todo = sims[q].todo
    BY <1>0, <1>4, <2>1, <2>2 DEF ShutdownStop
  <2>4. spc' \in {"stopSend", "stopWait", "closeConns"} /\ UNCHANGED <<sref, crashed>>
    <3>1. sims[sref].state \in {"idle", "running", "paused", "complete"}
      BY <1>0, <2>1 DEF Simulators
    <3> QED BY <1>4, <3>1 DEF ShutdownStop, AfterStopped
  <2>5. DownTypes'
    BY <2>1, <2>4 DEF HubInv, DownTypes, Sims, NoSim
  <2> QED BY <1>0, <1>2, <1>4, <2>3, <2>5 DEF ShutdownStop, connVars, queueVars
<1>5. CASE ShutdownCloseConns
  <2>1. conn' \in [Conns -> {"none", "open", "closed"}]
    BY <1>0, <1>5 DEF ShutdownCloseConns
  <2>2. DownTypes'
    BY <1>5 DEF ShutdownCloseConns, HubInv, DownTypes
  <2>3. clients' \subseteq clients /\ owed' \subseteq owed
    BY <1>5 DEF ShutdownCloseConns, Remove
  <2> QED BY <1>0, <1>2, <1>5, <2>1, <2>2, <2>3 DEF ShutdownCloseConns, simVars
<1>6. CASE \/ ShutdownBegins \/ ShutdownStopWait \/ ShutdownWait \/ ShutdownCloseQueue
           \/ ShutdownServerClose
  <2>1. DownTypes'
    BY <1>6 DEF ShutdownBegins, ShutdownStopWait, ShutdownWait, ShutdownCloseQueue,
                ShutdownServerClose, HubInv, DownTypes
  <2> QED BY <1>0, <1>2, <1>6, <2>1
          DEF ShutdownBegins, ShutdownStopWait, ShutdownWait, ShutdownCloseQueue,
              ShutdownServerClose, simVars, connVars, queueVars
<1>7. CASE ShutdownStopSend
  <2>1. sref \in Sims
    BY <1>7 DEF ShutdownStopSend, HubInv, DownTypes, Sims, NoSim
  <2> DEFINE t == [sims[sref] EXCEPT !.stop = 1]
  <2>2. sims' = [sims EXCEPT ![sref] = t]
    BY <1>0, <1>7, <2>1 DEF ShutdownStopSend, Simulators
  <2>3. t \in Simulators /\ t.todo = sims[sref].todo
    BY <1>0, <2>1 DEF Simulators
  <2> HIDE DEF t
  <2>4. sims' \in [Sims -> Simulators] /\ \A q \in Sims : sims'[q].todo = sims[q].todo
    BY <1>0, <2>1, <2>2, <2>3
  <2>5. DownTypes'
    BY <1>7 DEF ShutdownStopSend, HubInv, DownTypes
  <2> QED BY <1>0, <1>2, <1>7, <2>4, <2>5 DEF ShutdownStopSend, connVars, queueVars
<1> QED BY <1>3, <1>4, <1>5, <1>6, <1>7 DEF ShutdownStep

----------------------------------------------------------------------------
(* HandleWebSocket up to its reader loop, and its ways out.                 *)
LEMMA ConnectionTyped ==
  ASSUME HubInv, NEW c \in Conns,
         Connect(c) \/ Upgrade(c) \/ Register(c) \/ ReadFails(c) \/ Cleanup(c) \/ PeerLeaves(c)
  PROVE  HubInv'
<1>0. /\ sims \in [Sims -> Simulators] /\ \A q \in Sims : sims[q].todo \in Nat
      /\ conn \in [Conns -> {"none", "open", "closed"}] /\ clients \subseteq Conns
      /\ hpc \in [Conns -> Places]
      /\ created \in Nat /\ messages \in Nat /\ Ticks \in Nat /\ MaxSims \in Nat
  BY HubAssumption DEF HubInv, SimTypes, Simulators, ConnTypes, HandlerTypes
\* A handler enters or leaves: the WaitGroup follows.
<1>1. ASSUME UNCHANGED <<simVars, maxClients, messages, broadcast, castVars, downVars, crashed>>,
             conn' \in [Conns -> {"none", "open", "closed"}], clients' \subseteq Conns,
             owed' \subseteq owed,
             \/ hpc[c] = "none" /\ Goto(c, "upgrade") /\ clientWg' = clientWg + 1
             \/ hpc[c] \in {"upgrade", "register", "cleanup"} /\ Return(c)
      PROVE  HubInv'
  <2>1. SimTypes' /\ ConnTypes' /\ QueueTypes' /\ DownTypes' /\ sims' = sims
    BY <1>1 DEF HubInv, SimTypes, ConnTypes, QueueTypes, DownTypes, simVars, castVars, downVars
  <2>2. PICK pc \in {"upgrade", "returned"} : Goto(c, pc)
    BY <1>1 DEF Return
  <2>3. HandlerTypes' /\ hpc' = [hpc EXCEPT ![c] = hpc'[c]] /\ hpc'[c] = pc
    BY <1>1, <2>2, GotoTypes DEF Places, Handling, LoopPlaces, UsingPlaces
  <2>4. hpc[c] \notin InitPlaces /\ hpc'[c] \notin InitPlaces
        /\ hpc[c] # "addProcess" /\ hpc'[c] # "addProcess"
    BY <1>1, <2>3 DEF InitPlaces
  <2>5. /\ AtCount(hpc', InitPlaces) = AtCount(hpc, InitPlaces)
        /\ AtCount(hpc', {"addProcess"}) = AtCount(hpc, {"addProcess"})
    BY <1>0, <2>3, <2>4, HandlerMoves
  <2>6. clientWg' = AtCount(hpc', Handling)
    <3>1. CASE hpc[c] = "none" /\ Goto(c, "upgrade") /\ clientWg' = clientWg + 1
      <4>1. hpc[c] \notin Handling /\ hpc'[c] \in Handling
        BY <1>0, <3>1 DEF Goto, Handling, LoopPlaces, UsingPlaces
      <4> QED BY <1>0, <2>3, <3>1, <4>1, HandlerMoves DEF HubInv, Counts
    <3>2. CASE hpc[c] \in {"upgrade", "register", "cleanup"} /\ Return(c)
      <4>1. hpc[c] \in Handling /\ hpc'[c] \notin Handling
        BY <1>0, <3>2 DEF Return, Goto, Handling, LoopPlaces, UsingPlaces
      <4> QED BY <1>0, <2>3, <3>2, <4>1, HandlerMoves DEF HubInv, Counts, Return
    <3> QED BY <1>1, <3>1, <3>2
  <2>7. Counts'
    BY <1>1, <2>1, <2>5, <2>6 DEF HubInv, Counts, simVars
  <2> QED BY <2>1, <2>3, <2>7 DEF HubInv
\* A handler goes on.
<1>2. ASSUME NEW pc \in {"register", "read", "cleanup"}, Goto(c, pc),
             hpc[c] \in {"upgrade", "register", "read"},
             UNCHANGED <<simVars, maxClients, clientWg, messages, queueVars, castVars, downVars, crashed>>,
             conn' \in [Conns -> {"none", "open", "closed"}], clients' \subseteq Conns
      PROVE  HubInv'
  <2>1. SimTypes' /\ ConnTypes' /\ QueueTypes' /\ DownTypes' /\ sims' = sims /\ created' = created
    BY <1>2 DEF HubInv, SimTypes, ConnTypes, QueueTypes, DownTypes, simVars, queueVars, castVars, downVars
  <2>2. /\ pc \in Handling \ {"addProcess"} /\ pc \notin InitPlaces /\ pc \notin UsingPlaces
        /\ hpc[c] \in Handling
    BY <1>2 DEF Handling, LoopPlaces, UsingPlaces, InitPlaces
  <2> QED BY <1>0, <1>2, <2>1, <2>2, HandlerInside
<1>3. CASE Connect(c)
  BY <1>0, <1>1, <1>3 DEF Connect, queueVars
<1>4. CASE Upgrade(c)
  <2>1. CASE Return(c) /\ UNCHANGED conn
    BY <1>0, <1>1, <1>4, <2>1 DEF Upgrade, queueVars
  <2>2. CASE conn' = [conn EXCEPT ![c] = "open"] /\ Goto(c, "register") /\ UNCHANGED clientWg
    BY <1>0, <1>2, <1>4, <2>2 DEF Upgrade
  <2> QED BY <1>4, <2>1, <2>2 DEF Upgrade
<1>5. CASE Register(c)
  <2>1. CASE conn' = [conn EXCEPT ![c] = "closed"] /\ Return(c) /\ UNCHANGED clients
    BY <1>0, <1>1, <1>5, <2>1 DEF Register, queueVars
  <2>2. CASE clients' = clients \cup {c} /\ Goto(c, "read") /\ UNCHANGED <<conn, clientWg>>
    BY <1>0, <1>2, <1>5, <2>2 DEF Register
  <2> QED BY <1>5, <2>1, <2>2 DEF Register
<1>6. CASE ReadFails(c)
  BY <1>0, <1>2, <1>6 DEF ReadFails, connVars
<1>7. CASE Cleanup(c)
  BY <1>0, <1>1, <1>7 DEF Cleanup, Remove
<1>8. CASE PeerLeaves(c)
  <2>1. SimTypes' /\ QueueTypes' /\ DownTypes' /\ sims' = sims
    BY <1>8 DEF PeerLeaves, HubInv, SimTypes, QueueTypes, DownTypes, simVars, queueVars, castVars, downVars
  <2>2. ConnTypes'
    BY <1>8 DEF PeerLeaves, HubInv, ConnTypes
  <2> QED BY <1>0, <1>8, <2>1, <2>2, HandlersStay DEF PeerLeaves, simVars, handlers
<1> QED BY <1>3, <1>4, <1>5, <1>6, <1>7, <1>8

----------------------------------------------------------------------------
(* A message is read: the handler is counted by the guard of init, or the   *)
(* message by messages.                                                     *)
LEMMA MessageTyped ==
  ASSUME HubInv, NEW c \in Conns, NEW message \in Command \cup {"init"}, Message(c, message)
  PROVE  HubInv'
<1>0. /\ hpc \in [Conns -> Places] /\ ref \in [Conns -> 0..MaxSims]
      /\ created \in Nat /\ simulator \in 0..created /\ Ticks \in Nat /\ MaxSims \in Nat
      /\ messages \in Nat /\ MaxMessages \in Nat /\ \A q \in Sims : sims[q].todo \in Nat
  BY HubAssumption DEF HubInv, SimTypes, Simulators, HandlerTypes
<1>1. \A P : AtCount(hpc, P) \in Nat
  BY CountIsNat
<1>2. simulator \in 0..MaxSims
  BY <1>0, <1>1 DEF HubInv, Counts
<1>3. PICK pc \in Command \cup {"init", "initAssign"} :
        /\ hpc' = [hpc EXCEPT ![c] = pc]
        /\ pc = "initAssign" \/ simulator # NoSim
        /\ pc \in InitPlaces => created + Cardinality(Initializing) < MaxSims
  BY DEF Message, Command, InitPlaces
<1>4. /\ hpc[c] = "read" /\ messages < MaxMessages /\ messages' = messages + 1
      /\ ref' = [ref EXCEPT ![c] = simulator] /\ sims' = sims /\ created' = created
      /\ clientWg' = clientWg
  BY DEF Message, simVars, connVars
<1>5. pc \in Handling /\ (pc # "initAssign" => pc \in UsingPlaces)
      /\ hpc[c] \in Handling /\ hpc[c] \notin InitPlaces /\ hpc[c] # "addProcess"
  BY <1>3, <1>4 DEF Command, Handling, LoopPlaces, UsingPlaces, InitPlaces
<1>6. HandlerTypes'
  <2>1. hpc' \in [Conns -> Places] /\ ref' \in [Conns -> 0..MaxSims] /\ messages' \in 0..MaxMessages
    BY <1>0, <1>2, <1>3, <1>4, <1>5 DEF Places
  <2>2. ASSUME NEW d \in Conns, hpc'[d] \in UsingPlaces PROVE ref'[d] # NoSim
    <3>1. CASE d = c
      BY <1>0, <1>3, <1>4, <2>2, <3>1 DEF UsingPlaces
    <3>2. CASE d # c
      BY <1>0, <1>3, <1>4, <2>2, <3>2 DEF HubInv, HandlerTypes
    <3> QED BY <3>1, <3>2
  <2> QED BY <2>1, <2>2 DEF HandlerTypes
<1>7. SimTypes' /\ ConnTypes' /\ QueueTypes' /\ DownTypes'
  BY DEF Message, HubInv, SimTypes, ConnTypes, QueueTypes, DownTypes, simVars, connVars,
         queueVars, castVars, downVars
<1>8. Counts'
  <2>1. hpc' = [hpc EXCEPT ![c] = hpc'[c]] /\ hpc'[c] = pc
    BY <1>0, <1>3
  <2>2. AtCount(hpc', Handling) = AtCount(hpc, Handling)
    BY <1>0, <1>5, <2>1, HandlerMoves
  <2>3. created + AtCount(hpc', InitPlaces) <= MaxSims
    <3>1. CASE pc \in InitPlaces
      <4>1. AtCount(hpc', InitPlaces) = AtCount(hpc, InitPlaces) + 1
        BY <1>0, <1>5, <2>1, <3>1, HandlerMoves
      <4>2. AtCount(hpc, InitPlaces) = Cardinality(Initializing)
        BY DEF AtCount, Initializing, InitPlaces
      <4> QED BY <1>0, <1>1, <1>3, <3>1, <4>1, <4>2
    <3>2. CASE pc \notin InitPlaces
      <4>1. AtCount(hpc', InitPlaces) = AtCount(hpc, InitPlaces)
        BY <1>0, <1>5, <2>1, <3>2, HandlerMoves
      <4> QED BY <4>1 DEF HubInv, Counts
    <3> QED BY <3>1, <3>2
  <2>4. /\ AtCount(hpc', {"addProcess"}) \in Nat
        /\ AtCount(hpc', {"addProcess"}) <= AtCount(hpc, {"addProcess"}) + 1
    BY <1>0, <1>1, <1>5, <2>1, HandlerMoves
  <2>5. AtCount(hpc', {"addProcess"}) <= messages + 1
    BY <1>0, <1>1, <2>4 DEF HubInv, Counts
  <2>6. ASSUME NEW s \in Sims
        PROVE  sims[s].todo + AtCount(hpc', {"addProcess"}) <= Ticks + (messages + 1)
    <3>1. sims[s].todo + AtCount(hpc, {"addProcess"}) <= Ticks + messages
      BY DEF HubInv, Counts
    <3> QED BY <1>0, <1>1, <2>4, <3>1
  <2> QED BY <1>4, <2>2, <2>3, <2>5, <2>6 DEF HubInv, Counts
<1> QED BY <1>6, <1>7, <1>8 DEF HubInv

(* A command acts on the simulator the handler read.                        *)
LEMMA CommandTyped ==
  ASSUME HubInv, NEW c \in Conns, NEW pc \in Handling \ {"addProcess"}, Goto(c, pc),
         hpc[c] \in UsingPlaces,
         pc \in InitPlaces => hpc[c] \in InitPlaces,
         UNCHANGED <<simulator, created, connVars, messages, castVars, downVars, crashed>>,
         sims' \in [Sims -> Simulators], QueueTypes',
         \A s \in Sims : sims'[s].todo <= sims[s].todo \/ sims'[s].todo = Ticks
  PROVE  HubInv'
<1>1. SimTypes' /\ ConnTypes' /\ DownTypes' /\ clientWg' = clientWg /\ created' = created
  BY DEF HubInv, SimTypes, ConnTypes, DownTypes, connVars, downVars
<1>2. hpc[c] \in Handling
  BY DEF Handling, LoopPlaces
<1> QED BY <1>1, <1>2, HandlerInside

(* Commands that change the simulator.                                      *)
LEMMA SimCommandsTyped ==
  ASSUME HubInv, NEW c \in Conns,
         \/ Start(c) \/ PauseResume(c) \/ Stop(c) \/ StopSend(c) \/ ResetDrain(c)
         \/ ResetState(c) \/ Step(c) \/ StepExecute(c) \/ StepComplete(c)
  PROVE  HubInv'
<1> DEFINE s == ref[c]
<1>0. /\ sims \in [Sims -> Simulators]
      /\ \A q \in Sims : sims[q] \in Simulators /\ sims[q].todo \in Nat
  BY DEF HubInv, SimTypes, Simulators
<1>1. hpc[c] \in UsingPlaces
  BY DEF Start, PauseResume, Stop, StopSend, ResetDrain, ResetState, Step, StepExecute,
         StepComplete, UsingPlaces
<1>2. s \in Sims
  BY <1>1, HubAssumption DEF HubInv, HandlerTypes, Sims, NoSim
<1>3. UNCHANGED <<queueVars, castVars>> => QueueTypes'
  BY DEF HubInv, QueueTypes, queueVars, castVars
<1>4. ASSUME NEW t \in Simulators, sims' = [sims EXCEPT ![s] = t],
             t.todo <= sims[s].todo \/ t.todo = Ticks
      PROVE  /\ sims' \in [Sims -> Simulators]
             /\ \A q \in Sims : sims'[q].todo <= sims[q].todo \/ sims'[q].todo = Ticks
  <2>1. ASSUME NEW q \in Sims PROVE sims'[q].todo <= sims[q].todo \/ sims'[q].todo = Ticks
    <3>1. CASE q = s
      BY <1>0, <1>2, <1>4, <3>1
    <3>2. CASE q # s
      BY <1>0, <1>2, <1>4, <3>2
    <3> QED BY <3>1, <3>2
  <2> QED BY <1>0, <1>2, <1>4, <2>1
<1>5. /\ {"read", "resetSend", "resetWait", "resetDrain", "resetState", "stopSend", "stopWait",
          "push", "stepExecute", "stepSend", "stepLast"}
              \subseteq Handling \ ({"addProcess"} \cup InitPlaces)
      /\ {"initAssign", "initSend", "initWait"} \subseteq Handling \ {"addProcess"}
  BY DEF Handling, LoopPlaces, UsingPlaces, InitPlaces
<1>6. CASE Start(c)
  <2>1. CASE Live(s) # Runs /\ LET g == CHOOSE g \in Runs \ Live(s) : TRUE IN
             sims' = [sims EXCEPT ![s].state = "running", ![s].run[g] = "loop"]
    <3> DEFINE g == CHOOSE g \in Runs \ Live(s) : TRUE
               runs == [sims[s].run EXCEPT ![g] = "loop"]
               t == [sims[s] EXCEPT !.state = "running", !.run = runs]
    <3>1. g \in Runs
      BY <2>1 DEF Live
    <3>2. sims' = [sims EXCEPT ![s].state = "running", ![s].run[g] = "loop"]
      BY <2>1
    <3> HIDE DEF g, s
    <3>3. sims' = [sims EXCEPT ![s] = t]
      BY <1>0, <1>2, <3>1, <3>2 DEF Simulators
    <3>4. runs \in [Runs -> {"none", "loop", "execute", "send", "complete", "last"}]
      BY <1>0, <1>2, <3>1 DEF Simulators
    <3> HIDE DEF runs
    <3>5. t \in Simulators /\ t.todo = sims[s].todo
      BY <1>0, <1>2, <3>4 DEF Simulators
    <3>6. t.todo <= sims[s].todo
      BY <1>0, <1>2, <3>5
    <3> HIDE DEF t
    <3> QED BY <1>1, <1>3, <1>4, <1>5, <1>6, <3>3, <3>5, <3>6, CommandTyped DEF Start
  <2>2. CASE UNCHANGED sims
    BY <1>0, <1>1, <1>3, <1>5, <1>6, <2>2, CommandTyped DEF Start
  <2> QED BY <1>6, <2>1, <2>2 DEF Start
<1>7. CASE PauseResume(c)
  <2> DEFINE st == IF hpc[c] = "pause" /\ sims[s].state = "running" THEN "paused"
                   ELSE IF hpc[c] = "resume" /\ sims[s].state = "paused" THEN "running"
                   ELSE sims[s].state
             t == [sims[s] EXCEPT !.state = st]
  <2>1. sims' = [sims EXCEPT ![s] = t]
    BY <1>0, <1>2, <1>7 DEF PauseResume, Simulators
  <2>2. t \in Simulators /\ t.todo = sims[s].todo
    BY <1>0, <1>2 DEF Simulators
  <2>3. t.todo <= sims[s].todo
    BY <1>0, <1>2, <2>2
  <2> HIDE DEF t
  <2> QED BY <1>1, <1>3, <1>4, <1>5, <1>7, <2>1, <2>2, <2>3, CommandTyped DEF PauseResume
<1>8. CASE Stop(c)
  <2> DEFINE t == Stopped(sims[s])
  <2>1. sims' = [sims EXCEPT ![s] = t]
    BY <1>8 DEF Stop
  <2>2. t \in Simulators /\ t.todo <= sims[s].todo
    BY <1>0, <1>2, StoppedTyped
  <2>3. sims[s].state \in {"idle", "running", "paused", "complete"}
    BY <1>0, <1>2 DEF Simulators
  <2>4. PICK pc \in {"initAssign", "initSend", "initWait", "read", "resetDrain", "resetSend",
                     "resetWait", "stopSend", "stopWait"} :
          Goto(c, pc) /\ (pc \in {"initAssign", "initSend", "initWait"} => hpc[c] = "init")
    BY <1>8, <2>3 DEF Stop, AfterStopped
  <2>5. pc \in Handling \ {"addProcess"} /\ (pc \in InitPlaces => hpc[c] \in InitPlaces)
    BY <1>5, <2>4 DEF InitPlaces
  <2> HIDE DEF t
  <2> QED BY <1>1, <1>3, <1>4, <1>8, <2>1, <2>2, <2>4, <2>5, CommandTyped DEF Stop
<1>9. CASE StopSend(c)
  <2> DEFINE t == [sims[s] EXCEPT !.stop = 1]
  <2>1. sims' = [sims EXCEPT ![s] = t]
    BY <1>0, <1>2, <1>9 DEF StopSend, Simulators
  <2>2. t \in Simulators /\ t.todo <= sims[s].todo
    BY <1>0, <1>2 DEF Simulators
  <2>3. PICK pc \in {"initWait", "resetWait", "stopWait"} :
          Goto(c, pc) /\ (pc = "initWait" => hpc[c] = "initSend")
    BY <1>9 DEF StopSend
  <2>4. pc \in Handling \ {"addProcess"} /\ (pc \in InitPlaces => hpc[c] \in InitPlaces)
    BY <1>5, <2>3 DEF InitPlaces
  <2> HIDE DEF t
  <2> QED BY <1>1, <1>3, <1>4, <1>9, <2>1, <2>2, <2>3, <2>4, CommandTyped DEF StopSend
<1>10. CASE ResetDrain(c)
  <2> DEFINE t == [sims[s] EXCEPT !.stop = 0]
  <2>1. sims' = [sims EXCEPT ![s] = t]
    BY <1>0, <1>2, <1>10 DEF ResetDrain, Simulators
  <2>2. t \in Simulators /\ t.todo <= sims[s].todo
    BY <1>0, <1>2 DEF Simulators
  <2> HIDE DEF t
  <2> QED BY <1>1, <1>3, <1>4, <1>5, <1>10, <2>1, <2>2, CommandTyped DEF ResetDrain
<1>11. CASE ResetState(c)
  <2> DEFINE t == [sims[s] EXCEPT !.state = "idle", !.todo = Ticks]
  <2>1. sims' = [sims EXCEPT ![s] = t]
    BY <1>0, <1>2, <1>11 DEF ResetState, Simulators
  <2>2. t \in Simulators /\ t.todo = Ticks
    BY <1>0, <1>2, HubAssumption DEF Simulators
  <2> HIDE DEF t
  <2> QED BY <1>1, <1>3, <1>4, <1>5, <1>11, <2>1, <2>2, CommandTyped DEF ResetState
<1>12. CASE Step(c)
  <2>1. CASE sims' = [sims EXCEPT ![s].state = "paused"] /\ Goto(c, "stepExecute")
    <3> DEFINE t == [sims[s] EXCEPT !.state = "paused"]
    <3>1. sims' = [sims EXCEPT ![s] = t]
      BY <1>0, <1>2, <2>1 DEF Simulators
    <3>2. t \in Simulators /\ t.todo <= sims[s].todo
      BY <1>0, <1>2 DEF Simulators
    <3> HIDE DEF t
    <3> QED BY <1>1, <1>3, <1>4, <1>5, <1>12, <2>1, <3>1, <3>2, CommandTyped DEF Step
  <2>2. CASE UNCHANGED sims /\ Goto(c, "read")
    BY <1>0, <1>1, <1>3, <1>5, <1>12, <2>2, CommandTyped DEF Step
  <2> QED BY <1>12, <2>1, <2>2 DEF Step
<1>13. CASE StepExecute(c)
  <2> DEFINE t == [sims[s] EXCEPT !.todo = Executed(sims[s].todo)]
  <2>1. sims' = [sims EXCEPT ![s] = t]
    BY <1>0, <1>2, <1>13 DEF StepExecute, Simulators
  <2>2. Executed(sims[s].todo) \in Nat /\ Executed(sims[s].todo) <= sims[s].todo
    BY <1>0, <1>2 DEF Executed
  <2>3. t \in Simulators /\ t.todo = Executed(sims[s].todo)
    BY <1>0, <1>2, <2>2 DEF Simulators
  <2> HIDE DEF t
  <2> QED BY <1>1, <1>3, <1>4, <1>5, <1>13, <2>1, <2>2, <2>3, CommandTyped DEF StepExecute
<1>14. CASE StepComplete(c)
  <2> DEFINE t == [sims[s] EXCEPT !.state = "complete"]
  <2>1. sims' = [sims EXCEPT ![s] = t]
    BY <1>0, <1>2, <1>14 DEF StepComplete, Simulators
  <2>2. t \in Simulators /\ t.todo <= sims[s].todo
    BY <1>0, <1>2 DEF Simulators
  <2> HIDE DEF t
  <2> QED BY <1>1, <1>3, <1>4, <1>5, <1>14, <2>1, <2>2, CommandTyped DEF StepComplete
<1> QED BY <1>6, <1>7, <1>8, <1>11, <1>12, <1>14, <1>9, <1>10, <1>13

(* Commands that wait, send or create, and the one that adds a process.     *)
LEMMA OtherCommandsTyped ==
  ASSUME HubInv, NEW c \in Conns,
         StopWait(c) \/ InitAssign(c) \/ AddProcess(c) \/ HandlerSend(c) \/ HandlerPanics(c)
  PROVE  HubInv'
<1> DEFINE s == ref[c]
<1>0. /\ sims \in [Sims -> Simulators] /\ \A q \in Sims : sims[q].todo \in Nat
      /\ hpc \in [Conns -> Places] /\ created \in Nat /\ messages \in Nat
      /\ Ticks \in Nat /\ MaxSims \in Nat /\ s \in 0..MaxSims
  BY HubAssumption DEF HubInv, SimTypes, Simulators, HandlerTypes
<1>1. \A P : AtCount(hpc, P) \in Nat
  BY CountIsNat
<1>2. {"read", "resetDrain", "stepComplete", "cleanup"}
         \subseteq Handling \ ({"addProcess"} \cup InitPlaces)
  BY DEF Handling, LoopPlaces, UsingPlaces, InitPlaces
<1>3. UNCHANGED <<queueVars, castVars>> => QueueTypes'
  BY DEF HubInv, QueueTypes, queueVars, castVars
<1>4. CASE StopWait(c)
  <2>1. PICK pc \in {"initAssign", "read", "resetDrain"} :
          Goto(c, pc) /\ (pc = "initAssign" => hpc[c] = "initWait")
    BY <1>4 DEF StopWait
  <2>2. pc \in Handling \ {"addProcess"} /\ (pc \in InitPlaces => hpc[c] \in InitPlaces)
    BY <1>2, <2>1 DEF InitPlaces, Handling, LoopPlaces
  <2>3. hpc[c] \in UsingPlaces
    BY <1>4 DEF StopWait, UsingPlaces
  <2>4. UNCHANGED <<simulator, created, connVars, messages, castVars, downVars, crashed>> /\ sims' = sims
    BY <1>4 DEF StopWait, simVars
  <2>5. QueueTypes'
    BY <1>3, <1>4 DEF StopWait
  <2> QED BY <1>0, <2>1, <2>2, <2>3, <2>4, <2>5, CommandTyped
<1>5. CASE InitAssign(c)
  <2>1. HandlerTypes' /\ hpc' = [hpc EXCEPT ![c] = hpc'[c]] /\ hpc'[c] = "read"
    BY <1>2, <1>5, GotoTypes DEF InitAssign, Places, UsingPlaces
  <2>2. /\ hpc[c] \in Handling /\ hpc'[c] \in Handling
        /\ hpc[c] \in InitPlaces /\ hpc'[c] \notin InitPlaces
        /\ hpc[c] # "addProcess" /\ hpc'[c] # "addProcess"
    BY <1>2, <1>5, <2>1 DEF InitAssign, InitPlaces, Handling, LoopPlaces
  <2>3. /\ AtCount(hpc', Handling) = AtCount(hpc, Handling)
        /\ AtCount(hpc', InitPlaces) = AtCount(hpc, InitPlaces) - 1
        /\ AtCount(hpc', {"addProcess"}) = AtCount(hpc, {"addProcess"})
    BY <1>0, <2>1, <2>2, HandlerMoves
  <2>4. created' = created + 1 /\ simulator' = created + 1 /\ sims' = sims
        /\ messages' = messages /\ clientWg' = clientWg
    BY <1>5 DEF InitAssign, connVars
  <2>5. SimTypes' /\ ConnTypes' /\ QueueTypes' /\ DownTypes'
    <3>1. SimTypes'
      BY <1>0, <2>4 DEF SimTypes
    <3>2. ConnTypes' /\ DownTypes'
      BY <1>5 DEF InitAssign, HubInv, ConnTypes, DownTypes, connVars, downVars
    <3> QED BY <1>3, <1>5, <3>1, <3>2 DEF InitAssign
  <2>6. created' + AtCount(hpc', InitPlaces) <= MaxSims
    <3>1. created + AtCount(hpc, InitPlaces) <= MaxSims
      BY DEF HubInv, Counts
    <3> QED BY <1>0, <1>1, <2>3, <2>4, <3>1
  <2>7. Counts'
    BY <2>3, <2>4, <2>6 DEF HubInv, Counts
  <2> QED BY <2>1, <2>5, <2>7 DEF HubInv
<1>6. CASE AddProcess(c)
  <2>1. hpc[c] = "addProcess" /\ hpc[c] \in UsingPlaces /\ "push" \in Places
        /\ hpc[c] \in Handling /\ hpc[c] \notin InitPlaces
    BY <1>6 DEF AddProcess, UsingPlaces, Places, Handling, LoopPlaces, InitPlaces
  <2>2. s \in Sims
    BY <1>0, <2>1 DEF HubInv, HandlerTypes, Sims, NoSim
  <2>3. HandlerTypes' /\ hpc' = [hpc EXCEPT ![c] = hpc'[c]] /\ hpc'[c] = "push"
    BY <1>6, <2>1, GotoTypes DEF AddProcess
  <2>4. hpc'[c] \in Handling /\ hpc'[c] \notin InitPlaces /\ hpc'[c] # "addProcess"
    BY <2>3 DEF Handling, LoopPlaces, UsingPlaces, InitPlaces
  <2>5. /\ AtCount(hpc', Handling) = AtCount(hpc, Handling)
        /\ AtCount(hpc', InitPlaces) = AtCount(hpc, InitPlaces)
        /\ AtCount(hpc', {"addProcess"}) = AtCount(hpc, {"addProcess"}) - 1
    BY <1>0, <2>1, <2>3, <2>4, HandlerMoves
  <2> DEFINE t == [sims[s] EXCEPT !.todo = sims[s].todo + 1]
  <2>6. sims' = [sims EXCEPT ![s] = t]
    BY <1>0, <1>6, <2>2 DEF AddProcess, Simulators
  <2>7. t \in Simulators /\ t.todo = sims[s].todo + 1
    BY <1>0, <2>2 DEF Simulators
  <2> HIDE DEF t
  <2>8. /\ sims' \in [Sims -> Simulators]
        /\ \A q \in Sims : sims'[q].todo <= sims[q].todo + 1 /\ sims'[q].todo \in Nat
    BY <1>0, <2>2, <2>6, <2>7
  <2>9. SimTypes' /\ ConnTypes' /\ QueueTypes' /\ DownTypes'
    <3>1. SimTypes'
      BY <1>6, <2>8 DEF AddProcess, HubInv, SimTypes
    <3>2. ConnTypes' /\ DownTypes'
      BY <1>6 DEF AddProcess, HubInv, ConnTypes, DownTypes, connVars, downVars
    <3> QED BY <1>3, <1>6, <3>1, <3>2 DEF AddProcess
  <2>10. created' = created /\ messages' = messages /\ clientWg' = clientWg
    BY <1>6 DEF AddProcess, connVars
  <2>11. ASSUME NEW q \in Sims
         PROVE  sims'[q].todo + AtCount(hpc', {"addProcess"}) <= Ticks + messages'
    <3>1. sims[q].todo + AtCount(hpc, {"addProcess"}) <= Ticks + messages
      BY DEF HubInv, Counts
    <3> QED BY <1>0, <1>1, <2>5, <2>8, <2>10, <3>1
  <2>12. AtCount(hpc', {"addProcess"}) <= messages'
    <3>1. AtCount(hpc, {"addProcess"}) <= messages
      BY DEF HubInv, Counts
    <3> QED BY <1>0, <1>1, <2>5, <2>10, <3>1
  <2>13. Counts'
    BY <2>5, <2>10, <2>11, <2>12 DEF HubInv, Counts
  <2> QED BY <2>3, <2>9, <2>13 DEF HubInv
<1>7. CASE HandlerSend(c)
  <2>1. PICK pc \in {"read", "stepComplete"} : Goto(c, pc)
    BY <1>7 DEF HandlerSend
  <2>2. PICK u \in Updates : Send(u)
    BY <1>0, <1>7, UpdatesTyped DEF HandlerSend
  <2>3. hpc[c] \in UsingPlaces
    BY <1>7 DEF HandlerSend, UsingPlaces
  <2>4. UNCHANGED <<simulator, created, connVars, messages, castVars, downVars, crashed>> /\ sims' = sims
    BY <1>7 DEF HandlerSend, simVars
  <2>5. QueueTypes'
    BY <2>2, <2>4, SendTyped
  <2>6. pc \in Handling \ {"addProcess"} /\ pc \notin InitPlaces
    BY <1>2
  <2> QED BY <1>0, <2>1, <2>3, <2>4, <2>5, <2>6, CommandTyped
<1>8. CASE HandlerPanics(c)
  <2>1. hpc[c] \in UsingPlaces
    BY <1>8 DEF HandlerPanics, UsingPlaces
  <2>2. UNCHANGED <<simulator, created, connVars, messages, castVars, downVars, crashed>> /\ sims' = sims
    BY <1>8 DEF HandlerPanics, simVars
  <2>3. QueueTypes'
    BY <1>3, <1>8 DEF HandlerPanics
  <2> QED BY <1>0, <1>2, <1>8, <2>1, <2>2, <2>3, CommandTyped DEF HandlerPanics
<1> QED BY <1>4, <1>5, <1>6, <1>7, <1>8

LEMMA HubInvInit == Init => HubInv
<1> SUFFICES ASSUME Init PROVE HubInv
  OBVIOUS
<1>1. HandlerTypes /\ ConnTypes /\ DownTypes
  <2>1. HandlerTypes
    BY HubAssumption DEF Init, HandlerTypes, Places, UsingPlaces, NoSim
  <2>2. ConnTypes
    BY DEF Init, ConnTypes
  <2>3. spc = "serving" /\ sref \in 0..MaxSims
    BY HubAssumption DEF Init, NoSim
  <2>4. crashed \in BOOLEAN
    BY DEF Init
  <2>5. DownTypes
    BY <2>3, <2>4 DEF DownTypes
  <2> QED BY <2>1, <2>2, <2>5
<1>2. NewSimulator \in Simulators /\ NewSimulator.todo = Ticks
  BY HubAssumption DEF NewSimulator, Simulators
<1>3. SimTypes
  BY <1>2 DEF Init, SimTypes, NoSim
<1>4. QueueTypes
  BY UpdatesTyped, HubAssumption DEF Init, QueueTypes
<1>5. ASSUME NEW P, "none" \notin P PROVE AtCount(hpc, P) = 0
  <2>1. {c \in Conns : hpc[c] \in P} = {}
    BY <1>5 DEF Init
  <2> QED BY <2>1, FS_EmptySet DEF AtCount
<1>6. AtCount(hpc, Handling) = 0 /\ AtCount(hpc, InitPlaces) = 0 /\ AtCount(hpc, {"addProcess"}) = 0
  BY <1>5 DEF Handling, LoopPlaces, UsingPlaces, InitPlaces
<1>7. Counts
  BY <1>2, <1>6, HubAssumption DEF Init, Counts
<1> QED BY <1>1, <1>3, <1>4, <1>7 DEF HubInv

LEMMA HubInvStep == HubInv /\ [Next]_vars => HubInv'
<1> SUFFICES ASSUME HubInv, [Next]_vars PROVE HubInv'
  OBVIOUS
<1>1. CASE UNCHANGED vars
  BY <1>1 DEF HubInv, HandlerTypes, SimTypes, ConnTypes, QueueTypes, DownTypes, Counts, vars
<1>2. ASSUME NEW c \in Conns, Connect(c) \/ HandlerStep(c) \/ PeerLeaves(c) PROVE HubInv'
  BY <1>2, ConnectionTyped, SimCommandsTyped, OtherCommandsTyped DEF HandlerStep
<1> QED BY <1>1, <1>2, MessageTyped, RunTyped, BroadcastTyped, ShutdownTyped DEF Next

LEMMA HubInvariant == Spec => []HubInv
BY HubInvInit, HubInvStep, PTL DEF Spec

(* Type correctness of the server: in particular the broadcast queue never  *)
(* holds more than its buffer, the WaitGroup's counter never goes negative, *)
(* and a handler or Shutdown never uses a simulator that does not exist.    *)
THEOREM HubTypes == Spec => []TypeOK
<1>1. HubInv => TypeOK
  <2> SUFFICES ASSUME HubInv PROVE TypeOK
    OBVIOUS
  <2>1. \A P : AtCount(hpc, P) \in Nat
    BY CountIsNat
  <2>2. created \in 0..MaxSims /\ simulator \in 0..created
    BY <2>1, HubAssumption DEF HubInv, SimTypes, Counts
  <2>3. ASSUME NEW s \in Sims PROVE sims[s].todo \in 0..Ticks + MaxMessages
    <3>1. /\ sims[s].todo \in Nat /\ messages \in 0..MaxMessages
          /\ sims[s].todo + AtCount(hpc, {"addProcess"}) <= Ticks + messages
      BY DEF HubInv, SimTypes, Simulators, HandlerTypes, Counts
    <3> QED BY <2>1, <3>1, HubAssumption
  <2>4. sims \in [Sims -> [state : {"idle", "running", "paused", "complete"}, stop : {0, 1},
                           run : [Runs -> {"none", "loop", "execute", "send", "complete", "last"}],
                           todo : 0..Ticks + MaxMessages]]
    BY <2>3 DEF HubInv, SimTypes, Simulators
  <2>5. clientWg \in Nat
    BY <2>1 DEF HubInv, Counts
  <2> QED BY <2>2, <2>4, <2>5 DEF HubInv, ConnTypes, QueueTypes, DownTypes, TypeOK
<1> QED BY <1>1, HubInvariant, PTL

(* The WaitGroup Shutdown waits on counts exactly the handlers that have    *)
(* not returned, whichever of the three ways they return.                   *)
THEOREM HandlersAreCounted == Spec => []HandlersCounted
<1>1. HubInv => HandlersCounted
  <2> SUFFICES ASSUME HubInv PROVE HandlersCounted
    OBVIOUS
  <2>1. \A c \in Conns : hpc[c] \in Handling <=> hpc[c] \notin {"none", "returned"}
    BY DEF HubInv, HandlerTypes, Places, Handling, LoopPlaces, UsingPlaces
  <2>2. {c \in Conns : hpc[c] \in Handling} = {c \in Conns : hpc[c] \notin {"none", "returned"}}
    BY <2>1
  <2> QED BY <2>2 DEF HubInv, Counts, AtCount, HandlersCounted
<1> QED BY <1>1, HubInvariant, PTL

----------------------------------------------------------------------------
(* From Upgrade to the return of the handler a connection is open only      *)
(* while somebody answers for it: it is in the map, or its handler is about *)
(* to put it there or to close it.                                          *)
Served ==
    \A c \in Conns :
        /\ c \in clients => hpc[c] \in LoopPlaces \cup {"cleanup"}
        /\ hpc[c] \in {"none", "upgrade", "returned"} => conn[c] # "open"
        /\ hpc[c] \in LoopPlaces /\ conn[c] = "open" => c \in clients

(* The steps that leave the connections alone keep Served if a handler in   *)
(* its loop stays there or goes to its cleanup.                             *)
LEMMA ServedInLoop ==
  ASSUME HubInv, Served, NEW c \in Conns, NEW pc \in LoopPlaces \cup {"cleanup"},
         hpc[c] \in LoopPlaces, hpc' = [hpc EXCEPT ![c] = pc],
         UNCHANGED <<clients, conn>>
  PROVE  Served'
<1>1. hpc \in [Conns -> Places]
  BY DEF HubInv, HandlerTypes
<1>2. \A d \in Conns : hpc'[d] = IF d = c THEN pc ELSE hpc[d]
  BY <1>1
<1>3. pc \notin {"none", "upgrade", "returned"}
  BY DEF LoopPlaces, UsingPlaces
<1> QED BY <1>2, <1>3 DEF Served

LEMMA ServedStep == HubInv /\ Served /\ [Next]_vars => Served'
<1> SUFFICES ASSUME HubInv, Served, [Next]_vars PROVE Served'
  OBVIOUS
<1>0. /\ hpc \in [Conns -> Places] /\ conn \in [Conns -> {"none", "open", "closed"}]
      /\ clients \subseteq Conns
  BY DEF HubInv, HandlerTypes, ConnTypes
<1>1. {"none", "upgrade", "register", "cleanup", "returned"} \cap LoopPlaces = {}
  BY DEF LoopPlaces, UsingPlaces
<1>2. CASE UNCHANGED <<hpc, clients, conn>>
  BY <1>2 DEF Served
<1>3. ASSUME NEW c \in Conns, Connect(c) PROVE Served'
  BY <1>0, <1>1, <1>3 DEF Connect, Goto, Served
<1>4. ASSUME NEW c \in Conns, Upgrade(c) PROVE Served'
  <2>1. CASE Return(c) /\ UNCHANGED conn
    BY <1>0, <1>1, <1>4, <2>1 DEF Upgrade, Return, Goto, Served
  <2>2. CASE conn' = [conn EXCEPT ![c] = "open"] /\ Goto(c, "register")
    BY <1>0, <1>1, <1>4, <2>2 DEF Upgrade, Goto, Served
  <2> QED BY <1>4, <2>1, <2>2 DEF Upgrade
<1>5. ASSUME NEW c \in Conns, Register(c) PROVE Served'
  <2>1. hpc[c] = "register"
    BY <1>5 DEF Register
  <2>2. CASE conn' = [conn EXCEPT ![c] = "closed"] /\ Return(c) /\ UNCHANGED clients
    BY <1>0, <1>1, <2>1, <2>2 DEF Return, Goto, Served
  <2>3. CASE clients' = clients \cup {c} /\ Goto(c, "read") /\ UNCHANGED conn
    <3>1. "read" \in LoopPlaces
      BY DEF LoopPlaces
    <3> QED BY <1>0, <1>1, <2>1, <2>3, <3>1 DEF Goto, Served
  <2> QED BY <1>5, <2>2, <2>3 DEF Register
<1>6. ASSUME NEW c \in Conns, Cleanup(c) PROVE Served'
  BY <1>0, <1>1, <1>6 DEF Cleanup, Remove, Return, Goto, Served
<1>7. ASSUME NEW c \in Conns, PeerLeaves(c) PROVE Served'
  BY <1>0, <1>1, <1>7 DEF PeerLeaves, handlers, Served
<1>8. ASSUME NEW c \in Conns, WriteFails(c) PROVE Served'
  <2>1. CASE c \in clients
    BY <1>0, <1>1, <1>8, <2>1 DEF WriteFails, Remove, handlers, Served
  <2>2. CASE c \notin clients
    BY <1>0, <1>1, <1>8, <2>2 DEF WriteFails, Remove, handlers, Served
  <2> QED BY <2>1, <2>2
<1>9. CASE ShutdownCloseConns
  BY <1>0, <1>1, <1>9 DEF ShutdownCloseConns, Remove, handlers, Served
\* The reader loop: every place a handler goes to from there.
<1>10. ASSUME NEW c \in Conns, hpc[c] \in LoopPlaces, UNCHANGED <<clients, conn>>,
              \E pc \in LoopPlaces \cup {"cleanup"} : hpc' = [hpc EXCEPT ![c] = pc]
       PROVE  Served'
  BY <1>10, ServedInLoop
<1>11. ASSUME NEW c \in Conns, NEW message \in Command \cup {"init"}, Message(c, message)
       PROVE  Served'
  <2>1. PICK pc \in Command \cup {"init", "initAssign"} : hpc' = [hpc EXCEPT ![c] = pc]
    BY <1>11 DEF Message
  <2>2. pc \in LoopPlaces /\ hpc[c] \in LoopPlaces
    BY <1>11, <2>1 DEF Message, Command, LoopPlaces, UsingPlaces
  <2> QED BY <1>10, <1>11, <2>1, <2>2 DEF Message, connVars
<1>12. ASSUME NEW c \in Conns,
              \/ ReadFails(c) \/ Start(c) \/ PauseResume(c) \/ Stop(c) \/ StopSend(c)
              \/ StopWait(c) \/ InitAssign(c) \/ ResetDrain(c) \/ ResetState(c)
              \/ AddProcess(c) \/ Step(c) \/ StepExecute(c) \/ StepComplete(c)
              \/ HandlerSend(c) \/ HandlerPanics(c)
       PROVE  Served'
  <2>1. hpc[c] \in LoopPlaces
    BY <1>12 DEF ReadFails, Start, PauseResume, Stop, StopSend, StopWait, InitAssign, ResetDrain,
                 ResetState, AddProcess, Step, StepExecute, StepComplete, HandlerSend, HandlerPanics, LoopPlaces, UsingPlaces
  <2>2. UNCHANGED <<clients, conn>>
    BY <1>12 DEF ReadFails, Start, PauseResume, Stop, StopSend, StopWait, InitAssign, ResetDrain,
                 ResetState, AddProcess, Step, StepExecute, StepComplete, HandlerSend, HandlerPanics, connVars
  <2>3. {"cleanup", "read", "initAssign", "resetDrain", "resetState", "initSend", "stopSend",
         "resetSend", "initWait", "stopWait", "resetWait", "push", "stepExecute", "stepSend",
         "stepComplete", "stepLast"} \subseteq LoopPlaces \cup {"cleanup"}
    BY DEF LoopPlaces, UsingPlaces
  <2>4. CASE \/ ReadFails(c) \/ Start(c) \/ PauseResume(c) \/ InitAssign(c) \/ ResetDrain(c)
             \/ ResetState(c) \/ AddProcess(c) \/ StepExecute(c) \/ StepComplete(c)
             \/ HandlerPanics(c)
    BY <1>10, <2>1, <2>2, <2>3, <2>4
    DEF ReadFails, Start, PauseResume, InitAssign, ResetDrain, ResetState, AddProcess,
        StepExecute, StepComplete, HandlerPanics, Goto
  <2>5. CASE Stop(c)
    <3>1. sims[ref[c]].state \in {"idle", "running", "paused", "complete"}
      <4>1. hpc[c] \in UsingPlaces
        BY <2>5 DEF Stop, UsingPlaces
      <4>2. ref[c] \in Sims
        BY <4>1, HubAssumption DEF HubInv, HandlerTypes, Sims, NoSim
      <4> QED BY <4>2 DEF HubInv, SimTypes, Simulators
    <3>2. \E pc \in {"initAssign", "initSend", "initWait", "read", "resetDrain", "resetSend",
                     "resetWait", "stopSend", "stopWait"} : Goto(c, pc)
      BY <2>5, <3>1 DEF Stop, AfterStopped
    <3> QED BY <1>10, <2>1, <2>2, <2>3, <3>2 DEF Goto
  <2>6. CASE StopWait(c)
    <3>1. \E pc \in {"initAssign", "read", "resetDrain"} : Goto(c, pc)
      BY <2>6 DEF StopWait
    <3> QED BY <1>10, <2>1, <2>2, <2>3, <3>1 DEF Goto
  <2>7. CASE Step(c)
    BY <1>10, <2>1, <2>2, <2>3, <2>7 DEF Step, Goto
  <2>8. CASE StopSend(c)
    <3>1. \E pc \in {"initWait", "stopWait", "resetWait"} : Goto(c, pc)
      BY <2>8 DEF StopSend
    <3> QED BY <1>10, <2>1, <2>2, <2>3, <3>1 DEF Goto
  <2>9. CASE HandlerSend(c)
    <3>1. \E pc \in {"read", "stepComplete"} : hpc' = [hpc EXCEPT ![c] = pc]
      BY <2>9 DEF HandlerSend, Goto
    <3> QED BY <1>10, <2>1, <2>2, <2>3, <3>1
  <2> QED BY <1>12, <2>4, <2>5, <2>6, <2>7, <2>9, <2>8
\* The steps of the other goroutines.
<1>13. CASE \/ \E s \in Sims, g \in Runs : RunStep(s, g)
            \/ TakeUpdate
            \/ \E c \in Conns : Write(c)
            \/ ShutdownBegins \/ ShutdownGetSimulator \/ ShutdownStop \/ ShutdownStopSend
            \/ ShutdownStopWait \/ ShutdownWait \/ ShutdownCloseQueue \/ ShutdownServerClose
            \/ UNCHANGED vars
  <2>1. UNCHANGED <<hpc, clients, conn>>
    BY <1>13 DEF RunStep, TakeStop, Tick, RunExecute, RunSend, RunComplete, RunLast, RunPanics,
                 TakeUpdate, Write, ShutdownBegins, ShutdownGetSimulator, ShutdownStop,
                 ShutdownStopSend, ShutdownStopWait, ShutdownWait, ShutdownCloseQueue,
                 ShutdownServerClose, handlers, connVars, vars
  <2> QED BY <1>2, <2>1
<1> QED
  BY <1>3, <1>4, <1>5, <1>6, <1>7, <1>8, <1>9, <1>11, <1>12, <1>13
  DEF Next, HandlerStep, BroadcastStep, ShutdownStep

(* No connection is leaked or forgotten, although its handler, a failed     *)
(* write and Shutdown each take clients out of the map.                     *)
THEOREM ClientsServed == Spec => []ClientsAreServed
<1>1. Init => Served
  BY DEF Init, Served, LoopPlaces, UsingPlaces
<1>2. Served => ClientsAreServed
  BY DEF Served, ClientsAreServed, LoopPlaces, UsingPlaces
<1> QED BY <1>1, <1>2, ServedStep, HubInvariant, PTL DEF Spec

----------------------------------------------------------------------------
(* Whoever is owed a final update is still a client: TakeUpdate writes to   *)
(* all of those.                                                            *)
Owed == CompletionReachesClients /\ \A o \in owed : o[1] \in clients

Queued(u) == \E i \in 1..Len(broadcast) : broadcast[i] = u

LEMMA OwedView ==
  Owed <=> \A o \in owed : /\ o[1] \in clients
                          /\ \/ Queued(FinalUpdate(o[2]))
                             \/ update = FinalUpdate(o[2]) /\ o[1] \in writing
BY DEF Owed, CompletionReachesClients, Queued

(* What is queued stays queued, and a final update is owed to the clients   *)
(* of the moment.                                                           *)
LEMMA SendOwed ==
  ASSUME HubInv, Owed, NEW s \in 0..MaxSims, NEW u \in {Update(s), FinalUpdate(s)}, Send(u),
         UNCHANGED <<clients, update, writing>>
  PROVE  Owed'
<1>1. CASE UNCHANGED queueVars
  BY <1>1 DEF Owed, CompletionReachesClients, queueVars
<1>2. CASE /\ broadcast' = Append(broadcast, u)
           /\ owed' = IF u.final THEN owed \cup (clients \X {u.sim}) ELSE owed
  <2>1. broadcast \in Seq(Updates) /\ u \in Updates
    BY UpdatesTyped DEF HubInv, QueueTypes
  <2>2. /\ Len(broadcast) \in Nat /\ Len(broadcast') = Len(broadcast) + 1
        /\ \A i \in 1..Len(broadcast) : broadcast'[i] = broadcast[i]
        /\ broadcast'[Len(broadcast) + 1] = u
    BY <1>2, <2>1
  <2>3. Queued(u)' /\ \A v : Queued(v) => Queued(v)'
    BY <2>2 DEF Queued
  <2>4. ASSUME NEW o \in owed', o \notin owed PROVE o[1] \in clients /\ u = FinalUpdate(o[2])
    <3>1. u.final /\ o \in clients \X {u.sim}
      BY <1>2, <2>4
    <3>2. u = FinalUpdate(s) /\ u.sim = s
      BY <3>1 DEF Update, FinalUpdate
    <3> QED BY <3>1, <3>2
  <2>5. ASSUME NEW o \in owed'
        PROVE  /\ o[1] \in clients'
               /\ \/ Queued(FinalUpdate(o[2]))'
                  \/ update' = FinalUpdate(o[2]) /\ o[1] \in writing'
    <3>1. CASE o \in owed
      BY <2>3, <3>1, OwedView
    <3>2. CASE o \notin owed
      BY <2>3, <2>4, <3>2
    <3> QED BY <3>1, <3>2
  <2> QED BY <2>5, OwedView DEF Owed, CompletionReachesClients, Queued
<1> QED BY <1>1, <1>2 DEF Send

(* Clients that leave are owed nothing.                                     *)
LEMMA RemoveOwed ==
  ASSUME Owed, NEW C, Remove(C), broadcast' = broadcast,
         \A o \in owed : o[1] \notin C /\ update = FinalUpdate(o[2]) /\ o[1] \in writing =>
                           update' = update /\ o[1] \in writing'
  PROVE  Owed'
<1>1. ASSUME NEW o \in owed'
      PROVE  o \in owed /\ o[1] \notin C
  BY DEF Remove
<1>2. ASSUME NEW o \in owed'
      PROVE  /\ o[1] \in clients'
             /\ \/ \E i \in 1..Len(broadcast) : broadcast[i] = FinalUpdate(o[2])
                \/ update' = FinalUpdate(o[2]) /\ o[1] \in writing'
  BY <1>1 DEF Remove, Owed, CompletionReachesClients
<1> QED BY <1>2 DEF Owed, CompletionReachesClients

(* handleBroadcasts has every client that is owed the update in its hands.  *)
LEMMA TakeOwed ==
  ASSUME HubInv, Owed, TakeUpdate
  PROVE  Owed'
<1>1. broadcast \in Seq(Updates) /\ broadcast # <<>> /\ Len(broadcast) \in Nat
  BY DEF TakeUpdate, HubInv, QueueTypes
<1>2. /\ Len(broadcast') = Len(broadcast) - 1
      /\ \A i \in 1..Len(broadcast') : broadcast'[i] = broadcast[i + 1]
      /\ Head(broadcast) = broadcast[1]
  BY <1>1, HeadTailProperties DEF TakeUpdate
<1>3. owed' = owed /\ clients' = clients /\ writing = {} /\ writing' = clients
  BY DEF TakeUpdate, connVars
<1>4. ASSUME NEW o \in owed
      PROVE  \/ \E i \in 1..Len(broadcast') : broadcast'[i] = FinalUpdate(o[2])
             \/ update' = FinalUpdate(o[2]) /\ o[1] \in clients
  <2>1. o[1] \in clients
    BY DEF Owed
  <2>2. PICK i \in 1..Len(broadcast) : broadcast[i] = FinalUpdate(o[2])
    BY <1>3 DEF Owed, CompletionReachesClients
  <2>3. CASE i = 1
    <3>1. update' = Head(broadcast)
      BY <2>1 DEF TakeUpdate
    <3> QED BY <1>2, <2>1, <2>2, <2>3, <3>1
  <2>4. CASE i # 1
    <3>1. i - 1 \in 1..Len(broadcast') /\ (i - 1) + 1 = i
      BY <1>1, <1>2, <2>4
    <3>2. broadcast'[i - 1] = FinalUpdate(o[2])
      BY <1>2, <2>2, <3>1
    <3> QED BY <3>1, <3>2
  <2> QED BY <2>3, <2>4
<1> QED BY <1>3, <1>4 DEF Owed, CompletionReachesClients

(* A write pays what is owed to that client.                                *)
LEMMA WriteOwed ==
  ASSUME Owed, NEW c \in Conns, Write(c), HubInv
  PROVE  Owed'
<1>1. /\ broadcast' = broadcast /\ clients' = clients /\ writing' = writing \ {c}
      /\ update' = IF writing = {c} THEN NoUpdate ELSE update
      /\ owed' = IF update.final THEN owed \ {<<c, update.sim>>} ELSE owed
  BY DEF Write, Written, connVars
<1>2. ASSUME NEW o \in owed', update = FinalUpdate(o[2]), o[1] \in writing
      PROVE  o[1] # c
  <2>1. update.final /\ update.sim = o[2]
    BY <1>2 DEF FinalUpdate
  <2>2. o \in owed /\ o # <<c, o[2]>>
    BY <1>1, <2>1
  <2>3. o = <<o[1], o[2]>>
    BY <2>2 DEF HubInv, QueueTypes
  <2> QED BY <2>2, <2>3
<1>3. ASSUME NEW o \in owed'
      PROVE  /\ o[1] \in clients
             /\ \/ \E i \in 1..Len(broadcast) : broadcast[i] = FinalUpdate(o[2])
                \/ update' = FinalUpdate(o[2]) /\ o[1] \in writing'
  <2>1. o \in owed
    BY <1>1
  <2> QED BY <1>1, <1>2, <2>1 DEF Owed, CompletionReachesClients
<1> QED BY <1>1, <1>3 DEF Owed, CompletionReachesClients

LEMMA OwedStep == HubInv /\ Owed /\ [Next]_vars => Owed'
<1> SUFFICES ASSUME HubInv, Owed, [Next]_vars PROVE Owed'
  OBVIOUS
<1>1. CASE UNCHANGED <<broadcast, owed, update, writing, clients>>
  BY <1>1 DEF Owed, CompletionReachesClients
<1>2. ASSUME NEW s \in Sims, NEW g \in Runs, RunSend(s, g) \/ RunLast(s, g) PROVE Owed'
  <2>1. s \in 0..MaxSims
    BY DEF Sims
  <2>2. UNCHANGED <<clients, update, writing>>
    BY <1>2 DEF RunSend, RunLast, connVars, castVars
  <2> QED BY <1>2, <2>1, <2>2, SendOwed DEF RunSend, RunLast
<1>3. ASSUME NEW c \in Conns, HandlerSend(c) PROVE Owed'
  <2>1. ref[c] \in 0..MaxSims
    BY DEF HubInv, HandlerTypes
  <2>2. UNCHANGED <<clients, update, writing>>
    BY <1>3 DEF HandlerSend, connVars, castVars
  <2>3. Send(Update(ref[c])) \/ Send(FinalUpdate(ref[c]))
    BY <1>3 DEF HandlerSend
  <2> QED BY <2>1, <2>2, <2>3, SendOwed
<1>4. ASSUME NEW c \in Conns, Register(c) PROVE Owed'
  <2>1. UNCHANGED <<broadcast, owed, update, writing>> /\ clients \subseteq clients'
    BY <1>4 DEF Register, queueVars, castVars
  <2> QED BY <2>1 DEF Owed, CompletionReachesClients
<1>5. ASSUME NEW c \in Conns, Cleanup(c) PROVE Owed'
  <2>1. Remove({c}) /\ UNCHANGED <<broadcast, update, writing>>
    BY <1>5 DEF Cleanup, castVars
  <2> QED BY <2>1, RemoveOwed
<1>6. ASSUME NEW c \in Conns, WriteFails(c) PROVE Owed'
  <2>1. Remove({c}) /\ broadcast' = broadcast
    BY <1>6 DEF WriteFails
  <2>2. ASSUME NEW o \in owed, o[1] \notin {c}, o[1] \in writing
        PROVE  update' = update /\ o[1] \in writing'
    BY <1>6, <2>2 DEF WriteFails, Written
  <2> QED BY <2>1, <2>2, RemoveOwed
<1>7. CASE ShutdownCloseConns
  <2>1. Remove(clients) /\ UNCHANGED <<broadcast, update, writing>>
    BY <1>7 DEF ShutdownCloseConns, castVars
  <2> QED BY <2>1, RemoveOwed
\* The other steps of each goroutine.
<1>8. ASSUME NEW s \in Sims, NEW g \in Runs,
             TakeStop(s, g) \/ Tick(s, g) \/ RunExecute(s, g) \/ RunComplete(s, g) \/ RunPanics(s, g)
      PROVE  Owed'
  BY <1>1, <1>8 DEF TakeStop, Tick, RunExecute, RunComplete, RunPanics, connVars, queueVars, castVars
<1>9. ASSUME NEW c \in Conns,
             \/ Connect(c) \/ Upgrade(c) \/ ReadFails(c) \/ PeerLeaves(c)
             \/ Start(c) \/ PauseResume(c) \/ Stop(c) \/ StopSend(c) \/ StopWait(c)
             \/ InitAssign(c) \/ ResetDrain(c) \/ ResetState(c) \/ AddProcess(c)
             \/ Step(c) \/ StepExecute(c) \/ StepComplete(c)
             \/ HandlerPanics(c) \/ \E message \in Command \cup {"init"} : Message(c, message)
      PROVE  Owed'
  BY <1>1, <1>9
  DEF Connect, Upgrade, ReadFails, PeerLeaves, Start, PauseResume, Stop, StopSend, StopWait,
      InitAssign, ResetDrain, ResetState, AddProcess, Step, StepExecute, StepComplete,
      HandlerPanics, Message, connVars, queueVars, castVars
<1>10. CASE \/ ShutdownBegins \/ ShutdownGetSimulator \/ ShutdownStop \/ ShutdownStopSend
            \/ ShutdownStopWait \/ ShutdownWait \/ ShutdownCloseQueue \/ ShutdownServerClose
            \/ UNCHANGED vars
  BY <1>1, <1>10
  DEF ShutdownBegins, ShutdownGetSimulator, ShutdownStop, ShutdownStopSend, ShutdownStopWait,
      ShutdownWait, ShutdownCloseQueue, ShutdownServerClose, connVars, queueVars, castVars, vars
<1> QED
  BY <1>2, <1>3, <1>4, <1>5, <1>6, <1>7, <1>8, <1>9, <1>10, TakeOwed, WriteOwed
  DEF Next, HandlerStep, RunStep, BroadcastStep, ShutdownStep

(* A final update that found a place in the queue reaches every client that *)
(* was connected then and still is, whatever other writes fail: no step     *)
(* drops it before it is written.                                           *)
THEOREM CompletionReaches == Spec => []CompletionReachesClients
<1>1. Init => Owed
  BY DEF Init, Owed, CompletionReachesClients
<1>2. Owed => CompletionReachesClients
  BY DEF Owed
<1> QED BY <1>1, <1>2, OwedStep, HubInvariant, PTL DEF Spec

----------------------------------------------------------------------------
(* One connection at most was ever made.                                    *)
Sole == \A c, d \in Conns : hpc[c] # "none" /\ hpc[d] # "none" => c = d

(* Inside Stop, after it made the simulator idle.                           *)
Waits == {"initSend", "stopSend", "resetSend", "initWait", "stopWait", "resetWait"}

(* After Stop, before the simulator is replaced or reset.                   *)
AfterStop == {"initAssign", "resetDrain", "resetState"}

(* With one connection every handler uses the current simulator; when it is *)
(* about to replace or to reset it nothing runs; and a simulator that is    *)
(* idle, for which Stop does not wait, has no goroutine left, except while  *)
(* a Stop is under way.                                                     *)
OnlyCurrentRuns ==
    /\ \A s \in Sims : Live(s) # {} => s = simulator
    /\ \A c \in Conns : hpc[c] \in UsingPlaces => ref[c] = simulator
    /\ \A c \in Conns : hpc[c] \in AfterStop => \A s \in Sims : Live(s) = {}
    /\ \A s \in Sims : sims[s].state = "idle" /\ Live(s) # {} => \E c \in Conns : hpc[c] \in Waits

Alone == Sole /\ ~closed => OnlyCurrentRuns

LEMMA SoleFromCount ==
  ASSUME Cardinality({c \in Conns : hpc[c] # "none"}) <= 1
  PROVE  Sole
<1> DEFINE S == {c \in Conns : hpc[c] # "none"}
<1>1. IsFiniteSet(S)
  BY FS_Subset, HubAssumption
<1>2. ASSUME NEW c \in S, NEW d \in S, c # d PROVE FALSE
  <2>1. Cardinality({c}) = 1 /\ IsFiniteSet({c})
    BY FS_Singleton
  <2>2. Cardinality({c} \cup {d}) = 2
    BY <1>2, <2>1, FS_AddElement
  <2>3. {c} \cup {d} \subseteq S
    OBVIOUS
  <2>4. Cardinality({c} \cup {d}) <= Cardinality(S) /\ Cardinality(S) \in Nat
    BY <1>1, <2>3, FS_Subset, FS_CardinalityType
  <2> QED BY <2>2, <2>4
<1> QED BY <1>2 DEF Sole

(* A handler never becomes new again, so a sole connection was the sole one *)
(* all along.                                                               *)
LEMMA SoleBackwards ==
  ASSUME HubInv, NEW c \in Conns, hpc' = [hpc EXCEPT ![c] = hpc'[c]], hpc'[c] # "none", Sole'
  PROVE  Sole /\ \A d \in Conns \ {c} : hpc[d] = "none" /\ hpc'[d] = "none"
<1>1. hpc \in [Conns -> Places]
  BY DEF HubInv, HandlerTypes
<1>2. \A d \in Conns \ {c} : hpc'[d] = hpc[d]
  BY <1>1
<1>3. \A d \in Conns \ {c} : hpc'[d] = "none"
  BY DEF Sole
<1> QED BY <1>2, <1>3 DEF Sole

(* What a step of the sole handler has to show.                             *)
LEMMA AloneIntro ==
  ASSUME HubInv, NEW c \in Conns, \A d \in Conns \ {c} : hpc'[d] = "none",
         \A s \in Sims : Live(s)' # {} => s = simulator',
         hpc'[c] \in UsingPlaces => ref'[c] = simulator',
         hpc'[c] \in AfterStop => \A s \in Sims : Live(s)' = {},
         hpc'[c] \in Waits \/ \A s \in Sims : sims'[s].state = "idle" => Live(s)' = {}
  PROVE  OnlyCurrentRuns'
<1>1. "none" \notin UsingPlaces /\ "none" \notin AfterStop
  BY DEF UsingPlaces, AfterStop
<1>2. \A d \in Conns : hpc'[d] \in UsingPlaces => ref'[d] = simulator'
  BY <1>1
<1>3. \A d \in Conns : hpc'[d] \in AfterStop => \A s \in Sims : Live(s)' = {}
  BY <1>1
<1>4. \A s \in Sims : sims'[s].state = "idle" /\ Live(s)' # {} => \E d \in Conns : hpc'[d] \in Waits
  OBVIOUS
<1> QED BY <1>2, <1>3, <1>4 DEF OnlyCurrentRuns

(* The same, for a handler that was not waiting before.                     *)
LEMMA AloneFacts ==
  ASSUME OnlyCurrentRuns, NEW c \in Conns, \A d \in Conns \ {c} : hpc[d] = "none"
  PROVE  /\ \A s \in Sims : Live(s) # {} => s = simulator
         /\ hpc[c] \in UsingPlaces => ref[c] = simulator
         /\ hpc[c] \in AfterStop => \A s \in Sims : Live(s) = {}
         /\ hpc[c] \notin Waits => \A s \in Sims : sims[s].state = "idle" => Live(s) = {}
<1>1. "none" \notin Waits
  BY DEF Waits
<1> QED BY <1>1 DEF OnlyCurrentRuns

LEMMA SameRuns ==
  ASSUME NEW s, sims'[s].run = sims[s].run
  PROVE  Live(s)' = Live(s)
BY DEF Live

(* What Goto(c, pc) tells of a sole connection before Shutdown.             *)
LEMMA SoleGoto ==
  ASSUME HubInv, Alone, Sole', ~closed', spc' = spc,
         NEW c \in Conns, NEW pc, pc # "none", hpc' = [hpc EXCEPT ![c] = pc]
  PROVE  /\ OnlyCurrentRuns
         /\ \A d \in Conns \ {c} : hpc[d] = "none" /\ hpc'[d] = "none"
         /\ hpc'[c] = pc
<1>1. hpc' = [hpc EXCEPT ![c] = hpc'[c]] /\ hpc'[c] = pc
  BY DEF HubInv, HandlerTypes
<1>2. Sole /\ \A d \in Conns \ {c} : hpc[d] = "none" /\ hpc'[d] = "none"
  BY <1>1, SoleBackwards
<1>3. ~closed
  BY DEF closed
<1> QED BY <1>1, <1>2, <1>3 DEF Alone

(* The steps of a handler outside the commands.                             *)
LEMMA ConnectionAlone ==
  ASSUME HubInv, Alone, Sole', ~closed', NEW c \in Conns,
         Connect(c) \/ Upgrade(c) \/ Register(c) \/ ReadFails(c) \/ Cleanup(c)
  PROVE  OnlyCurrentRuns'
<1>1. PICK pc \in {"upgrade", "returned", "register", "read", "cleanup"} : Goto(c, pc)
  BY DEF Connect, Upgrade, Register, ReadFails, Cleanup, Return
<1>2. /\ UNCHANGED <<sims, simulator, spc>>
      /\ hpc[c] \in {"none", "upgrade", "register", "read", "cleanup"}
  BY DEF Connect, Upgrade, Register, ReadFails, Cleanup, simVars, downVars
<1>3. hpc' = [hpc EXCEPT ![c] = pc] /\ pc # "none"
  BY <1>1 DEF Goto
<1>4. /\ OnlyCurrentRuns /\ hpc'[c] = pc
      /\ \A d \in Conns \ {c} : hpc[d] = "none" /\ hpc'[d] = "none"
  BY <1>2, <1>3, SoleGoto
<1>5. hpc[c] \notin Waits /\ pc \notin UsingPlaces \cup AfterStop
  BY <1>2 DEF Waits, UsingPlaces, AfterStop
<1>6. \A s \in Sims : Live(s)' = Live(s)
  BY <1>2 DEF Live
<1> QED BY <1>2, <1>4, <1>5, <1>6, AloneFacts, AloneIntro

LEMMA MessageAlone ==
  ASSUME HubInv, Alone, Sole', ~closed', NEW c \in Conns,
         NEW message \in Command \cup {"init"}, Message(c, message)
  PROVE  OnlyCurrentRuns'
<1>1. PICK pc \in Command \cup {"init", "initAssign"} :
        hpc' = [hpc EXCEPT ![c] = pc] /\ (pc = "initAssign" => simulator = NoSim)
  BY DEF Message, Command
<1>2. /\ UNCHANGED <<sims, simulator, spc>> /\ ref' = [ref EXCEPT ![c] = simulator]
      /\ hpc[c] = "read"
  BY DEF Message, simVars, downVars
<1>3. pc # "none" /\ (pc \in AfterStop => pc = "initAssign") /\ hpc[c] \notin Waits
  BY <1>1, <1>2 DEF Command, Waits, AfterStop
<1>4. /\ OnlyCurrentRuns /\ hpc'[c] = pc
      /\ \A d \in Conns \ {c} : hpc[d] = "none" /\ hpc'[d] = "none"
  BY <1>1, <1>2, <1>3, SoleGoto
<1>5. ref'[c] = simulator
  BY <1>2 DEF HubInv, HandlerTypes
<1>6. \A s \in Sims : Live(s)' = Live(s) /\ s # NoSim
  BY <1>2, HubAssumption DEF Live, Sims, NoSim
<1> QED BY <1>1, <1>2, <1>3, <1>4, <1>5, <1>6, AloneFacts, AloneIntro

(* The commands: each acts on the current simulator.                        *)
LEMMA CommandAlone ==
  ASSUME HubInv, Alone, Sole', ~closed', NEW c \in Conns,
         \/ Start(c) \/ PauseResume(c) \/ Stop(c) \/ StopSend(c) \/ StopWait(c) \/ InitAssign(c)
         \/ ResetDrain(c) \/ ResetState(c) \/ AddProcess(c) \/ Step(c) \/ StepExecute(c)
         \/ StepComplete(c) \/ HandlerSend(c) \/ HandlerPanics(c)
  PROVE  OnlyCurrentRuns'
<1> DEFINE s == ref[c]
<1>0. sims \in [Sims -> Simulators] /\ \A q \in Sims : sims[q] \in Simulators
  BY DEF HubInv, SimTypes
<1>1. hpc[c] # "initAssign" => hpc[c] \in UsingPlaces /\ s \in Sims
  <2>1. hpc[c] # "initAssign" => hpc[c] \in UsingPlaces
    BY DEF Start, PauseResume, Stop, StopSend, StopWait, InitAssign, ResetDrain, ResetState,
           AddProcess, Step, StepExecute, StepComplete, HandlerSend, HandlerPanics, UsingPlaces
  <2> QED BY <2>1, HubAssumption DEF HubInv, HandlerTypes, Sims, NoSim
<1>2. PICK pc \in Handling : Goto(c, pc)
  <2>1. {"initAssign", "initSend", "initWait", "read", "resetSend", "resetWait", "resetDrain",
         "resetState", "stopSend", "stopWait", "push", "stepExecute", "stepSend", "stepComplete",
         "stepLast", "cleanup"} \subseteq Handling
    BY DEF Handling, LoopPlaces, UsingPlaces
  <2>2. CASE Stop(c)
    <3>1. sims[s].state \in {"idle", "running", "paused", "complete"}
      BY <1>0, <1>1, <2>2 DEF Stop, Simulators
    <3> QED BY <2>1, <2>2, <3>1 DEF Stop, AfterStopped
  <2>3. CASE ~Stop(c)
    BY <2>1, <2>3 DEF Start, PauseResume, StopSend, StopWait, InitAssign, ResetDrain, ResetState,
       AddProcess, Step, StepExecute, StepComplete, HandlerSend, HandlerPanics
  <2> QED BY <2>2, <2>3
<1>3. spc' = spc
  BY DEF Start, PauseResume, Stop, StopSend, StopWait, InitAssign, ResetDrain, ResetState,
         AddProcess, Step, StepExecute, StepComplete, HandlerSend, HandlerPanics, downVars
<1>4. hpc' = [hpc EXCEPT ![c] = pc] /\ pc # "none" /\ (pc # "read" => ref' = ref)
  BY <1>2 DEF Goto, Handling, LoopPlaces, UsingPlaces
<1>5. /\ OnlyCurrentRuns /\ hpc'[c] = pc
      /\ \A d \in Conns \ {c} : hpc[d] = "none" /\ hpc'[d] = "none"
  BY <1>3, <1>4, SoleGoto
<1>6. /\ \A q \in Sims : Live(q) # {} => q = simulator
      /\ hpc[c] \in UsingPlaces => s = simulator
      /\ hpc[c] \in AfterStop => \A q \in Sims : Live(q) = {}
      /\ hpc[c] \notin Waits => \A q \in Sims : sims[q].state = "idle" => Live(q) = {}
  BY <1>5, AloneFacts
<1>7. hpc[c] # "initAssign" => hpc[c] \in UsingPlaces /\ s = simulator /\ s \in Sims
  BY <1>6, <1>1
<1>8. "read" \notin UsingPlaces /\ "initAssign" \in AfterStop
      /\ {"read", "push", "stepExecute", "stepSend", "stepComplete", "stepLast"} \cap AfterStop = {}
  BY DEF UsingPlaces, AfterStop
\* What remains to be shown of each command.
<1>9. ASSUME hpc[c] # "initAssign", simulator' = simulator,
             \A q \in Sims : Live(q)' # {} => q = simulator,
             pc \in AfterStop => \A q \in Sims : Live(q)' = {},
             pc \in Waits \/ \A q \in Sims : sims'[q].state = "idle" => Live(q)' = {}
      PROVE  OnlyCurrentRuns'
  BY <1>4, <1>5, <1>7, <1>8, <1>9, AloneIntro
\* The commands that change no goroutine.
<1>10. ASSUME hpc[c] \notin Waits \cup {"initAssign"}, simulator' = simulator,
             NEW t, t.run = sims[s].run, sims' = [sims EXCEPT ![s] = t],
             t.state = "idle" => sims[s].state = "idle" \/ pc \in Waits \/ Live(s) = {},
             pc \in AfterStop => Live(s) = {}
      PROVE  OnlyCurrentRuns'
  <2>1. s \in Sims /\ s = simulator
    BY <1>7, <1>10
  <2>2. /\ sims'[s] = t
        /\ \A q \in Sims : q # s => sims'[q] = sims[q]
    BY <1>0, <1>10, <2>1
  <2>3. \A q \in Sims : Live(q)' = Live(q)
    BY <1>10, <2>2, SameRuns
  <2>4. pc \in Waits \/ \A q \in Sims : sims'[q].state = "idle" => Live(q) = {}
    BY <1>6, <1>10, <2>2
  <2> QED BY <1>6, <1>9, <1>10, <2>1, <2>3, <2>4
<1>11. ASSUME hpc[c] \notin Waits \cup {"initAssign"}, UNCHANGED <<sims, simulator>>,
              pc \notin AfterStop
       PROVE  OnlyCurrentRuns'
  <2>1. \A q \in Sims : Live(q)' = Live(q)
    BY <1>11 DEF Live
  <2> QED BY <1>6, <1>9, <1>11, <2>1
<1>12. CASE Start(c)
  <2>0. hpc[c] \notin Waits \cup {"initAssign"} /\ simulator' = simulator /\ hpc'[c] = "read" /\ pc = "read"
    BY <1>5, <1>12 DEF Start, Goto, Waits, HubInv, HandlerTypes
  <2>1. CASE UNCHANGED sims
    BY <1>8, <1>11, <2>0, <2>1
  <2>2. CASE Live(s) # Runs /\ LET g == CHOOSE g \in Runs \ Live(s) : TRUE IN
               sims' = [sims EXCEPT ![s].state = "running", ![s].run[g] = "loop"]
    <3>1. s \in Sims /\ s = simulator
      BY <1>7, <2>0
    <3>2. sims'[s].state = "running" /\ \A q \in Sims : q # s => sims'[q] = sims[q]
      BY <1>0, <2>2, <3>1 DEF Simulators
    <3>3. \A q \in Sims : q # s => Live(q)' = Live(q)
      BY <3>2 DEF Live
    <3>4. \A q \in Sims : sims'[q].state = "idle" => Live(q)' = {}
      BY <1>6, <2>0, <3>2, <3>3
    <3>5. \A q \in Sims : Live(q)' # {} => q = simulator
      BY <1>6, <3>1, <3>3
    <3> QED BY <1>8, <1>9, <2>0, <3>4, <3>5
  <2> QED BY <1>12, <2>1, <2>2 DEF Start
<1>13. CASE PauseResume(c)
  <2>0. hpc[c] \notin Waits \cup {"initAssign"} /\ simulator' = simulator /\ pc = "read"
    BY <1>5, <1>13 DEF PauseResume, Goto, Waits, HubInv, HandlerTypes
  <2> DEFINE st == IF hpc[c] = "pause" /\ sims[s].state = "running" THEN "paused"
                   ELSE IF hpc[c] = "resume" /\ sims[s].state = "paused" THEN "running"
                   ELSE sims[s].state
             t == [sims[s] EXCEPT !.state = st]
  <2>1. s \in Sims
    BY <1>7, <2>0
  <2>2. sims' = [sims EXCEPT ![s] = t]
    BY <1>0, <1>13, <2>1 DEF PauseResume, Simulators
  <2>3. t.run = sims[s].run /\ (t.state = "idle" => sims[s].state = "idle")
    BY <1>0, <2>1 DEF Simulators
  <2> HIDE DEF t
  <2> QED BY <1>8, <1>10, <2>0, <2>2, <2>3
<1>14. CASE Stop(c)
  <2>0. hpc[c] \notin Waits \cup {"initAssign"} /\ simulator' = simulator
    BY <1>14 DEF Stop, Waits
  <2>1. s \in Sims
    BY <1>7, <2>0
  <2>2. sims' = [sims EXCEPT ![s] = Stopped(sims[s])]
    BY <1>14 DEF Stop
  <2>3. Stopped(sims[s]).run = sims[s].run
    BY <1>0, <2>1, StoppedTyped
  <2>4. CASE sims[s].state # "idle"
    <3>1. sims[s].state \in {"running", "paused", "complete"}
      BY <1>0, <2>1, <2>4 DEF Simulators
    <3>2. PICK p \in Waits : Goto(c, p)
      BY <1>14, <3>1 DEF Stop, AfterStopped, Waits
    <3>3. pc = p
      BY <1>5, <3>2 DEF Goto, HubInv, HandlerTypes
    <3>4. pc \in Waits /\ pc \notin AfterStop
      BY <3>2, <3>3 DEF Waits, AfterStop
    <3> QED BY <1>8, <1>10, <2>0, <2>2, <2>3, <3>4
  <2>5. CASE sims[s].state = "idle"
    <3>1. Live(s) = {}
      BY <1>6, <2>0, <2>1, <2>5
    <3> QED BY <1>8, <1>10, <2>0, <2>2, <2>3, <3>1
  <2> QED BY <2>4, <2>5
<1>15. CASE StopSend(c)
  <2>1. PICK p \in {"initWait", "stopWait", "resetWait"} : Goto(c, p)
    BY <1>15 DEF StopSend
  <2>2. pc = p
    BY <1>5, <2>1 DEF Goto, HubInv, HandlerTypes
  <2>3. pc \in Waits /\ pc \notin AfterStop
    BY <2>1, <2>2 DEF Waits, AfterStop
  <2>4. hpc[c] # "initAssign" /\ simulator' = simulator
    BY <1>15 DEF StopSend
  <2>5. s \in Sims
    BY <1>7, <2>4
  <2>6. sims'[s].run = sims[s].run /\ \A q \in Sims : q # s => sims'[q] = sims[q]
    BY <1>0, <1>15, <2>5 DEF StopSend, Simulators
  <2>7. \A q \in Sims : Live(q)' = Live(q)
    BY <2>6, SameRuns
  <2> QED BY <1>6, <1>9, <2>3, <2>4, <2>7
<1>16. CASE StopWait(c)
  <2>1. hpc[c] # "initAssign" /\ simulator' = simulator /\ sims' = sims /\ Live(s) = {}
    BY <1>16 DEF StopWait, simVars
  <2>2. \A q \in Sims : Live(q)' = {}
    BY <1>6, <1>7, <2>1 DEF Live
  <2> QED BY <1>8, <1>9, <2>1, <2>2
<1>17. CASE InitAssign(c)
  <2>1. hpc[c] = "initAssign" /\ sims' = sims /\ pc = "read"
    BY <1>5, <1>17 DEF InitAssign, Goto, HubInv, HandlerTypes
  <2>2. \A q \in Sims : Live(q)' = {}
    BY <1>6, <1>8, <2>1 DEF Live
  <2> QED BY <1>5, <1>8, <2>1, <2>2, AloneIntro
<1>18. CASE ResetDrain(c)
  <2>0. hpc[c] = "resetDrain" /\ simulator' = simulator
    BY <1>18 DEF ResetDrain
  <2>1. s \in Sims
    BY <1>7, <2>0
  <2> DEFINE t == [sims[s] EXCEPT !.stop = 0]
  <2>2. sims' = [sims EXCEPT ![s] = t] /\ t.run = sims[s].run
    BY <1>0, <1>18, <2>1 DEF ResetDrain, Simulators
  <2>3. Live(s) = {} /\ hpc[c] \notin Waits \cup {"initAssign"}
    BY <1>6, <2>0, <2>1 DEF Waits, AfterStop
  <2> HIDE DEF t
  <2> QED BY <1>8, <1>10, <2>0, <2>2, <2>3
<1>19. CASE ResetState(c)
  <2>0. hpc[c] = "resetState" /\ simulator' = simulator
    BY <1>19 DEF ResetState
  <2>1. s \in Sims
    BY <1>7, <2>0
  <2> DEFINE t == [sims[s] EXCEPT !.state = "idle", !.todo = Ticks]
  <2>2. sims' = [sims EXCEPT ![s] = t] /\ t.run = sims[s].run
    BY <1>0, <1>19, <2>1 DEF ResetState, Simulators
  <2>3. Live(s) = {} /\ hpc[c] \notin Waits \cup {"initAssign"}
    BY <1>6, <2>0, <2>1 DEF Waits, AfterStop
  <2> HIDE DEF t
  <2> QED BY <1>8, <1>10, <2>0, <2>2, <2>3
<1>20. CASE AddProcess(c)
  <2>0. hpc[c] \notin Waits \cup {"initAssign"} /\ simulator' = simulator /\ pc = "push"
    BY <1>5, <1>20 DEF AddProcess, Goto, Waits, HubInv, HandlerTypes
  <2>1. s \in Sims
    BY <1>7, <2>0
  <2> DEFINE t == [sims[s] EXCEPT !.todo = sims[s].todo + 1]
  <2>2. sims' = [sims EXCEPT ![s] = t] /\ t.run = sims[s].run /\ t.state = sims[s].state
    BY <1>0, <1>20, <2>1 DEF AddProcess, Simulators
  <2> HIDE DEF t
  <2> QED BY <1>8, <1>10, <2>0, <2>2
<1>21. CASE Step(c)
  <2>0. hpc[c] \notin Waits \cup {"initAssign"} /\ simulator' = simulator
    BY <1>21 DEF Step, Waits
  <2>1. s \in Sims
    BY <1>7, <2>0
  <2>2. CASE UNCHANGED sims /\ Goto(c, "read")
    <3>1. pc = "read"
      BY <1>5, <2>2 DEF Goto, HubInv, HandlerTypes
    <3> QED BY <1>8, <1>11, <2>0, <2>2, <3>1
  <2>3. CASE sims' = [sims EXCEPT ![s].state = "paused"] /\ Goto(c, "stepExecute")
    <3>1. pc = "stepExecute"
      BY <1>5, <2>3 DEF Goto, HubInv, HandlerTypes
    <3> DEFINE t == [sims[s] EXCEPT !.state = "paused"]
    <3>2. sims' = [sims EXCEPT ![s] = t] /\ t.run = sims[s].run /\ t.state = "paused"
      BY <1>0, <2>1, <2>3 DEF Simulators
    <3> HIDE DEF t
    <3> QED BY <1>8, <1>10, <2>0, <3>1, <3>2
  <2> QED BY <1>21, <2>2, <2>3 DEF Step
<1>22. CASE StepExecute(c)
  <2>0. hpc[c] \notin Waits \cup {"initAssign"} /\ simulator' = simulator /\ pc = "stepSend"
    BY <1>5, <1>22 DEF StepExecute, Goto, Waits, HubInv, HandlerTypes
  <2>1. s \in Sims
    BY <1>7, <2>0
  <2> DEFINE t == [sims[s] EXCEPT !.todo = Executed(sims[s].todo)]
  <2>2. sims' = [sims EXCEPT ![s] = t] /\ t.run = sims[s].run /\ t.state = sims[s].state
    BY <1>0, <1>22, <2>1 DEF StepExecute, Simulators
  <2> HIDE DEF t
  <2> QED BY <1>8, <1>10, <2>0, <2>2
<1>23. CASE StepComplete(c)
  <2>0. hpc[c] \notin Waits \cup {"initAssign"} /\ simulator' = simulator /\ pc = "stepLast"
    BY <1>5, <1>23 DEF StepComplete, Goto, Waits, HubInv, HandlerTypes
  <2>1. s \in Sims
    BY <1>7, <2>0
  <2> DEFINE t == [sims[s] EXCEPT !.state = "complete"]
  <2>2. sims' = [sims EXCEPT ![s] = t] /\ t.run = sims[s].run /\ t.state = "complete"
    BY <1>0, <1>23, <2>1 DEF StepComplete, Simulators
  <2> HIDE DEF t
  <2> QED BY <1>8, <1>10, <2>0, <2>2
<1>24. CASE HandlerSend(c)
  <2>1. PICK p \in {"read", "stepComplete"} : Goto(c, p)
    BY <1>24 DEF HandlerSend
  <2>2. pc = p
    BY <1>5, <2>1 DEF Goto, HubInv, HandlerTypes
  <2>3. hpc[c] \notin Waits \cup {"initAssign"} /\ UNCHANGED <<sims, simulator>>
    BY <1>24 DEF HandlerSend, Waits, simVars
  <2> QED BY <1>8, <1>11, <2>1, <2>2, <2>3
<1>25. CASE HandlerPanics(c)
  BY <1>3, <1>25 DEF HandlerPanics, broadcastClosed, closed
<1> QED BY <1>12, <1>13, <1>14, <1>16, <1>17, <1>19, <1>20, <1>21, <1>23, <1>24, <1>25,
           <1>15, <1>18, <1>22

(* The run goroutines start nothing and make nothing idle.                  *)
LEMMA RunAlone ==
  ASSUME HubInv, OnlyCurrentRuns, NEW s \in Sims, NEW g \in Runs, RunStep(s, g)
  PROVE  OnlyCurrentRuns'
<1>0. sims \in [Sims -> Simulators] /\ sims[s] \in Simulators
  BY DEF HubInv, SimTypes
<1>1. UNCHANGED <<hpc, ref, simulator>>
  BY DEF RunStep, TakeStop, Tick, RunExecute, RunSend, RunComplete, RunLast, RunPanics, handlers,
         simVars
<1>2. /\ sims'[s].state = "idle" => sims[s].state = "idle"
      /\ \A h \in Runs : sims'[s].run[h] # "none" => sims[s].run[h] # "none"
      /\ \A q \in Sims : q # s => sims'[q] = sims[q]
  <2>1. CASE TakeStop(s, g)
    BY <1>0, <2>1 DEF TakeStop, Simulators
  <2>2. CASE Tick(s, g)
    BY <1>0, <2>2 DEF Tick, RunAt, RunTo, Simulators
  <2>3. CASE RunExecute(s, g)
    BY <1>0, <2>3 DEF RunExecute, RunAt, Simulators
  <2>4. CASE RunSend(s, g)
    BY <1>0, <2>4 DEF RunSend, RunAt, RunTo, Simulators
  <2>5. CASE RunComplete(s, g)
    BY <1>0, <2>5 DEF RunComplete, RunAt, Simulators
  <2>6. CASE RunLast(s, g)
    BY <1>0, <2>6 DEF RunLast, RunTo, Simulators
  <2>7. CASE RunPanics(s, g)
    BY <2>7 DEF RunPanics, simVars
  <2> QED BY <2>1, <2>2, <2>4, <2>5, <2>6, <2>7, <2>3 DEF RunStep
<1>3. \A q \in Sims : Live(q)' \subseteq Live(q)
  <2>1. Live(s)' \subseteq Live(s)
    BY <1>2 DEF Live
  <2>2. \A q \in Sims : q # s => Live(q)' = Live(q)
    BY <1>2 DEF Live
  <2> QED BY <2>1, <2>2
<1>4. \A q \in Sims : sims'[q].state = "idle" => sims[q].state = "idle"
  BY <1>2
<1> QED BY <1>1, <1>3, <1>4 DEF OnlyCurrentRuns

LEMMA AloneStep == HubInv /\ Alone /\ [Next]_vars => Alone'
<1> SUFFICES ASSUME HubInv, Alone, [Next]_vars, Sole', ~closed' PROVE OnlyCurrentRuns'
  BY DEF Alone
<1>1. CASE UNCHANGED <<hpc, ref, simulator, sims, spc>>
  <2>1. Sole /\ ~closed
    BY <1>1 DEF Sole, closed
  <2>2. \A s \in Sims : Live(s)' = Live(s)
    BY <1>1 DEF Live
  <2> QED BY <1>1, <2>1, <2>2 DEF Alone, OnlyCurrentRuns
<1>2. ASSUME NEW s \in Sims, NEW g \in Runs, RunStep(s, g) PROVE OnlyCurrentRuns'
  <2>1. UNCHANGED <<hpc, spc>>
    BY <1>2 DEF RunStep, TakeStop, Tick, RunExecute, RunSend, RunComplete, RunLast, RunPanics,
                handlers, downVars
  <2>2. Sole /\ ~closed
    BY <2>1 DEF Sole, closed
  <2> QED BY <1>2, <2>2, RunAlone DEF Alone
<1>3. ASSUME NEW c \in Conns, PeerLeaves(c) \/ Write(c) \/ WriteFails(c) PROVE OnlyCurrentRuns'
  BY <1>1, <1>3 DEF PeerLeaves, Write, WriteFails, handlers, simVars, downVars
<1>4. CASE TakeUpdate \/ UNCHANGED vars
  BY <1>1, <1>4 DEF TakeUpdate, handlers, simVars, downVars, vars
<1>5. CASE ShutdownBegins \/ ShutdownStep
  <2>1. CASE ShutdownStop
    <3>1. sref \in Sims
      BY <2>1 DEF ShutdownStop, HubInv, DownTypes, Sims, NoSim
    <3>2. sims[sref].state \in {"idle", "running", "paused", "complete"}
      BY <3>1 DEF HubInv, SimTypes, Simulators
    <3>3. spc' # "serving"
      BY <2>1, <3>2 DEF ShutdownStop, AfterStopped
    <3> QED BY <3>3 DEF closed
  <2>2. CASE ~ShutdownStop
    BY <1>5, <2>2 DEF ShutdownBegins, ShutdownStep, ShutdownGetSimulator, ShutdownStopSend,
                      ShutdownStopWait, ShutdownCloseConns, ShutdownWait, ShutdownCloseQueue,
                      ShutdownServerClose, closed
  <2> QED BY <2>1, <2>2
<1> QED
  BY <1>2, <1>3, <1>4, <1>5, ConnectionAlone, MessageAlone, CommandAlone
  DEF Next, HandlerStep, BroadcastStep

(* With a single connection init leaves no run goroutine of the simulator   *)
(* it replaces behind: the Stop before it was enough.                       *)
THEOREM ReplacedStopped == Spec => []ReplacedMeansStopped
<1>1. Init => Alone
  <2> SUFFICES ASSUME Init PROVE OnlyCurrentRuns
    BY DEF Alone
  <2>1. \A s \in Sims : Live(s) = {}
    BY DEF Init, Live, NewSimulator
  <2>2. \A c \in Conns : hpc[c] = "none"
    BY DEF Init
  <2> QED BY <2>1, <2>2 DEF OnlyCurrentRuns, UsingPlaces
<1>2. Alone => ReplacedMeansStopped
  BY SoleFromCount DEF Alone, OnlyCurrentRuns, ReplacedMeansStopped
<1> QED BY <1>1, <1>2, AloneStep, HubInvariant, PTL DEF Spec
=============================================================================
