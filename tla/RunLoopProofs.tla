--------------------------- MODULE RunLoopProofs ---------------------------
(***************************************************************************)
(* Proofs about the lifecycle, for any number of clients and of run        *)
(* goroutines, any set of commands and any workload.                       *)
(***************************************************************************)
EXTENDS RunLoop, FiniteSetTheorems, TLAPS

(* The counter of the WaitGroup stays a natural number only because it      *)
(* counts the live goroutines, so the two facts are proved together.        *)
Counted == TypeOK /\ WaitGroupCountsRuns

(* Moving a goroutine among the places inside run leaves Live alone; wg is  *)
(* untouched by such a step.                                                *)
LEMMA SameLive ==
  ASSUME WaitGroupCountsRuns, Live' = Live, wg' = wg
  PROVE  WaitGroupCountsRuns'
BY DEF WaitGroupCountsRuns

(* Start adds one goroutine and one to the counter.                         *)
LEMMA OneMore ==
  ASSUME Counted, NEW g \in Runs, g \notin Live, Live' = Live \cup {g}, wg' = wg + 1
  PROVE  WaitGroupCountsRuns'
<1>1. IsFiniteSet(Live)
  BY FS_Subset, RunLoopAssumption DEF Live
<1>2. Cardinality(Live \cup {g}) = Cardinality(Live) + 1
  BY <1>1, FS_AddElement
<1> QED BY <1>2 DEF Counted, WaitGroupCountsRuns

(* A goroutine that returns takes one off the counter, which was positive.  *)
LEMMA OneLess ==
  ASSUME Counted, NEW g \in Runs, rpc[g] # "exited", Exit(g)
  PROVE  WaitGroupCountsRuns' /\ wg' \in Nat /\ Live' = Live \ {g}
<1>1. IsFiniteSet(Live)
  BY FS_Subset, RunLoopAssumption DEF Live
<1>2. g \in Live
  BY DEF Live
<1>3. Live' = Live \ {g}
  BY DEF Live, Exit, Counted, TypeOK
<1>4. Cardinality(Live \ {g}) = Cardinality(Live) - 1
  BY <1>1, <1>2, FS_RemoveElement
<1>5. Cardinality(Live) \in Nat /\ Cardinality(Live \ {g}) \in Nat
  BY <1>1, FS_CardinalityType, FS_RemoveElement
<1> QED BY <1>3, <1>4, <1>5 DEF Counted, WaitGroupCountsRuns, Exit

LEMMA CountedInit == Init => Counted
<1> SUFFICES ASSUME Init PROVE Counted
  OBVIOUS
<1>1. TypeOK
  BY RunLoopAssumption DEF Init, TypeOK
<1>2. Live = {}
  BY DEF Init, Live
<1>3. Cardinality({}) = 0
  BY FS_EmptySet
<1> QED BY <1>1, <1>2, <1>3 DEF Init, Counted, WaitGroupCountsRuns

(* The steps of a client: only Start changes what goroutines there are.     *)
LEMMA ClientKeepsCount ==
  ASSUME Counted, NEW c \in Clients, Call(c) \/ ClientStep(c)
  PROVE  Counted'
<1> USE DEF Counted
<1>1. CASE Start(c)
  <2>1. PICK g \in Runs \ Live : /\ rpc' = [rpc EXCEPT ![g] = "select"]
                                 /\ ticker' = [ticker EXCEPT ![g] = TRUE]
    BY <1>1 DEF Start
  <2>2. TypeOK'
    BY <1>1, <2>1 DEF Start, TypeOK, engine, clients
  <2>3. Live' = Live \cup {g}
    BY <2>1 DEF Live, TypeOK
  <2>4. wg' = wg + 1
    BY <1>1 DEF Start
  <2> QED BY <2>1, <2>2, <2>3, <2>4, OneMore
<1>2. ASSUME UNCHANGED <<rpc, ticker, wg>>, TypeOK' PROVE Counted'
  <2>1. Live' = Live
    BY <1>2 DEF Live
  <2> QED BY <1>2, <2>1, SameLive
<1>3. CASE Pause(c)
  BY <1>2, <1>3 DEF Pause, TypeOK, engine, runs, clients
<1>4. CASE Resume(c)
  BY <1>2, <1>4 DEF Resume, Goto, TypeOK, engine, runs
<1>5. CASE Step(c)
  BY <1>2, <1>5 DEF Step, Goto, TypeOK, engine, runs
<1>6. CASE AddProcess(c)
  BY <1>2, <1>6 DEF AddProcess, TypeOK, lifecycle, runs, clients
<1>7. ASSUME NEW command \in {"Stop", "Reset"}, Stop(c, command) PROVE Counted'
  <2>1. TypeOK'
    BY <1>7 DEF Stop, Calls, Goto, TypeOK, engine, runs
  <2> QED BY <1>2, <1>7, <2>1 DEF Stop, runs
<1>8. CASE ResumeSend(c)
  BY <1>2, <1>8 DEF ResumeSend, Goto, TypeOK, engine, runs
<1>9. CASE StepExecute(c)
  BY <1>2, <1>9 DEF StepExecute, executeTimeUnit, Goto, TypeOK, lifecycle, runs
<1>10. CASE StepCheck(c)
  BY <1>2, <1>10 DEF StepCheck, Goto, TypeOK, engine, runs
<1>11. CASE StepComplete(c)
  BY <1>2, <1>11 DEF StepComplete, Goto, TypeOK, engine, runs
<1>12. CASE StopSend(c)
  BY <1>2, <1>12 DEF StopSend, Goto, TypeOK, engine, runs
<1>13. CASE StopWait(c)
  BY <1>2, <1>13 DEF StopWait, Goto, TypeOK, lifecycle, engine, runs
<1>14. CASE DrainPause(c)
  BY <1>2, <1>14 DEF DrainPause, Goto, TypeOK, engine, runs
<1>15. CASE DrainStop(c)
  BY <1>2, <1>15 DEF DrainStop, Goto, TypeOK, engine, runs
<1>16. CASE ResetState(c)
  BY <1>2, <1>16 DEF ResetState, Goto, TypeOK, runs
<1> QED
  BY <1>1, <1>3, <1>4, <1>5, <1>6, <1>7, <1>8, <1>9, <1>10, <1>11, <1>12, <1>13,
     <1>14, <1>15, <1>16 DEF Call, ClientStep

(* The steps of a run goroutine: only its two ways out change the counter.  *)
LEMMA RunKeepsCount ==
  ASSUME Counted, NEW g \in Runs, RunStep(g)
  PROVE  Counted'
<1> USE DEF Counted
<1>1. CASE TakeStop(g)
  <2>1. rpc[g] # "exited" /\ Exit(g)
    BY <1>1 DEF TakeStop
  <2>2. TypeOK'
    BY <1>1, <2>1, OneLess DEF TakeStop, Exit, TypeOK, engine, clients
  <2> QED BY <2>1, <2>2, OneLess
<1>2. CASE RunExit(g)
  <2>1. rpc[g] # "exited" /\ Exit(g)
    BY <1>2 DEF RunExit
  <2>2. TypeOK'
    BY <1>2, <2>1, OneLess DEF RunExit, Exit, TypeOK, engine, clients
  <2> QED BY <2>1, <2>2, OneLess
<1>3. ASSUME NEW pc, pc # "exited", rpc[g] # "exited", RunTo(g, pc), wg' = wg, TypeOK'
      PROVE  Counted'
  <2>1. Live' = Live
    BY <1>3 DEF Live, RunTo, TypeOK
  <2> QED BY <1>3, <2>1, SameLive
<1>4. CASE TakePause(g)
  BY <1>3, <1>4 DEF TakePause, RunTo, TypeOK, engine, clients
<1>5. CASE TakeResume(g)
  BY <1>3, <1>5 DEF TakeResume, RunTo, TypeOK, engine, clients
<1>6. CASE TakeTick(g)
  <2>1. rpc[g] # "exited" /\ wg' = wg
    BY <1>6 DEF TakeTick, lifecycle
  <2>2. CASE RunTo(g, "selfPause") /\ ticker' = [ticker EXCEPT ![g] = FALSE]
    <3>1. TypeOK'
      BY <1>6, <2>2 DEF TakeTick, RunTo, TypeOK, lifecycle, engine, clients
    <3> QED BY <1>3, <2>1, <2>2, <3>1
  <2>3. CASE RunTo(g, "execute") /\ UNCHANGED ticker
    <3>1. TypeOK'
      BY <1>6, <2>3 DEF TakeTick, RunTo, TypeOK, lifecycle, engine, clients
    <3> QED BY <1>3, <2>1, <2>3, <3>1
  <2> QED BY <1>6, <2>2, <2>3 DEF TakeTick
<1>7. CASE SelfPause(g)
  BY <1>3, <1>7 DEF SelfPause, RunTo, TypeOK, engine, clients
<1>8. CASE RunExecute(g)
  <2>1. done' \in Nat /\ load' = load
    BY <1>8 DEF RunExecute, executeTimeUnit, TypeOK
  <2>2. TypeOK'
    BY <1>8, <2>1 DEF RunExecute, RunTo, TypeOK, lifecycle, clients
  <2> QED BY <1>3, <1>8, <2>2 DEF RunExecute, lifecycle
<1>9. CASE RunCheck(g)
  <2>1. PICK pc \in {"setComplete", "select"} : RunTo(g, pc)
    BY <1>9 DEF RunCheck
  <2>2. rpc[g] # "exited" /\ wg' = wg
    BY <1>9 DEF RunCheck, lifecycle
  <2>3. TypeOK'
    BY <1>9, <2>1 DEF RunCheck, RunTo, TypeOK, lifecycle, engine, clients
  <2> QED BY <1>3, <2>1, <2>2, <2>3
<1>10. CASE RunComplete(g)
  BY <1>3, <1>10 DEF RunComplete, RunTo, TypeOK, engine, clients
<1> QED
  BY <1>1, <1>2, <1>4, <1>5, <1>6, <1>7, <1>8, <1>9, <1>10 DEF RunStep

LEMMA CountedStep == Counted /\ [Next]_vars => Counted'
<1> SUFFICES ASSUME Counted, [Next]_vars PROVE Counted'
  OBVIOUS
<1>1. CASE UNCHANGED vars
  BY <1>1 DEF Counted, TypeOK, WaitGroupCountsRuns, Live, vars
<1>2. CASE \E c \in Clients : Call(c) \/ ClientStep(c)
  BY <1>2, ClientKeepsCount
<1>3. CASE \E g \in Runs : RunStep(g)
  BY <1>3, RunKeepsCount
<1> QED BY <1>1, <1>2, <1>3 DEF Next

LEMMA CountedInvariant == Spec => []Counted
BY CountedInit, CountedStep, PTL DEF Spec

(* Type correctness: in particular no channel ever holds more than the one  *)
(* token it has room for, and the WaitGroup's counter never goes negative.  *)
THEOREM LifecycleTypes == Spec => []TypeOK
<1>1. Counted => TypeOK
  BY DEF Counted
<1> QED BY <1>1, CountedInvariant, PTL

(* wg.Wait() in Stop waits for exactly the run goroutines that are alive,   *)
(* however many Start calls launched and whichever way each one ended.      *)
THEOREM WaitGroupCounts == Spec => []WaitGroupCountsRuns
<1>1. Counted => WaitGroupCountsRuns
  BY DEF Counted
<1> QED BY <1>1, CountedInvariant, PTL

----------------------------------------------------------------------------
(* stepMu: a client is inside Step exactly while it holds the mutex.        *)
LEMMA SerializedStep ==
  ASSUME TypeOK, StepsAreSerialized, [Next]_vars
  PROVE  StepsAreSerialized'
<1> USE RunLoopAssumption
<1>1. CASE UNCHANGED <<stepMu, cpc>>
  BY <1>1 DEF StepsAreSerialized
<1>2. ASSUME NEW c \in Clients, NEW pc, cpc' = [cpc EXCEPT ![c] = pc], stepMu' = stepMu,
             cpc[c] \in {"stepExecute", "stepCheck", "stepComplete"}
               <=> pc \in {"stepExecute", "stepCheck", "stepComplete"}
      PROVE  StepsAreSerialized'
  BY <1>2 DEF StepsAreSerialized, TypeOK
<1>3. ASSUME NEW c \in Clients, Call(c) \/ ClientStep(c) PROVE StepsAreSerialized'
  <2>1. CASE Start(c) \/ Pause(c) \/ AddProcess(c)
    BY <1>1, <2>1 DEF Start, Pause, AddProcess, clients, lifecycle
  <2>2. CASE Step(c)
    BY <2>2 DEF Step, Goto, StepsAreSerialized, TypeOK
  <2>3. CASE StepExecute(c)
    BY <1>2, <2>3 DEF StepExecute, Goto, lifecycle
  <2>4. CASE StepCheck(c)
    <3>1. CASE isComplete
      BY <1>2, <2>4, <3>1 DEF StepCheck, Goto
    <3>2. CASE ~ isComplete
      BY <2>4, <3>2 DEF StepCheck, Goto, StepsAreSerialized, TypeOK
    <3> QED BY <3>1, <3>2
  <2>5. CASE StepComplete(c)
    BY <2>5 DEF StepComplete, Goto, StepsAreSerialized, TypeOK
  <2>6. ASSUME NEW command \in {"Stop", "Reset"}, Stop(c, command)
        PROVE  StepsAreSerialized'
    <3>1. PICK pc \in {"stopSend", "stopWait", "drainPause"} : Goto(c, pc)
      BY <2>6 DEF Stop, TypeOK
    <3>2. cpc[c] = "ready" /\ stepMu' = stepMu
      BY <2>6 DEF Stop, Calls
    <3> QED BY <1>2, <3>1, <3>2 DEF Goto
  <2>7. CASE Resume(c) \/ ResumeSend(c)
    BY <1>2, <2>7 DEF Resume, ResumeSend, Calls, Goto
  <2>8. CASE StopSend(c) \/ DrainPause(c) \/ DrainStop(c) \/ ResetState(c)
    BY <1>2, <2>8 DEF StopSend, DrainPause, DrainStop, ResetState, Goto
  <2>9. CASE StopWait(c)
    <3>1. PICK pc \in {"drainPause", "ready"} : Goto(c, pc)
      BY <2>9 DEF StopWait
    <3> QED BY <1>2, <2>9, <3>1 DEF StopWait, Goto, lifecycle
  <2> QED
    BY <1>3, <2>1, <2>2, <2>3, <2>4, <2>5, <2>6, <2>7, <2>8, <2>9 DEF Call, ClientStep
<1>4. ASSUME NEW g \in Runs, RunStep(g) PROVE StepsAreSerialized'
  BY <1>1, <1>4 DEF RunStep, TakeStop, TakePause, TakeResume, TakeTick, SelfPause,
     RunExecute, RunCheck, RunComplete, RunExit, clients, lifecycle
<1> QED BY <1>1, <1>3, <1>4 DEF Next, vars

(* Step's comment: no two callers pass its check of the state and both call *)
(* executeTimeUnit.  Between its first test and its return a caller of Step *)
(* owns stepMu, for any number of clients.                                  *)
THEOREM StepsSerialized == Spec => []StepsAreSerialized
<1>1. Init => StepsAreSerialized
  BY RunLoopAssumption DEF Init, StepsAreSerialized
<1>2. Counted => TypeOK
  BY DEF Counted
<1>3. TypeOK /\ StepsAreSerialized /\ [Next]_vars => StepsAreSerialized'
  BY SerializedStep
<1> QED BY <1>1, <1>2, <1>3, CountedInvariant, PTL DEF Spec

----------------------------------------------------------------------------
(* What one client can rely on.  The strengthening: an idle simulation with *)
(* a goroutine still alive is one whose Stop has not returned, and from the *)
(* moment Reset starts to drain the channels nothing is alive that could    *)
(* send on them again.                                                      *)
Quiet ==
    /\ \A c \in Clients :
          /\ cpc[c] \in {"drainPause", "drainStop", "resetState"} => Live = {}
          /\ cpc[c] \in {"drainStop", "resetState"} => pauseChan = 0
          /\ cpc[c] = "resetState" => stopChan = 0
    /\ state = "idle" /\ Live # {} =>
          \E c \in Clients : cpc[c] \in {"stopSend", "stopWait"}

LEMMA WaitedForAll ==
  ASSUME Counted, wg = 0
  PROVE  Live = {}
<1>1. IsFiniteSet(Live)
  BY FS_Subset, RunLoopAssumption DEF Live
<1> QED BY <1>1, FS_EmptySet DEF Counted, WaitGroupCountsRuns

LEMMA QuietClient ==
  ASSUME NEW me, Clients = {me}, Counted, Quiet, Call(me) \/ ClientStep(me)
  PROVE  Quiet'
<1> USE DEF Counted
<1>1. ASSUME rpc' = rpc PROVE Live' = Live
  BY <1>1 DEF Live
<1>2. CASE Start(me)
  BY <1>2 DEF Start, Calls, Quiet, clients
<1>3. CASE Pause(me) \/ AddProcess(me)
  BY <1>1, <1>3 DEF Pause, AddProcess, Quiet, clients, runs, lifecycle
<1>4. CASE Resume(me) \/ ResumeSend(me)
  BY <1>1, <1>4 DEF Resume, ResumeSend, Goto, Quiet, TypeOK, runs
<1>5. CASE Step(me) \/ StepExecute(me) \/ StepComplete(me)
  BY <1>1, <1>5 DEF Step, StepExecute, StepComplete, Goto, Quiet, TypeOK, runs, lifecycle
<1>6. CASE StepCheck(me)
  <2>1. PICK pc \in {"stepComplete", "ready"} : Goto(me, pc)
    BY <1>6 DEF StepCheck
  <2> QED BY <1>1, <1>6, <2>1 DEF StepCheck, Goto, Quiet, TypeOK, runs
<1>7. ASSUME NEW command \in {"Stop", "Reset"}, Stop(me, command) PROVE Quiet'
  <2>1. cpc[me] = "ready" /\ Live' = Live /\ UNCHANGED <<pauseChan, stopChan>>
    BY <1>1, <1>7 DEF Stop, Calls, runs
  <2>2. CASE state = "idle"
    <3>1. Live = {}
      BY <2>1, <2>2 DEF Quiet
    <3>2. Goto(me, "drainPause")
      BY <1>7, <2>2 DEF Stop
    <3> QED BY <2>1, <3>1, <3>2 DEF Goto, Quiet, TypeOK
  <2>3. CASE state # "idle"
    <3>1. PICK pc \in {"stopSend", "stopWait"} : Goto(me, pc)
      BY <1>7, <2>3 DEF Stop, TypeOK
    <3> QED BY <2>1, <3>1 DEF Goto, Quiet, TypeOK
  <2> QED BY <2>2, <2>3
<1>8. CASE StopSend(me)
  BY <1>1, <1>8 DEF StopSend, Goto, Quiet, TypeOK, runs
<1>9. CASE StopWait(me)
  <2>1. Live = {}
    BY <1>9, WaitedForAll DEF StopWait
  <2>2. PICK pc \in {"drainPause", "ready"} : Goto(me, pc)
    BY <1>9 DEF StopWait
  <2> QED BY <1>1, <1>9, <2>1, <2>2 DEF StopWait, Goto, Quiet, TypeOK, runs, lifecycle
<1>10. CASE DrainPause(me) \/ DrainStop(me) \/ ResetState(me)
  <2>1. Live = {} /\ Live' = {}
    BY <1>1, <1>10 DEF DrainPause, DrainStop, ResetState, Quiet, runs
  <2> QED BY <1>10, <2>1 DEF DrainPause, DrainStop, ResetState, Goto, Quiet, TypeOK
<1> QED
  BY <1>2, <1>3, <1>4, <1>5, <1>6, <1>7, <1>8, <1>9, <1>10 DEF Call, ClientStep

(* A live goroutine rules out that Reset is draining, so whatever it sends  *)
(* is sent before.                                                          *)
LEMMA QuietRun ==
  ASSUME Counted, Quiet, NEW g \in Runs, RunStep(g)
  PROVE  Quiet'
<1> USE DEF Counted
<1>1. rpc[g] # "exited"
  BY DEF RunStep, TakeStop, TakePause, TakeResume, TakeTick, SelfPause, RunExecute,
         RunCheck, RunComplete, RunExit
<1>2. g \in Live
  BY <1>1 DEF Live
<1>3. UNCHANGED cpc /\ (state' = state \/ state' = "complete")
  BY DEF RunStep, TakeStop, TakePause, TakeResume, TakeTick, SelfPause, RunExecute,
         RunCheck, RunComplete, RunExit, clients, lifecycle
<1>4. \A c \in Clients : cpc[c] \notin {"drainPause", "drainStop", "resetState"}
  BY <1>2 DEF Quiet
<1> QED BY <1>2, <1>3, <1>4 DEF Quiet

LEMMA QuietInvariant ==
  ASSUME NEW me, Clients = {me}
  PROVE  Spec => []Quiet
<1>1. Init => Quiet
  BY DEF Init, Quiet, Live
<1>2. Counted /\ Quiet /\ [Next]_vars => Quiet'
  <2> SUFFICES ASSUME Counted, Quiet, [Next]_vars PROVE Quiet'
    OBVIOUS
  <2>1. CASE UNCHANGED vars
    BY <2>1 DEF Quiet, Live, vars
  <2>2. CASE \E c \in Clients : Call(c) \/ ClientStep(c)
    BY <2>2, QuietClient
  <2>3. CASE \E g \in Runs : RunStep(g)
    BY <2>3, QuietRun
  <2> QED BY <2>1, <2>2, <2>3 DEF Next
<1> QED BY <1>1, <1>2, CountedInvariant, PTL DEF Spec

(* The comment of Stop, for a caller that has the simulator to itself: when *)
(* Stop has returned the run goroutine has exited, however many goroutines  *)
(* Start launched and wherever in its loop each of them was.                *)
THEOREM StopWaitsForTheRun ==
  ASSUME NEW me, Clients = {me}
  PROVE  Spec => []StoppedMeansExited
<1>1. Quiet => StoppedMeansExited
  BY DEF Quiet, StoppedMeansExited
<1> QED BY <1>1, QuietInvariant, PTL

(* The comment in Reset, for such a caller: no stale signal is left that    *)
(* would make the next goroutine exit or pause.                             *)
THEOREM ResetIsClean ==
  ASSUME NEW me, Clients = {me}
  PROVE  Spec => ResetLeavesNothingBehind
<1>1. Quiet /\ [Next]_vars =>
        [(\E c \in Clients : ResetState(c)) =>
            Live' = {} /\ pauseChan' = 0 /\ stopChan' = 0]_vars
  <2> SUFFICES ASSUME Quiet, NEW c \in Clients, ResetState(c)
               PROVE  Live' = {} /\ pauseChan' = 0 /\ stopChan' = 0
    OBVIOUS
  <2>1. Live' = Live
    BY DEF ResetState, Live, runs
  <2> QED BY <2>1 DEF Quiet, ResetState
<1> QED BY <1>1, QuietInvariant, PTL DEF Spec, ResetLeavesNothingBehind

----------------------------------------------------------------------------
(* isComplete is tested in one critical section and state set in another.   *)
(* The test still holds at the second if nobody adds a process in between   *)
(* and no Reset takes the engine back, which Quiet excludes.                *)
TestStillHolds ==
    /\ \A g \in Runs : rpc[g] = "setComplete" => done >= load
    /\ \A c \in Clients : cpc[c] = "stepComplete" => done >= load

LEMMA TestStillHoldsStep ==
  ASSUME NEW me, Clients = {me}, "AddProcess" \notin Commands,
         TypeOK, Quiet, TestStillHolds, [Next]_vars
  PROVE  TestStillHolds'
<1>1. CASE UNCHANGED vars
  BY <1>1 DEF TestStillHolds, vars
<1>2. CASE ResetState(me)
  <2>1. Live = {}
    BY <1>2 DEF Quiet, ResetState
  <2> QED BY <1>2, <2>1 DEF ResetState, Goto, runs, Live, TestStillHolds, TypeOK
<1>3. ASSUME done' \in Nat, done' >= done, load' = load, rpc' = rpc,
             NEW c \in Clients, NEW pc, Goto(c, pc), pc = "stepComplete" => done >= load
      PROVE  TestStillHolds'
  BY <1>3 DEF Goto, TestStillHolds, TypeOK
<1>4. ASSUME done' \in Nat, done' >= done, load' = load, cpc' = cpc,
             NEW g \in Runs, NEW pc, RunTo(g, pc), pc = "setComplete" => done >= load
      PROVE  TestStillHolds'
  BY <1>4 DEF RunTo, TestStillHolds, TypeOK
<1>5. ASSUME executeTimeUnit PROVE done' \in Nat /\ done' >= done /\ load' = load
  BY <1>5 DEF executeTimeUnit, TypeOK
<1>6. ASSUME UNCHANGED engine PROVE done' \in Nat /\ done' >= done /\ load' = load
  BY <1>6 DEF engine, TypeOK
<1>7. CASE Call(me)
  <2>1. CASE Start(me)
    BY <1>6, <2>1 DEF Start, engine, clients, TestStillHolds, TypeOK
  <2>2. CASE Pause(me)
    BY <2>2 DEF Pause, engine, runs, clients, TestStillHolds
  <2>3. CASE Resume(me) \/ Step(me)
    BY <1>3, <1>6, <2>3 DEF Resume, Step, runs
  <2>4. ASSUME NEW command \in {"Stop", "Reset"}, Stop(me, command) PROVE TestStillHolds'
    <3>1. PICK pc \in {"stopSend", "stopWait", "drainPause"} : Goto(me, pc)
      BY <2>4 DEF Stop, TypeOK
    <3> QED BY <1>3, <1>6, <2>4, <3>1 DEF Stop, runs
  <2>5. ~ AddProcess(me)
    BY DEF AddProcess, Calls
  <2> QED BY <1>7, <2>1, <2>2, <2>3, <2>4, <2>5 DEF Call
<1>8. CASE ClientStep(me)
  <2>1. CASE StepExecute(me)
    BY <1>3, <1>5, <2>1 DEF StepExecute, runs
  <2>2. CASE StepCheck(me)
    BY <1>3, <1>6, <2>2 DEF StepCheck, isComplete, runs
  <2>3. CASE StopWait(me)
    <3>1. PICK pc \in {"drainPause", "ready"} : Goto(me, pc)
      BY <2>3 DEF StopWait
    <3> QED BY <1>3, <1>6, <2>3, <3>1 DEF StopWait, runs
  <2>4. CASE ResumeSend(me) \/ StepComplete(me)
    BY <1>3, <1>6, <2>4 DEF ResumeSend, StepComplete, runs
  <2>5. CASE StopSend(me) \/ DrainPause(me) \/ DrainStop(me)
    BY <1>3, <1>6, <2>5 DEF StopSend, DrainPause, DrainStop, runs
  <2> QED BY <1>2, <1>8, <2>1, <2>2, <2>3, <2>4, <2>5 DEF ClientStep
<1>9. ASSUME NEW g \in Runs, RunStep(g) PROVE TestStillHolds'
  <2>1. CASE RunExecute(g)
    BY <1>4, <1>5, <2>1 DEF RunExecute, clients
  <2>2. CASE RunCheck(g)
    BY <1>4, <1>6, <2>2 DEF RunCheck, isComplete, clients
  <2>3. CASE TakeStop(g) \/ RunExit(g)
    BY <1>6, <2>3 DEF TakeStop, RunExit, Exit, clients, TestStillHolds, TypeOK, engine
  <2>4. CASE TakePause(g) \/ TakeResume(g) \/ TakeTick(g)
    BY <1>4, <1>6, <2>4 DEF TakePause, TakeResume, TakeTick, clients
  <2>5. CASE SelfPause(g) \/ RunComplete(g)
    BY <1>4, <1>6, <2>5 DEF SelfPause, RunComplete, clients
  <2> QED BY <1>9, <2>1, <2>2, <2>3, <2>4, <2>5 DEF RunStep
<1> QED BY <1>1, <1>7, <1>8, <1>9 DEF Next

(* When one client drives the simulation and adds no process meanwhile, the *)
(* state Complete means what the API says: every process has finished.      *)
THEOREM CompletionIsReal ==
  ASSUME NEW me, Clients = {me}, "AddProcess" \notin Commands
  PROVE  Spec => CompleteMeansDone
<1>1. Init => TestStillHolds
  BY DEF Init, TestStillHolds
<1>2. TypeOK /\ Quiet /\ TestStillHolds /\ [Next]_vars => TestStillHolds'
  BY TestStillHoldsStep
<1>3. TypeOK /\ TestStillHolds /\ [Next]_vars =>
        [state' = "complete" /\ state # "complete" => done' >= load']_vars
  <2> SUFFICES ASSUME TypeOK, TestStillHolds, Next, state' = "complete", state # "complete"
               PROVE  done' >= load'
    OBVIOUS
  <2>1. ASSUME NEW c \in Clients, Call(c) \/ ClientStep(c) PROVE StepComplete(c)
    BY <2>1 DEF Call, ClientStep, Start, Pause, Resume, Step, AddProcess, Stop, ResumeSend,
       StepExecute, StepCheck, StopSend, StopWait, DrainPause, DrainStop, ResetState, lifecycle
  <2>2. ASSUME NEW g \in Runs, RunStep(g) PROVE RunComplete(g)
    BY <2>2 DEF RunStep, TakeStop, TakePause, TakeResume, TakeTick, SelfPause, RunExecute,
       RunCheck, RunExit, lifecycle
  <2> QED BY <2>1, <2>2 DEF Next, StepComplete, RunComplete, TestStillHolds, engine
<1>4. Counted => TypeOK
  BY DEF Counted
<1> QED BY <1>1, <1>2, <1>3, <1>4, CountedInvariant, QuietInvariant, PTL
        DEF Spec, CompleteMeansDone
=============================================================================
