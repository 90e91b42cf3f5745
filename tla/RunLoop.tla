------------------------------ MODULE RunLoop ------------------------------
(***************************************************************************)
(* The lifecycle of a Simulator (internal/simulator/simulator.go): the     *)
(* commands clients call concurrently, and the run goroutines Start        *)
(* launches, with the two one-place channels and the WaitGroup between     *)
(* them.                                                                   *)
(*                                                                         *)
(* A step is what happens between two points where another goroutine can   *)
(* get in: one critical section of mu, one channel operation, one Wait.    *)
(* The engine is reduced to the number of ticks its processes need: load   *)
(* ticks in all, done of them executed (module Engine has the tick).       *)
(***************************************************************************)
EXTENDS Integers, FiniteSets

CONSTANTS
    Clients,    \* callers: the WebSocket handlers, one command at a time each
    Runs,       \* bound: the run goroutines that may be alive at once
    Commands,   \* the commands clients use
    Load,       \* the ticks the processes added before the first Start need
    MaxLoad,    \* bound: no process is added beyond this load
    NoClient

Command == {"Start", "Pause", "Resume", "Step", "Stop", "Reset", "AddProcess"}

ASSUME RunLoopAssumption ==
    /\ NoClient \notin Clients
    /\ IsFiniteSet(Runs)
    /\ Commands \subseteq Command
    /\ Load \in Nat
    /\ MaxLoad \in Nat

VARIABLES
    state,      \* Simulator.state
    pauseChan,  \* tokens in pauseChan
    stopChan,   \* tokens in stopChan
    wg,         \* the counter of the WaitGroup
    stepMu,     \* the client that holds stepMu
    load, done, \* the engine
    rpc,        \* where each run goroutine is
    ticker,     \* whether its ticker is running
    cpc,        \* where each client is in its command
    cmd         \* the command that called Stop: Stop itself or Reset

lifecycle == <<state, pauseChan, stopChan, wg, stepMu>>
engine    == <<load, done>>
runs      == <<rpc, ticker>>
clients   == <<cpc, cmd>>
vars      == <<state, pauseChan, stopChan, wg, stepMu, load, done, rpc, ticker, cpc, cmd>>

Live == {g \in Runs : rpc[g] # "exited"}

Init ==
    /\ state = "idle"
    /\ pauseChan = 0
    /\ stopChan = 0
    /\ wg = 0
    /\ stepMu = NoClient
    /\ load = Load
    /\ done = 0
    /\ rpc = [g \in Runs |-> "exited"]
    /\ ticker = [g \in Runs |-> FALSE]
    /\ cpc = [c \in Clients |-> "ready"]
    /\ cmd = [c \in Clients |-> "Stop"]

----------------------------------------------------------------------------
(* executeTimeUnit and isComplete.                                         *)
executeTimeUnit ==
    /\ done' = IF done < load THEN done + 1 ELSE done
    /\ UNCHANGED load

isComplete == done >= load

----------------------------------------------------------------------------
(* Commands.  A command that finds nothing to do returns at once and is    *)
(* left out: it changes nothing.                                           *)
Calls(c, command) == cpc[c] = "ready" /\ command \in Commands

Goto(c, pc) == cpc' = [cpc EXCEPT ![c] = pc]

MutantStart(c) ==
    /\ Calls(c, "Start")
    /\ state # "running"
    /\ state' = "running"
    /\ \E g \in Runs \ Live : /\ rpc' = [rpc EXCEPT ![g] = "select"]
                             /\ ticker' = [ticker EXCEPT ![g] = TRUE]
    /\ UNCHANGED <<pauseChan, stopChan, wg, stepMu, engine, clients>>
Start(c) ==
    /\ Calls(c, "Start")
    /\ state # "running"
    /\ state' = "running"
    /\ wg' = wg + 1
    /\ \E g \in Runs \ Live :
         /\ rpc' = [rpc EXCEPT ![g] = "select"]
         /\ ticker' = [ticker EXCEPT ![g] = TRUE]
    /\ UNCHANGED <<pauseChan, stopChan, stepMu, engine, clients>>

Pause(c) ==
    /\ Calls(c, "Pause")
    /\ state = "running"
    /\ state' = "paused"
    /\ UNCHANGED <<pauseChan, stopChan, wg, stepMu, engine, runs, clients>>

Resume(c) ==
    /\ Calls(c, "Resume")
    /\ state = "paused"
    /\ state' = "running"
    /\ Goto(c, "resumeSend")
    /\ UNCHANGED <<pauseChan, stopChan, wg, stepMu, engine, runs, cmd>>

\* The send of Resume, and of run when it finds the simulation paused: it is
\* dropped when the channel is full.
ResumeSend(c) ==
    /\ cpc[c] = "resumeSend"
    /\ pauseChan' = 1
    /\ Goto(c, "ready")
    /\ UNCHANGED <<state, stopChan, wg, stepMu, engine, runs, cmd>>

MutantStep(c) ==
    /\ Calls(c, "Step")
    /\ state \in {"idle", "paused"}
    /\ state' = "paused"
    /\ stepMu' = c
    /\ Goto(c, "stepExecute")
    /\ UNCHANGED <<pauseChan, stopChan, wg, engine, runs, cmd>>
Step(c) ==
    /\ Calls(c, "Step")
    /\ stepMu = NoClient
    /\ state \in {"idle", "paused"}
    /\ state' = "paused"
    /\ stepMu' = c
    /\ Goto(c, "stepExecute")
    /\ UNCHANGED <<pauseChan, stopChan, wg, engine, runs, cmd>>

StepExecute(c) ==
    /\ cpc[c] = "stepExecute"
    /\ executeTimeUnit
    /\ Goto(c, "stepCheck")
    /\ UNCHANGED <<lifecycle, runs, cmd>>

MutantStepCheck(c) ==
    /\ cpc[c] = "stepCheck"
    /\ Goto(c, "stepComplete")
    /\ UNCHANGED <<lifecycle, engine, runs, cmd>>
StepCheck(c) ==
    /\ cpc[c] = "stepCheck"
    /\ IF isComplete
       THEN Goto(c, "stepComplete") /\ UNCHANGED stepMu
       ELSE Goto(c, "ready") /\ stepMu' = NoClient
    /\ UNCHANGED <<state, pauseChan, stopChan, wg, engine, runs, cmd>>

StepComplete(c) ==
    /\ cpc[c] = "stepComplete"
    /\ state' = "complete"
    /\ stepMu' = NoClient
    /\ Goto(c, "ready")
    /\ UNCHANGED <<pauseChan, stopChan, wg, engine, runs, cmd>>

\* The first critical section of Stop, called by itself or by Reset.
MutantStop(c, command) ==
    /\ Calls(c, command)
    /\ command = "Reset" \/ state # "idle"
    /\ state' = "idle"
    /\ cmd' = [cmd EXCEPT ![c] = command]
    /\ Goto(c, IF state = "idle" THEN "drainPause" ELSE "stopWait")
    /\ UNCHANGED <<pauseChan, stopChan, wg, stepMu, engine, runs>>
Stop(c, command) ==
    /\ Calls(c, command)
    /\ command = "Reset" \/ state # "idle"
    /\ state' = "idle"
    /\ cmd' = [cmd EXCEPT ![c] = command]
    /\ Goto(c, CASE state \in {"running", "paused"} -> "stopSend"
                 [] state = "complete" -> "stopWait"
                 [] state = "idle" -> "drainPause")
    /\ UNCHANGED <<pauseChan, stopChan, wg, stepMu, engine, runs>>

MutantStopSend(c) ==
    /\ cpc[c] = "stopSend"
    /\ stopChan' = 1
    /\ Goto(c, IF cmd[c] = "Reset" THEN "drainPause" ELSE "ready")
    /\ UNCHANGED <<state, pauseChan, wg, stepMu, engine, runs, cmd>>
StopSend(c) ==
    /\ cpc[c] = "stopSend"
    /\ stopChan' = 1
    /\ Goto(c, "stopWait")
    /\ UNCHANGED <<state, pauseChan, wg, stepMu, engine, runs, cmd>>

StopWait(c) ==
    /\ cpc[c] = "stopWait"
    /\ wg = 0
    /\ Goto(c, IF cmd[c] = "Reset" THEN "drainPause" ELSE "ready")
    /\ UNCHANGED <<lifecycle, engine, runs, cmd>>

DrainPause(c) ==
    /\ cpc[c] = "drainPause"
    /\ pauseChan' = 0
    /\ Goto(c, "drainStop")
    /\ UNCHANGED <<state, stopChan, wg, stepMu, engine, runs, cmd>>

MutantDrainStop(c) ==
    /\ cpc[c] = "drainStop"
    /\ Goto(c, "resetState")
    /\ UNCHANGED <<lifecycle, engine, runs, cmd>>
DrainStop(c) ==
    /\ cpc[c] = "drainStop"
    /\ stopChan' = 0
    /\ Goto(c, "resetState")
    /\ UNCHANGED <<state, pauseChan, wg, stepMu, engine, runs, cmd>>

ResetState(c) ==
    /\ cpc[c] = "resetState"
    /\ state' = "idle"
    /\ done' = 0
    /\ Goto(c, "ready")
    /\ UNCHANGED <<pauseChan, stopChan, wg, stepMu, load, runs, cmd>>

AddProcess(c) ==
    /\ Calls(c, "AddProcess")
    /\ load < MaxLoad
    /\ load' = load + 1
    /\ UNCHANGED <<lifecycle, done, runs, clients>>

ClientStep(c) ==
    \/ ResumeSend(c)
    \/ StepExecute(c) \/ StepCheck(c) \/ StepComplete(c)
    \/ StopSend(c) \/ StopWait(c)
    \/ DrainPause(c) \/ DrainStop(c) \/ ResetState(c)

Call(c) ==
    \/ Start(c) \/ Pause(c) \/ Resume(c) \/ Step(c) \/ AddProcess(c)
    \/ \E command \in {"Stop", "Reset"} : Stop(c, command)

----------------------------------------------------------------------------
(* The run goroutine.  Its select takes any case that is ready.            *)
MutantExit(g) == rpc' = [rpc EXCEPT ![g] = "exited"] /\ UNCHANGED wg
Exit(g) == rpc' = [rpc EXCEPT ![g] = "exited"] /\ wg' = wg - 1

RunTo(g, pc) == rpc' = [rpc EXCEPT ![g] = pc]

\* case <-s.stopChan, in the main select and in pausedLoop.
TakeStop(g) ==
    /\ rpc[g] \in {"select", "pausedLoop"}
    /\ stopChan = 1
    /\ stopChan' = 0
    /\ Exit(g)
    /\ UNCHANGED <<state, pauseChan, stepMu, engine, ticker, clients>>

\* case <-s.pauseChan of the main select.
TakePause(g) ==
    /\ rpc[g] = "select"
    /\ pauseChan = 1
    /\ pauseChan' = 0
    /\ RunTo(g, "pausedLoop")
    /\ ticker' = [ticker EXCEPT ![g] = FALSE]
    /\ UNCHANGED <<state, stopChan, wg, stepMu, engine, clients>>

\* case <-s.pauseChan of pausedLoop: the simulation was resumed.
TakeResume(g) ==
    /\ rpc[g] = "pausedLoop"
    /\ pauseChan = 1
    /\ pauseChan' = 0
    /\ RunTo(g, "select")
    /\ ticker' = [ticker EXCEPT ![g] = TRUE]
    /\ UNCHANGED <<state, stopChan, wg, stepMu, engine, clients>>

\* case <-ticker.C: what run does next depends on the state it reads here.
\* In state idle or complete it goes back to the select and nothing changes.
TakeTick(g) ==
    /\ rpc[g] = "select"
    /\ ticker[g]
    /\ \/ /\ state = "paused"
          /\ RunTo(g, "selfPause")
          /\ ticker' = [ticker EXCEPT ![g] = FALSE]
       \/ /\ state = "running"
          /\ RunTo(g, "execute")
          /\ UNCHANGED ticker
    /\ UNCHANGED <<lifecycle, engine, clients>>

SelfPause(g) ==
    /\ rpc[g] = "selfPause"
    /\ pauseChan' = 1
    /\ RunTo(g, "select")
    /\ UNCHANGED <<state, stopChan, wg, stepMu, engine, ticker, clients>>

RunExecute(g) ==
    /\ rpc[g] = "execute"
    /\ executeTimeUnit
    /\ RunTo(g, "check")
    /\ UNCHANGED <<lifecycle, ticker, clients>>

MutantRunCheck(g) ==
    /\ rpc[g] = "check"
    /\ RunTo(g, "select")
    /\ UNCHANGED <<lifecycle, engine, ticker, clients>>
RunCheck(g) ==
    /\ rpc[g] = "check"
    /\ RunTo(g, IF isComplete THEN "setComplete" ELSE "select")
    /\ UNCHANGED <<lifecycle, engine, ticker, clients>>

RunComplete(g) ==
    /\ rpc[g] = "setComplete"
    /\ state' = "complete"
    /\ RunTo(g, "lastUpdate")
    /\ UNCHANGED <<pauseChan, stopChan, wg, stepMu, engine, ticker, clients>>

\* The final sendUpdate and the deferred wg.Done.
RunExit(g) ==
    /\ rpc[g] = "lastUpdate"
    /\ Exit(g)
    /\ UNCHANGED <<state, pauseChan, stopChan, stepMu, engine, ticker, clients>>

RunStep(g) ==
    \/ TakeStop(g) \/ TakePause(g) \/ TakeResume(g) \/ TakeTick(g)
    \/ SelfPause(g) \/ RunExecute(g) \/ RunCheck(g) \/ RunComplete(g) \/ RunExit(g)

----------------------------------------------------------------------------
Next ==
    \/ \E c \in Clients : Call(c) \/ ClientStep(c)
    \/ \E g \in Runs : RunStep(g)

Spec == Init /\ [][Next]_vars

(* A goroutine that can move does, and a select whose stop or pause case is *)
(* ready again and again takes it in the end: Go chooses among the ready    *)
(* cases at random.  Nobody has to issue another command.                   *)
FairSpec ==
    /\ Spec
    /\ \A c \in Clients : WF_vars(ClientStep(c))
    /\ \A g \in Runs : /\ WF_vars(RunStep(g))
                       /\ SF_vars(TakeStop(g))
                       /\ SF_vars(TakePause(g))
----------------------------------------------------------------------------
(* The values the variables may take.                                       *)
TypeOK ==
    /\ state \in {"idle", "running", "paused", "complete"}
    /\ pauseChan \in {0, 1}
    /\ stopChan \in {0, 1}
    /\ wg \in Nat
    /\ stepMu \in Clients \cup {NoClient}
    /\ load \in Nat
    /\ done \in Nat
    /\ rpc \in [Runs -> {"exited", "select", "pausedLoop", "selfPause", "execute",
                         "check", "setComplete", "lastUpdate"}]
    /\ ticker \in [Runs -> BOOLEAN]
    /\ cpc \in [Clients -> {"ready", "resumeSend", "stepExecute", "stepCheck",
                            "stepComplete", "stopSend", "stopWait", "drainPause",
                            "drainStop", "resetState"}]
    /\ cmd \in [Clients -> {"Stop", "Reset"}]

(* The WaitGroup counts the run goroutines that have not returned, on every *)
(* path out of run, so that Wait waits for exactly those.                   *)
WaitGroupCountsRuns == wg = Cardinality(Live)

(* At most one Step is between its check of the state and its return, and   *)
(* it is the holder of stepMu.                                              *)
StepsAreSerialized ==
    \A c \in Clients :
        cpc[c] \in {"stepExecute", "stepCheck", "stepComplete"} <=> stepMu = c

(* With a single client: once Stop or Reset has returned and the simulation *)
(* is idle, no run goroutine is left that could tick it.                    *)
StoppedMeansExited ==
    (\A c \in Clients : cpc[c] = "ready") /\ state = "idle" => Live = {}

(* With a single client: Reset ends with nothing left over, no goroutine    *)
(* and no token that the next run goroutine would take for a new command.   *)
ResetLeavesNothingBehind ==
    [][(\E c \in Clients : ResetState(c)) =>
          Live' = {} /\ pauseChan' = 0 /\ stopChan' = 0]_vars

(* The simulation becomes complete only when every process is.              *)
CompleteMeansDone ==
    [][state' = "complete" /\ state # "complete" => done' >= load']_vars

(* Every command returns.                                                   *)
CommandsReturn == \A c \in Clients : cpc[c] # "ready" ~> cpc[c] = "ready"

(* A running simulation does not stay running for ever: it ticks until it   *)
(* is complete, unless a client pauses or stops it first.                   *)
RunningEnds == state = "running" ~> state # "running"

\* Stop waits, and a run goroutine it waits for has no stop token to take.
StopMissed(c) ==
    /\ cpc[c] = "stopWait"
    /\ stopChan = 0
    /\ \E g \in Runs : rpc[g] \in {"select", "pausedLoop"}

\* Running in name only: every run goroutine that is left, if any, has its
\* ticker off and no token to take, nor is one on its way.
Undriven ==
    /\ state = "running"
    /\ \A c \in Clients : cpc[c] = "ready"
    /\ \A g \in Live : /\ rpc[g] \in {"select", "pausedLoop"} /\ ~ticker[g]
                       /\ pauseChan = 0 /\ stopChan = 0

(* With a single client that uses every command there are two ways to get   *)
(* stuck and no other: Stop waits for a goroutine that has no token to take *)
(* (it was set complete by Step, or is one of two that Start from Paused    *)
(* left), and a simulation is said to be running that nobody drives (Resume *)
(* lost its token or met no goroutine, or the goroutine took a stop token   *)
(* that an earlier Stop left).  Both last until the client acts: otherwise  *)
(* every command returns and running comes to an end.                       *)
StuckOnlyWithoutSignal ==
    /\ \A c \in Clients : cpc[c] # "ready" ~> cpc[c] = "ready" \/ StopMissed(c)
    /\ state = "running" ~> state # "running" \/ Undriven
=============================================================================
