-------------------------------- MODULE Hub --------------------------------
(***************************************************************************)
(* The WebSocket server (web/server.go): the goroutine of each connection, *)
(* the one simulator they share and replace, the bounded broadcast queue   *)
(* with the goroutine that empties it, and Shutdown.                       *)
(*                                                                         *)
(* A simulator is what module RunLoop shows of it, without pauseChan: its  *)
(* state, the token in stopChan, where its run goroutines are, and the     *)
(* ticks its processes still need.  A step is one critical section, one    *)
(* channel operation or one wait, with two exceptions: isComplete is read  *)
(* with the send before it, and a connection is closed in the step that    *)
(* takes it out of the map.  A message that changes nothing (an invalid    *)
(* one, getState, speed, any command before the first init) is answered to *)
(* its sender alone and is left out.                                       *)
(***************************************************************************)
EXTENDS Integers, Sequences, FiniteSets

CONSTANTS
    Conns,       \* the connections that will ever be made
    MaxSims,     \* bound: the simulators init may create
    Limits,      \* the values of cfg.MaxClients to consider; 0 is no limit
    BufferSize,  \* cfg.BroadcastBufferSize
    MaxMessages, \* bound: the messages that change something
    Runs,        \* bound: the run goroutines one simulator may have at once
    Ticks        \* the ticks the processes of an init need

ASSUME HubAssumption ==
    /\ IsFiniteSet(Conns)
    /\ MaxSims \in Nat
    /\ Limits \subseteq Nat
    /\ BufferSize \in Nat \ {0}
    /\ MaxMessages \in Nat
    /\ IsFiniteSet(Runs)
    /\ Ticks \in Nat

Sims == 1..MaxSims
NoSim == 0
NoUpdate == [sim |-> NoSim, final |-> FALSE]

VARIABLES
    simulator,   \* Server.simulator
    created,     \* how many simulators init has created
    sims,        \* the simulators
    maxClients,  \* cfg.MaxClients
    clients,     \* Server.clients
    clientWg,    \* the counter of the WaitGroup
    conn,        \* each connection: none yet, open, closed
    hpc,         \* where its HandleWebSocket is
    ref,         \* the simulator that handler read with getSimulator
    messages,    \* how many messages were handled (see MaxMessages)
    broadcast,   \* the queue
    update,      \* what handleBroadcasts is writing,
    writing,     \* and the clients it still has to write to
    spc,         \* where Shutdown is
    sref,        \* the simulator Shutdown read
    crashed,     \* the process died of a send on the closed queue
    owed         \* history: the clients that were there when a final update was
                 \* queued, are still there, and have not been written it

simVars   == <<simulator, created, sims>>
connVars  == <<maxClients, clients, clientWg, conn>>
handlers  == <<hpc, ref, messages>>
castVars  == <<update, writing>>
queueVars == <<broadcast, owed>>
downVars  == <<spc, sref>>
vars == <<simulator, created, sims, maxClients, clients, clientWg, conn, hpc, ref,
          messages, broadcast, update, writing, spc, sref, crashed, owed>>

closed == spc # "serving"
broadcastClosed == spc \in {"serverClose", "done"}
listening == spc # "done"

NewSimulator ==
    [state |-> "idle", stop |-> 0, run |-> [g \in Runs |-> "none"], todo |-> Ticks]

Live(s) == {g \in Runs : sims[s].run[g] # "none"}

Init ==
    /\ simulator = NoSim
    /\ created = 0
    /\ sims = [s \in Sims |-> NewSimulator]
    /\ maxClients \in Limits
    /\ clients = {}
    /\ clientWg = 0
    /\ conn = [c \in Conns |-> "none"]
    /\ hpc = [c \in Conns |-> "none"]
    /\ ref = [c \in Conns |-> NoSim]
    /\ messages = 0
    /\ broadcast = <<>>
    /\ update = NoUpdate
    /\ writing = {}
    /\ spc = "serving"
    /\ sref = NoSim
    /\ crashed = FALSE
    /\ owed = {}

\* The clients C leave the map.
Remove(C) ==
    /\ clients' = clients \ C
    /\ owed' = {o \in owed : o[1] \notin C}

\* The next place of handler c.  It drops the pointer when the message is done.
Goto(c, pc) ==
    /\ hpc' = [hpc EXCEPT ![c] = pc]
    /\ ref' = IF pc = "read" THEN [ref EXCEPT ![c] = NoSim] ELSE ref

----------------------------------------------------------------------------
(* The select every update goes through: it is queued, or discarded when   *)
(* the queue is full or the server is shutting down.  A closed queue is    *)
(* always ready to be sent on, and sending panics.                         *)
MutantSendBlocks(u) ==
    /\ ~broadcastClosed
    /\ Len(broadcast) < BufferSize
    /\ broadcast' = Append(broadcast, u)
    /\ owed' = IF u.final THEN owed \cup (clients \X {u.sim}) ELSE owed
Send(u) ==
    \/ /\ ~broadcastClosed
       /\ Len(broadcast) < BufferSize
       /\ broadcast' = Append(broadcast, u)
       /\ owed' = IF u.final THEN owed \cup (clients \X {u.sim}) ELSE owed
    \/ /\ closed \/ Len(broadcast) = BufferSize
       /\ UNCHANGED queueVars

\* The update after a tick, and the one after the completion.
Update(s)      == [sim |-> s, final |-> FALSE]
FinalUpdate(s) == [sim |-> s, final |-> TRUE]

----------------------------------------------------------------------------
(* A run goroutine g of simulator s.                                        *)
RunAt(s, g, pc) == sims[s].run[g] = pc

RunTo(s, g, pc) == sims' = [sims EXCEPT ![s].run[g] = pc]

TakeStop(s, g) ==
    /\ RunAt(s, g, "loop")
    /\ sims[s].stop = 1
    /\ sims' = [sims EXCEPT ![s].run[g] = "none", ![s].stop = 0]
    /\ UNCHANGED <<simulator, created, connVars, handlers, queueVars, castVars, downVars, crashed>>

\* The tick is taken if the simulation is running, and executed afterwards.
Tick(s, g) ==
    /\ RunAt(s, g, "loop")
    /\ sims[s].state = "running"
    /\ RunTo(s, g, "execute")
    /\ UNCHANGED <<simulator, created, connVars, handlers, queueVars, castVars, downVars, crashed>>

Executed(todo) == IF todo > 0 THEN todo - 1 ELSE 0

RunExecute(s, g) ==
    /\ RunAt(s, g, "execute")
    /\ sims' = [sims EXCEPT ![s].run[g] = "send", ![s].todo = Executed(sims[s].todo)]
    /\ UNCHANGED <<simulator, created, connVars, handlers, queueVars, castVars, downVars, crashed>>

RunSend(s, g) ==
    /\ RunAt(s, g, "send")
    /\ Send(Update(s))
    /\ RunTo(s, g, IF sims[s].todo = 0 THEN "complete" ELSE "loop")
    /\ UNCHANGED <<simulator, created, connVars, handlers, castVars, downVars, crashed>>

RunComplete(s, g) ==
    /\ RunAt(s, g, "complete")
    /\ sims' = [sims EXCEPT ![s].state = "complete", ![s].run[g] = "last"]
    /\ UNCHANGED <<simulator, created, connVars, handlers, queueVars, castVars, downVars, crashed>>

RunLast(s, g) ==
    /\ RunAt(s, g, "last")
    /\ Send(FinalUpdate(s))
    /\ RunTo(s, g, "none")
    /\ UNCHANGED <<simulator, created, connVars, handlers, castVars, downVars, crashed>>

\* Nothing recovers from a panic in the run goroutine.
RunPanics(s, g) ==
    /\ RunAt(s, g, "send") \/ RunAt(s, g, "last")
    /\ broadcastClosed
    /\ crashed' = TRUE
    /\ UNCHANGED <<simVars, connVars, handlers, queueVars, castVars, downVars>>

RunStep(s, g) ==
    \/ TakeStop(s, g) \/ Tick(s, g) \/ RunExecute(s, g) \/ RunSend(s, g)
    \/ RunComplete(s, g) \/ RunLast(s, g) \/ RunPanics(s, g)

----------------------------------------------------------------------------
(* HandleWebSocket, up to its reader loop, and its deferred cleanup.        *)
Connect(c) ==
    /\ hpc[c] = "none"
    /\ listening
    /\ clientWg' = clientWg + 1
    /\ Goto(c, "upgrade")
    /\ UNCHANGED <<simVars, maxClients, clients, conn, messages, queueVars, castVars, downVars, crashed>>

MutantDoneTwice(c) == clientWg' = clientWg - 2 /\ Goto(c, "returned")
MutantReturn(c) == Goto(c, "returned") /\ UNCHANGED clientWg
Return(c) == clientWg' = clientWg - 1 /\ Goto(c, "returned")

Upgrade(c) ==
    /\ hpc[c] = "upgrade"
    /\ \/ Return(c) /\ UNCHANGED conn
       \/ /\ conn' = [conn EXCEPT ![c] = "open"]
          /\ Goto(c, "register")
          /\ UNCHANGED clientWg
    /\ UNCHANGED <<simVars, maxClients, clients, messages, queueVars, castVars, downVars, crashed>>

Register(c) ==
    /\ hpc[c] = "register"
    /\ IF maxClients > 0 /\ Cardinality(clients) >= maxClients
       THEN /\ conn' = [conn EXCEPT ![c] = "closed"]
            /\ Return(c)
            /\ UNCHANGED clients
       ELSE /\ clients' = clients \cup {c}
            /\ Goto(c, "read")
            /\ UNCHANGED <<conn, clientWg>>
    /\ UNCHANGED <<simVars, maxClients, messages, queueVars, castVars, downVars, crashed>>

ReadFails(c) ==
    /\ hpc[c] = "read"
    /\ conn[c] = "closed"
    /\ Goto(c, "cleanup")
    /\ UNCHANGED <<simVars, connVars, messages, queueVars, castVars, downVars, crashed>>

MutantCleanup(c) ==
    /\ hpc[c] = "cleanup"
    /\ conn' = [conn EXCEPT ![c] = "closed"]
    /\ Return(c)
    /\ UNCHANGED <<simVars, maxClients, clients, messages, queueVars, castVars, downVars, crashed>>
Cleanup(c) ==
    /\ hpc[c] = "cleanup"
    /\ Remove({c})
    /\ conn' = [conn EXCEPT ![c] = "closed"]
    /\ Return(c)
    /\ UNCHANGED <<simVars, maxClients, messages, broadcast, castVars, downVars, crashed>>

----------------------------------------------------------------------------
(* Messages.  The handler reads the pointer to the simulator and only then  *)
(* uses it.                                                                 *)
Command == {"start", "pause", "resume", "stop", "reset", "step", "addProcess"}

Initializing == {c \in Conns : hpc[c] \in {"init", "initSend", "initWait", "initAssign"}}

Message(c, message) ==
    /\ hpc[c] = "read"
    /\ conn[c] = "open"
    /\ messages < MaxMessages
    /\ messages' = messages + 1
    /\ ref' = [ref EXCEPT ![c] = simulator]
    /\ \/ /\ message = "init"
          /\ created + Cardinality(Initializing) < MaxSims
          /\ hpc' = [hpc EXCEPT ![c] = IF simulator = NoSim THEN "initAssign" ELSE "init"]
       \/ /\ message \in Command
          /\ simulator # NoSim
          /\ hpc' = [hpc EXCEPT ![c] = message]
    /\ UNCHANGED <<simVars, connVars, queueVars, castVars, downVars, crashed>>

\* A command that finds nothing to do returns.
Start(c) ==
    LET s == ref[c] IN
    /\ hpc[c] = "start"
    /\ \/ /\ sims[s].state # "running"
          /\ Live(s) # Runs
          /\ LET g == CHOOSE g \in Runs \ Live(s) : TRUE IN
             sims' = [sims EXCEPT ![s].state = "running", ![s].run[g] = "loop"]
       \/ /\ sims[s].state = "running"
          /\ UNCHANGED sims
    /\ Goto(c, "read")
    /\ UNCHANGED <<simulator, created, connVars, messages, queueVars, castVars, downVars, crashed>>

PauseResume(c) ==
    LET s == ref[c] IN
    /\ hpc[c] \in {"pause", "resume"}
    /\ sims' = [sims EXCEPT ![s].state =
                  IF hpc[c] = "pause" /\ @ = "running" THEN "paused"
                  ELSE IF hpc[c] = "resume" /\ @ = "paused" THEN "running"
                  ELSE @]
    /\ Goto(c, "read")
    /\ UNCHANGED <<simulator, created, connVars, messages, queueVars, castVars, downVars, crashed>>

(* Simulator.Stop, called by stop, init and reset, and by Shutdown: the     *)
(* state, the token for the run goroutine, the wait.  A complete simulation *)
(* gets no token, an idle one is not waited for.                            *)
Stopped(sim) == [sim EXCEPT !.state = "idle"]

AfterStopped(sim, send, wait, return) ==
    CASE sim.state \in {"running", "paused"} -> send
      [] sim.state = "complete" -> wait
      [] sim.state = "idle" -> return

Stop(c) ==
    LET s == ref[c]
        send   == [init |-> "initSend", stop |-> "stopSend", reset |-> "resetSend"]
        wait   == [init |-> "initWait", stop |-> "stopWait", reset |-> "resetWait"]
        return == [init |-> "initAssign", stop |-> "read", reset |-> "resetDrain"]
    IN
    /\ hpc[c] \in {"init", "stop", "reset"}
    /\ sims' = [sims EXCEPT ![s] = Stopped(sims[s])]
    /\ Goto(c, AfterStopped(sims[s], send[hpc[c]], wait[hpc[c]], return[hpc[c]]))
    /\ UNCHANGED <<simulator, created, connVars, messages, queueVars, castVars, downVars, crashed>>

StopSend(c) ==
    LET wait == [initSend |-> "initWait", stopSend |-> "stopWait", resetSend |-> "resetWait"]
    IN
    /\ hpc[c] \in {"initSend", "stopSend", "resetSend"}
    /\ sims' = [sims EXCEPT ![ref[c]].stop = 1]
    /\ Goto(c, wait[hpc[c]])
    /\ UNCHANGED <<simulator, created, connVars, messages, queueVars, castVars, downVars, crashed>>

MutantStopWait(c) ==
    LET return == [initWait |-> "initAssign", stopWait |-> "read", resetWait |-> "resetDrain"]
    IN
    /\ hpc[c] \in {"initWait", "stopWait", "resetWait"}
    /\ Goto(c, return[hpc[c]])
    /\ UNCHANGED <<simVars, connVars, messages, queueVars, castVars, downVars, crashed>>
StopWait(c) ==
    LET return == [initWait |-> "initAssign", stopWait |-> "read", resetWait |-> "resetDrain"]
    IN
    /\ hpc[c] \in {"initWait", "stopWait", "resetWait"}
    /\ Live(ref[c]) = {}
    /\ Goto(c, return[hpc[c]])
    /\ UNCHANGED <<simVars, connVars, messages, queueVars, castVars, downVars, crashed>>

InitAssign(c) ==
    /\ hpc[c] = "initAssign"
    /\ created' = created + 1
    /\ simulator' = created + 1
    /\ Goto(c, "read")
    /\ UNCHANGED <<sims, connVars, messages, queueVars, castVars, downVars, crashed>>

\* Reset drains stopChan, then restores the processes.
ResetDrain(c) ==
    /\ hpc[c] = "resetDrain"
    /\ sims' = [sims EXCEPT ![ref[c]].stop = 0]
    /\ Goto(c, "resetState")
    /\ UNCHANGED <<simulator, created, connVars, messages, queueVars, castVars, downVars, crashed>>

ResetState(c) ==
    /\ hpc[c] = "resetState"
    /\ sims' = [sims EXCEPT ![ref[c]].state = "idle", ![ref[c]].todo = Ticks]
    /\ Goto(c, "push")
    /\ UNCHANGED <<simulator, created, connVars, messages, queueVars, castVars, downVars, crashed>>

AddProcess(c) ==
    /\ hpc[c] = "addProcess"
    /\ sims' = [sims EXCEPT ![ref[c]].todo = @ + 1]
    /\ Goto(c, "push")
    /\ UNCHANGED <<simulator, created, connVars, messages, queueVars, castVars, downVars, crashed>>

\* Step executes and announces a tick in the handler's own goroutine, one
\* Step at a time.
Stepping(s) ==
    \E d \in Conns :
        ref[d] = s /\ hpc[d] \in {"stepExecute", "stepSend", "stepComplete", "stepLast"}

Step(c) ==
    LET s == ref[c] IN
    /\ hpc[c] = "step"
    /\ ~Stepping(s)
    /\ IF sims[s].state \in {"idle", "paused"}
       THEN sims' = [sims EXCEPT ![s].state = "paused"] /\ Goto(c, "stepExecute")
       ELSE UNCHANGED sims /\ Goto(c, "read")
    /\ UNCHANGED <<simulator, created, connVars, messages, queueVars, castVars, downVars, crashed>>

StepExecute(c) ==
    /\ hpc[c] = "stepExecute"
    /\ sims' = [sims EXCEPT ![ref[c]].todo = Executed(sims[ref[c]].todo)]
    /\ Goto(c, "stepSend")
    /\ UNCHANGED <<simulator, created, connVars, messages, queueVars, castVars, downVars, crashed>>

StepComplete(c) ==
    /\ hpc[c] = "stepComplete"
    /\ sims' = [sims EXCEPT ![ref[c]].state = "complete"]
    /\ Goto(c, "stepLast")
    /\ UNCHANGED <<simulator, created, connVars, messages, queueVars, castVars, downVars, crashed>>

\* The handler's own sends: the updates of Step, and the state after reset
\* and addProcess.
HandlerSend(c) ==
    /\ \/ /\ hpc[c] = "push"
          /\ Send(Update(ref[c]))
          /\ Goto(c, "read")
       \/ /\ hpc[c] = "stepSend"
          /\ Send(Update(ref[c]))
          /\ Goto(c, IF sims[ref[c]].todo = 0 THEN "stepComplete" ELSE "read")
       \/ /\ hpc[c] = "stepLast"
          /\ Send(FinalUpdate(ref[c]))
          /\ Goto(c, "read")
    /\ UNCHANGED <<simVars, connVars, messages, castVars, downVars, crashed>>

\* The middleware recovers from a panic of a handler, after its cleanup.
HandlerPanics(c) ==
    /\ hpc[c] \in {"push", "stepSend", "stepLast"}
    /\ broadcastClosed
    /\ Goto(c, "cleanup")
    /\ UNCHANGED <<simVars, connVars, messages, queueVars, castVars, downVars, crashed>>

HandlerStep(c) ==
    \/ Upgrade(c) \/ Register(c) \/ ReadFails(c) \/ Cleanup(c)
    \/ Start(c) \/ PauseResume(c) \/ Stop(c) \/ StopSend(c) \/ StopWait(c)
    \/ InitAssign(c) \/ ResetDrain(c) \/ ResetState(c) \/ AddProcess(c)
    \/ Step(c) \/ StepExecute(c) \/ StepComplete(c)
    \/ HandlerSend(c) \/ HandlerPanics(c)

\* The other end closes the connection, or is silent until the read deadline.
PeerLeaves(c) ==
    /\ conn[c] = "open"
    /\ conn' = [conn EXCEPT ![c] = "closed"]
    /\ UNCHANGED <<simVars, maxClients, clients, clientWg, handlers, queueVars, castVars, downVars, crashed>>

----------------------------------------------------------------------------
(* handleBroadcasts.                                                        *)
TakeUpdate ==
    /\ writing = {}
    /\ broadcast # <<>>
    /\ broadcast' = Tail(broadcast)
    /\ writing' = clients
    /\ update' = IF clients = {} THEN NoUpdate ELSE Head(broadcast)
    /\ UNCHANGED <<simVars, connVars, handlers, downVars, crashed, owed>>

\* One client is done: the next one, or the next update.
Written(c) ==
    /\ writing' = writing \ {c}
    /\ update' = IF writing = {c} THEN NoUpdate ELSE update

Write(c) ==
    /\ c \in writing
    /\ conn[c] = "open"
    /\ owed' = IF update.final THEN owed \ {<<c, update.sim>>} ELSE owed
    /\ Written(c)
    /\ UNCHANGED <<simVars, connVars, handlers, broadcast, downVars, crashed>>

\* A write fails on a closed connection or at the write deadline;
\* unregisterClient follows.
MutantWriteFailsReturns(c) ==
    /\ c \in writing
    /\ Remove({c})
    /\ conn' = IF c \in clients THEN [conn EXCEPT ![c] = "closed"] ELSE conn
    /\ writing' = {}
    /\ update' = NoUpdate
    /\ UNCHANGED <<simVars, maxClients, clientWg, handlers, broadcast, downVars, crashed>>
WriteFails(c) ==
    /\ c \in writing
    /\ Remove({c})
    /\ conn' = IF c \in clients THEN [conn EXCEPT ![c] = "closed"] ELSE conn
    /\ Written(c)
    /\ UNCHANGED <<simVars, maxClients, clientWg, handlers, broadcast, downVars, crashed>>

BroadcastStep == TakeUpdate \/ \E c \in Conns : Write(c) \/ WriteFails(c)

----------------------------------------------------------------------------
(* Shutdown, in the order of the code.                                      *)
ShutdownBegins ==
    /\ spc = "serving"
    /\ spc' = "getSimulator"
    /\ UNCHANGED <<simVars, connVars, handlers, queueVars, castVars, sref, crashed>>

ShutdownGetSimulator ==
    /\ spc = "getSimulator"
    /\ sref' = simulator
    /\ spc' = IF simulator = NoSim THEN "closeConns" ELSE "stop"
    /\ UNCHANGED <<simVars, connVars, handlers, queueVars, castVars, crashed>>

ShutdownStop ==
    /\ spc = "stop"
    /\ sims' = [sims EXCEPT ![sref] = Stopped(sims[sref])]
    /\ spc' = AfterStopped(sims[sref], "stopSend", "stopWait", "closeConns")
    /\ UNCHANGED <<simulator, created, connVars, handlers, queueVars, castVars, sref, crashed>>

ShutdownStopSend ==
    /\ spc = "stopSend"
    /\ sims' = [sims EXCEPT ![sref].stop = 1]
    /\ spc' = "stopWait"
    /\ UNCHANGED <<simulator, created, connVars, handlers, queueVars, castVars, sref, crashed>>

ShutdownStopWait ==
    /\ spc = "stopWait"
    /\ Live(sref) = {}
    /\ spc' = "closeConns"
    /\ UNCHANGED <<simVars, connVars, handlers, queueVars, castVars, sref, crashed>>

ShutdownCloseConns ==
    /\ spc = "closeConns"
    /\ conn' = [c \in Conns |-> IF c \in clients THEN "closed" ELSE conn[c]]
    /\ Remove(clients)
    /\ spc' = "wait"
    /\ UNCHANGED <<simVars, maxClients, clientWg, handlers, broadcast, castVars, sref, crashed>>

ShutdownWait ==
    /\ spc = "wait"
    /\ clientWg = 0
    /\ spc' = "closeQueue"
    /\ UNCHANGED <<simVars, connVars, handlers, queueVars, castVars, sref, crashed>>

ShutdownCloseQueue ==
    /\ spc = "closeQueue"
    /\ spc' = "serverClose"
    /\ UNCHANGED <<simVars, connVars, handlers, queueVars, castVars, sref, crashed>>

ShutdownServerClose ==
    /\ spc = "serverClose"
    /\ spc' = "done"
    /\ UNCHANGED <<simVars, connVars, handlers, queueVars, castVars, sref, crashed>>

ShutdownStep ==
    \/ ShutdownGetSimulator \/ ShutdownStop \/ ShutdownStopSend \/ ShutdownStopWait
    \/ ShutdownCloseConns \/ ShutdownWait \/ ShutdownCloseQueue \/ ShutdownServerClose

----------------------------------------------------------------------------
Next ==
    /\ ~crashed
    /\ \/ \E c \in Conns : Connect(c) \/ HandlerStep(c) \/ PeerLeaves(c)
       \/ \E c \in Conns, message \in Command \cup {"init"} : Message(c, message)
       \/ \E s \in Sims, g \in Runs : RunStep(s, g)
       \/ BroadcastStep
       \/ ShutdownBegins \/ ShutdownStep

Spec == Init /\ [][Next]_vars

----------------------------------------------------------------------------
(* The values the variables may take.                                       *)
TypeOK ==
    /\ simulator \in 0..created
    /\ created \in 0..MaxSims
    /\ sims \in [Sims -> [state : {"idle", "running", "paused", "complete"}, stop : {0, 1},
                          run : [Runs -> {"none", "loop", "execute", "send", "complete", "last"}],
                          todo : 0..Ticks + MaxMessages]]
    /\ maxClients \in Limits
    /\ clients \subseteq Conns
    /\ clientWg \in Nat
    /\ conn \in [Conns -> {"none", "open", "closed"}]
    /\ Len(broadcast) <= BufferSize
    /\ writing \subseteq Conns
    /\ sref \in 0..MaxSims
    /\ crashed \in BOOLEAN

(* The WaitGroup Shutdown waits on counts the handlers that have not         *)
(* returned, whichever way they return: failed upgrade, rejection, cleanup.  *)
HandlersCounted ==
    clientWg = Cardinality({c \in Conns : hpc[c] \notin {"none", "returned"}})

(* No connection is leaked or forgotten, although three goroutines take      *)
(* clients out of the map: a client in the map has a handler that will take  *)
(* it out, a handler that has returned left its connection closed, and a     *)
(* client taken out by a failed write or by Shutdown does not stay connected *)
(* without hearing anything: its handler is about to find the connection     *)
(* closed.                                                                   *)
ClientsAreServed ==
    \A c \in Conns :
        /\ c \in clients => hpc[c] \notin {"none", "upgrade", "register", "returned"}
        /\ hpc[c] = "returned" => conn[c] # "open"
        /\ hpc[c] = "read" /\ conn[c] = "open" => c \in clients

(* As long as only one connection was ever made and the server is not        *)
(* shutting down, the run goroutine of every simulator that init has         *)
(* replaced is gone: only the current one runs.                              *)
ReplacedMeansStopped ==
    Cardinality({c \in Conns : hpc[c] # "none"}) <= 1 /\ ~closed =>
        \A s \in Sims : Live(s) # {} => s = simulator

(* A final update that found a place in the queue reaches every client that  *)
(* was there and stays, also when writing to another client fails: until it  *)
(* is written it is in the queue or in the hands of handleBroadcasts.        *)
CompletionReachesClients ==
    \A o \in owed :
        \/ \E i \in 1..Len(broadcast) : broadcast[i] = FinalUpdate(o[2])
        \/ update = FinalUpdate(o[2]) /\ o[1] \in writing

\* A connection registered, or about to be, after Shutdown closed the others.
LateClient ==
    spc = "wait" /\ \E c \in Conns : conn[c] = "open" /\ (c \in clients \/ hpc[c] = "register")

\* A Stop waits for a run goroutine that nobody told to stop (see RunLoop).
StuckStop ==
    \E s \in Sims :
        /\ \E g \in Runs : RunAt(s, g, "loop")
        /\ sims[s].stop = 0
        /\ \/ \E c \in Conns : hpc[c] \in {"initWait", "stopWait", "resetWait"} /\ ref[c] = s
           \/ spc = "stopWait" /\ sref = s

(* Shutdown never waits for what cannot happen, with two exceptions that the *)
(* code has: a connection registered after the others were closed, and a     *)
(* Stop whose token was lost.  Without them some goroutine can move until    *)
(* Shutdown has returned, and none of them has to wait for handleBroadcasts  *)
(* to make room in the queue, which a slow client may hold up in a write.    *)
ShutdownGetsOn ==
    closed /\ spc # "done" /\ ~crashed /\ ~LateClient /\ ~StuckStop =>
        \/ ENABLED ShutdownStep
        \/ \E c \in Conns : ENABLED HandlerStep(c)
        \/ \E s \in Sims, g \in Runs : ENABLED RunStep(s, g)

(* No goroutine sends on the queue after Shutdown has closed it.             *)
NoSendAfterClose == ~crashed
=============================================================================
