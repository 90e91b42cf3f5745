------------------------------ MODULE RestAPI ------------------------------
(***************************************************************************)
(* POST /api/simulate (internal/api/api.go) with the semaphore, the run    *)
(* goroutine of each request's own simulator, the timeout and the client   *)
(* that leaves, saving to the history store (module Store).  One request   *)
(* per element of Requests.                                                *)
(*                                                                         *)
(* The handler is the only client of its simulator and calls Start and     *)
(* Stop once; of the goroutine only completion, the delivery of the last   *)
(* update and the exit matter (module RunLoop has the rest).               *)
(***************************************************************************)
EXTENDS Integers, FiniteSets, Store

CONSTANTS
    Requests,   \* the calls of POST /api/simulate
    Limits      \* the values of SimConcurrencyLimit to consider; 0 is unlimited

ASSUME RestAssumption ==
    /\ IsFiniteSet(Requests)
    /\ Limits \subseteq Nat

VARIABLES
    limit,      \* SimConcurrencyLimit
    simSem,     \* tokens in the semaphore
    hpc,        \* where each handler is
    status,     \* the status it answered with, 0 if none yet
    left,       \* whether the request's context is cancelled
    state,      \* the state of its simulator
    run,        \* where the run goroutine is
    stopChan,   \* tokens in the simulator's stopChan
    result,     \* whether the channel done holds the final update
    idCounter,  \* the package's counter
    id,         \* the number in the request's record ID, 0 if none yet
    records,    \* Store.records, as record IDs
    serving,    \* FALSE once http.Server.Close was called
    saved       \* history: every ID ever saved, in order

handler   == <<hpc, status>>
simulator == <<state, run, stopChan, result>>
store     == <<idCounter, id, records, saved>>
vars == <<limit, simSem, hpc, status, left, state, run, stopChan, result,
          idCounter, id, records, serving, saved>>

Init ==
    /\ limit \in Limits
    /\ simSem = 0
    /\ hpc = [r \in Requests |-> "none"]
    /\ status = [r \in Requests |-> 0]
    /\ left = [r \in Requests |-> FALSE]
    /\ state = [r \in Requests |-> "idle"]
    /\ run = [r \in Requests |-> "none"]
    /\ stopChan = [r \in Requests |-> 0]
    /\ result = [r \in Requests |-> FALSE]
    /\ idCounter = 0
    /\ id = [r \in Requests |-> 0]
    /\ records = EmptyStore
    /\ serving = TRUE
    /\ saved = <<>>

Goto(r, pc) == hpc' = [hpc EXCEPT ![r] = pc]

\* handleList: the newest records, up to the limit asked for if it is one the
\* handler accepts.
Page(recs, n) ==
    LET asked == IF n \in 1..500 THEN n ELSE 50
    IN  SubSeq(List(recs), 1, IF asked > Len(recs) THEN Len(recs) ELSE asked)

----------------------------------------------------------------------------
(* handleSimulate.                                                         *)
Answer(r, code) ==
    /\ status' = [status EXCEPT ![r] = code]
    /\ Goto(r, "answered")

\* The semaphore is taken, or the request rejected without it.
Arrive(r) ==
    /\ hpc[r] = "none"
    /\ serving
    /\ \/ /\ limit = 0 \/ simSem < limit
          /\ simSem' = IF limit = 0 THEN simSem ELSE simSem + 1
          /\ Goto(r, "decode")
          /\ UNCHANGED status
       \/ /\ limit > 0
          /\ simSem >= limit
          /\ status' = [status EXCEPT ![r] = 503]
          /\ Goto(r, "returned")
          /\ UNCHANGED simSem
    /\ UNCHANGED <<limit, left, simulator, store, serving>>

\* A body that does not decode, no processes, an unknown algorithm or an
\* invalid process.
MutantBadRequest(r) ==
    /\ hpc[r] = "decode"
    /\ status' = [status EXCEPT ![r] = 400]
    /\ Goto(r, "returned")
    /\ UNCHANGED <<limit, simSem, left, simulator, store, serving>>
BadRequest(r) ==
    /\ hpc[r] = "decode"
    /\ Answer(r, 400)
    /\ UNCHANGED <<limit, simSem, left, simulator, store, serving>>

StartSimulation(r) ==
    /\ hpc[r] = "decode"
    /\ state' = [state EXCEPT ![r] = "running"]
    /\ run' = [run EXCEPT ![r] = "loop"]
    /\ Goto(r, "select")
    /\ UNCHANGED <<limit, simSem, status, left, stopChan, result, store, serving>>

\* case u := <-done.
TakeResult(r) ==
    /\ hpc[r] = "select"
    /\ result[r]
    /\ result' = [result EXCEPT ![r] = FALSE]
    /\ Goto(r, "generateID")
    /\ UNCHANGED <<limit, simSem, status, left, state, run, stopChan, store, serving>>

MutantGenerateID(r) ==
    /\ hpc[r] = "generateID"
    /\ id' = [id EXCEPT ![r] = idCounter + 1]
    /\ Goto(r, "save")
    /\ UNCHANGED <<limit, simSem, status, left, simulator, idCounter, records, saved, serving>>
GenerateID(r) ==
    /\ hpc[r] = "generateID"
    /\ idCounter' = idCounter + 1
    /\ id' = [id EXCEPT ![r] = idCounter + 1]
    /\ Goto(r, "save")
    /\ UNCHANGED <<limit, simSem, status, left, simulator, records, saved, serving>>

SaveRecord(r) ==
    /\ hpc[r] = "save"
    /\ records' = Save(records, id[r])
    /\ saved' = Append(saved, id[r])
    /\ Goto(r, "respond")
    /\ UNCHANGED <<limit, simSem, status, left, simulator, idCounter, id, serving>>

Respond(r) ==
    /\ hpc[r] = "respond"
    /\ Answer(r, 200)
    /\ UNCHANGED <<limit, simSem, left, simulator, store, serving>>

\* case <-time.After, case <-r.Context().Done(): both call Stop, which leaves
\* a token after it unless the simulation is already complete.
MutantAbandon(r, send, wait) ==
    /\ hpc[r] = "select"
    /\ state' = [state EXCEPT ![r] = "idle"]
    /\ Goto(r, wait)
    /\ UNCHANGED <<limit, simSem, status, left, run, stopChan, result, store, serving>>
Abandon(r, send, wait) ==
    /\ hpc[r] = "select"
    /\ state' = [state EXCEPT ![r] = "idle"]
    /\ Goto(r, IF state[r] = "running" THEN send ELSE wait)
    /\ UNCHANGED <<limit, simSem, status, left, run, stopChan, result, store, serving>>

Timeout(r) == Abandon(r, "sendTimeout", "stopTimeout")

Cancel(r) == left[r] /\ Abandon(r, "sendCancel", "stopCancel")

StopSend(r) ==
    /\ \/ hpc[r] = "sendTimeout" /\ Goto(r, "stopTimeout")
       \/ hpc[r] = "sendCancel" /\ Goto(r, "stopCancel")
    /\ stopChan' = [stopChan EXCEPT ![r] = 1]
    /\ UNCHANGED <<limit, simSem, status, left, state, run, result, store, serving>>

\* Stop waits for the run goroutine.
MutantStopWait(r) ==
    /\ \/ hpc[r] = "stopTimeout" /\ Answer(r, 504)
       \/ hpc[r] = "stopCancel" /\ Answer(r, 499)
    /\ UNCHANGED <<limit, simSem, left, simulator, store, serving>>
StopWait(r) ==
    /\ run[r] = "none"
    /\ \/ hpc[r] = "stopTimeout" /\ Answer(r, 504)
       \/ hpc[r] = "stopCancel" /\ Answer(r, 499)
    /\ UNCHANGED <<limit, simSem, left, simulator, store, serving>>

\* The deferred release, after the answer was written.  The request's context
\* and its channels are garbage from here on.
Release(r) ==
    /\ hpc[r] = "answered"
    /\ simSem' = IF limit = 0 THEN simSem ELSE simSem - 1
    /\ Goto(r, "returned")
    /\ left' = [left EXCEPT ![r] = FALSE]
    /\ stopChan' = [stopChan EXCEPT ![r] = 0]
    /\ result' = [result EXCEPT ![r] = FALSE]
    /\ UNCHANGED <<limit, status, state, run, store, serving>>

HandlerStep(r) ==
    \/ BadRequest(r) \/ StartSimulation(r)
    \/ TakeResult(r) \/ GenerateID(r) \/ SaveRecord(r) \/ Respond(r)
    \/ Timeout(r) \/ Cancel(r) \/ StopSend(r) \/ StopWait(r) \/ Release(r)

----------------------------------------------------------------------------
(* The run goroutine of the request's simulator.                           *)
\* The tick that completes the last process; those before it change nothing
\* here.
RunTick(r) ==
    /\ run[r] = "loop"
    /\ state[r] = "running"
    /\ run' = [run EXCEPT ![r] = "ticked"]
    /\ UNCHANGED <<limit, simSem, handler, left, state, stopChan, result, store, serving>>

RunComplete(r) ==
    /\ run[r] = "ticked"
    /\ run' = [run EXCEPT ![r] = "complete"]
    /\ state' = [state EXCEPT ![r] = "complete"]
    /\ UNCHANGED <<limit, simSem, handler, left, stopChan, result, store, serving>>

RunStopped(r) ==
    /\ run[r] = "loop"
    /\ stopChan[r] = 1
    /\ stopChan' = [stopChan EXCEPT ![r] = 0]
    /\ run' = [run EXCEPT ![r] = "none"]
    /\ UNCHANGED <<limit, simSem, handler, left, state, result, store, serving>>

\* The update callback sends on done, which has room for one, unless Stop has
\* meanwhile made the state idle.
RunDeliver(r) ==
    /\ run[r] = "complete"
    /\ result' = [result EXCEPT ![r] = state[r] = "complete"]
    /\ run' = [run EXCEPT ![r] = "exit"]
    /\ UNCHANGED <<limit, simSem, handler, left, state, stopChan, store, serving>>

RunExit(r) ==
    /\ run[r] = "exit"
    /\ run' = [run EXCEPT ![r] = "none"]
    /\ UNCHANGED <<limit, simSem, handler, left, state, stopChan, result, store, serving>>

RunEnds(r) == RunComplete(r) \/ RunStopped(r) \/ RunDeliver(r) \/ RunExit(r)

----------------------------------------------------------------------------
(* The other end of a request, and of all of them: the hub's Shutdown closes *)
(* the HTTP server, and with it every connection.  After the select nothing  *)
(* looks at the context any more.                                            *)
ClientLeaves(r) ==
    /\ hpc[r] \in {"decode", "select"}
    /\ left' = [left EXCEPT ![r] = TRUE]
    /\ UNCHANGED <<limit, simSem, handler, simulator, store, serving>>

ServerClose ==
    /\ serving
    /\ serving' = FALSE
    /\ left' = [r \in Requests |-> left[r] \/ hpc[r] \in {"decode", "select"}]
    /\ UNCHANGED <<limit, simSem, handler, simulator, store>>

Next ==
    \/ \E r \in Requests :
         Arrive(r) \/ HandlerStep(r) \/ RunTick(r) \/ RunEnds(r) \/ ClientLeaves(r)
    \/ ServerClose

(* Goroutines that can move do, and the timer fires.  A simulation need not  *)
(* come to its last tick.                                                    *)
Spec ==
    /\ Init
    /\ [][Next]_vars
    /\ \A r \in Requests : WF_vars(HandlerStep(r)) /\ WF_vars(RunEnds(r))

----------------------------------------------------------------------------
Inside(r) == hpc[r] \notin {"none", "returned"}

(* The values the variables may take.                                       *)
TypeOK ==
    /\ limit \in Limits
    /\ simSem \in Nat
    /\ hpc \in [Requests -> {"none", "decode", "select", "generateID", "save", "respond",
                             "sendTimeout", "sendCancel", "stopTimeout", "stopCancel",
                             "answered", "returned"}]
    /\ status \in [Requests -> {0, 200, 400, 499, 503, 504}]
    /\ left \in [Requests -> BOOLEAN]
    /\ state \in [Requests -> {"idle", "running", "complete"}]
    /\ run \in [Requests -> {"none", "loop", "ticked", "complete", "exit"}]
    /\ stopChan \in [Requests -> {0, 1}]
    /\ result \in [Requests -> BOOLEAN]
    /\ idCounter \in Nat
    /\ id \in [Requests -> Nat]
    /\ Len(records) <= Capacity

(* The semaphore holds one token for each handler between Arrive and its     *)
(* return, on every path out.                                                *)
SlotsAreHeld ==
    limit > 0 => simSem <= limit /\ simSem = Cardinality({r \in Requests : Inside(r)})

(* The limit on requests is a limit on simulations: a goroutine that still   *)
(* simulates, or has still to deliver, belongs to a handler that holds a     *)
(* slot.  A timeout or a departure does not leave it behind.                 *)
SimulationsHoldSlots ==
    \A r \in Requests : run[r] \in {"loop", "ticked", "complete"} => Inside(r)

(* However the result, the timeout and the departure race, a request is      *)
(* saved once before it is answered 200, under an ID of its own, and not at  *)
(* all if it is answered otherwise.                                          *)
SavedOnceIffOK ==
    /\ \A r \in Requests :
          /\ status[r] = 200 => \E k \in 1..Len(saved) : saved[k] = id[r]
          /\ status[r] \notin {0, 200} => id[r] = 0
    /\ \A k, l \in 1..Len(saved) : saved[k] = saved[l] => k = l

(* The store is a window on the history of saves: the newest Capacity        *)
(* records, listed newest first, each found by its ID, and no other.         *)
HistoryWindow ==
    LET n == Len(saved)
        kept == IF n < Capacity THEN n ELSE Capacity
    IN  /\ List(records) = [k \in 1..kept |-> saved[n + 1 - k]]
        /\ Page(records, 1) = [k \in 1..(IF n = 0 THEN 0 ELSE 1) |-> saved[n]]
        /\ \A i \in 1..idCounter : Get(records, i) <=> \E k \in n + 1 - kept..n : saved[k] = i

(* Every request is answered and its goroutine exits, whether or not the     *)
(* simulation ends and whatever the client does.                             *)
EveryRequestEnds ==
    \A r \in Requests : hpc[r] # "none" ~> hpc[r] = "returned" /\ run[r] = "none"
=============================================================================
