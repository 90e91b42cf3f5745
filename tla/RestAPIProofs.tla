--------------------------- MODULE RestAPIProofs ---------------------------
(***************************************************************************)
(* Proofs about POST /api/simulate and the history store, for any number   *)
(* of requests, any concurrency limit and any capacity of the store.       *)
(***************************************************************************)
EXTENDS RestAPI, FiniteSetTheorems, SequenceTheorems, TLAPS

Slots == {r \in Requests : Inside(r)}

(* The semaphore's content stays a natural number only because it counts    *)
(* the handlers inside, and the store stays within its capacity only if it  *)
(* is a sequence: the facts are proved together.                            *)
Counted ==
    /\ TypeOK
    /\ SlotsAreHeld
    /\ records \in Seq(Nat)
    /\ saved \in Seq(Nat)

LEMMA SlotsFinite == IsFiniteSet(Slots) /\ Cardinality(Slots) \in Nat
<1>1. IsFiniteSet(Slots)
  BY FS_Subset, RestAssumption DEF Slots
<1> QED BY <1>1, FS_CardinalityType

LEMMA SlotsView ==
  SlotsAreHeld <=> (limit > 0 => simSem <= limit /\ simSem = Cardinality(Slots))
BY DEF SlotsAreHeld, Slots

(* A step that moves one handler inside, or none, leaves the count alone.   *)
LEMMA SameSlots ==
  ASSUME SlotsAreHeld, Slots' = Slots, simSem' = simSem, limit' = limit
  PROVE  SlotsAreHeld'
BY DEF SlotsAreHeld, Slots

(* Store.Save never exceeds the capacity and keeps a sequence of IDs.       *)
LEMMA SaveTyped ==
  ASSUME NEW recs \in Seq(Nat), Len(recs) <= Capacity, NEW i \in Nat
  PROVE  Save(recs, i) \in Seq(Nat) /\ Len(Save(recs, i)) <= Capacity
<1> USE CapacityAssumption
<1>1. CASE Len(recs) >= Capacity
  <2>1. recs # <<>>
    BY <1>1
  <2>2. Tail(recs) \in Seq(Nat) /\ Len(Tail(recs)) = Len(recs) - 1
    BY <2>1
  <2> QED BY <1>1, <2>2 DEF Save
<1>2. CASE ~(Len(recs) >= Capacity)
  BY <1>2 DEF Save
<1> QED BY <1>1, <1>2

LEMMA CountedInit == Init => Counted
<1> SUFFICES ASSUME Init PROVE Counted
  OBVIOUS
<1>1. TypeOK
  BY CapacityAssumption DEF Init, TypeOK, EmptyStore
<1>2. Slots = {}
  BY DEF Init, Slots, Inside
<1>3. Cardinality({}) = 0
  BY FS_EmptySet
<1>4. limit \in Nat /\ simSem = 0
  BY RestAssumption DEF Init
<1>5. SlotsAreHeld
  BY <1>2, <1>3, <1>4, SlotsView
<1> QED BY <1>1, <1>5 DEF Init, Counted, EmptyStore

(* Arrive takes a token if there is room and is turned away otherwise.      *)
LEMMA ArriveCounted ==
  ASSUME Counted, NEW r \in Requests, Arrive(r)
  PROVE  Counted'
<1> USE DEF Counted
<1>0. limit \in Nat /\ limit' = limit
  BY RestAssumption DEF Arrive, TypeOK
<1>1. CASE /\ limit = 0 \/ simSem < limit
           /\ simSem' = IF limit = 0 THEN simSem ELSE simSem + 1
           /\ Goto(r, "decode")
           /\ UNCHANGED status
  <2>1. TypeOK'
    BY <1>0, <1>1 DEF Arrive, Goto, TypeOK, simulator, store
  <2>2. Slots' = Slots \cup {r} /\ r \notin Slots
    BY <1>1 DEF Arrive, Goto, Slots, Inside, TypeOK
  <2>3. Cardinality(Slots \cup {r}) = Cardinality(Slots) + 1
    BY <2>2, SlotsFinite, FS_AddElement
  <2>4. SlotsAreHeld'
    <3>1. Cardinality(Slots)' = Cardinality(Slots) + 1
      BY <2>2, <2>3
    <3>2. limit > 0 => simSem + 1 <= limit /\ simSem + 1 = Cardinality(Slots) + 1
      BY <1>0, <1>1, SlotsView DEF TypeOK
    <3> QED BY <1>0, <1>1, <3>1, <3>2, SlotsView DEF SlotsAreHeld, Slots
  <2> QED BY <2>1, <2>4 DEF Arrive, store
<1>2. CASE /\ status' = [status EXCEPT ![r] = 503]
           /\ Goto(r, "returned")
           /\ UNCHANGED simSem
  <2>1. TypeOK'
    BY <1>0, <1>2 DEF Arrive, Goto, TypeOK, simulator, store
  <2>2. Slots' = Slots
    BY <1>2 DEF Arrive, Goto, Slots, Inside, TypeOK
  <2> QED BY <1>0, <1>2, <2>1, <2>2, SameSlots DEF Arrive, store
<1> QED BY <1>1, <1>2 DEF Arrive

(* The deferred release gives back the token of this handler.               *)
LEMMA ReleaseCounted ==
  ASSUME Counted, NEW r \in Requests, Release(r)
  PROVE  Counted'
<1> USE DEF Counted
<1>0. limit \in Nat
  BY RestAssumption DEF TypeOK
<1>1. Slots' = Slots \ {r} /\ r \in Slots
  BY DEF Release, Goto, Slots, Inside, TypeOK
<1>2. Cardinality(Slots \ {r}) = Cardinality(Slots) - 1 /\ Cardinality(Slots \ {r}) \in Nat
  BY <1>1, SlotsFinite, FS_RemoveElement, FS_CardinalityType
<1>3. limit' = limit /\ (limit > 0 => simSem' = simSem - 1) /\ (limit = 0 => simSem' = simSem)
  BY <1>0 DEF Release
<1>4. Cardinality(Slots)' = Cardinality(Slots) - 1
  BY <1>1, <1>2
<1>5. SlotsAreHeld'
  BY <1>0, <1>3, <1>4, SlotsView, SlotsFinite DEF SlotsAreHeld, Slots, TypeOK
<1>6. simSem' \in Nat
  BY <1>0, <1>2, <1>3, SlotsView, SlotsFinite DEF TypeOK
<1>7. TypeOK'
  BY <1>6 DEF Release, Goto, TypeOK, store
<1> QED BY <1>5, <1>7 DEF Release, store

(* The other steps of a handler keep it inside.                             *)
LEMMA HandlerCounted ==
  ASSUME Counted, NEW r \in Requests, HandlerStep(r)
  PROVE  Counted'
<1> USE DEF Counted
<1>1. ASSUME NEW pc \in {"select", "generateID", "save", "respond", "sendTimeout", "sendCancel",
                         "stopTimeout", "stopCancel", "answered"},
             Inside(r), Goto(r, pc), UNCHANGED <<limit, simSem>>,
             TypeOK', records' \in Seq(Nat), saved' \in Seq(Nat)
      PROVE  Counted'
  <2>1. Slots' = Slots
    BY <1>1 DEF Goto, Slots, Inside, TypeOK
  <2> QED BY <1>1, <2>1, SameSlots
<1>2. CASE BadRequest(r)
  BY <1>1, <1>2 DEF BadRequest, Answer, Goto, TypeOK, Inside, simulator, store
<1>3. CASE StartSimulation(r)
  BY <1>1, <1>3 DEF StartSimulation, Goto, TypeOK, Inside, store
<1>4. CASE TakeResult(r)
  BY <1>1, <1>4 DEF TakeResult, Goto, TypeOK, Inside, store
<1>5. CASE GenerateID(r)
  BY <1>1, <1>5 DEF GenerateID, Goto, TypeOK, Inside, simulator
<1>6. CASE SaveRecord(r)
  <2>1. id[r] \in Nat
    BY DEF TypeOK
  <2>2. records' \in Seq(Nat) /\ Len(records') <= Capacity /\ saved' \in Seq(Nat)
    BY <1>6, <2>1, SaveTyped DEF SaveRecord, TypeOK
  <2>3. TypeOK'
    BY <1>6, <2>2 DEF SaveRecord, Goto, TypeOK, simulator
  <2> QED BY <1>1, <1>6, <2>2, <2>3 DEF SaveRecord, Inside
<1>7. CASE Respond(r)
  BY <1>1, <1>7 DEF Respond, Answer, Goto, TypeOK, Inside, simulator, store
<1>8. CASE Timeout(r) \/ Cancel(r)
  <2>1. PICK pc \in {"sendTimeout", "sendCancel", "stopTimeout", "stopCancel"} : Goto(r, pc)
    BY <1>8 DEF Timeout, Cancel, Abandon
  <2>2. /\ hpc' = [hpc EXCEPT ![r] = pc] /\ state' = [state EXCEPT ![r] = "idle"]
        /\ UNCHANGED <<limit, simSem, status, left, run, stopChan, result, store>>
    BY <1>8, <2>1 DEF Timeout, Cancel, Abandon, Goto
  <2>3. TypeOK'
    BY <2>2 DEF TypeOK, store
  <2>4. Inside(r)
    BY <1>8 DEF Timeout, Cancel, Abandon, Inside
  <2> QED BY <1>1, <2>1, <2>2, <2>3, <2>4 DEF store
<1>9. CASE StopSend(r)
  <2>1. PICK pc \in {"stopTimeout", "stopCancel"} : Goto(r, pc)
    BY <1>9 DEF StopSend
  <2>2. TypeOK'
    BY <1>9, <2>1 DEF StopSend, Goto, TypeOK, store
  <2> QED BY <1>1, <1>9, <2>1, <2>2 DEF StopSend, Inside, store
<1>10. CASE StopWait(r)
  <2>1. PICK code \in {499, 504} : Answer(r, code)
    BY <1>10 DEF StopWait
  <2>2. TypeOK'
    BY <1>10, <2>1 DEF StopWait, Answer, Goto, TypeOK, simulator, store
  <2> QED BY <1>1, <1>10, <2>1, <2>2 DEF StopWait, Answer, Inside, store
<1>11. CASE Release(r)
  BY <1>11, ReleaseCounted
<1> QED
  BY <1>2, <1>3, <1>4, <1>5, <1>6, <1>7, <1>8, <1>10, <1>11, <1>9
  DEF HandlerStep

(* Nothing else moves a handler.                                            *)
LEMMA OthersCounted ==
  ASSUME Counted,
         \/ \E r \in Requests : RunTick(r) \/ RunEnds(r) \/ ClientLeaves(r)
         \/ ServerClose
         \/ UNCHANGED vars
  PROVE  Counted'
<1> USE DEF Counted
<1>1. UNCHANGED <<limit, simSem, hpc, status, idCounter, id, records, saved>>
  BY DEF RunTick, RunEnds, RunComplete, RunStopped, RunDeliver, RunExit, ClientLeaves,
         ServerClose, handler, store, vars
<1>2. Slots' = Slots
  BY <1>1 DEF Slots, Inside
<1>3. SlotsAreHeld'
  BY <1>1, <1>2, SameSlots
<1>4. TypeOK'
  <2>1. ASSUME NEW r \in Requests, RunTick(r) PROVE TypeOK'
    BY <1>1, <2>1 DEF RunTick, TypeOK
  <2>2. ASSUME NEW r \in Requests, RunComplete(r) PROVE TypeOK'
    BY <1>1, <2>2 DEF RunComplete, TypeOK
  <2>3. ASSUME NEW r \in Requests, RunStopped(r) PROVE TypeOK'
    BY <1>1, <2>3 DEF RunStopped, TypeOK
  <2>4. ASSUME NEW r \in Requests, RunDeliver(r) PROVE TypeOK'
    BY <1>1, <2>4 DEF RunDeliver, TypeOK
  <2>5. ASSUME NEW r \in Requests, RunExit(r) PROVE TypeOK'
    BY <1>1, <2>5 DEF RunExit, TypeOK
  <2>6. ASSUME NEW r \in Requests, ClientLeaves(r) PROVE TypeOK'
    BY <1>1, <2>6 DEF ClientLeaves, TypeOK, simulator
  <2>7. CASE ServerClose
    BY <1>1, <2>7 DEF ServerClose, TypeOK, simulator
  <2>8. CASE UNCHANGED vars
    BY <2>8 DEF TypeOK, vars
  <2> QED BY <2>1, <2>2, <2>3, <2>4, <2>5, <2>6, <2>7, <2>8 DEF RunEnds
<1> QED BY <1>1, <1>3, <1>4

LEMMA CountedStep == Counted /\ [Next]_vars => Counted'
BY ArriveCounted, HandlerCounted, OthersCounted DEF Next

LEMMA CountedInvariant == Spec => []Counted
BY CountedInit, CountedStep, PTL DEF Spec

(* Type correctness of the handlers, their simulators and the store: in     *)
(* particular a Release never takes from an empty semaphore, and the slice  *)
(* of records never outgrows its capacity.                                  *)
THEOREM RestTypes == Spec => []TypeOK
<1>1. Counted => TypeOK
  BY DEF Counted
<1> QED BY <1>1, CountedInvariant, PTL

(* The semaphore holds exactly the tokens of the handlers between its       *)
(* acquisition and their return, and never more than SimConcurrencyLimit,   *)
(* whichever way a handler leaves.                                          *)
THEOREM SlotsHeld == Spec => []SlotsAreHeld
<1>1. Counted => SlotsAreHeld
  BY DEF Counted
<1> QED BY <1>1, CountedInvariant, PTL

----------------------------------------------------------------------------
(* Where a handler can be while its run goroutine still has to deliver: the *)
(* select or one of the two Stops.  It passes the select only with a        *)
(* result, which is delivered by the goroutine's last step before its exit. *)
RunFollows ==
    \A r \in Requests :
        /\ run[r] \in {"loop", "ticked", "complete"} =>
              hpc[r] \in {"select", "sendTimeout", "sendCancel", "stopTimeout", "stopCancel"}
        /\ result[r] => run[r] \in {"exit", "none"}
        /\ hpc[r] \in {"none", "decode"} => run[r] = "none" /\ ~result[r]

LEMMA RunFollowsStep ==
  ASSUME TypeOK, RunFollows, [Next]_vars
  PROVE  RunFollows'
<1> USE DEF TypeOK, RunFollows
<1>1. ASSUME NEW r \in Requests, Arrive(r) PROVE RunFollows'
  BY <1>1 DEF Arrive, Goto, simulator
<1>2. ASSUME NEW r \in Requests, BadRequest(r) PROVE RunFollows'
  BY <1>2 DEF BadRequest, Answer, Goto, simulator
<1>3. ASSUME NEW r \in Requests, StartSimulation(r) PROVE RunFollows'
  BY <1>3 DEF StartSimulation, Goto
<1>4. ASSUME NEW r \in Requests, TakeResult(r) PROVE RunFollows'
  BY <1>4 DEF TakeResult, Goto
<1>5. ASSUME NEW r \in Requests, GenerateID(r) PROVE RunFollows'
  BY <1>5 DEF GenerateID, Goto, simulator
<1>6. ASSUME NEW r \in Requests, SaveRecord(r) PROVE RunFollows'
  BY <1>6 DEF SaveRecord, Goto, simulator
<1>7. ASSUME NEW r \in Requests, Respond(r) PROVE RunFollows'
  BY <1>7 DEF Respond, Answer, Goto, simulator
<1>8. ASSUME NEW r \in Requests, Timeout(r) \/ Cancel(r) PROVE RunFollows'
  BY <1>8 DEF Timeout, Cancel, Abandon, Goto
<1>9. ASSUME NEW r \in Requests, StopSend(r) PROVE RunFollows'
  BY <1>9 DEF StopSend, Goto
<1>10. ASSUME NEW r \in Requests, StopWait(r) PROVE RunFollows'
  BY <1>10 DEF StopWait, Answer, Goto, simulator
<1>11. ASSUME NEW r \in Requests, Release(r) PROVE RunFollows'
  BY <1>11 DEF Release, Goto
<1>12. ASSUME NEW r \in Requests, RunTick(r) PROVE RunFollows'
  BY <1>12 DEF RunTick, handler
<1>13. ASSUME NEW r \in Requests, RunComplete(r) PROVE RunFollows'
  BY <1>13 DEF RunComplete, handler
<1>14. ASSUME NEW r \in Requests, RunStopped(r) PROVE RunFollows'
  BY <1>14 DEF RunStopped, handler
<1>15. ASSUME NEW r \in Requests, RunDeliver(r) PROVE RunFollows'
  BY <1>15 DEF RunDeliver, handler
<1>16. ASSUME NEW r \in Requests, RunExit(r) PROVE RunFollows'
  BY <1>16 DEF RunExit, handler
<1>17. CASE \/ \E r \in Requests : ClientLeaves(r)
            \/ ServerClose
            \/ UNCHANGED vars
  <2>1. UNCHANGED <<hpc, run, result>>
    BY <1>17 DEF ClientLeaves, ServerClose, handler, simulator, vars
  <2> QED BY <2>1
<1> QED
  BY <1>1, <1>2, <1>3, <1>4, <1>5, <1>6, <1>7, <1>8, <1>10, <1>11, <1>12, <1>13,
     <1>14, <1>15, <1>16, <1>17, <1>9
  DEF Next, HandlerStep, RunEnds

(* The limit on requests bounds the simulations: no timeout, departure or   *)
(* shutdown lets a handler give back its slot while its goroutine can still *)
(* tick or deliver.                                                         *)
THEOREM SimulationsAreBounded == Spec => []SimulationsHoldSlots
<1>1. Init => RunFollows
  BY DEF Init, RunFollows
<1>2. RunFollows => SimulationsHoldSlots
  BY DEF RunFollows, SimulationsHoldSlots, Inside
<1> QED BY <1>1, <1>2, RunFollowsStep, RestTypes, PTL DEF Spec

----------------------------------------------------------------------------
IsSaved(i) == \E k \in 1..Len(saved) : saved[k] = i

(* A number is drawn once and saved once: a handler has none before         *)
(* generateID, a fresh one at save, and one in the history from there on;   *)
(* those that do not answer 200 never draw one.                             *)
Numbered ==
    /\ \A r \in Requests :
          /\ hpc[r] \notin {"answered", "returned"} => status[r] = 0
          /\ hpc[r] \notin {"save", "respond", "answered", "returned"} => id[r] = 0
          /\ status[r] \notin {0, 200} => id[r] = 0
          /\ id[r] <= idCounter
          /\ hpc[r] = "save" => id[r] # 0 /\ ~IsSaved(id[r])
          /\ hpc[r] = "respond" \/ status[r] = 200 => IsSaved(id[r])
    /\ \A q, r \in Requests : id[q] = id[r] /\ id[r] # 0 => q = r
    /\ \A k \in 1..Len(saved) : saved[k] <= idCounter
    /\ \A k, l \in 1..Len(saved) : saved[k] = saved[l] => k = l

LEMMA NumberedSame ==
  ASSUME Numbered, UNCHANGED <<hpc, status, id, idCounter, saved>>
  PROVE  Numbered'
BY DEF Numbered, IsSaved

(* A handler that neither draws nor saves, and answers 200 only at respond. *)
LEMMA NumberedMove ==
  ASSUME Counted, Numbered, NEW r \in Requests,
         \A q \in Requests \ {r} : hpc'[q] = hpc[q] /\ status'[q] = status[q],
         id' = id, idCounter' = idCounter, saved' = saved,
         hpc'[r] \notin {"save", "respond"},
         hpc'[r] \in {"answered", "returned"} \/ (status'[r] = 0 /\ id[r] = 0),
         status'[r] \notin {0, 200} => id[r] = 0,
         status'[r] = 200 => IsSaved(id[r])
  PROVE  Numbered'
<1> USE DEF Counted, TypeOK
<1>1. \A i : IsSaved(i)' <=> IsSaved(i)
  BY DEF IsSaved
<1>2. ASSUME NEW q \in Requests
      PROVE  /\ (hpc[q] \notin {"answered", "returned"} => status[q] = 0)'
             /\ (hpc[q] \notin {"save", "respond", "answered", "returned"} => id[q] = 0)'
             /\ (status[q] \notin {0, 200} => id[q] = 0)'
             /\ (id[q] <= idCounter)'
             /\ (hpc[q] = "save" => id[q] # 0 /\ ~IsSaved(id[q]))'
             /\ (hpc[q] = "respond" \/ status[q] = 200 => IsSaved(id[q]))'
  <2>1. CASE q = r
    BY <1>1, <2>1 DEF Numbered
  <2>2. CASE q # r
    <3>1. hpc'[q] = hpc[q] /\ status'[q] = status[q] /\ id'[q] = id[q]
      BY <2>2
    <3> QED BY <1>1, <3>1 DEF Numbered
  <2> QED BY <2>1, <2>2
<1> QED BY <1>2 DEF Numbered

LEMMA GenerateNumbered ==
  ASSUME Counted, Numbered, NEW r \in Requests, GenerateID(r)
  PROVE  Numbered'
<1> USE DEF Counted, TypeOK
<1>1. \A i : IsSaved(i)' <=> IsSaved(i)
  BY DEF GenerateID, IsSaved
<1>2. ~IsSaved(idCounter + 1)
  <2>1. \A k \in 1..Len(saved) : saved[k] \in Nat /\ saved[k] <= idCounter
    BY DEF Numbered
  <2> QED BY <2>1 DEF IsSaved
<1>3. id'[r] = idCounter + 1 /\ hpc'[r] = "save" /\ status'[r] = 0
  BY DEF GenerateID, Goto, Numbered
<1>4. \A q \in Requests : q # r =>
        hpc'[q] = hpc[q] /\ status'[q] = status[q] /\ id'[q] = id[q] /\ id[q] <= idCounter
  BY DEF GenerateID, Goto, Numbered
<1>5. idCounter' = idCounter + 1 /\ saved' = saved
  BY DEF GenerateID
<1>6. ASSUME NEW q \in Requests
      PROVE  /\ (hpc[q] \notin {"answered", "returned"} => status[q] = 0)'
             /\ (hpc[q] \notin {"save", "respond", "answered", "returned"} => id[q] = 0)'
             /\ (status[q] \notin {0, 200} => id[q] = 0)'
             /\ (id[q] <= idCounter)'
             /\ (hpc[q] = "save" => id[q] # 0 /\ ~IsSaved(id[q]))'
             /\ (hpc[q] = "respond" \/ status[q] = 200 => IsSaved(id[q]))'
  <2>1. CASE q = r
    BY <1>1, <1>2, <1>3, <1>5, <2>1
  <2>2. CASE q # r
    BY <1>1, <1>4, <1>5, <2>2 DEF Numbered
  <2> QED BY <2>1, <2>2
<1>7. \A p, q \in Requests : id'[p] = id'[q] /\ id'[q] # 0 => p = q
  BY <1>3, <1>4 DEF Numbered
<1>8. \A k \in 1..Len(saved') : saved'[k] <= idCounter'
  BY <1>5 DEF Numbered
<1>9. \A k, l \in 1..Len(saved') : saved'[k] = saved'[l] => k = l
  BY <1>5 DEF Numbered
<1> QED BY <1>6, <1>7, <1>8, <1>9 DEF Numbered

LEMMA SaveNumbered ==
  ASSUME Counted, Numbered, NEW r \in Requests, SaveRecord(r)
  PROVE  Numbered'
<1> USE DEF Counted, TypeOK
<1>1. /\ id[r] \in Nat /\ id[r] # 0 /\ id[r] <= idCounter /\ ~IsSaved(id[r])
      /\ status[r] = 0
  BY DEF SaveRecord, Numbered
<1>2. /\ Len(saved') = Len(saved) + 1
      /\ \A k \in 1..Len(saved) : saved'[k] = saved[k]
      /\ saved'[Len(saved) + 1] = id[r]
  BY <1>1 DEF SaveRecord
<1>3. 1..Len(saved') = 1..Len(saved) \cup {Len(saved) + 1}
  BY <1>2
<1>4. \A i : IsSaved(i)' <=> IsSaved(i) \/ i = id[r]
  BY <1>2, <1>3 DEF IsSaved
<1>5. UNCHANGED <<id, idCounter, status>>
  BY DEF SaveRecord
<1>6. hpc'[r] = "respond" /\ \A q \in Requests : q # r => hpc'[q] = hpc[q]
  BY DEF SaveRecord, Goto
<1>7. ASSUME NEW q \in Requests
      PROVE  /\ (hpc[q] \notin {"answered", "returned"} => status[q] = 0)'
             /\ (hpc[q] \notin {"save", "respond", "answered", "returned"} => id[q] = 0)'
             /\ (status[q] \notin {0, 200} => id[q] = 0)'
             /\ (id[q] <= idCounter)'
             /\ (hpc[q] = "save" => id[q] # 0 /\ ~IsSaved(id[q]))'
             /\ (hpc[q] = "respond" \/ status[q] = 200 => IsSaved(id[q]))'
  <2>1. CASE q = r
    BY <1>1, <1>4, <1>5, <1>6, <2>1
  <2>2. CASE q # r
    BY <1>1, <1>4, <1>5, <1>6, <2>2 DEF Numbered
  <2> QED BY <2>1, <2>2
<1>8. ASSUME NEW k \in 1..Len(saved') PROVE saved'[k] <= idCounter'
  <2>1. CASE k \in 1..Len(saved)
    BY <1>2, <1>5, <2>1 DEF Numbered
  <2>2. CASE k = Len(saved) + 1
    BY <1>1, <1>2, <1>5, <2>2
  <2> QED BY <1>3, <2>1, <2>2
<1>9. ASSUME NEW k \in 1..Len(saved'), NEW l \in 1..Len(saved'), saved'[k] = saved'[l]
      PROVE  k = l
  <2>1. CASE k \in 1..Len(saved) /\ l \in 1..Len(saved)
    BY <1>2, <1>9, <2>1 DEF Numbered
  <2>2. CASE k = Len(saved) + 1 /\ l \in 1..Len(saved)
    BY <1>1, <1>2, <1>9, <2>2 DEF IsSaved
  <2>3. CASE k \in 1..Len(saved) /\ l = Len(saved) + 1
    BY <1>1, <1>2, <1>9, <2>3 DEF IsSaved
  <2> QED BY <1>3, <2>1, <2>2, <2>3
<1>10. \A p, q \in Requests : id'[p] = id'[q] /\ id'[q] # 0 => p = q
  BY <1>5 DEF Numbered
<1> QED BY <1>7, <1>8, <1>9, <1>10 DEF Numbered

LEMMA NumberedStep == Counted /\ Numbered /\ [Next]_vars => Numbered'
<1> SUFFICES ASSUME Counted, Numbered, [Next]_vars PROVE Numbered'
  OBVIOUS
<1> USE DEF Counted, TypeOK, Goto, Answer
<1>1. ASSUME NEW r \in Requests, Arrive(r) PROVE Numbered'
  <2>1. hpc[r] = "none" /\ status[r] = 0 /\ id[r] = 0
    BY <1>1 DEF Arrive, Numbered
  <2>2. UNCHANGED <<id, idCounter, saved>>
    BY <1>1 DEF Arrive, store
  <2>3. CASE Goto(r, "decode") /\ UNCHANGED status
    BY <2>1, <2>2, <2>3, NumberedMove
  <2>4. CASE Goto(r, "returned") /\ status' = [status EXCEPT ![r] = 503]
    BY <2>1, <2>2, <2>4, NumberedMove
  <2> QED BY <1>1, <2>3, <2>4 DEF Arrive
<1>2. ASSUME NEW r \in Requests, BadRequest(r) PROVE Numbered'
  <2>1. id[r] = 0
    BY <1>2 DEF BadRequest, Numbered
  <2> QED BY <1>2, <2>1, NumberedMove DEF BadRequest, store
<1>3. ASSUME NEW r \in Requests,
             NEW pc \in {"select", "generateID", "sendTimeout", "sendCancel", "stopTimeout", "stopCancel"},
             hpc[r] \in {"decode", "select", "sendTimeout", "sendCancel"}, Goto(r, pc),
             UNCHANGED <<status, store>>
      PROVE  Numbered'
  <2>1. status[r] = 0 /\ id[r] = 0
    BY <1>3 DEF Numbered
  <2>2. hpc'[r] = pc /\ \A q \in Requests \ {r} : hpc'[q] = hpc[q]
    BY <1>3
  <2>3. id' = id /\ idCounter' = idCounter /\ saved' = saved /\ status' = status
    BY <1>3 DEF store
  <2> QED BY <1>3, <2>1, <2>2, <2>3, NumberedMove
<1>4. ASSUME NEW r \in Requests, StartSimulation(r) PROVE Numbered'
  BY <1>3, <1>4 DEF StartSimulation
<1>5. ASSUME NEW r \in Requests, TakeResult(r) PROVE Numbered'
  BY <1>3, <1>5 DEF TakeResult
<1>6. ASSUME NEW r \in Requests, Timeout(r) \/ Cancel(r) \/ StopSend(r) PROVE Numbered'
  <2>1. PICK pc \in {"sendTimeout", "sendCancel", "stopTimeout", "stopCancel"} : Goto(r, pc)
    BY <1>6 DEF Timeout, Cancel, Abandon, StopSend
  <2>2. hpc[r] \in {"select", "sendTimeout", "sendCancel"} /\ UNCHANGED <<status, store>>
    BY <1>6 DEF Timeout, Cancel, Abandon, StopSend
  <2> QED BY <1>3, <2>1, <2>2
<1>7. ASSUME NEW r \in Requests, Respond(r) PROVE Numbered'
  <2>1. IsSaved(id[r])
    BY <1>7 DEF Respond, Numbered
  <2> QED BY <1>7, <2>1, NumberedMove DEF Respond, store
<1>8. ASSUME NEW r \in Requests, StopWait(r) PROVE Numbered'
  <2>1. /\ status'[r] \in {499, 504} /\ hpc'[r] = "answered"
        /\ \A q \in Requests \ {r} : hpc'[q] = hpc[q] /\ status'[q] = status[q]
    BY <1>8 DEF StopWait
  <2>2. id[r] = 0
    BY <1>8 DEF StopWait, Numbered
  <2>3. id' = id /\ idCounter' = idCounter /\ saved' = saved
    BY <1>8 DEF StopWait, store
  <2>4. /\ status'[r] # 200 /\ hpc'[r] \notin {"save", "respond"}
        /\ hpc'[r] \in {"answered", "returned"}
    BY <2>1
  <2> HIDE DEF Counted, TypeOK, Goto, Answer
  <2> QED BY <2>1, <2>2, <2>3, <2>4, NumberedMove
<1>9. ASSUME NEW r \in Requests, Release(r) PROVE Numbered'
  <2>1. /\ status[r] \notin {0, 200} => id[r] = 0
        /\ status[r] = 200 => IsSaved(id[r])
    BY DEF Numbered
  <2> QED BY <1>9, <2>1, NumberedMove DEF Release, store
<1>10. CASE \/ \E r \in Requests : RunTick(r) \/ RunEnds(r) \/ ClientLeaves(r)
            \/ ServerClose
            \/ UNCHANGED vars
  <2>1. UNCHANGED <<hpc, status, id, idCounter, saved>>
    BY <1>10 DEF RunTick, RunEnds, RunComplete, RunStopped, RunDeliver, RunExit,
                 ClientLeaves, ServerClose, handler, store, vars
  <2> QED BY <2>1, NumberedSame
<1> QED
  BY <1>1, <1>2, <1>4, <1>5, <1>6, <1>7, <1>8, <1>9, <1>10, GenerateNumbered, SaveNumbered
  DEF Next, HandlerStep, Timeout, Cancel

(* However the result, the timeout and the departure of the client race, a  *)
(* request answered 200 is in the history, one answered otherwise never     *)
(* drew a number, and no number is saved twice.                             *)
THEOREM SavedOnce == Spec => []SavedOnceIffOK
<1>1. Init => Numbered
  BY DEF Init, Numbered
<1>2. Numbered => SavedOnceIffOK
  BY DEF Numbered, SavedOnceIffOK, IsSaved
<1> QED BY <1>1, <1>2, NumberedStep, CountedInvariant, PTL DEF Spec

----------------------------------------------------------------------------
(* The records are the last of the saves, in the order of the saves.        *)
Window ==
    /\ Len(records) = IF Len(saved) < Capacity THEN Len(saved) ELSE Capacity
    /\ \A k \in 1..Len(records) : records[k] = saved[Len(saved) - Len(records) + k]

(* A save moves the window on by one, whether the oldest record is evicted  *)
(* or there is still room.                                                  *)
LEMMA SaveWindow ==
  ASSUME Counted, Window, NEW r \in Requests, SaveRecord(r)
  PROVE  Window'
<1> USE CapacityAssumption
<1>1. records \in Seq(Nat) /\ saved \in Seq(Nat) /\ id[r] \in Nat
  BY DEF Counted, TypeOK
<1>2. PICK n \in Nat, m \in Nat : n = Len(saved) /\ m = Len(records)
  BY <1>1
<1>3. /\ m = IF n < Capacity THEN n ELSE Capacity
      /\ \A k \in 1..m : records[k] = saved[n - m + k]
  BY <1>2 DEF Window
<1>4. saved' = Append(saved, id[r]) /\ records' = Save(records, id[r])
  BY DEF SaveRecord
<1>5. /\ Len(saved') = n + 1
      /\ \A k \in 1..n : saved'[k] = saved[k]
      /\ saved'[n + 1] = id[r]
  BY <1>1, <1>2, <1>4
<1>6. ASSUME NEW l \in Nat, l = Len(records'),
             l = IF n + 1 < Capacity THEN n + 1 ELSE Capacity,
             \A k \in 1..l : records'[k] = saved'[(n + 1) - l + k]
      PROVE  Window'
  BY <1>5, <1>6 DEF Window
<1>7. CASE m >= Capacity
  <2>1. m = Capacity /\ n >= Capacity
    BY <1>3, <1>7
  <2>2. /\ Tail(records) \in Seq(Nat) /\ Len(Tail(records)) = m - 1
        /\ \A k \in 1..m - 1 : Tail(records)[k] = records[k + 1]
    <3>1. records # <<>>
      BY <1>2, <2>1
    <3> QED BY <1>1, <1>2, <3>1, HeadTailProperties
  <2>3. /\ Len(records') = m
        /\ \A k \in 1..m - 1 : records'[k] = records[k + 1]
        /\ records'[m] = id[r]
    BY <1>1, <1>2, <1>4, <1>7, <2>2 DEF Save
  <2>4. ASSUME NEW k \in 1..m PROVE records'[k] = saved'[(n + 1) - m + k]
    <3>1. CASE k = m
      <4>1. (n + 1) - m + k = n + 1
        BY <3>1
      <4> QED BY <1>5, <2>3, <3>1, <4>1
    <3>2. CASE k \in 1..m - 1
      <4>1. k + 1 \in 1..m /\ n - m + (k + 1) \in 1..n /\ (n + 1) - m + k = n - m + (k + 1)
        BY <2>1, <3>2
      <4>2. records[k + 1] = saved[n - m + (k + 1)]
        BY <1>3, <4>1
      <4> QED BY <1>5, <2>3, <3>2, <4>1, <4>2
    <3> QED BY <3>1, <3>2
  <2>5. m = IF n + 1 < Capacity THEN n + 1 ELSE Capacity
    BY <2>1
  <2> QED BY <1>6, <2>3, <2>4, <2>5
<1>8. CASE ~(m >= Capacity)
  <2>1. m = n /\ n < Capacity
    BY <1>3, <1>8
  <2>2. /\ Len(records') = m + 1
        /\ \A k \in 1..m : records'[k] = records[k]
        /\ records'[m + 1] = id[r]
    BY <1>1, <1>2, <1>4, <1>8 DEF Save
  <2>3. ASSUME NEW k \in 1..m + 1 PROVE records'[k] = saved'[(n + 1) - (m + 1) + k]
    <3>1. (n + 1) - (m + 1) + k = k
      BY <2>1
    <3>2. CASE k = m + 1
      BY <1>5, <2>1, <2>2, <3>1, <3>2
    <3>3. CASE k \in 1..m
      <4>1. n - m + k = k
        BY <2>1
      <4> QED BY <1>3, <1>5, <2>1, <2>2, <3>1, <3>3, <4>1
    <3> QED BY <3>2, <3>3
  <2>4. m + 1 \in Nat /\ m + 1 = IF n + 1 < Capacity THEN n + 1 ELSE Capacity
    BY <2>1
  <2> QED BY <1>6, <2>2, <2>3, <2>4
<1> QED BY <1>7, <1>8

LEMMA WindowStep == Counted /\ Window /\ [Next]_vars => Window'
<1> SUFFICES ASSUME Counted, Window, [Next]_vars PROVE Window'
  OBVIOUS
<1>1. CASE \E r \in Requests : SaveRecord(r)
  BY <1>1, SaveWindow
<1>2. CASE UNCHANGED <<records, saved>>
  BY <1>2 DEF Window
<1> QED
  BY <1>1, <1>2
  DEF Next, HandlerStep, Arrive, BadRequest, StartSimulation, TakeResult, GenerateID,
      Respond, Timeout, Cancel, Abandon, StopSend, StopWait, Release, RunTick, RunEnds, RunComplete,
      RunStopped, RunDeliver, RunExit, ClientLeaves, ServerClose, store, vars

(* What Window says of the operations that read the store: List is the      *)
(* window reversed, its first page of one is the last save, and Get finds   *)
(* exactly the IDs of the window.                                           *)
LEMMA WindowRead ==
  ASSUME Counted, Window
  PROVE  HistoryWindow
<1>1. records \in Seq(Nat) /\ saved \in Seq(Nat)
  BY DEF Counted
<1>2. PICK n \in Nat, m \in Nat : n = Len(saved) /\ m = Len(records)
  BY <1>1
<1> DEFINE kept == IF n < Capacity THEN n ELSE Capacity
<1>3. m = kept /\ \A k \in 1..m : records[k] = saved[n - m + k]
  BY <1>2 DEF Window
<1>4. m <= n /\ (n = 0 <=> m = 0)
  BY <1>3, CapacityAssumption
<1>5. List(records) = [k \in 1..kept |-> saved[n + 1 - k]]
  <2>1. ASSUME NEW k \in 1..m PROVE records[m + 1 - k] = saved[n + 1 - k]
    <3>1. m + 1 - k \in 1..m /\ n - m + (m + 1 - k) = n + 1 - k
      OBVIOUS
    <3> QED BY <1>3, <3>1
  <2> QED BY <1>2, <1>3, <2>1 DEF List
<1>6. List(records) \in Seq(Nat) /\ Len(List(records)) = m
  <2>1. ASSUME NEW k \in 1..m PROVE records[m + 1 - k] \in Nat
    <3>1. m + 1 - k \in 1..m
      OBVIOUS
    <3> QED BY <1>1, <1>2, <3>1
  <2> QED BY <1>2, <2>1 DEF List
<1>7. Page(records, 1) = [k \in 1..(IF n = 0 THEN 0 ELSE 1) |-> saved[n]]
  <2>1. CASE n = 0
    <3>1. Page(records, 1) = SubSeq(List(records), 1, 0)
      BY <1>2, <1>4, <2>1 DEF Page
    <3>2. SubSeq(List(records), 1, 0) = <<>>
      BY <1>6, SubSeqEmpty
    <3> QED BY <2>1, <3>1, <3>2
  <2>2. CASE n # 0
    <3>1. 1 \in 1..m /\ ~(1 > m)
      BY <1>4, <2>2
    <3>2. Page(records, 1) = SubSeq(List(records), 1, 1)
      BY <1>2, <3>1 DEF Page
    <3>3. /\ SubSeq(List(records), 1, 1) \in Seq(Nat)
          /\ Len(SubSeq(List(records), 1, 1)) = 1
          /\ SubSeq(List(records), 1, 1)[1] = List(records)[1]
      BY <1>6, <3>1
    <3>4. List(records)[1] = saved[n]
      BY <1>3, <1>5, <3>1
    <3> QED BY <2>2, <3>2, <3>3, <3>4
  <2> QED BY <2>1, <2>2
<1>8. ASSUME NEW i
      PROVE  Get(records, i) <=> \E k \in (n + 1 - kept)..n : saved[k] = i
  <2>1. ASSUME NEW k \in 1..m, records[k] = i
        PROVE  \E l \in (n + 1 - kept)..n : saved[l] = i
    <3>1. n - m + k \in (n + 1 - m)..n
      BY <1>4
    <3> QED BY <1>3, <2>1, <3>1
  <2>2. ASSUME NEW l \in (n + 1 - kept)..n, saved[l] = i
        PROVE  \E k \in 1..m : records[k] = i
    <3>1. l \in (n + 1 - m)..n
      BY <1>3
    <3>2. l - (n - m) \in 1..m /\ n - m + (l - (n - m)) = l
      BY <1>4, <3>1
    <3> QED BY <1>3, <2>2, <3>2
  <2> QED BY <1>2, <2>1, <2>2 DEF Get
<1> QED BY <1>2, <1>5, <1>7, <1>8 DEF HistoryWindow

(* The store is a window on the saves of all requests, whatever their       *)
(* interleaving: the newest Capacity of them, listed newest first, each     *)
(* found by its ID and no other.                                            *)
THEOREM HistoryIsAWindow == Spec => []HistoryWindow
<1>1. Init => Window
  BY CapacityAssumption DEF Init, Window, EmptyStore
<1>2. Counted /\ Window => HistoryWindow
  BY WindowRead
<1> QED BY <1>1, <1>2, WindowStep, CountedInvariant, PTL DEF Spec
=============================================================================
