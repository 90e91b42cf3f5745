------------------------------- MODULE Store -------------------------------
(***************************************************************************)
(* The simulation history (internal/store/store.go): a slice of records,   *)
(* oldest first, of bounded length.  Each method is one critical section   *)
(* of the store's mutex.  A record is represented by its ID.               *)
(***************************************************************************)
EXTENDS Naturals, Sequences

CONSTANT Capacity   \* the records a store retains

\* New replaces a capacity below one.
ASSUME CapacityAssumption == Capacity \in Nat \ {0}

EmptyStore == <<>>

MutantSave(recs, rec) ==
    IF Len(recs) > Capacity THEN Append(Tail(recs), rec) ELSE Append(recs, rec)
MutantSaveDropsNewest(recs, rec) ==
    IF Len(recs) >= Capacity THEN Append(SubSeq(recs, 1, Len(recs) - 1), rec) ELSE Append(recs, rec)
Save(recs, rec) ==
    IF Len(recs) >= Capacity THEN Append(Tail(recs), rec) ELSE Append(recs, rec)

\* Whether Get finds a record.
Get(recs, i) == \E k \in 1..Len(recs) : recs[k] = i

\* Newest first.
List(recs) == [k \in 1..Len(recs) |-> recs[Len(recs) + 1 - k]]
=============================================================================
