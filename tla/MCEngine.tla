------------------------------ MODULE MCEngine ------------------------------
(***************************************************************************)
(* Small instances of the engine for TLC.                                  *)
(***************************************************************************)
EXTENDS EngineProperties

CONSTANTS p1, p2, p3

MCProcs == {p1, p2, p3}
MCFeedbackQuanta == <<1, 2>>
MCAlgorithms == Algorithm
RoundRobinOnly == {"rr"}

MkTask(pid, arrival, burst, priority, io) ==
    [pid |-> pid, arrivalTime |-> arrival, burstTime |-> burst,
     priority |-> priority, weight |-> 1024, ioBursts |-> io]

NoIO   == << >>
OneIO  == <<[afterCPUTime |-> 1, duration |-> 2]>>
LateIO == <<[afterCPUTime |-> 2, duration |-> 3]>>
TwoIO  == <<[afterCPUTime |-> 1, duration |-> 1], [afterCPUTime |-> 1, duration |-> 2]>>

MCWorkloads ==
    {[p \in MCProcs |->
        IF p = p1 THEN a ELSE IF p = p2 THEN b ELSE c] :
      a \in {MkTask(1, 0, 4, 2, NoIO), MkTask(1, 0, 3, 1, LateIO)},
      b \in {MkTask(2, 1, 2, 1, NoIO), MkTask(2, 0, 3, 1, TwoIO), MkTask(1, 1, 2, 0, OneIO)},
      c \in {MkTask(3, 2, 1, 0, NoIO), MkTask(3, 0, 2, 2, NoIO), MkTask(3, 3, 2, 1, OneIO)}}
=============================================================================
