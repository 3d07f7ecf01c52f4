----------------------------- MODULE RollProofs -----------------------------
(***************************************************************************)
(* Theorems about Roll, for any number of threads, batches and frames.     *)
(*                                                                         *)
(* Type correctness.  Then: the scanner is never shared, provided callers  *)
(* neither retry next() on an iterator whose worker hung nor close it from *)
(* its own progress callback (with either, TLC finds the lane given away:  *)
(* the run roll_next_after_busy, and roll_safety with CallbackCloses).     *)
(* LaneOwned alone is not inductive: that a release is safe depends on who *)
(* is inside the iterator and on what the generator has seen.  IInv adds:  *)
(* one thread at a time is inside an iterator (the Inside parts), the      *)
(* reservation outlives the generator and its worker, and a release comes  *)
(* after (ReservedInv), and a generator that ended before its worker is    *)
(* marked uncertain with nobody inside who could release (HungInv).        *)
(*                                                                         *)
(* Last, under the same conditions: nothing is orphaned.  The invariant    *)
(* gains what a Roll knows of each of its batches and of its preview.      *)
(***************************************************************************)
EXTENDS Roll, TLAPS

-----------------------------------------------------------------------------
(* Types.                                                                  *)

\* The names of the program points, for steps that need not see the whole set.
LEMMA PcNames ==
    /\ {"idle", "device", "nextGen", "get", "nextJoin", "nextReturn",
        "release", "finish", "end", "closeWait", "closeGen", "drain",
        "closeJoin", "retain", "rcQueue", "rcPreview", "rcReach", "rcBatch",
        "rcFail", "rcFinish", "rcEnd", "pvAcquire", "pvRun", "pvEnd"} \subseteq Pcs
    /\ {"none", "starting", "terminal", "dying", "dead", "scan", "callback", "put",
        "check", "ackContinue", "ackStop", "exit"} \subseteq Stages
  BY DEF Pcs, NextPcs, ReleasePcs, ClosePcs, RollPcs, PreviewPcs, Stages, LiveStages

\* A step that leaves a group of variables alone leaves its type alone.
LEMMA TypeFrame ==
    ASSUME TypeOK
    PROVE  /\ UNCHANGED devVars => DevTypeOK'
           /\ UNCHANGED rollVars => RollTypeOK'
           /\ UNCHANGED itVars => ItTypeOK'
           /\ UNCHANGED gen => GenTypeOK'
           /\ UNCHANGED wkVars => WkTypeOK'
           /\ UNCHANGED thVars => ThTypeOK'
<1> USE DEF TypeOK
<1>1. UNCHANGED devVars => DevTypeOK'
  BY DEF DevTypeOK, devVars
<1>2. UNCHANGED rollVars => RollTypeOK'
  BY DEF RollTypeOK, rollVars
<1>3. UNCHANGED itVars => ItTypeOK'
  BY DEF ItTypeOK, itVars
<1>4. UNCHANGED gen => GenTypeOK'
  BY DEF GenTypeOK
<1>5. UNCHANGED wkVars => WkTypeOK'
  BY DEF WkTypeOK, wkVars
<1>6. UNCHANGED thVars => ThTypeOK'
  BY DEF ThTypeOK, thVars
<1>7. QED
  BY <1>1, <1>2, <1>3, <1>4, <1>5, <1>6

\* No step of any thread, callback, deadline or worker breaks a type.
LEMMA TypeStep == TypeOK /\ [Next]_vars => TypeOK'
<1> USE RollAssumption
<1> SUFFICES ASSUME TypeOK, [Next]_vars PROVE TypeOK'
  OBVIOUS
<1> USE DEF TypeOK
<1>1. ASSUME NEW t \in Actors, NEW b \in Batches, Reserve(t, b)
     PROVE TypeOK'
  <2>1. DevTypeOK'
    BY <1>1 DEF Reserve, AcquireLane, DevTypeOK
  <2>2. RollTypeOK'
    BY <1>1 DEF Reserve, RollTypeOK
  <2>3. GenTypeOK'
    BY <1>1 DEF Reserve, GenTypeOK
  <2>4. QED
    BY <2>1, <2>2, <2>3, <1>1, TypeFrame DEF Reserve
<1>2. ASSUME NEW t \in Actors, NEW b \in Batches, NextBegin(t, b)
     PROVE TypeOK'
  <2>1. ItTypeOK'
    BY <1>2 DEF NextBegin, ItTypeOK
  <2>2. ThTypeOK'
    BY <1>2, PcNames DEF NextBegin, GoTo, ThTypeOK
  <2>3. QED
    BY <2>1, <2>2, <1>2, TypeFrame DEF NextBegin
<1>3. ASSUME NEW t \in Actors, NEW b \in Batches, CloseBegin(t, b)
     PROVE TypeOK'
  <2>1. RollTypeOK'
    BY <1>3 DEF CloseBegin, EnterClose, RollTypeOK
  <2>2. ItTypeOK'
    BY <1>3 DEF CloseBegin, EnterClose, ItTypeOK
  <2>3. ThTypeOK'
    BY <1>3, PcNames DEF CloseBegin, EnterClose, GoTo, ThTypeOK
  <2>4. QED
    BY <2>1, <2>2, <2>3, <1>3, TypeFrame DEF CloseBegin
<1>4. ASSUME NEW t \in Actors, NEW b \in Batches, DropIterator(t, b)
     PROVE TypeOK'
  <2>1. RollTypeOK'
    BY <1>4 DEF DropIterator, EnterClose, RollTypeOK
  <2>2. ItTypeOK'
    BY <1>4 DEF DropIterator, EnterClose, ItTypeOK
  <2>3. ThTypeOK'
    BY <1>4, PcNames DEF DropIterator, EnterClose, GoTo, ThTypeOK, thVars
  <2>4. QED
    BY <2>1, <2>2, <2>3, <1>4, TypeFrame DEF DropIterator
<1>5. ASSUME NEW t \in Actors, RollCloseBegin(t)
     PROVE TypeOK'
  <2>1. RollTypeOK'
    BY <1>5 DEF RollCloseBegin, EnterRollClose, RollTypeOK
  <2>2. ThTypeOK'
    BY <1>5, PcNames DEF RollCloseBegin, EnterRollClose, LocateBatch, GoTo,
           RollTypeOK, ThTypeOK
  <2>3. QED
    BY <2>1, <2>2, <1>5, TypeFrame DEF RollCloseBegin
<1>6. ASSUME NEW t \in Actors, PreviewBegin(t)
     PROVE TypeOK'
  <2>1. RollTypeOK'
    BY <1>6 DEF PreviewBegin, RollTypeOK
  <2>2. ThTypeOK'
    BY <1>6, PcNames DEF PreviewBegin, GoTo, ThTypeOK
  <2>3. QED
    BY <2>1, <2>2, <1>6, TypeFrame DEF PreviewBegin
<1>7. ASSUME NEW t \in Actors, DeviceBegin(t)
     PROVE TypeOK'
  <2>1. DevTypeOK'
    BY <1>7 DEF DeviceBegin, AcquireLane, DevTypeOK
  <2>2. ThTypeOK'
    BY <1>7, PcNames DEF DeviceBegin, GoTo, ThTypeOK
  <2>3. QED
    BY <2>1, <2>2, <1>7, TypeFrame DEF DeviceBegin
<1>8. ASSUME NEW t \in Actors, DeviceClose(t)
     PROVE TypeOK'
  <2>1. DevTypeOK'
    BY <1>8 DEF DeviceClose, DevTypeOK
  <2>2. QED
    BY <2>1, <1>8, TypeFrame DEF DeviceClose
<1>9. ASSUME NEW t \in Actors, NextGen(t)
     PROVE TypeOK'
  <2>1. GenTypeOK'
    BY <1>9 DEF NextGen, GenTypeOK
  <2>2. WkTypeOK'
    <3>1. wk' \in [Batches -> Stages]
      BY <1>9, PcNames DEF NextGen, WkTypeOK
    <3>2. UNCHANGED <<produced, outcome, queue, late>>
      BY <1>9 DEF NextGen
    <3>3. QED
      BY <3>1, <3>2 DEF WkTypeOK
  <2>3. ThTypeOK'
    BY <1>9, PcNames DEF NextGen, GoTo, ThTypeOK
  <2>4. QED
    BY <2>1, <2>2, <2>3, <1>9, TypeFrame DEF NextGen
<1>10. ASSUME NEW t \in Actors, NextGet(t)
     PROVE TypeOK'
  <2>1. GenTypeOK'
    BY <1>10 DEF NextGet, GenTypeOK
  <2>2. WkTypeOK'
    <3>1. /\ queue' \in [Batches -> Seq(Items)]
          /\ \A b \in Batches : queue'[b] = queue[b] \/ queue'[b] = <<>>
      <4>1. queue' = queue \/ queue' = [queue EXCEPT ![bt[t]] = <<>>]
        BY <1>10 DEF NextGet
      <4>2. queue \in [Batches -> Seq(Items)] /\ <<>> \in Seq(Items)
        BY DEF WkTypeOK
      <4>3. QED
        BY <4>1, <4>2
    <3>2. UNCHANGED <<wk, produced, outcome, late>>
      BY <1>10 DEF NextGet
    <3>3. QED
      BY <3>1, <3>2 DEF WkTypeOK
  <2>3. ThTypeOK'
    BY <1>10, PcNames DEF NextGet, GoTo, ThTypeOK
  <2>4. QED
    BY <2>1, <2>2, <2>3, <1>10, TypeFrame DEF NextGet
<1>11. ASSUME NEW t \in Actors, NextJoined(t)
     PROVE TypeOK'
  <2>1. GenTypeOK'
    BY <1>11 DEF NextJoined, GenTypeOK
  <2>2. ThTypeOK'
    BY <1>11, PcNames DEF NextJoined, GoTo, ThTypeOK
  <2>3. QED
    BY <2>1, <2>2, <1>11, TypeFrame DEF NextJoined
<1>12. ASSUME NEW t \in Actors, NextReturn(t)
     PROVE TypeOK'
  <2>1. ItTypeOK'
    BY <1>12 DEF NextReturn, ItTypeOK
  <2>2. ThTypeOK'
    BY <1>12, PcNames DEF NextReturn, GoTo, Return, ThTypeOK
  <2>3. QED
    BY <2>1, <2>2, <1>12, TypeFrame DEF NextReturn
<1>13. ASSUME NEW t \in Actors, ReleaseOnce(t)
     PROVE TypeOK'
  <2>1. ItTypeOK'
    BY <1>13 DEF ReleaseOnce, ItTypeOK
  <2>2. ThTypeOK'
    BY <1>13, PcNames DEF ReleaseOnce, GoTo, ThTypeOK
  <2>3. QED
    BY <2>1, <2>2, <1>13, TypeFrame DEF ReleaseOnce
<1>14. ASSUME NEW t \in Actors, BatchFinished(t)
     PROVE TypeOK'
  <2>1. DevTypeOK'
    BY <1>14 DEF BatchFinished, DevTypeOK
  <2>2. RollTypeOK'
    BY <1>14 DEF BatchFinished, RollTypeOK
  <2>3. ThTypeOK'
    BY <1>14, PcNames DEF BatchFinished, GoTo, ThTypeOK
  <2>4. QED
    BY <2>1, <2>2, <2>3, <1>14, TypeFrame DEF BatchFinished
<1>15. ASSUME NEW t \in Actors, MarkClosed(t)
     PROVE TypeOK'
  <2>1. ItTypeOK'
    BY <1>15 DEF MarkClosed, ItTypeOK
  <2>2. ThTypeOK'
    BY <1>15, PcNames DEF MarkClosed, ReturnClosed, ReturnTo, Return, GoTo, ThTypeOK
  <2>3. QED
    BY <2>1, <2>2, <1>15, TypeFrame DEF MarkClosed
<1>16. ASSUME NEW t \in Actors, CloseResume(t)
     PROVE TypeOK'
  <2>1. ItTypeOK'
    BY <1>16 DEF CloseResume, ItTypeOK
  <2>2. ThTypeOK'
    BY <1>16, PcNames DEF CloseResume, ReturnClosed, ReturnBusy, ReturnTo, Return,
           GoTo, ThTypeOK
  <2>3. QED
    BY <2>1, <2>2, <1>16, TypeFrame DEF CloseResume
<1>17. ASSUME NEW t \in Actors, CloseGen(t)
     PROVE TypeOK'
  <2>1. RollTypeOK'
    BY <1>17 DEF CloseGen, RollTypeOK
  <2>2. GenTypeOK'
    BY <1>17 DEF CloseGen, GenTypeOK
  <2>3. ThTypeOK'
    BY <1>17, PcNames DEF CloseGen, GoTo, ThTypeOK
  <2>4. QED
    BY <2>1, <2>2, <2>3, <1>17, TypeFrame DEF CloseGen
<1>18. ASSUME NEW t \in Actors, Drain(t)
     PROVE TypeOK'
  <2>1. WkTypeOK'
    <3>1. /\ queue' \in [Batches -> Seq(Items)]
          /\ \A b \in Batches : queue'[b] = queue[b] \/ queue'[b] = <<>>
      <4>1. queue' = queue \/ queue' = [queue EXCEPT ![bt[t]] = <<>>]
        BY <1>18 DEF Drain
      <4>2. queue \in [Batches -> Seq(Items)] /\ <<>> \in Seq(Items)
        BY DEF WkTypeOK
      <4>3. QED
        BY <4>1, <4>2
    <3>2. UNCHANGED <<wk, produced, outcome, late>>
      BY <1>18 DEF Drain
    <3>3. QED
      BY <3>1, <3>2 DEF WkTypeOK
  <2>2. ThTypeOK'
    BY <1>18, PcNames DEF Drain, GoTo, ThTypeOK
  <2>3. QED
    BY <2>1, <2>2, <1>18, TypeFrame DEF Drain
<1>19. ASSUME NEW t \in Actors, CloseJoined(t)
     PROVE TypeOK'
  <2>1. GenTypeOK'
    BY <1>19 DEF CloseJoined, GenTypeOK
  <2>2. ThTypeOK'
    BY <1>19, PcNames DEF CloseJoined, GoTo, ThTypeOK
  <2>3. QED
    BY <2>1, <2>2, <1>19, TypeFrame DEF CloseJoined
<1>20. ASSUME NEW t \in Actors, Retain(t)
     PROVE TypeOK'
  <2>1. RollTypeOK'
    BY <1>20 DEF Retain, RollTypeOK
  <2>2. ThTypeOK'
    BY <1>20, PcNames DEF Retain, ReturnBusy, ReturnTo, Return, GoTo, ThTypeOK
  <2>3. QED
    BY <2>1, <2>2, <1>20, TypeFrame DEF Retain
<1>21. ASSUME NEW t \in Actors, RollCloseTurn(t)
     PROVE TypeOK'
  <2>1. RollTypeOK'
    BY <1>21 DEF RollCloseTurn, EnterRollClose, RollTypeOK
  <2>2. ThTypeOK'
    BY <1>21, PcNames DEF RollCloseTurn, Return, EnterRollClose, LocateBatch, GoTo,
           RollTypeOK, ThTypeOK, thVars
  <2>3. QED
    BY <2>1, <2>2, <1>21, TypeFrame DEF RollCloseTurn
<1>22. ASSUME NEW t \in Actors, RollCloseLocate(t)
     PROVE TypeOK'
  <2>1. ThTypeOK'
    BY <1>22, PcNames DEF RollCloseLocate, LocateBatch, GoTo, RollTypeOK, ThTypeOK
  <2>2. QED
    BY <2>1, <1>22, TypeFrame DEF RollCloseLocate
<1>23. ASSUME NEW t \in Actors, RollCloseBatch(t)
     PROVE TypeOK'
  <2>1. RollTypeOK'
    BY <1>23 DEF RollCloseBatch, EnterClose, RollTypeOK
  <2>2. ItTypeOK'
    BY <1>23 DEF RollCloseBatch, EnterClose, ItTypeOK
  <2>3. ThTypeOK'
    BY <1>23, PcNames DEF RollCloseBatch, EnterClose, ReturnBusy, ReturnClosed,
           ReturnTo, Return, GoTo, ThTypeOK
  <2>4. QED
    BY <2>1, <2>2, <2>3, <1>23, TypeFrame DEF RollCloseBatch
<1>24. ASSUME NEW t \in Actors, RollCloseFail(t)
     PROVE TypeOK'
  <2>1. RollTypeOK'
    BY <1>24 DEF RollCloseFail, RollTypeOK
  <2>2. ThTypeOK'
    BY <1>24, PcNames DEF RollCloseFail, Return, GoTo, ThTypeOK
  <2>3. QED
    BY <2>1, <2>2, <1>24, TypeFrame DEF RollCloseFail
<1>25. ASSUME NEW t \in Actors, RollCloseRelease(t)
     PROVE TypeOK'
  <2>1. DevTypeOK'
    BY <1>25 DEF RollCloseRelease, DevTypeOK
  <2>2. ThTypeOK'
    BY <1>25, PcNames DEF RollCloseRelease, GoTo, ThTypeOK
  <2>3. QED
    BY <2>1, <2>2, <1>25, TypeFrame DEF RollCloseRelease
<1>26. ASSUME NEW t \in Actors, RollCloseEnd(t)
     PROVE TypeOK'
  <2>1. RollTypeOK'
    BY <1>26 DEF RollCloseEnd, RollTypeOK
  <2>2. ThTypeOK'
    BY <1>26, PcNames DEF RollCloseEnd, Return, GoTo, ThTypeOK
  <2>3. QED
    BY <2>1, <2>2, <1>26, TypeFrame DEF RollCloseEnd
<1>27. ASSUME NEW t \in Actors, PreviewAcquire(t)
     PROVE TypeOK'
  <2>1. DevTypeOK'
    BY <1>27 DEF PreviewAcquire, AcquireLane, DevTypeOK, devVars
  <2>2. ThTypeOK'
    BY <1>27, PcNames DEF PreviewAcquire, GoTo, ThTypeOK
  <2>3. QED
    BY <2>1, <2>2, <1>27, TypeFrame DEF PreviewAcquire
<1>28. ASSUME NEW t \in Actors, PreviewEnd(t)
     PROVE TypeOK'
  <2>1. RollTypeOK'
    BY <1>28 DEF PreviewEnd, RollTypeOK
  <2>2. ThTypeOK'
    BY <1>28, PcNames DEF PreviewEnd, GoTo, ThTypeOK
  <2>3. QED
    BY <2>1, <2>2, <1>28, TypeFrame DEF PreviewEnd
<1>29. ASSUME NEW t \in Actors, PreviewRelease(t)
     PROVE TypeOK'
  <2>1. DevTypeOK'
    BY <1>29 DEF PreviewRelease, DevTypeOK
  <2>2. ThTypeOK'
    BY <1>29, PcNames DEF PreviewRelease, GoTo, ThTypeOK
  <2>3. QED
    BY <2>1, <2>2, <1>29, TypeFrame DEF PreviewRelease
<1>30. ASSUME NEW t \in Actors, DeviceEnd(t)
     PROVE TypeOK'
  <2>1. DevTypeOK'
    BY <1>30 DEF DeviceEnd, DevTypeOK
  <2>2. ThTypeOK'
    BY <1>30, PcNames DEF DeviceEnd, GoTo, ThTypeOK
  <2>3. QED
    BY <2>1, <2>2, <1>30, TypeFrame DEF DeviceEnd
<1>31. ASSUME NEW t \in Actors, NextJoinTimeout(t)
     PROVE TypeOK'
  <2>1. ItTypeOK'
    BY <1>31 DEF NextJoinTimeout, ItTypeOK
  <2>2. GenTypeOK'
    BY <1>31 DEF NextJoinTimeout, GenTypeOK
  <2>3. ThTypeOK'
    BY <1>31, PcNames DEF NextJoinTimeout, GoTo, ThTypeOK
  <2>4. QED
    BY <2>1, <2>2, <2>3, <1>31, TypeFrame DEF NextJoinTimeout
<1>32. ASSUME NEW t \in Actors, CloseTimeout(t)
     PROVE TypeOK'
  <2>1. ItTypeOK'
    BY <1>32 DEF CloseTimeout, ItTypeOK
  <2>2. ThTypeOK'
    BY <1>32, PcNames DEF CloseTimeout, GoTo, ThTypeOK
  <2>3. QED
    BY <2>1, <2>2, <1>32, TypeFrame DEF CloseTimeout
<1>33. ASSUME NEW t \in Actors, DrainTimeout(t)
     PROVE TypeOK'
  <2>1. ThTypeOK'
    BY <1>33, PcNames DEF DrainTimeout, GoTo, ThTypeOK
  <2>2. QED
    BY <2>1, <1>33, TypeFrame DEF DrainTimeout
<1>34. ASSUME NEW t \in Actors, CloseJoinTimeout(t)
     PROVE TypeOK'
  <2>1. ItTypeOK'
    BY <1>34 DEF CloseJoinTimeout, ItTypeOK
  <2>2. GenTypeOK'
    BY <1>34 DEF CloseJoinTimeout, GenTypeOK
  <2>3. ThTypeOK'
    BY <1>34, PcNames DEF CloseJoinTimeout, GoTo, ThTypeOK
  <2>4. QED
    BY <2>1, <2>2, <2>3, <1>34, TypeFrame DEF CloseJoinTimeout
<1>35. ASSUME NEW t \in Actors, RollCloseQueueTimeout(t)
     PROVE TypeOK'
  <2>1. ThTypeOK'
    BY <1>35, PcNames DEF RollCloseQueueTimeout, Return, GoTo, ThTypeOK
  <2>2. QED
    BY <2>1, <1>35, TypeFrame DEF RollCloseQueueTimeout
<1>36. ASSUME NEW t \in Actors, RollCloseTimeout(t)
     PROVE TypeOK'
  <2>1. RollTypeOK'
    BY <1>36 DEF RollCloseTimeout, RollTypeOK
  <2>2. ThTypeOK'
    BY <1>36, PcNames DEF RollCloseTimeout, Return, GoTo, ThTypeOK
  <2>3. QED
    BY <2>1, <2>2, <1>36, TypeFrame DEF RollCloseTimeout
<1>37. ASSUME NEW b \in Batches, WorkerLaunch(b)
     PROVE TypeOK'
  <2>1. WkTypeOK'
    <3>1. wk' \in [Batches -> Stages]
      BY <1>37, PcNames DEF WorkerLaunch, StartFrame, WorkerGoTo, WkTypeOK
    <3>2. late' \in [Batches -> Nat]
      <4>1. late' = late \/ late' = [late EXCEPT ![b] = @]
                        \/ late' = [late EXCEPT ![b] = @ + 1]
        BY <1>37 DEF WorkerLaunch, StartFrame
      <4>2. late[b] \in Nat /\ late[b] + 1 \in Nat
        BY DEF WkTypeOK
      <4>3. QED
        BY <4>1, <4>2 DEF WkTypeOK
    <3>3. QED
      BY <1>37, <3>1, <3>2 DEF WorkerLaunch, WkTypeOK
  <2>2. QED
    BY <2>1, <1>37, TypeFrame DEF WorkerLaunch
<1>38. ASSUME NEW b \in Batches, WorkerFrame(b)
     PROVE TypeOK'
  <2>1. WkTypeOK'
    BY <1>38, PcNames DEF WorkerFrame, WorkerGoTo, WkTypeOK
  <2>2. QED
    BY <2>1, <1>38, TypeFrame DEF WorkerFrame
<1>39. ASSUME NEW b \in Batches, WorkerFail(b)
     PROVE TypeOK'
  <2>1. WkTypeOK'
    BY <1>39, PcNames DEF WorkerFail, WorkerGoTo, WkTypeOK
  <2>2. QED
    BY <2>1, <1>39, TypeFrame DEF WorkerFail
<1>40. ASSUME NEW b \in Batches, WorkerCallbackReturns(b)
     PROVE TypeOK'
  <2>1. WkTypeOK'
    BY <1>40, PcNames DEF WorkerCallbackReturns, WorkerGoTo, WkTypeOK
  <2>2. QED
    BY <2>1, <1>40, TypeFrame DEF WorkerCallbackReturns
<1>41. ASSUME NEW b \in Batches, WorkerPut(b)
     PROVE TypeOK'
  <2>1. WkTypeOK'
    BY <1>41, PcNames DEF WorkerPut, WorkerGoTo, QueueHasRoom, WkTypeOK, Items
  <2>2. QED
    BY <2>1, <1>41, TypeFrame DEF WorkerPut
<1>42. ASSUME NEW b \in Batches, WorkerCheckStop(b)
     PROVE TypeOK'
  <2>1. WkTypeOK'
    BY <1>42, PcNames DEF WorkerCheckStop, WorkerGoTo, WkTypeOK
  <2>2. QED
    BY <2>1, <1>42, TypeFrame DEF WorkerCheckStop
<1>43. ASSUME NEW b \in Batches, WorkerAck(b)
     PROVE TypeOK'
  <2>1. WkTypeOK'
    <3>1. wk' \in [Batches -> Stages]
      BY <1>43, PcNames DEF WorkerAck, StartFrame, WorkerGoTo, WkTypeOK
    <3>2. late' \in [Batches -> Nat]
      <4>1. late' = late \/ late' = [late EXCEPT ![b] = @]
                        \/ late' = [late EXCEPT ![b] = @ + 1]
        BY <1>43 DEF WorkerAck, StartFrame
      <4>2. late[b] \in Nat /\ late[b] + 1 \in Nat
        BY DEF WkTypeOK
      <4>3. QED
        BY <4>1, <4>2 DEF WkTypeOK
    <3>3. outcome' \in [Batches -> Outcomes]
      BY <1>43 DEF WorkerAck, WkTypeOK, Outcomes
    <3>4. QED
      BY <1>43, <3>1, <3>2, <3>3 DEF WorkerAck, WkTypeOK
  <2>2. QED
    BY <2>1, <1>43, TypeFrame DEF WorkerAck
<1>44. ASSUME NEW b \in Batches, WorkerChildExits(b)
     PROVE TypeOK'
  <2>1. WkTypeOK'
    BY <1>44, PcNames DEF WorkerChildExits, WorkerGoTo, WkTypeOK, Outcomes
  <2>2. QED
    BY <2>1, <1>44, TypeFrame DEF WorkerChildExits
<1>45. ASSUME NEW b \in Batches, WorkerTerminal(b)
     PROVE TypeOK'
  <2>1. WkTypeOK'
    BY <1>45, PcNames DEF WorkerTerminal, WorkerGoTo, QueueHasRoom, WkTypeOK, Items
  <2>2. QED
    BY <2>1, <1>45, TypeFrame DEF WorkerTerminal
<1>46. ASSUME NEW b \in Batches, WorkerDies(b)
     PROVE TypeOK'
  <2>1. WkTypeOK'
    BY <1>46, PcNames DEF WorkerDies, WorkerGoTo, WkTypeOK
  <2>2. QED
    BY <2>1, <1>46, TypeFrame DEF WorkerDies
<1>47. CASE SafeStop
  <2>1. RollTypeOK'
    BY <1>47 DEF SafeStop, RollTypeOK
  <2>2. QED
    BY <2>1, <1>47, TypeFrame DEF SafeStop
<1>48. CASE UNCHANGED vars
  BY <1>48, TypeFrame DEF vars
<1>49. QED
  BY <1>1, <1>2, <1>3, <1>4, <1>5, <1>6, <1>7, <1>8, <1>9, <1>10, <1>11, <1>12,
     <1>13, <1>14, <1>15, <1>16, <1>17, <1>18, <1>19, <1>20, <1>21, <1>22, <1>23,
     <1>24, <1>25, <1>26, <1>27, <1>28, <1>29, <1>30, <1>31, <1>32, <1>33, <1>34,
     <1>35, <1>36, <1>37, <1>38, <1>39, <1>40, <1>41, <1>42, <1>43, <1>44, <1>45,
     <1>46, <1>47, <1>48 DEF Next, Call, Continue, HardwareReturns, Timeout, Worker

\* The initial states are well typed.
LEMMA TypeInit == Init => TypeOK
<1> USE RollAssumption
<1> SUFFICES ASSUME Init PROVE TypeOK
  OBVIOUS
<1>1. DevTypeOK /\ RollTypeOK
  BY DEF Init, DevTypeOK, RollTypeOK
<1>2. ItTypeOK /\ GenTypeOK
  BY DEF Init, ItTypeOK, GenTypeOK
<1>3. WkTypeOK
  BY PcNames DEF Init, WkTypeOK, Outcomes
<1>4. ThTypeOK
  BY PcNames DEF Init, ThTypeOK
<1>5. QED
  BY <1>1, <1>2, <1>3, <1>4 DEF TypeOK

\* Every variable keeps its type, whatever threads, callbacks, deadlines and
\* workers do; with it, frame_queue never holds more than one item.
THEOREM TypeCorrect == Spec => []TypeOK
<1>1. Init => TypeOK
  BY TypeInit
<1>2. TypeOK /\ [Next]_vars => TypeOK'
  BY TypeStep
<1>3. QED
  BY <1>1, <1>2, PTL DEF Spec

-----------------------------------------------------------------------------
(* One operation on the scanner.                                           *)

\* A worker thread that has been started and has not returned.
Running(b) == wk[b] \notin {"none", "dead"}

Within    == {"nextGen", "get", "nextJoin", "nextReturn"}
Closing   == {"closeGen", "drain", "closeJoin"}
WaitsOnIt == {"closeWait", "retain"}

\* A thread at a program point of an iterator is the one registered inside.
ThreadInside ==
    \A t \in Actors :
        /\ pc[t] \in Within \cup Closing \cup ReleasePcs \cup WaitsOnIt \cup {"rcBatch"}
               => bt[t] \in Batches
        /\ pc[t] \in Within => executing[bt[t]] = t
        /\ pc[t] \in Closing => itClosing[bt[t]] = t
        /\ pc[t] \in ReleasePcs => executing[bt[t]] = t \/ itClosing[bt[t]] = t

\* A registered thread is at such a point, and only one is registered.
ExecutorInside ==
    \A b \in Batches : executing[b] # NoThread =>
        /\ itClosing[b] = NoThread
        /\ bt[executing[b]] = b
        /\ pc[executing[b]] \in Within \cup ReleasePcs \cup {"retain"}

CloserInside ==
    \A b \in Batches : itClosing[b] # NoThread =>
        /\ executing[b] = NoThread
        /\ bt[itClosing[b]] = b
        /\ pc[itClosing[b]] \in Closing \cup ReleasePcs

\* The reservation lasts as long as the generator and the worker ...
ReservedInv ==
    \A b \in Batches :
        /\ gen[b] \in {"none", "fresh"} => wk[b] = "none"
        /\ gen[b] \in {"fresh", "running", "suspended"} => active = b
        /\ Running(b) => active = b

\* ... and a release comes after the generator.
ReleaseInv ==
    \A t \in Actors :
        /\ pc[t] \in ReleasePcs => gen[bt[t]] = "finished"
        /\ pc[t] \in {"get", "nextJoin", "drain", "closeJoin"} => gen[bt[t]] = "running"

\* A generator that ended before its worker did.
HungInv ==
    \A b \in Batches : gen[b] = "finished" /\ Running(b) =>
        /\ uncertain[b]
        /\ itClosing[b] = NoThread
        /\ executing[b] # NoThread => pc[executing[b]] \in {"retain", "nextReturn"}

\* Who holds the lane.
LaneInv ==
    /\ active # NoBatch => lane = active
    /\ \A t \in Actors : /\ pc[t] = "pvRun" => lane = PreviewOp
                         /\ pc[t] = "device" => lane = DeviceOp
    /\ \A t, u \in Actors :
        pc[t] \in {"pvRun", "device"} /\ pc[u] \in {"pvRun", "device"} => t = u

CallbackInv == pc[CallbackThread] = "idle"

IInv ==
    /\ TypeOK
    /\ ThreadInside /\ ExecutorInside /\ CloserInside
    /\ ReservedInv /\ ReleaseInv /\ HungInv /\ LaneInv /\ CallbackInv

-----------------------------------------------------------------------------

\* A part of the invariant survives a step that leaves its variables alone.
LEMMA LaneFrame ==
    ASSUME IInv
    PROVE  /\ UNCHANGED <<pc, bt, executing, itClosing>>
                  => ThreadInside' /\ ExecutorInside' /\ CloserInside'
           /\ UNCHANGED <<gen, wk, active>> => ReservedInv'
           /\ UNCHANGED <<pc, bt, gen>> => ReleaseInv'
           /\ UNCHANGED <<gen, wk, uncertain, itClosing, executing, pc>> => HungInv'
           /\ UNCHANGED <<active, lane, pc>> => LaneInv'
           /\ UNCHANGED pc => CallbackInv'
<1>1. UNCHANGED <<pc, bt, executing, itClosing>>
          => ThreadInside' /\ ExecutorInside' /\ CloserInside'
  BY DEF IInv, ThreadInside, ExecutorInside, CloserInside
<1>2. UNCHANGED <<gen, wk, active>> => ReservedInv'
  BY DEF IInv, ReservedInv, Running
<1>3. UNCHANGED <<pc, bt, gen>> => ReleaseInv'
  BY DEF IInv, ReleaseInv
<1>4. UNCHANGED <<gen, wk, uncertain, itClosing, executing, pc>> => HungInv'
  BY DEF IInv, HungInv, Running
<1>5. UNCHANGED <<active, lane, pc>> => LaneInv'
  BY DEF IInv, LaneInv
<1>6. UNCHANGED pc => CallbackInv'
  BY DEF IInv, CallbackInv
<1>7. QED
  BY <1>1, <1>2, <1>3, <1>4, <1>5, <1>6

\* While a thread is giving a batch back, the worker of that batch is gone.
LEMMA ReleaseIsSafe ==
    ASSUME IInv, NEW t \in Actors, pc[t] \in ReleasePcs
    PROVE  bt[t] \in Batches /\ ~Running(bt[t])
<1> USE RollAssumption DEF IInv
<1>1. bt[t] \in Batches /\ gen[bt[t]] = "finished"
  BY DEF ThreadInside, ReleaseInv
<1>2. executing[bt[t]] = t \/ itClosing[bt[t]] = t
  BY DEF ThreadInside
<1>3. t # NoThread
  OBVIOUS
<1>4. ~(pc[t] \in {"retain", "nextReturn"})
  BY DEF ReleasePcs
<1>5. QED
  BY <1>1, <1>2, <1>3, <1>4 DEF HungInv

\* What hung stays hung while only the program point of a thread that is not
\* executing next() changes.
LEMMA HungMove ==
    ASSUME IInv, NEW t \in Actors, NEW p, pc' = [pc EXCEPT ![t] = p],
           UNCHANGED <<gen, wk, uncertain, itClosing, executing>>,
           \A b \in Batches : executing[b] # t
    PROVE  HungInv'
<1>1. \A b \in Batches : executing[b] # NoThread =>
          executing[b] \in Actors /\ pc'[executing[b]] = pc[executing[b]]
  BY DEF IInv, TypeOK, ItTypeOK
<1>2. QED
  BY <1>1 DEF IInv, HungInv, Running

\* The same for a step of the thread inside an iterator that also moves the
\* iterator's own generator or worker, but ends neither before the other.
LEMMA HungStep ==
    ASSUME IInv, NEW t \in Actors, bt[t] \in Batches,
           NEW p, pc' = [pc EXCEPT ![t] = p],
           UNCHANGED <<bt, uncertain, itClosing, executing>>,
           \A b \in Batches \ {bt[t]} : gen'[b] = gen[b] /\ wk'[b] = wk[b],
           gen'[bt[t]] = "finished" => ~Running(bt[t])'
    PROVE  HungInv'
<1>1. \A b \in Batches \ {bt[t]} : executing[b] # NoThread =>
          executing[b] \in Actors /\ executing[b] # t
  BY DEF IInv, TypeOK, ItTypeOK, ExecutorInside
<1>2. \A b \in Batches \ {bt[t]} : executing[b] # NoThread =>
          pc'[executing[b]] = pc[executing[b]]
  BY <1>1
<1>3. ASSUME NEW b \in Batches, gen'[b] = "finished", Running(b)'
      PROVE  b # bt[t] /\ gen[b] = "finished" /\ Running(b)
  BY <1>3 DEF Running
<1>4. QED
  BY <1>1, <1>2, <1>3 DEF IInv, HungInv

\* A worker that only comes closer to its end leaves both parts about it true.
LEMMA WorkerMove ==
    ASSUME IInv,
           \A b \in Batches : /\ Running(b)' => Running(b)
                              /\ wk[b] = "none" => wk'[b] = "none",
           UNCHANGED <<gen, active, uncertain, itClosing, executing, pc>>
    PROVE  ReservedInv' /\ HungInv'
<1>1. ASSUME NEW b \in Batches, gen'[b] \in {"none", "fresh"}
      PROVE  wk'[b] = "none"
  BY <1>1 DEF IInv, ReservedInv
<1>2. ASSUME NEW b \in Batches, gen'[b] \in {"fresh", "running", "suspended"}
      PROVE  active' = b
  BY <1>2 DEF IInv, ReservedInv
<1>3. ASSUME NEW b \in Batches, Running(b)'
      PROVE  Running(b) /\ active' = b
  <2>1. Running(b)
    BY <1>3
  <2>2. QED
    BY <2>1 DEF IInv, ReservedInv
<1>4. ReservedInv'
  BY <1>1, <1>2, <1>3 DEF ReservedInv
<1>5. HungInv'
  BY <1>3 DEF IInv, HungInv
<1>6. QED
  BY <1>4, <1>5

\* No step gives the lane away while the scanner may be in use.
LEMMA LaneStep ==
    ASSUME ~RetryAfterBusy, ~CallbackCloses, IInv, [Next]_vars
    PROVE  IInv'
<1> USE RollAssumption DEF IInv, Actors
<1>1. ASSUME NEW t \in Threads, NEW b \in Batches, Reserve(t, b)
     PROVE  IInv'
  <2>1. ReservedInv'
    BY <1>1 DEF Reserve, AcquireLane, LaneUsable, CanCall, MutableReview, TypeOK,
           DevTypeOK, GenTypeOK, RollTypeOK, WkTypeOK, ReservedInv, Running, wkVars
  <2>2. ReleaseInv'
    BY <1>1 DEF Reserve, AcquireLane, LaneUsable, CanCall, MutableReview, TypeOK,
           DevTypeOK, GenTypeOK, RollTypeOK, ThTypeOK, ReleaseInv, thVars
  <2>3. HungInv'
    BY <1>1 DEF Reserve, AcquireLane, LaneUsable, CanCall, MutableReview, TypeOK,
           DevTypeOK, GenTypeOK, ItTypeOK, RollTypeOK, ThTypeOK, WkTypeOK, HungInv,
           Running, Within, ReservedInv, wkVars
  <2>4. LaneInv'
    BY <1>1 DEF Reserve, AcquireLane, LaneUsable, CanCall, MutableReview, TypeOK,
           LaneInv, thVars
  <2>5. QED
    BY <2>1, <2>2, <2>3, <2>4, <1>1, TypeStep, LaneFrame DEF Reserve, itVars, thVars
<1>2. ASSUME NEW t \in Threads, NEW b \in Batches, NextBegin(t, b)
     PROVE  IInv'
  <2>1. ThreadInside'
    BY <1>2 DEF NextBegin, GoTo, CanCall, Reachable, NextAdmitted, TypeOK, ItTypeOK,
           ThTypeOK, ThreadInside, Within, Closing, WaitsOnIt
  <2>2. ExecutorInside'
    BY <1>2 DEF NextBegin, GoTo, CanCall, Reachable, NextAdmitted, TypeOK, ItTypeOK,
           ThTypeOK, ExecutorInside, Within, Closing, ReleasePcs
  <2>3. CloserInside'
    BY <1>2 DEF NextBegin, GoTo, CanCall, Reachable, NextAdmitted, TypeOK, ItTypeOK,
           ThTypeOK, CloserInside, Within, Closing, WaitsOnIt, ReleasePcs
  <2>4. ReleaseInv'
    BY <1>2 DEF NextBegin, GoTo, CanCall, Reachable, NextAdmitted, TypeOK,
           GenTypeOK, ItTypeOK, ThTypeOK, ReleaseInv, ReleasePcs
  <2>5. HungInv'
    BY <1>2 DEF NextBegin, GoTo, CanCall, Reachable, NextAdmitted, TypeOK,
           GenTypeOK, ItTypeOK, ThTypeOK, WkTypeOK, HungInv, Running, Within, wkVars
  <2>6. LaneInv'
    BY <1>2 DEF NextBegin, GoTo, CanCall, Reachable, NextAdmitted, TypeOK, LaneInv,
           devVars, rollVars
  <2>7. CallbackInv'
    BY <1>2 DEF NextBegin, GoTo, CallbackInv
  <2>8. QED
    BY <2>1, <2>2, <2>3, <2>4, <2>5, <2>6, <2>7, <1>2, TypeStep, LaneFrame
       DEF NextBegin, rollVars, wkVars
<1>3. ASSUME NEW t \in Actors, NEW b \in Batches, CloseBegin(t, b)
     PROVE  IInv'
  <2>1. ThreadInside'
    BY <1>3 DEF CloseBegin, EnterClose, GoTo, CanCall, Reachable, Idle, TypeOK,
           ItTypeOK, ThTypeOK, ThreadInside, Within, Closing, WaitsOnIt, ReleasePcs
  <2>2. ExecutorInside'
    BY <1>3 DEF CloseBegin, EnterClose, GoTo, CanCall, Reachable, Idle, TypeOK,
           ItTypeOK, ThTypeOK, ExecutorInside, Within, Closing, ReleasePcs
  <2>3. CloserInside'
    BY <1>3 DEF CloseBegin, EnterClose, GoTo, CanCall, Reachable, Idle, TypeOK,
           ItTypeOK, ThTypeOK, CloserInside, Within, Closing, WaitsOnIt, ReleasePcs
  <2>4. ReleaseInv'
    BY <1>3 DEF CloseBegin, EnterClose, GoTo, CanCall, Reachable, Idle, TypeOK,
           GenTypeOK, ItTypeOK, ThTypeOK, ReleaseInv, ReleasePcs
  <2>5. HungInv'
    BY <1>3 DEF CloseBegin, EnterClose, GoTo, CanCall, Reachable, Idle, TypeOK,
           GenTypeOK, ItTypeOK, ThTypeOK, WkTypeOK, HungInv, Running, Within, wkVars
  <2>6. LaneInv'
    BY <1>3 DEF CloseBegin, EnterClose, GoTo, CanCall, Reachable, Idle, TypeOK,
           LaneInv, devVars
  <2>7. CallbackInv'
    BY <1>3 DEF CloseBegin, EnterClose, GoTo, CallbackInv
  <2>8. QED
    BY <2>1, <2>2, <2>3, <2>4, <2>5, <2>6, <2>7, <1>3, TypeStep, LaneFrame
       DEF CloseBegin, wkVars
<1>4. ASSUME NEW t \in Threads, NEW b \in Batches, DropIterator(t, b)
     PROVE  IInv'
  <2>1. ThreadInside'
    BY <1>4 DEF DropIterator, EnterClose, GoTo, CanCall, Reachable, Idle, TypeOK,
           ItTypeOK, ThTypeOK, ThreadInside, Within, Closing, WaitsOnIt, ReleasePcs,
           thVars
  <2>2. ExecutorInside'
    BY <1>4 DEF DropIterator, EnterClose, GoTo, CanCall, Reachable, Idle, TypeOK,
           ItTypeOK, ThTypeOK, ExecutorInside, Within, Closing, ReleasePcs, thVars
  <2>3. CloserInside'
    BY <1>4 DEF DropIterator, EnterClose, GoTo, CanCall, Reachable, Idle, TypeOK,
           ItTypeOK, ThTypeOK, CloserInside, Within, Closing, WaitsOnIt, ReleasePcs,
           thVars
  <2>4. ReleaseInv'
    BY <1>4 DEF DropIterator, EnterClose, GoTo, CanCall, Reachable, Idle, TypeOK,
           GenTypeOK, ItTypeOK, ThTypeOK, ReleaseInv, ReleasePcs, thVars
  <2>5. HungInv'
    BY <1>4 DEF DropIterator, EnterClose, GoTo, CanCall, Reachable, Idle, TypeOK,
           GenTypeOK, ItTypeOK, ThTypeOK, WkTypeOK, HungInv, Running, Within,
           wkVars, thVars
  <2>6. LaneInv'
    BY <1>4 DEF DropIterator, EnterClose, GoTo, CanCall, Reachable, Idle, TypeOK,
           ThTypeOK, LaneInv, devVars, thVars
  <2>7. CallbackInv'
    BY <1>4 DEF DropIterator, EnterClose, GoTo, TypeOK, ThTypeOK, CallbackInv,
           thVars
  <2>8. QED
    BY <2>1, <2>2, <2>3, <2>4, <2>5, <2>6, <2>7, <1>4, TypeStep, LaneFrame
       DEF DropIterator, wkVars
<1>5. ASSUME NEW t \in Actors, RollCloseBegin(t)
     PROVE  IInv'
  <2>1. ThreadInside'
    <3>1. \A u \in Actors \ {t} : pc'[u] = pc[u] /\ bt'[u] = bt[u]
      BY <1>5 DEF RollCloseBegin, EnterRollClose, LocateBatch, GoTo, TypeOK,
             ThTypeOK
    <3>2. \/ pc'[t] \in {"idle", "rcQueue", "rcPreview", "rcReach", "rcFinish"}
          \/ pc'[t] = "rcBatch" /\ bt'[t] \in Batches
      BY <1>5 DEF RollCloseBegin, EnterRollClose, LocateBatch, GoTo, TypeOK,
             ThTypeOK, RollTypeOK
    <3>3. UNCHANGED <<executing, itClosing>>
      BY <1>5 DEF RollCloseBegin, itVars
    <3>4. QED
      BY <3>1, <3>2, <3>3 DEF ThreadInside, Within, Closing, ReleasePcs, WaitsOnIt
  <2>2. ExecutorInside'
    BY <1>5 DEF RollCloseBegin, EnterRollClose, LocateBatch, GoTo, CanCall,
           InCallback, TypeOK, ItTypeOK, ThTypeOK, ExecutorInside, Within, Closing,
           ReleasePcs, itVars
  <2>3. CloserInside'
    BY <1>5 DEF RollCloseBegin, EnterRollClose, LocateBatch, GoTo, CanCall,
           InCallback, TypeOK, ItTypeOK, ThTypeOK, CloserInside, Within, Closing,
           WaitsOnIt, ReleasePcs, itVars
  <2>4. ReleaseInv'
    BY <1>5 DEF RollCloseBegin, EnterRollClose, LocateBatch, GoTo, CanCall,
           InCallback, TypeOK, GenTypeOK, ThTypeOK, ReleaseInv, ReleasePcs
  <2>5. HungInv'
    <3>1. \A b \in Batches : executing[b] # t
      BY <1>5 DEF RollCloseBegin, ExecutorInside, Within, ReleasePcs, CanCall
    <3>2. \E p : pc' = [pc EXCEPT ![t] = p]
      BY <1>5 DEF RollCloseBegin, EnterRollClose, LocateBatch, GoTo
    <3>3. UNCHANGED <<gen, wk, uncertain, itClosing, executing>>
      BY <1>5 DEF RollCloseBegin, itVars, wkVars
    <3>4. QED
      BY <3>1, <3>2, <3>3, HungMove
  <2>6. LaneInv'
    BY <1>5 DEF RollCloseBegin, EnterRollClose, LocateBatch, GoTo, CanCall,
           InCallback, TypeOK, DevTypeOK, RollTypeOK, ThTypeOK, LaneInv, devVars
  <2>7. CallbackInv'
    BY <1>5 DEF RollCloseBegin, EnterRollClose, LocateBatch, GoTo, CanCall,
           InCallback, TypeOK, ThTypeOK, CallbackInv
  <2>8. QED
    BY <2>1, <2>2, <2>3, <2>4, <2>5, <2>6, <2>7, <1>5, TypeStep, LaneFrame
       DEF RollCloseBegin, wkVars
<1>6. ASSUME NEW t \in Threads, PreviewBegin(t)
     PROVE  IInv'
  <2>1. ThreadInside'
    BY <1>6 DEF PreviewBegin, GoTo, CanCall, MutableReview, TypeOK, ItTypeOK,
           ThTypeOK, ThreadInside, Within, Closing, WaitsOnIt, ReleasePcs, itVars
  <2>2. ExecutorInside'
    BY <1>6 DEF PreviewBegin, GoTo, CanCall, MutableReview, TypeOK, ItTypeOK,
           ThTypeOK, ExecutorInside, Within, Closing, ReleasePcs, itVars
  <2>3. CloserInside'
    BY <1>6 DEF PreviewBegin, GoTo, CanCall, MutableReview, TypeOK, ItTypeOK,
           ThTypeOK, CloserInside, Within, Closing, WaitsOnIt, ReleasePcs, itVars
  <2>4. ReleaseInv'
    BY <1>6 DEF PreviewBegin, GoTo, CanCall, MutableReview, TypeOK, GenTypeOK,
           ThTypeOK, ReleaseInv, ReleasePcs
  <2>5. HungInv'
    BY <1>6 DEF PreviewBegin, GoTo, CanCall, MutableReview, TypeOK, GenTypeOK,
           ItTypeOK, ThTypeOK, WkTypeOK, HungInv, Running, Within, ReservedInv,
           wkVars
  <2>6. LaneInv'
    BY <1>6 DEF PreviewBegin, GoTo, CanCall, MutableReview, LaneInv, devVars
  <2>7. CallbackInv'
    BY <1>6 DEF PreviewBegin, GoTo, CanCall, MutableReview, CallbackInv
  <2>8. QED
    BY <2>1, <2>2, <2>3, <2>4, <2>5, <2>6, <2>7, <1>6, TypeStep, LaneFrame
       DEF PreviewBegin, wkVars
<1>7. ASSUME NEW t \in Threads, DeviceBegin(t)
     PROVE  IInv'
  <2>1. ThreadInside'
    BY <1>7 DEF DeviceBegin, AcquireLane, GoTo, CanCall, LaneUsable, TypeOK,
           DevTypeOK, ItTypeOK, ThTypeOK, ThreadInside, Within, Closing, WaitsOnIt,
           ReleasePcs, itVars
  <2>2. ExecutorInside'
    BY <1>7 DEF DeviceBegin, AcquireLane, GoTo, CanCall, LaneUsable, TypeOK,
           DevTypeOK, ItTypeOK, ThTypeOK, ExecutorInside, Within, Closing,
           ReleasePcs, itVars
  <2>3. CloserInside'
    BY <1>7 DEF DeviceBegin, AcquireLane, GoTo, CanCall, LaneUsable, TypeOK,
           DevTypeOK, ItTypeOK, ThTypeOK, CloserInside, Within, Closing, WaitsOnIt,
           ReleasePcs, itVars
  <2>4. ReleaseInv'
    BY <1>7 DEF DeviceBegin, AcquireLane, GoTo, CanCall, LaneUsable, TypeOK,
           DevTypeOK, GenTypeOK, ThTypeOK, ReleaseInv, ReleasePcs
  <2>5. HungInv'
    BY <1>7 DEF DeviceBegin, AcquireLane, GoTo, CanCall, LaneUsable, TypeOK,
           DevTypeOK, GenTypeOK, ItTypeOK, ThTypeOK, WkTypeOK, HungInv, Running,
           Within, itVars, wkVars
  <2>6. LaneInv'
    BY <1>7 DEF DeviceBegin, AcquireLane, GoTo, CanCall, LaneUsable, TypeOK,
           DevTypeOK, RollTypeOK, ThTypeOK, LaneInv, rollVars
  <2>7. CallbackInv'
    BY <1>7 DEF DeviceBegin, AcquireLane, GoTo, CanCall, LaneUsable, TypeOK,
           CallbackInv
  <2>8. QED
    BY <2>1, <2>2, <2>3, <2>4, <2>5, <2>6, <2>7, <1>7, TypeStep, LaneFrame
       DEF DeviceBegin, rollVars, wkVars
<1>8. ASSUME NEW t \in Threads, DeviceClose(t)
     PROVE  IInv'
  <2>1. QED
    BY <1>8, TypeStep, LaneFrame DEF DeviceClose, rollVars, itVars, wkVars, thVars
<1>9. ASSUME NEW t \in Actors, NextGen(t)
     PROVE  IInv'
  <2>1. ThreadInside'
    BY <1>9 DEF NextGen, GoTo, TypeOK, GenTypeOK, ItTypeOK, ThTypeOK, WkTypeOK,
           ThreadInside, Within, Closing, WaitsOnIt, ReleasePcs, itVars
  <2>2. ExecutorInside'
    BY <1>9 DEF NextGen, GoTo, TypeOK, GenTypeOK, ItTypeOK, ThTypeOK, WkTypeOK,
           ExecutorInside, Within, Closing, ReleasePcs, ThreadInside, itVars
  <2>3. CloserInside'
    BY <1>9 DEF NextGen, GoTo, TypeOK, GenTypeOK, ItTypeOK, ThTypeOK, WkTypeOK,
           CloserInside, Within, Closing, WaitsOnIt, ThreadInside, itVars
  <2>4. ReservedInv'
    BY <1>9 DEF NextGen, GoTo, TypeOK, GenTypeOK, RollTypeOK, ThTypeOK, WkTypeOK,
           ReservedInv, Running, rollVars
  <2>5. ReleaseInv'
    BY <1>9 DEF NextGen, GoTo, TypeOK, GenTypeOK, ThTypeOK, WkTypeOK, ReleaseInv,
           Within, Closing, WaitsOnIt, ReleasePcs, ThreadInside
  <2>6. HungInv'
    <3>1. bt[t] \in Batches
      BY <1>9 DEF NextGen, ThreadInside, Within
    <3>2. \E p : pc' = [pc EXCEPT ![t] = p]
      BY <1>9 DEF NextGen, GoTo
    <3>3. UNCHANGED <<bt, uncertain, itClosing, executing>>
      BY <1>9 DEF NextGen, itVars
    <3>4. \A b \in Batches \ {bt[t]} : gen'[b] = gen[b] /\ wk'[b] = wk[b]
      BY <1>9 DEF NextGen, TypeOK, GenTypeOK, WkTypeOK
    <3>5. gen'[bt[t]] = "finished" => ~Running(bt[t])'
      <4>1. executing[bt[t]] = t /\ t # NoThread
        BY <1>9 DEF NextGen, ThreadInside, Within
      <4>2. gen[bt[t]] = "finished" => ~Running(bt[t])
        BY <1>9, <3>1, <4>1 DEF NextGen, HungInv
      <4>3. gen[bt[t]] \in {"none", "fresh"} => ~Running(bt[t])
        BY <3>1 DEF ReservedInv, Running
      <4>4. QED
        BY <1>9, <3>1, <4>2, <4>3 DEF NextGen, Running, TypeOK, GenTypeOK
    <3>6. QED
      BY <3>1, <3>2, <3>3, <3>4, <3>5, HungStep
  <2>7. LaneInv'
    BY <1>9 DEF NextGen, GoTo, TypeOK, DevTypeOK, ThTypeOK, LaneInv, devVars,
           rollVars
  <2>8. CallbackInv'
    BY <1>9 DEF NextGen, GoTo, TypeOK, GenTypeOK, ThTypeOK, CallbackInv
  <2>9. QED
    BY <2>1, <2>2, <2>3, <2>4, <2>5, <2>6, <2>7, <2>8, <1>9, TypeStep
<1>10. ASSUME NEW t \in Actors, NextGet(t)
     PROVE  IInv'
  <2>1. ThreadInside'
    BY <1>10 DEF NextGet, GoTo, TypeOK, GenTypeOK, ItTypeOK, ThTypeOK, ThreadInside,
           Within, Closing, WaitsOnIt, itVars
  <2>2. ExecutorInside'
    BY <1>10 DEF NextGet, GoTo, TypeOK, GenTypeOK, ItTypeOK, ThTypeOK,
           ExecutorInside, Within, Closing, itVars
  <2>3. CloserInside'
    BY <1>10 DEF NextGet, GoTo, TypeOK, GenTypeOK, ItTypeOK, ThTypeOK, CloserInside,
           Within, Closing, WaitsOnIt, ReleasePcs, itVars
  <2>4. ReservedInv'
    BY <1>10 DEF NextGet, GoTo, TypeOK, GenTypeOK, RollTypeOK, ThTypeOK, WkTypeOK,
           ReservedInv, Running, ReleaseInv, Within, Closing, WaitsOnIt, rollVars
  <2>5. ReleaseInv'
    BY <1>10 DEF NextGet, GoTo, TypeOK, GenTypeOK, ThTypeOK, ReleaseInv, Within,
           Closing, WaitsOnIt, ReleasePcs, ThreadInside, ExecutorInside
  <2>6. HungInv'
    BY <1>10 DEF NextGet, GoTo, TypeOK, GenTypeOK, ItTypeOK, ThTypeOK, WkTypeOK,
           HungInv, Running, Within, ThreadInside, itVars
  <2>7. LaneInv'
    BY <1>10 DEF NextGet, GoTo, TypeOK, ThTypeOK, LaneInv, devVars, rollVars
  <2>8. CallbackInv'
    BY <1>10 DEF NextGet, GoTo, TypeOK, ThTypeOK, CallbackInv
  <2>9. QED
    BY <2>1, <2>2, <2>3, <2>4, <2>5, <2>6, <2>7, <2>8, <1>10, TypeStep, LaneFrame
<1>11. ASSUME NEW t \in Actors, NextJoined(t)
     PROVE  IInv'
  <2>1. ThreadInside'
    BY <1>11 DEF NextJoined, GoTo, TypeOK, GenTypeOK, ItTypeOK, ThTypeOK,
           ThreadInside, Within, Closing, WaitsOnIt, itVars
  <2>2. ExecutorInside'
    BY <1>11 DEF NextJoined, GoTo, TypeOK, GenTypeOK, ItTypeOK, ThTypeOK,
           ExecutorInside, Within, Closing, ReleasePcs, itVars
  <2>3. CloserInside'
    BY <1>11 DEF NextJoined, GoTo, TypeOK, GenTypeOK, ItTypeOK, ThTypeOK,
           CloserInside, Within, Closing, WaitsOnIt, ReleasePcs, itVars
  <2>4. ReservedInv'
    BY <1>11 DEF NextJoined, GoTo, TypeOK, GenTypeOK, RollTypeOK, ThTypeOK,
           WkTypeOK, ReservedInv, Running, ReleaseInv, Within, Closing, WaitsOnIt,
           ThreadInside, wkVars
  <2>5. ReleaseInv'
    BY <1>11 DEF NextJoined, GoTo, TypeOK, GenTypeOK, ThTypeOK, ReleaseInv, Within,
           Closing, WaitsOnIt, ReleasePcs, ThreadInside, ExecutorInside
  <2>6. HungInv'
    BY <1>11 DEF NextJoined, GoTo, TypeOK, GenTypeOK, ItTypeOK, ThTypeOK, WkTypeOK,
           HungInv, Running, Within, itVars, wkVars
  <2>7. LaneInv'
    BY <1>11 DEF NextJoined, GoTo, TypeOK, LaneInv, devVars, rollVars
  <2>8. CallbackInv'
    BY <1>11 DEF NextJoined, GoTo, TypeOK, CallbackInv
  <2>9. QED
    BY <2>1, <2>2, <2>3, <2>4, <2>5, <2>6, <2>7, <2>8, <1>11, TypeStep, LaneFrame
<1>12. ASSUME NEW t \in Actors, NextReturn(t)
     PROVE  IInv'
  <2>1. ThreadInside'
    BY <1>12 DEF NextReturn, GoTo, Return, TypeOK, ItTypeOK, ThTypeOK, ThreadInside,
           Within, Closing, WaitsOnIt, ReleasePcs
  <2>2. ExecutorInside'
    BY <1>12 DEF NextReturn, GoTo, Return, TypeOK, ItTypeOK, ThTypeOK,
           ExecutorInside, Within, Closing
  <2>3. CloserInside'
    BY <1>12 DEF NextReturn, GoTo, Return, TypeOK, ItTypeOK, ThTypeOK, CloserInside,
           Within, Closing, WaitsOnIt, ReleasePcs
  <2>4. ReleaseInv'
    BY <1>12 DEF NextReturn, GoTo, Return, TypeOK, GenTypeOK, ItTypeOK, ThTypeOK,
           ReleaseInv, ReleasePcs
  <2>5. HungInv'
    BY <1>12 DEF NextReturn, GoTo, Return, TypeOK, GenTypeOK, ItTypeOK, ThTypeOK,
           WkTypeOK, HungInv, Running, Within, ExecutorInside, wkVars
  <2>6. LaneInv'
    BY <1>12 DEF NextReturn, GoTo, Return, TypeOK, LaneInv, devVars, rollVars
  <2>7. CallbackInv'
    BY <1>12 DEF NextReturn, GoTo, Return, TypeOK, CallbackInv
  <2>8. QED
    BY <2>1, <2>2, <2>3, <2>4, <2>5, <2>6, <2>7, <1>12, TypeStep, LaneFrame
       DEF NextReturn, rollVars, wkVars
<1>13. ASSUME NEW t \in Actors, ReleaseOnce(t)
     PROVE  IInv'
  <2>1. ThreadInside'
    BY <1>13 DEF ReleaseOnce, GoTo, TypeOK, ItTypeOK, ThTypeOK, ThreadInside,
           Within, Closing, WaitsOnIt, ReleasePcs
  <2>2. ExecutorInside'
    BY <1>13 DEF ReleaseOnce, GoTo, TypeOK, ItTypeOK, ThTypeOK, ExecutorInside,
           Within, Closing, ReleasePcs
  <2>3. CloserInside'
    BY <1>13 DEF ReleaseOnce, GoTo, TypeOK, ItTypeOK, ThTypeOK, CloserInside,
           Within, Closing, WaitsOnIt, ReleasePcs
  <2>4. ReleaseInv'
    BY <1>13 DEF ReleaseOnce, GoTo, TypeOK, GenTypeOK, ThTypeOK, ReleaseInv,
           ReleasePcs
  <2>5. HungInv'
    BY <1>13 DEF ReleaseOnce, GoTo, TypeOK, GenTypeOK, ItTypeOK, ThTypeOK, WkTypeOK,
           HungInv, Running, Within, wkVars
  <2>6. LaneInv'
    BY <1>13 DEF ReleaseOnce, GoTo, LaneInv, devVars, rollVars
  <2>7. CallbackInv'
    BY <1>13 DEF ReleaseOnce, GoTo, CallbackInv
  <2>8. QED
    BY <2>1, <2>2, <2>3, <2>4, <2>5, <2>6, <2>7, <1>13, TypeStep, LaneFrame
       DEF ReleaseOnce, rollVars, wkVars
<1>14. ASSUME NEW t \in Actors, BatchFinished(t)
     PROVE  IInv'
  <2>1. ThreadInside'
    BY <1>14 DEF BatchFinished, GoTo, TypeOK, DevTypeOK, ItTypeOK, RollTypeOK,
           ThTypeOK, ThreadInside, Within, Closing, WaitsOnIt, ReleasePcs, itVars
  <2>2. ExecutorInside'
    BY <1>14 DEF BatchFinished, GoTo, TypeOK, DevTypeOK, ItTypeOK, RollTypeOK,
           ThTypeOK, ExecutorInside, Within, Closing, ReleasePcs, itVars
  <2>3. CloserInside'
    BY <1>14 DEF BatchFinished, GoTo, TypeOK, DevTypeOK, ItTypeOK, RollTypeOK,
           ThTypeOK, CloserInside, Within, Closing, WaitsOnIt, ReleasePcs, itVars
  <2>4. ReservedInv'
    <3>1. bt[t] \in Batches /\ ~Running(bt[t]) /\ gen[bt[t]] = "finished"
      BY <1>14, ReleaseIsSafe DEF BatchFinished, ReleasePcs, ReleaseInv
    <3>2. \A c \in Batches : active = c => active' = c \/ c = bt[t]
      BY <1>14 DEF BatchFinished
    <3>3. QED
      BY <1>14, <3>1, <3>2 DEF BatchFinished, ReservedInv, Running, wkVars
  <2>5. ReleaseInv'
    BY <1>14 DEF BatchFinished, GoTo, TypeOK, DevTypeOK, GenTypeOK, RollTypeOK,
           ThTypeOK, ReleaseInv, ReleasePcs
  <2>6. HungInv'
    BY <1>14 DEF BatchFinished, GoTo, TypeOK, DevTypeOK, GenTypeOK, ItTypeOK,
           RollTypeOK, ThTypeOK, WkTypeOK, HungInv, Running, Within, itVars, wkVars
  <2>7. LaneInv'
    <3>1. CASE active = bt[t]
      <4>1. lane = bt[t] /\ lane \in Batches
        BY <1>14, <3>1, ReleaseIsSafe DEF BatchFinished, ReleasePcs, LaneInv
      <4>2. \A u \in Actors : pc[u] # "pvRun" /\ pc[u] # "device"
        BY <4>1 DEF LaneInv
      <4>3. \A u \in Actors : pc'[u] # "pvRun" /\ pc'[u] # "device"
        BY <1>14, <4>2 DEF BatchFinished, GoTo
      <4>4. QED
        BY <1>14, <3>1, <4>3 DEF BatchFinished, LaneInv
    <3>2. CASE active # bt[t]
      BY <1>14, <3>2 DEF BatchFinished, GoTo, LaneInv
    <3>3. QED
      BY <3>1, <3>2
  <2>8. CallbackInv'
    BY <1>14 DEF BatchFinished, GoTo, TypeOK, DevTypeOK, CallbackInv
  <2>9. QED
    BY <2>1, <2>2, <2>3, <2>4, <2>5, <2>6, <2>7, <2>8, <1>14, TypeStep, LaneFrame
<1>15. ASSUME NEW t \in Actors, MarkClosed(t)
     PROVE  IInv'
  <2>1. ThreadInside'
    BY <1>15 DEF MarkClosed, ReturnClosed, ReturnTo, Return, GoTo, TypeOK, ItTypeOK,
           ThTypeOK, ThreadInside, Within, Closing, WaitsOnIt, ReleasePcs
  <2>2. ExecutorInside'
    BY <1>15 DEF MarkClosed, ReturnClosed, ReturnTo, Return, GoTo, TypeOK, ItTypeOK,
           ThTypeOK, ExecutorInside, Within, Closing
  <2>3. CloserInside'
    BY <1>15 DEF MarkClosed, ReturnClosed, ReturnTo, Return, GoTo, TypeOK, ItTypeOK,
           ThTypeOK, CloserInside, Within, Closing, WaitsOnIt
  <2>4. ReleaseInv'
    BY <1>15 DEF MarkClosed, ReturnClosed, ReturnTo, Return, GoTo, TypeOK,
           GenTypeOK, ItTypeOK, ThTypeOK, ReleaseInv, ReleasePcs
  <2>5. HungInv'
    BY <1>15 DEF MarkClosed, ReturnClosed, ReturnTo, Return, GoTo, TypeOK,
           GenTypeOK, ItTypeOK, ThTypeOK, WkTypeOK, HungInv, Running, Within,
           Closing, WaitsOnIt, ReleasePcs, ThreadInside, ExecutorInside,
           CloserInside, wkVars
  <2>6. LaneInv'
    BY <1>15 DEF MarkClosed, ReturnClosed, ReturnTo, Return, GoTo, TypeOK, ThTypeOK,
           LaneInv, devVars, rollVars
  <2>7. CallbackInv'
    BY <1>15 DEF MarkClosed, ReturnClosed, ReturnTo, Return, GoTo, TypeOK, ThTypeOK,
           CallbackInv
  <2>8. QED
    BY <2>1, <2>2, <2>3, <2>4, <2>5, <2>6, <2>7, <1>15, TypeStep, LaneFrame
       DEF MarkClosed, rollVars, wkVars
<1>16. ASSUME NEW t \in Actors, CloseResume(t)
     PROVE  IInv'
  <2>1. ThreadInside'
    BY <1>16 DEF CloseResume, ReturnClosed, ReturnBusy, ReturnTo, Return, GoTo,
           Idle, TypeOK, ItTypeOK, ThTypeOK, ThreadInside, Within, Closing,
           WaitsOnIt, ReleasePcs
  <2>2. ExecutorInside'
    BY <1>16 DEF CloseResume, ReturnClosed, ReturnBusy, ReturnTo, Return, GoTo,
           Idle, TypeOK, ItTypeOK, ThTypeOK, ExecutorInside, Within, Closing
  <2>3. CloserInside'
    BY <1>16 DEF CloseResume, ReturnClosed, ReturnBusy, ReturnTo, Return, GoTo,
           Idle, TypeOK, ItTypeOK, ThTypeOK, CloserInside, Within, Closing,
           WaitsOnIt
  <2>4. ReleaseInv'
    BY <1>16 DEF CloseResume, ReturnClosed, ReturnBusy, ReturnTo, Return, GoTo,
           Idle, TypeOK, GenTypeOK, ItTypeOK, ThTypeOK, ReleaseInv, ReleasePcs
  <2>5. HungInv'
    BY <1>16 DEF CloseResume, ReturnClosed, ReturnBusy, ReturnTo, Return, GoTo,
           Idle, TypeOK, GenTypeOK, ItTypeOK, ThTypeOK, WkTypeOK, HungInv, Running,
           Within, Closing, WaitsOnIt, ReleasePcs, ThreadInside, ExecutorInside,
           ReservedInv, devVars, rollVars, wkVars
  <2>6. LaneInv'
    BY <1>16 DEF CloseResume, ReturnClosed, ReturnBusy, ReturnTo, Return, GoTo,
           Idle, TypeOK, ThTypeOK, LaneInv, devVars, rollVars
  <2>7. CallbackInv'
    BY <1>16 DEF CloseResume, ReturnClosed, ReturnBusy, ReturnTo, Return, GoTo,
           Idle, TypeOK, ThTypeOK, CallbackInv
  <2>8. QED
    BY <2>1, <2>2, <2>3, <2>4, <2>5, <2>6, <2>7, <1>16, TypeStep, LaneFrame
       DEF CloseResume, rollVars, wkVars
<1>17. ASSUME NEW t \in Actors, CloseGen(t)
     PROVE  IInv'
  <2>1. ThreadInside'
    BY <1>17 DEF CloseGen, GoTo, TypeOK, GenTypeOK, ItTypeOK, ThTypeOK,
           ThreadInside, Within, Closing, WaitsOnIt, itVars
  <2>2. ExecutorInside'
    BY <1>17 DEF CloseGen, GoTo, TypeOK, GenTypeOK, ItTypeOK, ThTypeOK,
           ExecutorInside, Within, Closing, ReleasePcs, itVars
  <2>3. CloserInside'
    BY <1>17 DEF CloseGen, GoTo, TypeOK, GenTypeOK, ItTypeOK, ThTypeOK,
           CloserInside, Within, Closing, WaitsOnIt, ReleasePcs, itVars
  <2>4. ReservedInv'
    BY <1>17 DEF CloseGen, GoTo, TypeOK, GenTypeOK, RollTypeOK, ThTypeOK, WkTypeOK,
           ReservedInv, Running, wkVars
  <2>5. ReleaseInv'
    BY <1>17 DEF CloseGen, GoTo, TypeOK, GenTypeOK, ThTypeOK, ReleaseInv, Within,
           Closing, WaitsOnIt, ReleasePcs, ThreadInside
  <2>6. HungInv'
    <3>1. bt[t] \in Batches
      BY <1>17 DEF CloseGen, ThreadInside, Closing
    <3>2. \E p : pc' = [pc EXCEPT ![t] = p]
      BY <1>17 DEF CloseGen, GoTo
    <3>3. UNCHANGED <<bt, uncertain, itClosing, executing>>
      BY <1>17 DEF CloseGen, itVars
    <3>4. \A b \in Batches \ {bt[t]} : gen'[b] = gen[b] /\ wk'[b] = wk[b]
      BY <1>17 DEF CloseGen, wkVars, TypeOK, GenTypeOK
    <3>5. gen'[bt[t]] = "finished" => ~Running(bt[t])'
      <4>1. itClosing[bt[t]] = t /\ t # NoThread
        BY <1>17 DEF CloseGen, ThreadInside, Closing
      <4>2. gen[bt[t]] = "finished" => ~Running(bt[t])
        BY <1>17, <3>1, <4>1 DEF HungInv
      <4>3. gen[bt[t]] \in {"none", "fresh"} => ~Running(bt[t])
        BY <3>1 DEF ReservedInv, Running
      <4>4. QED
        BY <1>17, <3>1, <4>2, <4>3 DEF CloseGen, Running, wkVars, TypeOK, GenTypeOK
    <3>6. QED
      BY <3>1, <3>2, <3>3, <3>4, <3>5, HungStep
  <2>7. LaneInv'
    BY <1>17 DEF CloseGen, GoTo, TypeOK, ThTypeOK, LaneInv, devVars
  <2>8. CallbackInv'
    BY <1>17 DEF CloseGen, GoTo, TypeOK, ThTypeOK, CallbackInv
  <2>9. QED
    BY <2>1, <2>2, <2>3, <2>4, <2>5, <2>6, <2>7, <2>8, <1>17, TypeStep, LaneFrame
<1>18. ASSUME NEW t \in Actors, Drain(t)
     PROVE  IInv'
  <2>1. ThreadInside'
    BY <1>18 DEF Drain, GoTo, TypeOK, ItTypeOK, ThTypeOK, ThreadInside, Within,
           Closing, WaitsOnIt, itVars
  <2>2. ExecutorInside'
    BY <1>18 DEF Drain, GoTo, TypeOK, ItTypeOK, ThTypeOK, ExecutorInside, Within,
           Closing, ReleasePcs, itVars
  <2>3. CloserInside'
    BY <1>18 DEF Drain, GoTo, TypeOK, ItTypeOK, ThTypeOK, CloserInside, Within,
           Closing, WaitsOnIt, itVars
  <2>4. ReleaseInv'
    BY <1>18 DEF Drain, GoTo, TypeOK, GenTypeOK, ThTypeOK, ReleaseInv, ReleasePcs
  <2>5. HungInv'
    <3>1. bt[t] \in Batches
      BY <1>18 DEF Drain, ThreadInside, Closing
    <3>2. \E p : pc' = [pc EXCEPT ![t] = p]
      BY <1>18 DEF Drain, GoTo, TypeOK, ThTypeOK
    <3>3. UNCHANGED <<bt, uncertain, itClosing, executing>>
      BY <1>18 DEF Drain, itVars
    <3>4. \A b \in Batches \ {bt[t]} : gen'[b] = gen[b] /\ wk'[b] = wk[b]
      BY <1>18 DEF Drain
    <3>5. gen'[bt[t]] = "finished" => ~Running(bt[t])'
      <4>1. gen[bt[t]] = "running" /\ gen' = gen
        BY <1>18 DEF Drain, ReleaseInv
      <4>2. QED
        BY <4>1
    <3>6. QED
      BY <3>1, <3>2, <3>3, <3>4, <3>5, HungStep
  <2>6. LaneInv'
    BY <1>18 DEF Drain, GoTo, TypeOK, DevTypeOK, RollTypeOK, ThTypeOK, LaneInv,
           devVars, rollVars
  <2>7. CallbackInv'
    BY <1>18 DEF Drain, GoTo, TypeOK, ThTypeOK, CallbackInv
  <2>8. QED
    BY <2>1, <2>2, <2>3, <2>4, <2>5, <2>6, <2>7, <1>18, TypeStep, LaneFrame
       DEF Drain, rollVars
<1>19. ASSUME NEW t \in Actors, CloseJoined(t)
     PROVE  IInv'
  <2>1. ThreadInside'
    BY <1>19 DEF CloseJoined, GoTo, TypeOK, GenTypeOK, ItTypeOK, ThTypeOK,
           ThreadInside, Within, Closing, WaitsOnIt, itVars
  <2>2. ExecutorInside'
    BY <1>19 DEF CloseJoined, GoTo, TypeOK, GenTypeOK, ItTypeOK, ThTypeOK,
           ExecutorInside, Within, Closing, ReleasePcs, itVars
  <2>3. CloserInside'
    BY <1>19 DEF CloseJoined, GoTo, TypeOK, GenTypeOK, ItTypeOK, ThTypeOK,
           CloserInside, Within, Closing, WaitsOnIt, ReleasePcs, itVars
  <2>4. ReservedInv'
    BY <1>19 DEF CloseJoined, GoTo, TypeOK, GenTypeOK, RollTypeOK, ThTypeOK,
           WkTypeOK, ReservedInv, Running, rollVars, wkVars
  <2>5. ReleaseInv'
    BY <1>19 DEF CloseJoined, GoTo, TypeOK, GenTypeOK, ThTypeOK, ReleaseInv, Within,
           Closing, WaitsOnIt, ReleasePcs, ThreadInside, ExecutorInside
  <2>6. HungInv'
    <3>1. bt[t] \in Batches
      BY <1>19 DEF CloseJoined, ThreadInside, Closing
    <3>2. \E p : pc' = [pc EXCEPT ![t] = p]
      BY <1>19 DEF CloseJoined, GoTo
    <3>3. UNCHANGED <<bt, uncertain, itClosing, executing>>
      BY <1>19 DEF CloseJoined, itVars
    <3>4. \A b \in Batches \ {bt[t]} : gen'[b] = gen[b] /\ wk'[b] = wk[b]
      BY <1>19 DEF CloseJoined, wkVars
    <3>5. gen'[bt[t]] = "finished" => ~Running(bt[t])'
      BY <1>19 DEF CloseJoined, CallbackInv, Running, wkVars
    <3>6. QED
      BY <3>1, <3>2, <3>3, <3>4, <3>5, HungStep
  <2>7. LaneInv'
    BY <1>19 DEF CloseJoined, GoTo, TypeOK, LaneInv, devVars, rollVars
  <2>8. CallbackInv'
    BY <1>19 DEF CloseJoined, GoTo, TypeOK, CallbackInv
  <2>9. QED
    BY <2>1, <2>2, <2>3, <2>4, <2>5, <2>6, <2>7, <2>8, <1>19, TypeStep, LaneFrame
<1>20. ASSUME NEW t \in Actors, Retain(t)
     PROVE  IInv'
  <2>1. ThreadInside'
    BY <1>20 DEF Retain, ReturnBusy, ReturnTo, Return, GoTo, TypeOK, ItTypeOK,
           ThTypeOK, ThreadInside, Within, Closing, WaitsOnIt, ReleasePcs, itVars
  <2>2. ExecutorInside'
    BY <1>20 DEF Retain, ReturnBusy, ReturnTo, Return, GoTo, TypeOK, ItTypeOK,
           ThTypeOK, ExecutorInside, Within, Closing, itVars
  <2>3. CloserInside'
    BY <1>20 DEF Retain, ReturnBusy, ReturnTo, Return, GoTo, TypeOK, ItTypeOK,
           ThTypeOK, CloserInside, Within, Closing, WaitsOnIt, ReleasePcs, itVars
  <2>4. ReleaseInv'
    BY <1>20 DEF Retain, ReturnBusy, ReturnTo, Return, GoTo, TypeOK, GenTypeOK,
           ThTypeOK, ReleaseInv, ReleasePcs
  <2>5. HungInv'
    BY <1>20 DEF Retain, ReturnBusy, ReturnTo, Return, GoTo, TypeOK, GenTypeOK,
           ItTypeOK, ThTypeOK, WkTypeOK, HungInv, Running, Within, ExecutorInside,
           ReservedInv, itVars, wkVars
  <2>6. LaneInv'
    BY <1>20 DEF Retain, ReturnBusy, ReturnTo, Return, GoTo, TypeOK, DevTypeOK,
           RollTypeOK, ThTypeOK, LaneInv, devVars
  <2>7. CallbackInv'
    BY <1>20 DEF Retain, ReturnBusy, ReturnTo, Return, GoTo, TypeOK, ThTypeOK,
           CallbackInv
  <2>8. QED
    BY <2>1, <2>2, <2>3, <2>4, <2>5, <2>6, <2>7, <1>20, TypeStep, LaneFrame
       DEF Retain, wkVars
<1>21. ASSUME NEW t \in Actors, RollCloseTurn(t)
     PROVE  IInv'
  <2>1. ThreadInside'
    <3>1. \A u \in Actors \ {t} : pc'[u] = pc[u] /\ bt'[u] = bt[u]
      BY <1>21 DEF RollCloseTurn, EnterRollClose, LocateBatch, Return, GoTo, TypeOK,
             ThTypeOK
    <3>2. \/ pc'[t] \in {"idle", "rcQueue", "rcPreview", "rcReach", "rcFinish"}
          \/ pc'[t] = "rcBatch" /\ bt'[t] \in Batches
      BY <1>21 DEF RollCloseTurn, EnterRollClose, LocateBatch, Return, GoTo, TypeOK,
             ThTypeOK, RollTypeOK
    <3>3. UNCHANGED <<executing, itClosing>>
      BY <1>21 DEF RollCloseTurn, itVars
    <3>4. QED
      BY <3>1, <3>2, <3>3 DEF ThreadInside, Within, Closing, ReleasePcs, WaitsOnIt
  <2>2. ExecutorInside'
    BY <1>21 DEF RollCloseTurn, Return, EnterRollClose, LocateBatch, GoTo, TypeOK,
           ItTypeOK, ThTypeOK, ExecutorInside, Within, Closing, ReleasePcs, itVars
  <2>3. CloserInside'
    BY <1>21 DEF RollCloseTurn, Return, EnterRollClose, LocateBatch, GoTo, TypeOK,
           ItTypeOK, ThTypeOK, CloserInside, Within, Closing, WaitsOnIt, ReleasePcs,
           itVars
  <2>4. ReleaseInv'
    BY <1>21 DEF RollCloseTurn, Return, EnterRollClose, LocateBatch, GoTo, TypeOK,
           GenTypeOK, ThTypeOK, ReleaseInv, ReleasePcs
  <2>5. HungInv'
    <3>1. \A b \in Batches : executing[b] # t
      BY <1>21 DEF RollCloseTurn, ExecutorInside, Within, ReleasePcs
    <3>2. \E p : pc' = [pc EXCEPT ![t] = p]
      BY <1>21 DEF RollCloseTurn, EnterRollClose, LocateBatch, Return, GoTo
    <3>3. UNCHANGED <<gen, wk, uncertain, itClosing, executing>>
      BY <1>21 DEF RollCloseTurn, itVars, wkVars
    <3>4. QED
      BY <3>1, <3>2, <3>3, HungMove
  <2>6. LaneInv'
    BY <1>21 DEF RollCloseTurn, Return, EnterRollClose, LocateBatch, GoTo, TypeOK,
           DevTypeOK, RollTypeOK, ThTypeOK, LaneInv, devVars
  <2>7. CallbackInv'
    BY <1>21 DEF RollCloseTurn, Return, EnterRollClose, LocateBatch, GoTo, TypeOK,
           ThTypeOK, CallbackInv
  <2>8. QED
    BY <2>1, <2>2, <2>3, <2>4, <2>5, <2>6, <2>7, <1>21, TypeStep, LaneFrame
       DEF RollCloseTurn, wkVars
<1>22. ASSUME NEW t \in Actors, RollCloseLocate(t)
     PROVE  IInv'
  <2>1. ThreadInside'
    <3>1. \A u \in Actors \ {t} : pc'[u] = pc[u] /\ bt'[u] = bt[u]
      BY <1>22 DEF RollCloseLocate, LocateBatch, GoTo, TypeOK, ThTypeOK
    <3>2. \/ pc'[t] \in {"idle", "rcQueue", "rcPreview", "rcReach", "rcFinish"}
          \/ pc'[t] = "rcBatch" /\ bt'[t] \in Batches
      BY <1>22 DEF RollCloseLocate, LocateBatch, GoTo, TypeOK, ThTypeOK, RollTypeOK
    <3>3. UNCHANGED <<executing, itClosing>>
      BY <1>22 DEF RollCloseLocate, itVars
    <3>4. QED
      BY <3>1, <3>2, <3>3 DEF ThreadInside, Within, Closing, ReleasePcs, WaitsOnIt
  <2>2. ExecutorInside'
    BY <1>22 DEF RollCloseLocate, LocateBatch, GoTo, TypeOK, ItTypeOK, ThTypeOK,
           ExecutorInside, Within, Closing, ReleasePcs, itVars
  <2>3. CloserInside'
    BY <1>22 DEF RollCloseLocate, LocateBatch, GoTo, TypeOK, ItTypeOK, ThTypeOK,
           CloserInside, Within, Closing, WaitsOnIt, ReleasePcs, itVars
  <2>4. ReleaseInv'
    BY <1>22 DEF RollCloseLocate, LocateBatch, GoTo, TypeOK, GenTypeOK, ThTypeOK,
           ReleaseInv, ReleasePcs
  <2>5. HungInv'
    <3>1. \A b \in Batches : executing[b] # t
      BY <1>22 DEF RollCloseLocate, ExecutorInside, Within, ReleasePcs
    <3>2. \E p : pc' = [pc EXCEPT ![t] = p]
      BY <1>22 DEF RollCloseLocate, LocateBatch, GoTo
    <3>3. UNCHANGED <<gen, wk, uncertain, itClosing, executing>>
      BY <1>22 DEF RollCloseLocate, itVars, wkVars
    <3>4. QED
      BY <3>1, <3>2, <3>3, HungMove
  <2>6. LaneInv'
    BY <1>22 DEF RollCloseLocate, LocateBatch, GoTo, TypeOK, DevTypeOK, RollTypeOK,
           ThTypeOK, LaneInv, devVars, rollVars
  <2>7. CallbackInv'
    BY <1>22 DEF RollCloseLocate, LocateBatch, GoTo, TypeOK, ThTypeOK, CallbackInv
  <2>8. QED
    BY <2>1, <2>2, <2>3, <2>4, <2>5, <2>6, <2>7, <1>22, TypeStep, LaneFrame
       DEF RollCloseLocate, rollVars, wkVars
<1>23. ASSUME NEW t \in Actors, RollCloseBatch(t)
     PROVE  IInv'
  <2>1. ThreadInside'
    BY <1>23 DEF RollCloseBatch, EnterClose, ReturnBusy, ReturnClosed, ReturnTo,
           Return, GoTo, Idle, TypeOK, ItTypeOK, ThTypeOK, ThreadInside, Within,
           Closing, WaitsOnIt, ReleasePcs
  <2>2. ExecutorInside'
    BY <1>23 DEF RollCloseBatch, EnterClose, ReturnBusy, ReturnClosed, ReturnTo,
           Return, GoTo, Idle, TypeOK, ItTypeOK, ThTypeOK, ExecutorInside, Within,
           Closing, ReleasePcs
  <2>3. CloserInside'
    BY <1>23 DEF RollCloseBatch, EnterClose, ReturnBusy, ReturnClosed, ReturnTo,
           Return, GoTo, Idle, TypeOK, ItTypeOK, ThTypeOK, CloserInside, Within,
           Closing, WaitsOnIt, ReleasePcs
  <2>4. ReleaseInv'
    BY <1>23 DEF RollCloseBatch, EnterClose, ReturnBusy, ReturnClosed, ReturnTo,
           Return, GoTo, Idle, TypeOK, GenTypeOK, ItTypeOK, ThTypeOK, ReleaseInv,
           ReleasePcs
  <2>5. HungInv'
    BY <1>23 DEF RollCloseBatch, EnterClose, ReturnBusy, ReturnClosed, ReturnTo,
           Return, GoTo, Idle, TypeOK, GenTypeOK, ItTypeOK, ThTypeOK, WkTypeOK,
           HungInv, Running, Within, ReleasePcs, ThreadInside, ExecutorInside,
           CloserInside, ReservedInv, devVars, wkVars
  <2>6. LaneInv'
    BY <1>23 DEF RollCloseBatch, EnterClose, ReturnBusy, ReturnClosed, ReturnTo,
           Return, GoTo, Idle, TypeOK, ThTypeOK, LaneInv, devVars
  <2>7. CallbackInv'
    BY <1>23 DEF RollCloseBatch, EnterClose, ReturnBusy, ReturnClosed, ReturnTo,
           Return, GoTo, Idle, TypeOK, ThTypeOK, CallbackInv
  <2>8. QED
    BY <2>1, <2>2, <2>3, <2>4, <2>5, <2>6, <2>7, <1>23, TypeStep, LaneFrame
       DEF RollCloseBatch, wkVars
<1>24. ASSUME NEW t \in Actors, RollCloseFail(t)
     PROVE  IInv'
  <2>1. ThreadInside'
    BY <1>24 DEF RollCloseFail, Return, GoTo, TypeOK, ItTypeOK, ThTypeOK,
           ThreadInside, Within, Closing, WaitsOnIt, ReleasePcs, itVars
  <2>2. ExecutorInside'
    BY <1>24 DEF RollCloseFail, Return, GoTo, TypeOK, ItTypeOK, ThTypeOK,
           ExecutorInside, Within, Closing, ReleasePcs, itVars
  <2>3. CloserInside'
    BY <1>24 DEF RollCloseFail, Return, GoTo, TypeOK, ItTypeOK, ThTypeOK,
           CloserInside, Within, Closing, WaitsOnIt, ReleasePcs, itVars
  <2>4. ReleaseInv'
    BY <1>24 DEF RollCloseFail, Return, GoTo, TypeOK, GenTypeOK, ThTypeOK,
           ReleaseInv, ReleasePcs
  <2>5. HungInv'
    BY <1>24 DEF RollCloseFail, Return, GoTo, TypeOK, GenTypeOK, ItTypeOK, ThTypeOK,
           WkTypeOK, HungInv, Running, Within, itVars, wkVars
  <2>6. LaneInv'
    BY <1>24 DEF RollCloseFail, Return, GoTo, LaneInv, devVars
  <2>7. CallbackInv'
    BY <1>24 DEF RollCloseFail, Return, GoTo, CallbackInv
  <2>8. QED
    BY <2>1, <2>2, <2>3, <2>4, <2>5, <2>6, <2>7, <1>24, TypeStep, LaneFrame
       DEF RollCloseFail, wkVars
<1>25. ASSUME NEW t \in Actors, RollCloseRelease(t)
     PROVE  IInv'
  <2>1. ThreadInside'
    BY <1>25 DEF RollCloseRelease, GoTo, TypeOK, ItTypeOK, ThTypeOK, ThreadInside,
           Within, Closing, WaitsOnIt, ReleasePcs, itVars
  <2>2. ExecutorInside'
    BY <1>25 DEF RollCloseRelease, GoTo, TypeOK, ItTypeOK, ThTypeOK, ExecutorInside,
           Within, Closing, ReleasePcs, itVars
  <2>3. CloserInside'
    BY <1>25 DEF RollCloseRelease, GoTo, TypeOK, ItTypeOK, ThTypeOK, CloserInside,
           Within, Closing, WaitsOnIt, ReleasePcs, itVars
  <2>4. ReleaseInv'
    BY <1>25 DEF RollCloseRelease, GoTo, TypeOK, GenTypeOK, ThTypeOK, ReleaseInv,
           ReleasePcs
  <2>5. HungInv'
    BY <1>25 DEF RollCloseRelease, GoTo, TypeOK, GenTypeOK, ItTypeOK, ThTypeOK,
           WkTypeOK, HungInv, Running, Within, itVars, wkVars
  <2>6. LaneInv'
    BY <1>25 DEF RollCloseRelease, GoTo, LaneInv, rollVars
  <2>7. CallbackInv'
    BY <1>25 DEF RollCloseRelease, GoTo, CallbackInv
  <2>8. QED
    BY <2>1, <2>2, <2>3, <2>4, <2>5, <2>6, <2>7, <1>25, TypeStep, LaneFrame
       DEF RollCloseRelease, rollVars, wkVars
<1>26. ASSUME NEW t \in Actors, RollCloseEnd(t)
     PROVE  IInv'
  <2>1. ThreadInside'
    BY <1>26 DEF RollCloseEnd, Return, GoTo, TypeOK, ItTypeOK, ThTypeOK,
           ThreadInside, Within, Closing, WaitsOnIt, ReleasePcs, itVars
  <2>2. ExecutorInside'
    BY <1>26 DEF RollCloseEnd, Return, GoTo, TypeOK, ItTypeOK, ThTypeOK,
           ExecutorInside, Within, Closing, ReleasePcs, itVars
  <2>3. CloserInside'
    BY <1>26 DEF RollCloseEnd, Return, GoTo, TypeOK, ItTypeOK, ThTypeOK,
           CloserInside, Within, Closing, WaitsOnIt, ReleasePcs, itVars
  <2>4. ReleaseInv'
    BY <1>26 DEF RollCloseEnd, Return, GoTo, TypeOK, GenTypeOK, ThTypeOK,
           ReleaseInv, ReleasePcs
  <2>5. HungInv'
    BY <1>26 DEF RollCloseEnd, Return, GoTo, TypeOK, GenTypeOK, ItTypeOK, ThTypeOK,
           WkTypeOK, HungInv, Running, Within, itVars, wkVars
  <2>6. LaneInv'
    BY <1>26 DEF RollCloseEnd, Return, GoTo, LaneInv, devVars
  <2>7. CallbackInv'
    BY <1>26 DEF RollCloseEnd, Return, GoTo, CallbackInv
  <2>8. QED
    BY <2>1, <2>2, <2>3, <2>4, <2>5, <2>6, <2>7, <1>26, TypeStep, LaneFrame
       DEF RollCloseEnd, wkVars
<1>27. ASSUME NEW t \in Actors, PreviewAcquire(t)
     PROVE  IInv'
  <2>1. ThreadInside'
    BY <1>27 DEF PreviewAcquire, AcquireLane, GoTo, LaneUsable, TypeOK, DevTypeOK,
           ItTypeOK, ThTypeOK, ThreadInside, Within, Closing, WaitsOnIt, ReleasePcs,
           itVars
  <2>2. ExecutorInside'
    BY <1>27 DEF PreviewAcquire, AcquireLane, GoTo, LaneUsable, TypeOK, DevTypeOK,
           ItTypeOK, ThTypeOK, ExecutorInside, Within, Closing, ReleasePcs, itVars
  <2>3. CloserInside'
    BY <1>27 DEF PreviewAcquire, AcquireLane, GoTo, LaneUsable, TypeOK, DevTypeOK,
           ItTypeOK, ThTypeOK, CloserInside, Within, Closing, WaitsOnIt, ReleasePcs,
           itVars
  <2>4. ReleaseInv'
    BY <1>27 DEF PreviewAcquire, AcquireLane, GoTo, LaneUsable, TypeOK, DevTypeOK,
           GenTypeOK, ThTypeOK, ReleaseInv, ReleasePcs
  <2>5. HungInv'
    <3>1. \A b \in Batches : executing[b] # t
      BY <1>27 DEF PreviewAcquire, ExecutorInside, Within, ReleasePcs
    <3>2. \E p : pc' = [pc EXCEPT ![t] = p]
      BY <1>27 DEF PreviewAcquire, GoTo
    <3>3. UNCHANGED <<gen, wk, uncertain, itClosing, executing>>
      BY <1>27 DEF PreviewAcquire, itVars, wkVars
    <3>4. QED
      BY <3>1, <3>2, <3>3, HungMove
  <2>6. LaneInv'
    BY <1>27 DEF PreviewAcquire, AcquireLane, GoTo, LaneUsable, TypeOK, DevTypeOK,
           RollTypeOK, ThTypeOK, LaneInv, devVars, rollVars
  <2>7. CallbackInv'
    BY <1>27 DEF PreviewAcquire, AcquireLane, GoTo, LaneUsable, TypeOK, ThTypeOK,
           CallbackInv
  <2>8. QED
    BY <2>1, <2>2, <2>3, <2>4, <2>5, <2>6, <2>7, <1>27, TypeStep, LaneFrame
       DEF PreviewAcquire, rollVars, wkVars
<1>28. ASSUME NEW t \in Actors, PreviewEnd(t)
     PROVE  IInv'
  <2>1. ThreadInside'
    BY <1>28 DEF PreviewEnd, GoTo, TypeOK, ItTypeOK, ThTypeOK, ThreadInside, Within,
           Closing, WaitsOnIt, ReleasePcs, itVars
  <2>2. ExecutorInside'
    BY <1>28 DEF PreviewEnd, GoTo, TypeOK, ItTypeOK, ThTypeOK, ExecutorInside,
           Within, Closing, ReleasePcs, itVars
  <2>3. CloserInside'
    BY <1>28 DEF PreviewEnd, GoTo, TypeOK, ItTypeOK, ThTypeOK, CloserInside, Within,
           Closing, WaitsOnIt, ReleasePcs, itVars
  <2>4. ReleaseInv'
    BY <1>28 DEF PreviewEnd, GoTo, TypeOK, GenTypeOK, ThTypeOK, ReleaseInv,
           ReleasePcs
  <2>5. HungInv'
    BY <1>28 DEF PreviewEnd, GoTo, TypeOK, GenTypeOK, ItTypeOK, ThTypeOK, WkTypeOK,
           HungInv, Running, Within, itVars, wkVars
  <2>6. LaneInv'
    BY <1>28 DEF PreviewEnd, GoTo, LaneInv, devVars
  <2>7. CallbackInv'
    BY <1>28 DEF PreviewEnd, GoTo, CallbackInv
  <2>8. QED
    BY <2>1, <2>2, <2>3, <2>4, <2>5, <2>6, <2>7, <1>28, TypeStep, LaneFrame
       DEF PreviewEnd, wkVars
<1>29. ASSUME NEW t \in Actors, PreviewRelease(t)
     PROVE  IInv'
  <2>1. ThreadInside'
    BY <1>29 DEF PreviewRelease, GoTo, TypeOK, DevTypeOK, ItTypeOK, ThTypeOK,
           ThreadInside, Within, Closing, WaitsOnIt, ReleasePcs, itVars
  <2>2. ExecutorInside'
    BY <1>29 DEF PreviewRelease, GoTo, TypeOK, DevTypeOK, ItTypeOK, ThTypeOK,
           ExecutorInside, Within, Closing, ReleasePcs, itVars
  <2>3. CloserInside'
    BY <1>29 DEF PreviewRelease, GoTo, TypeOK, DevTypeOK, ItTypeOK, ThTypeOK,
           CloserInside, Within, Closing, WaitsOnIt, ReleasePcs, itVars
  <2>4. ReleaseInv'
    BY <1>29 DEF PreviewRelease, GoTo, TypeOK, DevTypeOK, GenTypeOK, ThTypeOK,
           ReleaseInv, ReleasePcs
  <2>5. HungInv'
    BY <1>29 DEF PreviewRelease, GoTo, TypeOK, DevTypeOK, GenTypeOK, ItTypeOK,
           ThTypeOK, WkTypeOK, HungInv, Running, Within, itVars, wkVars
  <2>6. LaneInv'
    BY <1>29 DEF PreviewRelease, GoTo, TypeOK, DevTypeOK, RollTypeOK, ThTypeOK,
           LaneInv, rollVars
  <2>7. CallbackInv'
    BY <1>29 DEF PreviewRelease, GoTo, TypeOK, CallbackInv
  <2>8. QED
    BY <2>1, <2>2, <2>3, <2>4, <2>5, <2>6, <2>7, <1>29, TypeStep, LaneFrame
       DEF PreviewRelease, rollVars, wkVars
<1>30. ASSUME NEW t \in Actors, DeviceEnd(t)
     PROVE  IInv'
  <2>1. ThreadInside'
    BY <1>30 DEF DeviceEnd, GoTo, TypeOK, DevTypeOK, ItTypeOK, ThTypeOK,
           ThreadInside, Within, Closing, WaitsOnIt, ReleasePcs, itVars
  <2>2. ExecutorInside'
    BY <1>30 DEF DeviceEnd, GoTo, TypeOK, DevTypeOK, ItTypeOK, ThTypeOK,
           ExecutorInside, Within, Closing, ReleasePcs, itVars
  <2>3. CloserInside'
    BY <1>30 DEF DeviceEnd, GoTo, TypeOK, DevTypeOK, ItTypeOK, ThTypeOK,
           CloserInside, Within, Closing, WaitsOnIt, ReleasePcs, itVars
  <2>4. ReleaseInv'
    BY <1>30 DEF DeviceEnd, GoTo, TypeOK, DevTypeOK, GenTypeOK, ThTypeOK,
           ReleaseInv, ReleasePcs
  <2>5. HungInv'
    BY <1>30 DEF DeviceEnd, GoTo, TypeOK, DevTypeOK, GenTypeOK, ItTypeOK, ThTypeOK,
           WkTypeOK, HungInv, Running, Within, itVars, wkVars
  <2>6. LaneInv'
    BY <1>30 DEF DeviceEnd, GoTo, TypeOK, DevTypeOK, RollTypeOK, ThTypeOK, LaneInv,
           rollVars
  <2>7. CallbackInv'
    BY <1>30 DEF DeviceEnd, GoTo, TypeOK, CallbackInv
  <2>8. QED
    BY <2>1, <2>2, <2>3, <2>4, <2>5, <2>6, <2>7, <1>30, TypeStep, LaneFrame
       DEF DeviceEnd, rollVars, wkVars
<1>31. ASSUME NEW t \in Actors, NextJoinTimeout(t)
     PROVE  IInv'
  <2>1. ThreadInside'
    BY <1>31 DEF NextJoinTimeout, GoTo, TypeOK, GenTypeOK, ItTypeOK, ThTypeOK,
           ThreadInside, Within, Closing, WaitsOnIt
  <2>2. ExecutorInside'
    BY <1>31 DEF NextJoinTimeout, GoTo, TypeOK, GenTypeOK, ItTypeOK, ThTypeOK,
           ExecutorInside, Within, Closing
  <2>3. CloserInside'
    BY <1>31 DEF NextJoinTimeout, GoTo, TypeOK, GenTypeOK, ItTypeOK, ThTypeOK,
           CloserInside, Within, Closing, WaitsOnIt, ReleasePcs
  <2>4. ReservedInv'
    BY <1>31 DEF NextJoinTimeout, GoTo, TypeOK, GenTypeOK, ItTypeOK, RollTypeOK,
           ThTypeOK, WkTypeOK, ReservedInv, Running, rollVars, wkVars
  <2>5. ReleaseInv'
    BY <1>31 DEF NextJoinTimeout, GoTo, TypeOK, GenTypeOK, ItTypeOK, ThTypeOK,
           ReleaseInv, Within, Closing, WaitsOnIt, ReleasePcs, ThreadInside,
           ExecutorInside
  <2>6. HungInv'
    BY <1>31 DEF NextJoinTimeout, GoTo, TypeOK, GenTypeOK, ItTypeOK, ThTypeOK,
           WkTypeOK, HungInv, Running, Within, ThreadInside, ExecutorInside, wkVars
  <2>7. LaneInv'
    BY <1>31 DEF NextJoinTimeout, GoTo, TypeOK, DevTypeOK, LaneInv, devVars,
           rollVars
  <2>8. CallbackInv'
    BY <1>31 DEF NextJoinTimeout, GoTo, TypeOK, GenTypeOK, CallbackInv
  <2>9. QED
    BY <2>1, <2>2, <2>3, <2>4, <2>5, <2>6, <2>7, <2>8, <1>31, TypeStep, LaneFrame
<1>32. ASSUME NEW t \in Actors, CloseTimeout(t)
     PROVE  IInv'
  <2>1. ThreadInside'
    BY <1>32 DEF CloseTimeout, GoTo, Idle, TypeOK, ItTypeOK, ThTypeOK, ThreadInside,
           Within, Closing, WaitsOnIt, ReleasePcs
  <2>2. ExecutorInside'
    BY <1>32 DEF CloseTimeout, GoTo, Idle, TypeOK, ItTypeOK, ThTypeOK,
           ExecutorInside, Within, Closing
  <2>3. CloserInside'
    BY <1>32 DEF CloseTimeout, GoTo, Idle, TypeOK, ItTypeOK, ThTypeOK, CloserInside,
           Within, Closing, WaitsOnIt, ReleasePcs
  <2>4. ReleaseInv'
    BY <1>32 DEF CloseTimeout, GoTo, Idle, TypeOK, GenTypeOK, ItTypeOK, ThTypeOK,
           ReleaseInv, ReleasePcs
  <2>5. HungInv'
    BY <1>32 DEF CloseTimeout, GoTo, Idle, TypeOK, GenTypeOK, ItTypeOK, ThTypeOK,
           WkTypeOK, HungInv, Running, Within, wkVars
  <2>6. LaneInv'
    BY <1>32 DEF CloseTimeout, GoTo, Idle, TypeOK, LaneInv, devVars, rollVars
  <2>7. CallbackInv'
    BY <1>32 DEF CloseTimeout, GoTo, Idle, TypeOK, CallbackInv
  <2>8. QED
    BY <2>1, <2>2, <2>3, <2>4, <2>5, <2>6, <2>7, <1>32, TypeStep, LaneFrame
       DEF CloseTimeout, rollVars, wkVars
<1>33. ASSUME NEW t \in Actors, DrainTimeout(t)
     PROVE  IInv'
  <2>1. ThreadInside'
    BY <1>33 DEF DrainTimeout, GoTo, TypeOK, ItTypeOK, ThTypeOK, ThreadInside,
           Within, Closing, WaitsOnIt, itVars
  <2>2. ExecutorInside'
    BY <1>33 DEF DrainTimeout, GoTo, TypeOK, ItTypeOK, ThTypeOK, ExecutorInside,
           Within, Closing, ReleasePcs, itVars
  <2>3. CloserInside'
    BY <1>33 DEF DrainTimeout, GoTo, TypeOK, ItTypeOK, ThTypeOK, CloserInside,
           Within, Closing, WaitsOnIt, itVars
  <2>4. ReleaseInv'
    BY <1>33 DEF DrainTimeout, GoTo, TypeOK, GenTypeOK, ThTypeOK, ReleaseInv,
           ReleasePcs
  <2>5. HungInv'
    BY <1>33 DEF DrainTimeout, GoTo, TypeOK, GenTypeOK, ItTypeOK, ThTypeOK,
           WkTypeOK, HungInv, Running, Within, itVars, wkVars
  <2>6. LaneInv'
    BY <1>33 DEF DrainTimeout, GoTo, LaneInv, devVars, rollVars
  <2>7. CallbackInv'
    BY <1>33 DEF DrainTimeout, GoTo, CallbackInv
  <2>8. QED
    BY <2>1, <2>2, <2>3, <2>4, <2>5, <2>6, <2>7, <1>33, TypeStep, LaneFrame
       DEF DrainTimeout, rollVars, wkVars
<1>34. ASSUME NEW t \in Actors, CloseJoinTimeout(t)
     PROVE  IInv'
  <2>1. ThreadInside'
    BY <1>34 DEF CloseJoinTimeout, GoTo, TypeOK, GenTypeOK, ItTypeOK, ThTypeOK,
           ThreadInside, Within, Closing, WaitsOnIt, ReleasePcs
  <2>2. ExecutorInside'
    BY <1>34 DEF CloseJoinTimeout, GoTo, TypeOK, GenTypeOK, ItTypeOK, ThTypeOK,
           ExecutorInside, Within, Closing
  <2>3. CloserInside'
    BY <1>34 DEF CloseJoinTimeout, GoTo, TypeOK, GenTypeOK, ItTypeOK, ThTypeOK,
           CloserInside, Within, Closing, WaitsOnIt
  <2>4. ReservedInv'
    BY <1>34 DEF CloseJoinTimeout, GoTo, TypeOK, GenTypeOK, ItTypeOK, RollTypeOK,
           ThTypeOK, WkTypeOK, ReservedInv, Running, rollVars, wkVars
  <2>5. ReleaseInv'
    BY <1>34 DEF CloseJoinTimeout, GoTo, TypeOK, GenTypeOK, ItTypeOK, ThTypeOK,
           ReleaseInv, Within, Closing, WaitsOnIt, ReleasePcs, ThreadInside,
           ExecutorInside
  <2>6. HungInv'
    BY <1>34 DEF CloseJoinTimeout, GoTo, TypeOK, GenTypeOK, ItTypeOK, ThTypeOK,
           WkTypeOK, HungInv, Running, Within, Closing, WaitsOnIt, ReleasePcs,
           ThreadInside, ExecutorInside, wkVars
  <2>7. LaneInv'
    BY <1>34 DEF CloseJoinTimeout, GoTo, TypeOK, DevTypeOK, LaneInv, devVars,
           rollVars
  <2>8. CallbackInv'
    BY <1>34 DEF CloseJoinTimeout, GoTo, TypeOK, GenTypeOK, CallbackInv
  <2>9. QED
    BY <2>1, <2>2, <2>3, <2>4, <2>5, <2>6, <2>7, <2>8, <1>34, TypeStep, LaneFrame
<1>35. ASSUME NEW t \in Actors, RollCloseQueueTimeout(t)
     PROVE  IInv'
  <2>1. ThreadInside'
    BY <1>35 DEF RollCloseQueueTimeout, Return, GoTo, TypeOK, ItTypeOK, ThTypeOK,
           ThreadInside, Within, Closing, WaitsOnIt, ReleasePcs, itVars
  <2>2. ExecutorInside'
    BY <1>35 DEF RollCloseQueueTimeout, Return, GoTo, TypeOK, ItTypeOK, ThTypeOK,
           ExecutorInside, Within, Closing, ReleasePcs, itVars
  <2>3. CloserInside'
    BY <1>35 DEF RollCloseQueueTimeout, Return, GoTo, TypeOK, ItTypeOK, ThTypeOK,
           CloserInside, Within, Closing, WaitsOnIt, ReleasePcs, itVars
  <2>4. ReleaseInv'
    BY <1>35 DEF RollCloseQueueTimeout, Return, GoTo, TypeOK, GenTypeOK, ThTypeOK,
           ReleaseInv, ReleasePcs
  <2>5. HungInv'
    BY <1>35 DEF RollCloseQueueTimeout, Return, GoTo, TypeOK, GenTypeOK, ItTypeOK,
           ThTypeOK, WkTypeOK, HungInv, Running, Within, itVars, wkVars
  <2>6. LaneInv'
    BY <1>35 DEF RollCloseQueueTimeout, Return, GoTo, LaneInv, devVars, rollVars
  <2>7. CallbackInv'
    BY <1>35 DEF RollCloseQueueTimeout, Return, GoTo, CallbackInv
  <2>8. QED
    BY <2>1, <2>2, <2>3, <2>4, <2>5, <2>6, <2>7, <1>35, TypeStep, LaneFrame
       DEF RollCloseQueueTimeout, rollVars, wkVars
<1>36. ASSUME NEW t \in Actors, RollCloseTimeout(t)
     PROVE  IInv'
  <2>1. ThreadInside'
    BY <1>36 DEF RollCloseTimeout, Return, GoTo, TypeOK, ItTypeOK, ThTypeOK,
           ThreadInside, Within, Closing, WaitsOnIt, ReleasePcs, itVars
  <2>2. ExecutorInside'
    BY <1>36 DEF RollCloseTimeout, Return, GoTo, TypeOK, ItTypeOK, ThTypeOK,
           ExecutorInside, Within, Closing, ReleasePcs, itVars
  <2>3. CloserInside'
    BY <1>36 DEF RollCloseTimeout, Return, GoTo, TypeOK, ItTypeOK, ThTypeOK,
           CloserInside, Within, Closing, WaitsOnIt, ReleasePcs, itVars
  <2>4. ReleaseInv'
    BY <1>36 DEF RollCloseTimeout, Return, GoTo, TypeOK, GenTypeOK, ThTypeOK,
           ReleaseInv, ReleasePcs
  <2>5. HungInv'
    BY <1>36 DEF RollCloseTimeout, Return, GoTo, TypeOK, GenTypeOK, ItTypeOK,
           ThTypeOK, WkTypeOK, HungInv, Running, Within, itVars, wkVars
  <2>6. LaneInv'
    BY <1>36 DEF RollCloseTimeout, Return, GoTo, LaneInv, devVars
  <2>7. CallbackInv'
    BY <1>36 DEF RollCloseTimeout, Return, GoTo, CallbackInv
  <2>8. QED
    BY <2>1, <2>2, <2>3, <2>4, <2>5, <2>6, <2>7, <1>36, TypeStep, LaneFrame
       DEF RollCloseTimeout, wkVars
<1>37. ASSUME NEW b \in Batches, WorkerLaunch(b)
     PROVE  IInv'
  <2>1. ReservedInv'
    <3>1. \A c \in Batches : /\ Running(c)' => Running(c)
                             /\ wk[c] = "none" => wk'[c] = "none"
      BY <1>37 DEF WorkerLaunch, StartFrame, WorkerGoTo, Running, TypeOK, WkTypeOK
    <3>2. UNCHANGED <<gen, active, uncertain, itClosing, executing, pc>>
      BY <1>37 DEF WorkerLaunch, rollVars, itVars, thVars
    <3>3. QED
      BY <3>1, <3>2, WorkerMove
  <2>2. HungInv'
    <3>1. \A c \in Batches : /\ Running(c)' => Running(c)
                             /\ wk[c] = "none" => wk'[c] = "none"
      BY <1>37 DEF WorkerLaunch, StartFrame, WorkerGoTo, Running, TypeOK, WkTypeOK
    <3>2. UNCHANGED <<gen, active, uncertain, itClosing, executing, pc>>
      BY <1>37 DEF WorkerLaunch, rollVars, itVars, thVars
    <3>3. QED
      BY <3>1, <3>2, WorkerMove
  <2>3. QED
    BY <2>1, <2>2, <1>37, TypeStep, LaneFrame
       DEF WorkerLaunch, devVars, rollVars, itVars, thVars
<1>38. ASSUME NEW b \in Batches, WorkerFrame(b)
     PROVE  IInv'
  <2>1. ReservedInv'
    BY <1>38 DEF WorkerFrame, WorkerGoTo, TypeOK, GenTypeOK, RollTypeOK, WkTypeOK,
           ReservedInv, Running, rollVars
  <2>2. HungInv'
    BY <1>38 DEF WorkerFrame, WorkerGoTo, TypeOK, GenTypeOK, ItTypeOK, ThTypeOK,
           WkTypeOK, HungInv, Running, Within, itVars, thVars
  <2>3. QED
    BY <2>1, <2>2, <1>38, TypeStep, LaneFrame
       DEF WorkerFrame, devVars, rollVars, itVars, thVars
<1>39. ASSUME NEW b \in Batches, WorkerFail(b)
     PROVE  IInv'
  <2>1. ReservedInv'
    BY <1>39 DEF WorkerFail, WorkerGoTo, TypeOK, GenTypeOK, RollTypeOK, WkTypeOK,
           ReservedInv, Running, rollVars
  <2>2. HungInv'
    BY <1>39 DEF WorkerFail, WorkerGoTo, TypeOK, GenTypeOK, ItTypeOK, ThTypeOK,
           WkTypeOK, HungInv, Running, Within, itVars, thVars
  <2>3. QED
    BY <2>1, <2>2, <1>39, TypeStep, LaneFrame
       DEF WorkerFail, devVars, rollVars, itVars, thVars
<1>40. ASSUME NEW b \in Batches, WorkerCallbackReturns(b)
     PROVE  IInv'
  <2>1. ReservedInv'
    BY <1>40 DEF WorkerCallbackReturns, WorkerGoTo, TypeOK, GenTypeOK, RollTypeOK,
           WkTypeOK, ReservedInv, Running, rollVars
  <2>2. HungInv'
    BY <1>40 DEF WorkerCallbackReturns, WorkerGoTo, TypeOK, GenTypeOK, ItTypeOK,
           ThTypeOK, WkTypeOK, HungInv, Running, Within, itVars, thVars
  <2>3. QED
    BY <2>1, <2>2, <1>40, TypeStep, LaneFrame
       DEF WorkerCallbackReturns, devVars, rollVars, itVars, thVars
<1>41. ASSUME NEW b \in Batches, WorkerPut(b)
     PROVE  IInv'
  <2>1. ReservedInv'
    BY <1>41 DEF WorkerPut, WorkerGoTo, QueueHasRoom, TypeOK, GenTypeOK, RollTypeOK,
           WkTypeOK, ReservedInv, Running, rollVars
  <2>2. HungInv'
    BY <1>41 DEF WorkerPut, WorkerGoTo, QueueHasRoom, TypeOK, GenTypeOK, ItTypeOK,
           ThTypeOK, WkTypeOK, HungInv, Running, Within, itVars, thVars
  <2>3. QED
    BY <2>1, <2>2, <1>41, TypeStep, LaneFrame
       DEF WorkerPut, devVars, rollVars, itVars, thVars
<1>42. ASSUME NEW b \in Batches, WorkerCheckStop(b)
     PROVE  IInv'
  <2>1. ReservedInv'
    BY <1>42 DEF WorkerCheckStop, WorkerGoTo, TypeOK, GenTypeOK, RollTypeOK,
           WkTypeOK, ReservedInv, Running, rollVars
  <2>2. HungInv'
    BY <1>42 DEF WorkerCheckStop, WorkerGoTo, TypeOK, GenTypeOK, ItTypeOK, ThTypeOK,
           WkTypeOK, HungInv, Running, Within, itVars, thVars
  <2>3. QED
    BY <2>1, <2>2, <1>42, TypeStep, LaneFrame
       DEF WorkerCheckStop, devVars, rollVars, itVars, thVars
<1>43. ASSUME NEW b \in Batches, WorkerAck(b)
     PROVE  IInv'
  <2>1. ReservedInv'
    <3>1. \A c \in Batches : /\ Running(c)' => Running(c)
                             /\ wk[c] = "none" => wk'[c] = "none"
      BY <1>43 DEF WorkerAck, StartFrame, WorkerGoTo, Running, TypeOK, WkTypeOK
    <3>2. UNCHANGED <<gen, active, uncertain, itClosing, executing, pc>>
      BY <1>43 DEF WorkerAck, rollVars, itVars, thVars
    <3>3. QED
      BY <3>1, <3>2, WorkerMove
  <2>2. HungInv'
    <3>1. \A c \in Batches : /\ Running(c)' => Running(c)
                             /\ wk[c] = "none" => wk'[c] = "none"
      BY <1>43 DEF WorkerAck, StartFrame, WorkerGoTo, Running, TypeOK, WkTypeOK
    <3>2. UNCHANGED <<gen, active, uncertain, itClosing, executing, pc>>
      BY <1>43 DEF WorkerAck, rollVars, itVars, thVars
    <3>3. QED
      BY <3>1, <3>2, WorkerMove
  <2>3. QED
    BY <2>1, <2>2, <1>43, TypeStep, LaneFrame
       DEF WorkerAck, devVars, rollVars, itVars, thVars
<1>44. ASSUME NEW b \in Batches, WorkerChildExits(b)
     PROVE  IInv'
  <2>1. ReservedInv'
    BY <1>44 DEF WorkerChildExits, WorkerGoTo, TypeOK, GenTypeOK, RollTypeOK,
           WkTypeOK, ReservedInv, Running, rollVars
  <2>2. HungInv'
    BY <1>44 DEF WorkerChildExits, WorkerGoTo, TypeOK, GenTypeOK, ItTypeOK,
           ThTypeOK, WkTypeOK, HungInv, Running, Within, itVars, thVars
  <2>3. QED
    BY <2>1, <2>2, <1>44, TypeStep, LaneFrame
       DEF WorkerChildExits, devVars, rollVars, itVars, thVars
<1>45. ASSUME NEW b \in Batches, WorkerTerminal(b)
     PROVE  IInv'
  <2>1. ReservedInv'
    BY <1>45 DEF WorkerTerminal, WorkerGoTo, QueueHasRoom, TypeOK, GenTypeOK,
           RollTypeOK, WkTypeOK, ReservedInv, Running, rollVars
  <2>2. HungInv'
    BY <1>45 DEF WorkerTerminal, WorkerGoTo, QueueHasRoom, TypeOK, GenTypeOK,
           ItTypeOK, ThTypeOK, WkTypeOK, HungInv, Running, Within, itVars, thVars
  <2>3. QED
    BY <2>1, <2>2, <1>45, TypeStep, LaneFrame
       DEF WorkerTerminal, devVars, rollVars, itVars, thVars
<1>46. ASSUME NEW b \in Batches, WorkerDies(b)
     PROVE  IInv'
  <2>1. ReservedInv'
    BY <1>46 DEF WorkerDies, WorkerGoTo, TypeOK, GenTypeOK, RollTypeOK, WkTypeOK,
           ReservedInv, Running, rollVars
  <2>2. HungInv'
    BY <1>46 DEF WorkerDies, WorkerGoTo, TypeOK, GenTypeOK, ItTypeOK, ThTypeOK,
           WkTypeOK, HungInv, Running, Within, itVars, thVars
  <2>3. QED
    BY <2>1, <2>2, <1>46, TypeStep, LaneFrame
       DEF WorkerDies, devVars, rollVars, itVars, thVars
<1>47. CASE SafeStop
  BY <1>47, TypeStep, LaneFrame DEF SafeStop, devVars, itVars, wkVars, thVars
<1>48. CASE UNCHANGED vars
  BY <1>48, TypeStep, LaneFrame DEF vars, devVars, rollVars, itVars, wkVars, thVars
<1>49. QED
  BY <1>1, <1>2, <1>3, <1>4, <1>5, <1>6, <1>7, <1>8, <1>9, <1>10, <1>11, <1>12,
     <1>13, <1>14, <1>15, <1>16, <1>17, <1>18, <1>19, <1>20, <1>21, <1>22, <1>23,
     <1>24, <1>25, <1>26, <1>27, <1>28, <1>29, <1>30, <1>31, <1>32, <1>33, <1>34,
     <1>35, <1>36, <1>37, <1>38, <1>39, <1>40, <1>41, <1>42, <1>43, <1>44, <1>45,
     <1>46, <1>47, <1>48 DEF Next, Call, Continue, HardwareReturns, Timeout, Worker

-----------------------------------------------------------------------------

\* The initial states satisfy the invariant.
LEMMA LaneInit == Init => IInv
<1> SUFFICES ASSUME Init PROVE IInv
  OBVIOUS
<1> USE RollAssumption DEF Init
<1>1. TypeOK
  BY TypeInit
<1>2. ThreadInside /\ ReleaseInv /\ LaneInv /\ CallbackInv
  BY DEF ThreadInside, ReleaseInv, LaneInv, CallbackInv, Within, Closing,
         ReleasePcs, WaitsOnIt, Actors
<1>3. ExecutorInside /\ CloserInside
  BY DEF ExecutorInside, CloserInside
<1>4. ReservedInv /\ HungInv
  BY DEF ReservedInv, HungInv, Running
<1>5. QED
  BY <1>1, <1>2, <1>3, <1>4 DEF IInv

\* So it holds in every reachable state.
LEMMA LaneInvariant ==
    ASSUME ~RetryAfterBusy, ~CallbackCloses
    PROVE  Spec => []IInv
<1>1. Init => IInv
  BY LaneInit
<1>2. IInv /\ [Next]_vars => IInv'
  BY LaneStep
<1>3. QED
  BY <1>1, <1>2, PTL DEF Spec

\* A live batch's worker is running, so the batch is active and the lane its.
LEMMA LiveHoldsLane ==
    ASSUME IInv
    PROVE  LaneOwned
<1>1. ASSUME NEW b \in Batches, Live(b)
      PROVE  lane = b
  <2>1. Running(b)
    BY <1>1 DEF Live, LiveStages, Running
  <2>2. active = b /\ active # NoBatch
    BY <2>1, RollAssumption DEF IInv, ReservedInv
  <2>3. QED
    BY <2>2 DEF IInv, LaneInv
<1>2. QED
  BY <1>1 DEF LaneOwned, IInv, LaneInv

\* The lane belongs to whoever may use the scanner, through every close,
\* timeout and abandoned iterator.
THEOREM LaneNeverGivenAway ==
    ASSUME ~RetryAfterBusy, ~CallbackCloses
    PROVE  Spec => []LaneOwned
<1>1. Spec => []IInv
  BY LaneInvariant
<1>2. IInv => LaneOwned
  BY LiveHoldsLane
<1>3. QED
  BY <1>1, <1>2, PTL

\* No two batches, previews or Device operations use the scanner at once.
THEOREM ScannerNeverShared ==
    ASSUME ~RetryAfterBusy, ~CallbackCloses
    PROVE  Spec => []ExclusiveHardware
<1>1. Spec => []IInv
  BY LaneInvariant
<1>2. ASSUME IInv
      PROVE  ExclusiveHardware
  <2>1. LaneOwned
    BY <1>2, LiveHoldsLane
  <2>2. ASSUME NEW b \in Batches, Live(b), NEW c \in Batches, Live(c)
        PROVE  b = c
    BY <2>1, <2>2 DEF LaneOwned
  <2>3. ASSUME NEW b \in Batches, Live(b),
               NEW t \in Actors, pc[t] \in {"pvRun", "device"}
        PROVE  FALSE
    BY <2>1, <2>3, RollAssumption DEF LaneOwned
  <2>4. ASSUME NEW t \in Actors, pc[t] \in {"pvRun", "device"},
               NEW u \in Actors, pc[u] \in {"pvRun", "device"}
        PROVE  t = u
    BY <1>2, <2>4 DEF IInv, LaneInv
  <2>5. QED
    BY <2>2, <2>3, <2>4 DEF ExclusiveHardware, HardwareUsers
<1>3. QED
  BY <1>1, <1>2, PTL

\* The scanner has one user at a time, and the lane is that user's.
THEOREM LaneStaysExclusive ==
    ASSUME ~RetryAfterBusy, ~CallbackCloses
    PROVE  Spec => []LaneIsExclusive
<1>1. LaneOwned /\ ExclusiveHardware => LaneIsExclusive
  BY DEF LaneIsExclusive
<1>2. QED
  BY <1>1, LaneNeverGivenAway, ScannerNeverShared, PTL

-----------------------------------------------------------------------------

\* What bounds the frames started after a stop: the first of them finds the
\* stop still set when its ACK is chosen, because no other batch, whose
\* reservation would clear it, can start before this worker is gone.
LateInv ==
    \A b \in Batches :
        /\ late[b] <= 1
        /\ wk[b] \in {"none", "starting"} => late[b] = 0
        /\ late[b] = 1 /\ Running(b) => stopEvent /\ wk[b] # "ackContinue"

\* Only a reservation clears the stop and only workers count frames.
StopKept == UNCHANGED <<wk, late>> /\ (stopEvent => stopEvent')

\* No step of a thread clears the stop or touches a worker, but a reservation and
\* the step into the generator.
LEMMA ThreadsKeepStop ==
    ASSUME NEW t \in Actors, Call(t) \/ Continue(t) \/ HardwareReturns(t) \/ Timeout(t)
    PROVE  \/ StopKept
           \/ \E b \in Batches : Reserve(t, b)
           \/ NextGen(t)
<1>1. ASSUME NEW b \in Batches, NextBegin(t, b)
     PROVE  StopKept
  BY <1>1 DEF StopKept, NextBegin, wkVars, rollVars
<1>2. ASSUME NEW b \in Batches, CloseBegin(t, b)
     PROVE  StopKept
  BY <1>2 DEF StopKept, CloseBegin, EnterClose, wkVars
<1>3. ASSUME NEW b \in Batches, DropIterator(t, b)
     PROVE  StopKept
  BY <1>3 DEF StopKept, DropIterator, EnterClose, wkVars
<1>4. ASSUME RollCloseBegin(t)
     PROVE  StopKept
  BY <1>4 DEF StopKept, RollCloseBegin, EnterRollClose, wkVars
<1>5. ASSUME PreviewBegin(t)
     PROVE  StopKept
  BY <1>5 DEF StopKept, PreviewBegin, wkVars
<1>6. ASSUME DeviceBegin(t)
     PROVE  StopKept
  BY <1>6 DEF StopKept, DeviceBegin, wkVars, rollVars
<1>7. ASSUME DeviceClose(t)
     PROVE  StopKept
  BY <1>7 DEF StopKept, DeviceClose, wkVars, rollVars
<1>8. ASSUME NextGet(t)
     PROVE  StopKept
  BY <1>8 DEF StopKept, NextGet, rollVars
<1>9. ASSUME NextJoined(t)
     PROVE  StopKept
  BY <1>9 DEF StopKept, NextJoined, wkVars, rollVars
<1>10. ASSUME NextReturn(t)
     PROVE  StopKept
  BY <1>10 DEF StopKept, NextReturn, wkVars, rollVars
<1>11. ASSUME ReleaseOnce(t)
     PROVE  StopKept
  BY <1>11 DEF StopKept, ReleaseOnce, wkVars, rollVars
<1>12. ASSUME BatchFinished(t)
     PROVE  StopKept
  BY <1>12 DEF StopKept, BatchFinished, wkVars
<1>13. ASSUME MarkClosed(t)
     PROVE  StopKept
  BY <1>13 DEF StopKept, MarkClosed, wkVars, rollVars
<1>14. ASSUME CloseResume(t)
     PROVE  StopKept
  BY <1>14 DEF StopKept, CloseResume, wkVars, rollVars
<1>15. ASSUME CloseGen(t)
     PROVE  StopKept
  BY <1>15 DEF StopKept, CloseGen, wkVars
<1>16. ASSUME Drain(t)
     PROVE  StopKept
  BY <1>16 DEF StopKept, Drain, rollVars
<1>17. ASSUME CloseJoined(t)
     PROVE  StopKept
  BY <1>17 DEF StopKept, CloseJoined, wkVars, rollVars
<1>18. ASSUME Retain(t)
     PROVE  StopKept
  BY <1>18 DEF StopKept, Retain, wkVars
<1>19. ASSUME RollCloseTurn(t)
     PROVE  StopKept
  BY <1>19 DEF StopKept, RollCloseTurn, EnterRollClose, wkVars
<1>20. ASSUME RollCloseLocate(t)
     PROVE  StopKept
  BY <1>20 DEF StopKept, RollCloseLocate, wkVars, rollVars
<1>21. ASSUME RollCloseBatch(t)
     PROVE  StopKept
  BY <1>21 DEF StopKept, RollCloseBatch, EnterClose, wkVars
<1>22. ASSUME RollCloseFail(t)
     PROVE  StopKept
  BY <1>22 DEF StopKept, RollCloseFail, wkVars
<1>23. ASSUME RollCloseRelease(t)
     PROVE  StopKept
  BY <1>23 DEF StopKept, RollCloseRelease, wkVars, rollVars
<1>24. ASSUME RollCloseEnd(t)
     PROVE  StopKept
  BY <1>24 DEF StopKept, RollCloseEnd, wkVars
<1>25. ASSUME PreviewAcquire(t)
     PROVE  StopKept
  BY <1>25 DEF StopKept, PreviewAcquire, wkVars, rollVars
<1>26. ASSUME PreviewEnd(t)
     PROVE  StopKept
  BY <1>26 DEF StopKept, PreviewEnd, wkVars
<1>27. ASSUME PreviewRelease(t)
     PROVE  StopKept
  BY <1>27 DEF StopKept, PreviewRelease, wkVars, rollVars
<1>28. ASSUME DeviceEnd(t)
     PROVE  StopKept
  BY <1>28 DEF StopKept, DeviceEnd, wkVars, rollVars
<1>29. ASSUME NextJoinTimeout(t)
     PROVE  StopKept
  BY <1>29 DEF StopKept, NextJoinTimeout, wkVars, rollVars
<1>30. ASSUME CloseTimeout(t)
     PROVE  StopKept
  BY <1>30 DEF StopKept, CloseTimeout, wkVars, rollVars
<1>31. ASSUME DrainTimeout(t)
     PROVE  StopKept
  BY <1>31 DEF StopKept, DrainTimeout, wkVars, rollVars
<1>32. ASSUME CloseJoinTimeout(t)
     PROVE  StopKept
  BY <1>32 DEF StopKept, CloseJoinTimeout, wkVars, rollVars
<1>33. ASSUME RollCloseQueueTimeout(t)
     PROVE  StopKept
  BY <1>33 DEF StopKept, RollCloseQueueTimeout, wkVars, rollVars
<1>34. ASSUME RollCloseTimeout(t)
     PROVE  StopKept
  BY <1>34 DEF StopKept, RollCloseTimeout, wkVars
<1>35. QED
  BY <1>1, <1>2, <1>3, <1>4, <1>5, <1>6, <1>7, <1>8, <1>9, <1>10, <1>11, <1>12,
     <1>13, <1>14, <1>15, <1>16, <1>17, <1>18, <1>19, <1>20, <1>21, <1>22, <1>23,
     <1>24, <1>25, <1>26, <1>27, <1>28, <1>29, <1>30, <1>31, <1>32, <1>33, <1>34
     DEF Call, Continue, HardwareReturns, Timeout

\* The invariant about late frames is inductive.
LEMMA LateStep ==
    ASSUME ~RetryAfterBusy, ~CallbackCloses, IInv, LateInv, [Next]_vars
    PROVE  LateInv'
<1> USE RollAssumption
<1>1. WkTypeOK /\ RollTypeOK /\ ReservedInv
  BY DEF IInv, TypeOK
<1>2. ASSUME StopKept
      PROVE  LateInv'
  BY <1>2 DEF StopKept, LateInv, Running
<1>3. ASSUME NEW t \in Actors, NEW b \in Batches, Reserve(t, b)
      PROVE  LateInv'
  <2>1. UNCHANGED <<wk, late>>
    BY <1>3 DEF Reserve, wkVars
  <2>2. \A c \in Batches : ~Running(c)
    BY <1>1, <1>3 DEF Reserve, MutableReview, ReservedInv
  <2>3. QED
    BY <2>1, <2>2 DEF LateInv, Running
<1>4. ASSUME NEW t \in Actors, NextGen(t)
      PROVE  LateInv'
  <2>1. UNCHANGED <<stopEvent, late>>
    BY <1>4 DEF NextGen, rollVars
  <2>2. wk' = wk \/ (gen[bt[t]] = "fresh" /\ wk' = [wk EXCEPT ![bt[t]] = "starting"])
    BY <1>4 DEF NextGen
  <2>3. \A b \in Batches : wk'[b] = wk[b] \/ (wk[b] = "none" /\ wk'[b] = "starting")
    BY <1>1, <2>2 DEF WkTypeOK, ReservedInv
  <2>4. QED
    BY <2>1, <2>3 DEF LateInv, Running
<1>5. ASSUME NEW b \in Batches, Worker(b)
      PROVE  LateInv'
  <2>1. stopEvent' = stopEvent
    BY <1>5 DEF Worker, WorkerLaunch, WorkerFrame, WorkerFail,
           WorkerCallbackReturns, WorkerPut, WorkerCheckStop, WorkerAck,
           WorkerChildExits, WorkerTerminal, WorkerDies, rollVars
  <2>2. \A c \in Batches \ {b} : wk'[c] = wk[c] /\ late'[c] = late[c]
    BY <1>1, <1>5 DEF Worker, WorkerLaunch, WorkerFrame, WorkerFail,
           WorkerCallbackReturns, WorkerPut, WorkerCheckStop, WorkerAck,
           WorkerChildExits, WorkerTerminal, WorkerDies, WorkerGoTo, StartFrame,
           WkTypeOK
  <2>3. CASE late'[b] = late[b]
    <3>1. wk[b] # "none" /\ Running(b)
      BY <1>5 DEF Worker, WorkerLaunch, WorkerFrame, WorkerFail,
             WorkerCallbackReturns, WorkerPut, WorkerCheckStop, WorkerAck,
             WorkerChildExits, WorkerTerminal, WorkerDies, Running
    <3>2. wk'[b] \notin {"none", "starting"} /\ (stopEvent => wk'[b] # "ackContinue")
      BY <1>1, <1>5 DEF Worker, WorkerLaunch, WorkerFrame, WorkerFail,
             WorkerCallbackReturns, WorkerPut, WorkerCheckStop, WorkerAck,
             WorkerChildExits, WorkerTerminal, WorkerDies, WorkerGoTo, StartFrame,
             WkTypeOK
    <3>3. late'[b] <= 1 /\ (late'[b] = 1 => stopEvent' /\ wk'[b] # "ackContinue")
      BY <2>1, <2>3, <3>1, <3>2 DEF LateInv
    <3>4. ASSUME NEW c \in Batches \ {b}
          PROVE  /\ late'[c] <= 1
                 /\ wk'[c] \in {"none", "starting"} => late'[c] = 0
                 /\ late'[c] = 1 /\ Running(c)' => stopEvent' /\ wk'[c] # "ackContinue"
      BY <2>1, <2>2 DEF LateInv, Running
    <3>5. QED
      BY <3>2, <3>3, <3>4 DEF LateInv
  <2>4. CASE late'[b] # late[b]
    <3>1. /\ wk[b] \in {"starting", "ackContinue"} /\ wk'[b] = "scan"
          /\ stopEvent /\ late'[b] = late[b] + 1
      BY <1>1, <1>5, <2>4 DEF Worker, WorkerLaunch, WorkerFrame, WorkerFail,
             WorkerCallbackReturns, WorkerPut, WorkerCheckStop, WorkerAck,
             WorkerChildExits, WorkerTerminal, WorkerDies, WorkerGoTo, StartFrame,
             WkTypeOK
    <3>2. late[b] = 0
      BY <1>1, <3>1 DEF LateInv, Running, WkTypeOK
    <3>3. QED
      BY <2>1, <2>2, <3>1, <3>2 DEF LateInv, Running
  <2>5. QED
    BY <2>3, <2>4
<1>6. CASE SafeStop
  BY <1>2, <1>6 DEF SafeStop, StopKept, wkVars
<1>7. CASE UNCHANGED vars
  BY <1>2, <1>7 DEF vars, StopKept, wkVars, rollVars
<1>8. QED
  BY <1>2, <1>3, <1>4, <1>5, <1>6, <1>7, ThreadsKeepStop DEF Next

\* After safe_stop() at most one more frame of any batch starts.
THEOREM AtMostOneLateFrame ==
    ASSUME ~RetryAfterBusy, ~CallbackCloses
    PROVE  Spec => []OneLateFrame
<1>1. Spec => []IInv
  BY LaneInvariant
<1>2. Init => LateInv
  BY DEF Init, LateInv
<1>3. IInv /\ LateInv /\ [Next]_vars => LateInv'
  BY LateStep
<1>4. LateInv => OneLateFrame
  BY DEF LateInv, OneLateFrame
<1>5. QED
  BY <1>1, <1>2, <1>3, <1>4, PTL DEF Spec

-----------------------------------------------------------------------------
(* Nothing orphaned.                                                       *)

\* A batch that is not reserved yet is known to nobody.
FreshInv ==
    /\ \A b \in Batches : gen[b] = "none" =>
           ~itClosed[b] /\ ~released[b] /\ ~uncertain[b] /\ ~dropped[b] /\ active # b
    /\ \A t \in Actors : bt[t] \in Batches => gen[bt[t]] # "none"

\* A closed iterator has given its reservation back.
GivenBackInv ==
    /\ \A b \in Batches :
           /\ itClosed[b] => active # b
           /\ released[b] /\ active = b => \E t \in Actors : pc[t] = "finish" /\ bt[t] = b
    /\ \A t \in Actors : pc[t] = "end" => active # bt[t]

\* The Roll retains an uncertain batch, or somebody is about to make it.
RetainedInv ==
    /\ uncertainBatch \in {NoBatch, active}
    /\ \A b \in Batches : uncertain[b] /\ active = b =>
           uncertainBatch = b \/ \E t \in Actors : pc[t] = "retain" /\ bt[t] = b

\* The thread whose turn it is to close the Roll.
RollCloser(t) == viaRoll[t] /\ pc[t] # "rcQueue"

\* One thread at a time closes the Roll, and no operation begins meanwhile.
RollCloserInv ==
    /\ \A t \in Actors :
           /\ pc[t] \in RollPcs => viaRoll[t]
           /\ viaRoll[t] => /\ pc[t] \in RollPcs \cup ClosePcs \cup ReleasePcs
                            /\ \A b \in Batches : executing[b] # t
           /\ RollCloser(t) =>
                  /\ closing /\ ~closed
                  /\ pc[t] # "rcPreview" => ~previewActive
                  /\ pc[t] \in {"rcBatch"} \cup ClosePcs \cup ReleasePcs =>
                         active \in {bt[t], NoBatch}
                  /\ pc[t] \in {"rcFinish", "rcEnd"} => active = NoBatch
    /\ \A t, u \in Actors : RollCloser(t) /\ RollCloser(u) => t = u

ClosedInv ==
    /\ closed => active = NoBatch /\ ~previewActive
    /\ devClosed => lane = Free

OwnerInv ==
    /\ FreshInv /\ GivenBackInv /\ RetainedInv /\ RollCloserInv /\ ClosedInv
    /\ NoOrphanedReservation

\* No step of a thread, in whatever call it is, breaks a part.
LEMMA OwnerThread ==
    ASSUME IInv, OwnerInv, NEW t \in Actors,
           Call(t) \/ Continue(t) \/ HardwareReturns(t) \/ Timeout(t)
    PROVE  OwnerInv'
<1> USE RollAssumption
        DEF OwnerInv, devVars, rollVars, itVars, wkVars, thVars, IInv, TypeOK, DevTypeOK,
            RollTypeOK, ItTypeOK, ThTypeOK, GenTypeOK, ThreadInside, ReleaseInv,
            ExecutorInside, CloserInside, Within, Closing, WaitsOnIt, RollPcs, ClosePcs,
            ReleasePcs
<1>1. ASSUME NEW b \in Batches, Reserve(t, b)
     PROVE  OwnerInv'
  <2>1. FreshInv' /\ GivenBackInv'
    BY <1>1 DEF Reserve, AcquireLane, LaneUsable, CanCall, MutableReview, GivenBackInv,
           FreshInv, RetainedInv, ReservedInv
  <2>2. RetainedInv' /\ NoOrphanedReservation'
    BY <1>1
       DEF Reserve, AcquireLane, LaneUsable, CanCall, MutableReview, RetainedInv, FreshInv,
           GivenBackInv, NoOrphanedReservation
  <2>3. RollCloserInv' /\ ClosedInv'
    BY <1>1 DEF Reserve, AcquireLane, LaneUsable, CanCall, MutableReview, RollCloserInv,
           RollCloser, RetainedInv, ClosedInv, GivenBackInv
  <2>4. QED
    BY <2>1, <2>2, <2>3 DEF OwnerInv
<1>2. ASSUME NEW b \in Batches, NextBegin(t, b)
     PROVE  OwnerInv'
  <2>1. FreshInv' /\ GivenBackInv'
    BY <1>2 DEF NextBegin, GoTo, CanCall, Reachable, NextAdmitted, GivenBackInv, FreshInv,
           RetainedInv, ReservedInv
  <2>2. RetainedInv' /\ NoOrphanedReservation'
    BY <1>2 DEF NextBegin, GoTo, CanCall, Reachable, NextAdmitted, RetainedInv, FreshInv,
           GivenBackInv, NoOrphanedReservation
  <2>3. RollCloserInv' /\ ClosedInv'
    BY <1>2
       DEF NextBegin, GoTo, CanCall, Reachable, NextAdmitted, RollCloserInv, RollCloser,
           RetainedInv, ClosedInv, GivenBackInv
  <2>4. QED
    BY <2>1, <2>2, <2>3 DEF OwnerInv
<1>3. ASSUME NEW b \in Batches, CloseBegin(t, b)
     PROVE  OwnerInv'
  <2>1. FreshInv' /\ GivenBackInv'
    BY <1>3
       DEF CloseBegin, EnterClose, Idle, GoTo, CanCall, Reachable, GivenBackInv, FreshInv,
           RetainedInv, ReservedInv
  <2>2. RetainedInv' /\ NoOrphanedReservation'
    BY <1>3
       DEF CloseBegin, EnterClose, Idle, GoTo, CanCall, Reachable, RetainedInv, FreshInv,
           GivenBackInv, NoOrphanedReservation
  <2>3. RollCloserInv' /\ ClosedInv'
    BY <1>3 DEF CloseBegin, EnterClose, Idle, GoTo, CanCall, Reachable, RollCloserInv,
           RollCloser, RetainedInv, ClosedInv, GivenBackInv
  <2>4. QED
    BY <2>1, <2>2, <2>3 DEF OwnerInv
<1>4. ASSUME NEW b \in Batches, DropIterator(t, b)
     PROVE  OwnerInv'
  <2>1. FreshInv' /\ GivenBackInv'
    BY <1>4 DEF DropIterator, EnterClose, Idle, GoTo, CanCall, Reachable, GivenBackInv,
           FreshInv, RetainedInv, ReservedInv
  <2>2. RetainedInv' /\ NoOrphanedReservation'
    BY <1>4
       DEF DropIterator, EnterClose, Idle, GoTo, CanCall, Reachable, RetainedInv, FreshInv,
           GivenBackInv, NoOrphanedReservation
  <2>3. RollCloserInv' /\ ClosedInv'
    BY <1>4 DEF DropIterator, EnterClose, Idle, GoTo, CanCall, Reachable, RollCloserInv,
           RollCloser, RetainedInv, ClosedInv, GivenBackInv
  <2>4. QED
    BY <2>1, <2>2, <2>3 DEF OwnerInv
<1>5. CASE RollCloseBegin(t)
  <2>1. FreshInv' /\ GivenBackInv'
    BY <1>5 DEF RollCloseBegin, EnterRollClose, LocateBatch, GoTo, CanCall, InCallback,
           GivenBackInv, FreshInv, RetainedInv, ReservedInv
  <2>2. RetainedInv' /\ NoOrphanedReservation'
    BY <1>5 DEF RollCloseBegin, EnterRollClose, LocateBatch, GoTo, CanCall, InCallback,
           RetainedInv, FreshInv, GivenBackInv, NoOrphanedReservation
  <2>3. RollCloserInv' /\ ClosedInv'
    BY <1>5 DEF RollCloseBegin, EnterRollClose, LocateBatch, GoTo, CanCall, InCallback,
           RollCloserInv, RollCloser, RetainedInv, ClosedInv, GivenBackInv
  <2>4. QED
    BY <2>1, <2>2, <2>3 DEF OwnerInv
<1>6. CASE PreviewBegin(t)
  <2>1. FreshInv' /\ GivenBackInv'
    BY <1>6
       DEF PreviewBegin, CanCall, MutableReview, GoTo, GivenBackInv, FreshInv, RetainedInv,
           ReservedInv
  <2>2. RetainedInv' /\ NoOrphanedReservation'
    BY <1>6
       DEF PreviewBegin, CanCall, MutableReview, GoTo, RetainedInv, FreshInv, GivenBackInv,
           NoOrphanedReservation
  <2>3. RollCloserInv' /\ ClosedInv'
    BY <1>6 DEF PreviewBegin, CanCall, MutableReview, GoTo, RollCloserInv, RollCloser,
           RetainedInv, ClosedInv, GivenBackInv
  <2>4. QED
    BY <2>1, <2>2, <2>3 DEF OwnerInv
<1>7. CASE DeviceBegin(t)
  <2>1. FreshInv' /\ GivenBackInv'
    BY <1>7 DEF DeviceBegin, CanCall, AcquireLane, LaneUsable, GoTo, GivenBackInv, FreshInv,
           RetainedInv, ReservedInv
  <2>2. RetainedInv' /\ NoOrphanedReservation'
    BY <1>7 DEF DeviceBegin, CanCall, AcquireLane, LaneUsable, GoTo, RetainedInv, FreshInv,
           GivenBackInv, NoOrphanedReservation
  <2>3. RollCloserInv' /\ ClosedInv'
    BY <1>7
       DEF DeviceBegin, CanCall, AcquireLane, LaneUsable, GoTo, RollCloserInv, RollCloser,
           RetainedInv, ClosedInv, GivenBackInv
  <2>4. QED
    BY <2>1, <2>2, <2>3 DEF OwnerInv
<1>8. CASE DeviceClose(t)
  <2>1. FreshInv' /\ GivenBackInv'
    BY <1>8 DEF DeviceClose, CanCall, GivenBackInv, FreshInv, RetainedInv, ReservedInv
  <2>2. RetainedInv' /\ NoOrphanedReservation'
    BY <1>8
       DEF DeviceClose, CanCall, RetainedInv, FreshInv, GivenBackInv, NoOrphanedReservation
  <2>3. RollCloserInv' /\ ClosedInv'
    BY <1>8 DEF DeviceClose, CanCall, RollCloserInv, RollCloser, RetainedInv, ClosedInv,
           GivenBackInv
  <2>4. QED
    BY <2>1, <2>2, <2>3 DEF OwnerInv
<1>9. CASE NextGen(t)
  <2>1. FreshInv' /\ GivenBackInv'
    BY <1>9 DEF NextGen, GoTo, GivenBackInv, FreshInv, RetainedInv, ReservedInv
  <2>2. RetainedInv' /\ NoOrphanedReservation'
    BY <1>9 DEF NextGen, GoTo, RetainedInv, FreshInv, GivenBackInv, NoOrphanedReservation
  <2>3. RollCloserInv' /\ ClosedInv'
    BY <1>9
       DEF NextGen, GoTo, RollCloserInv, RollCloser, RetainedInv, ClosedInv, GivenBackInv
  <2>4. QED
    BY <2>1, <2>2, <2>3 DEF OwnerInv
<1>10. CASE NextGet(t)
  <2>1. FreshInv' /\ GivenBackInv'
    BY <1>10 DEF NextGet, GoTo, GivenBackInv, FreshInv, RetainedInv, ReservedInv
  <2>2. RetainedInv' /\ NoOrphanedReservation'
    BY <1>10 DEF NextGet, GoTo, RetainedInv, FreshInv, GivenBackInv, NoOrphanedReservation
  <2>3. RollCloserInv' /\ ClosedInv'
    BY <1>10
       DEF NextGet, GoTo, RollCloserInv, RollCloser, RetainedInv, ClosedInv, GivenBackInv
  <2>4. QED
    BY <2>1, <2>2, <2>3 DEF OwnerInv
<1>11. CASE NextJoined(t)
  <2>1. FreshInv' /\ GivenBackInv'
    BY <1>11 DEF NextJoined, GoTo, GivenBackInv, FreshInv, RetainedInv, ReservedInv
  <2>2. RetainedInv' /\ NoOrphanedReservation'
    BY <1>11
       DEF NextJoined, GoTo, RetainedInv, FreshInv, GivenBackInv, NoOrphanedReservation
  <2>3. RollCloserInv' /\ ClosedInv'
    BY <1>11 DEF NextJoined, GoTo, RollCloserInv, RollCloser, RetainedInv, ClosedInv,
           GivenBackInv
  <2>4. QED
    BY <2>1, <2>2, <2>3 DEF OwnerInv
<1>12. CASE NextReturn(t)
  <2>1. FreshInv' /\ GivenBackInv'
    BY <1>12 DEF NextReturn, Return, GoTo, GivenBackInv, FreshInv, RetainedInv, ReservedInv
  <2>2. RetainedInv' /\ NoOrphanedReservation'
    BY <1>12 DEF NextReturn, Return, GoTo, RetainedInv, FreshInv, GivenBackInv,
           NoOrphanedReservation
  <2>3. RollCloserInv' /\ ClosedInv'
    BY <1>12
       DEF NextReturn, Return, GoTo, RollCloserInv, RollCloser, RetainedInv, ClosedInv,
           GivenBackInv
  <2>4. QED
    BY <2>1, <2>2, <2>3 DEF OwnerInv
<1>13. CASE ReleaseOnce(t)
  <2>1. FreshInv' /\ GivenBackInv'
    BY <1>13 DEF ReleaseOnce, GoTo, GivenBackInv, FreshInv, RetainedInv, ReservedInv
  <2>2. RetainedInv' /\ NoOrphanedReservation'
    BY <1>13
       DEF ReleaseOnce, GoTo, RetainedInv, FreshInv, GivenBackInv, NoOrphanedReservation
  <2>3. RollCloserInv' /\ ClosedInv'
    BY <1>13 DEF ReleaseOnce, GoTo, RollCloserInv, RollCloser, RetainedInv, ClosedInv,
           GivenBackInv
  <2>4. QED
    BY <2>1, <2>2, <2>3 DEF OwnerInv
<1>14. CASE BatchFinished(t)
  <2>1. FreshInv' /\ GivenBackInv'
    BY <1>14 DEF BatchFinished, GoTo, GivenBackInv, FreshInv, RetainedInv, ReservedInv
  <2>2. RetainedInv' /\ NoOrphanedReservation'
    BY <1>14
       DEF BatchFinished, GoTo, RetainedInv, FreshInv, GivenBackInv, NoOrphanedReservation
  <2>3. RollCloserInv' /\ ClosedInv'
    BY <1>14 DEF BatchFinished, GoTo, RollCloserInv, RollCloser, RetainedInv, ClosedInv,
           GivenBackInv
  <2>4. QED
    BY <2>1, <2>2, <2>3 DEF OwnerInv
<1>15. CASE MarkClosed(t)
  <2>1. FreshInv' /\ GivenBackInv'
    BY <1>15 DEF MarkClosed, ReturnClosed, ReturnTo, Return, GoTo, GivenBackInv, FreshInv,
           RetainedInv, ReservedInv
  <2>2. RetainedInv' /\ NoOrphanedReservation'
    BY <1>15 DEF MarkClosed, ReturnClosed, ReturnTo, Return, GoTo, RetainedInv, FreshInv,
           GivenBackInv, NoOrphanedReservation
  <2>3. RollCloserInv' /\ ClosedInv'
    BY <1>15
       DEF MarkClosed, ReturnClosed, ReturnTo, Return, GoTo, RollCloserInv, RollCloser,
           RetainedInv, ClosedInv, GivenBackInv
  <2>4. QED
    BY <2>1, <2>2, <2>3 DEF OwnerInv
<1>16. CASE CloseResume(t)
  <2>1. FreshInv' /\ GivenBackInv'
    BY <1>16 DEF CloseResume, Idle, ReturnBusy, ReturnClosed, ReturnTo, Return, GoTo,
           GivenBackInv, FreshInv, RetainedInv, ReservedInv
  <2>2. RetainedInv' /\ NoOrphanedReservation'
    BY <1>16 DEF CloseResume, Idle, ReturnBusy, ReturnClosed, ReturnTo, Return, GoTo,
           RetainedInv, FreshInv, GivenBackInv, NoOrphanedReservation
  <2>3. RollCloserInv' /\ ClosedInv'
    BY <1>16 DEF CloseResume, Idle, ReturnBusy, ReturnClosed, ReturnTo, Return, GoTo,
           RollCloserInv, RollCloser, RetainedInv, ClosedInv, GivenBackInv
  <2>4. QED
    BY <2>1, <2>2, <2>3 DEF OwnerInv
<1>17. CASE CloseGen(t)
  <2>1. FreshInv' /\ GivenBackInv'
    BY <1>17 DEF CloseGen, GoTo, GivenBackInv, FreshInv, RetainedInv, ReservedInv
  <2>2. RetainedInv' /\ NoOrphanedReservation'
    BY <1>17 DEF CloseGen, GoTo, RetainedInv, FreshInv, GivenBackInv, NoOrphanedReservation
  <2>3. RollCloserInv' /\ ClosedInv'
    BY <1>17
       DEF CloseGen, GoTo, RollCloserInv, RollCloser, RetainedInv, ClosedInv, GivenBackInv
  <2>4. QED
    BY <2>1, <2>2, <2>3 DEF OwnerInv
<1>18. CASE Drain(t)
  <2>1. FreshInv' /\ GivenBackInv'
    BY <1>18 DEF Drain, GoTo, GivenBackInv, FreshInv, RetainedInv, ReservedInv
  <2>2. RetainedInv' /\ NoOrphanedReservation'
    BY <1>18 DEF Drain, GoTo, RetainedInv, FreshInv, GivenBackInv, NoOrphanedReservation
  <2>3. RollCloserInv' /\ ClosedInv'
    BY <1>18
       DEF Drain, GoTo, RollCloserInv, RollCloser, RetainedInv, ClosedInv, GivenBackInv
  <2>4. QED
    BY <2>1, <2>2, <2>3 DEF OwnerInv
<1>19. CASE CloseJoined(t)
  <2>1. FreshInv' /\ GivenBackInv'
    BY <1>19 DEF CloseJoined, GoTo, GivenBackInv, FreshInv, RetainedInv, ReservedInv
  <2>2. RetainedInv' /\ NoOrphanedReservation'
    BY <1>19
       DEF CloseJoined, GoTo, RetainedInv, FreshInv, GivenBackInv, NoOrphanedReservation
  <2>3. RollCloserInv' /\ ClosedInv'
    BY <1>19 DEF CloseJoined, GoTo, RollCloserInv, RollCloser, RetainedInv, ClosedInv,
           GivenBackInv
  <2>4. QED
    BY <2>1, <2>2, <2>3 DEF OwnerInv
<1>20. CASE Retain(t)
  <2>1. FreshInv' /\ GivenBackInv'
    BY <1>20
       DEF Retain, ReturnBusy, ReturnTo, Return, GoTo, GivenBackInv, FreshInv, RetainedInv,
           ReservedInv
  <2>2. RetainedInv' /\ NoOrphanedReservation'
    BY <1>20
       DEF Retain, ReturnBusy, ReturnTo, Return, GoTo, RetainedInv, FreshInv, GivenBackInv,
           NoOrphanedReservation
  <2>3. RollCloserInv' /\ ClosedInv'
    BY <1>20 DEF Retain, ReturnBusy, ReturnTo, Return, GoTo, RollCloserInv, RollCloser,
           RetainedInv, ClosedInv, GivenBackInv
  <2>4. QED
    BY <2>1, <2>2, <2>3 DEF OwnerInv
<1>21. CASE RollCloseTurn(t)
  <2>1. FreshInv' /\ GivenBackInv'
    BY <1>21 DEF RollCloseTurn, EnterRollClose, LocateBatch, Return, GoTo, GivenBackInv,
           FreshInv, RetainedInv, ReservedInv
  <2>2. RetainedInv' /\ NoOrphanedReservation'
    BY <1>21
       DEF RollCloseTurn, EnterRollClose, LocateBatch, Return, GoTo, RetainedInv, FreshInv,
           GivenBackInv, NoOrphanedReservation
  <2>3. RollCloserInv' /\ ClosedInv'
    BY <1>21 DEF RollCloseTurn, EnterRollClose, LocateBatch, Return, GoTo, RollCloserInv,
           RollCloser, RetainedInv, ClosedInv, GivenBackInv
  <2>4. QED
    BY <2>1, <2>2, <2>3 DEF OwnerInv
<1>22. CASE RollCloseLocate(t)
  <2>1. FreshInv' /\ GivenBackInv'
    BY <1>22 DEF RollCloseLocate, LocateBatch, GoTo, GivenBackInv, FreshInv, RetainedInv,
           ReservedInv
  <2>2. RetainedInv' /\ NoOrphanedReservation'
    BY <1>22 DEF RollCloseLocate, LocateBatch, GoTo, RetainedInv, FreshInv, GivenBackInv,
           NoOrphanedReservation
  <2>3. RollCloserInv' /\ ClosedInv'
    BY <1>22 DEF RollCloseLocate, LocateBatch, GoTo, RollCloserInv, RollCloser, RetainedInv,
           ClosedInv, GivenBackInv
  <2>4. QED
    BY <2>1, <2>2, <2>3 DEF OwnerInv
<1>23. CASE RollCloseBatch(t)
  <2>1. FreshInv' /\ GivenBackInv'
    BY <1>23
       DEF RollCloseBatch, EnterClose, Idle, ReturnBusy, ReturnClosed, ReturnTo, Return,
           GoTo, GivenBackInv, FreshInv, RetainedInv, ReservedInv
  <2>2. RetainedInv' /\ NoOrphanedReservation'
    BY <1>23
       DEF RollCloseBatch, EnterClose, Idle, ReturnBusy, ReturnClosed, ReturnTo, Return,
           GoTo, RetainedInv, FreshInv, GivenBackInv, NoOrphanedReservation
  <2>3. RollCloserInv' /\ ClosedInv'
    BY <1>23
       DEF RollCloseBatch, EnterClose, Idle, ReturnBusy, ReturnClosed, ReturnTo, Return,
           GoTo, RollCloserInv, RollCloser, RetainedInv, ClosedInv, GivenBackInv
  <2>4. QED
    BY <2>1, <2>2, <2>3 DEF OwnerInv
<1>24. CASE RollCloseFail(t)
  <2>1. FreshInv' /\ GivenBackInv'
    BY <1>24
       DEF RollCloseFail, Return, GoTo, GivenBackInv, FreshInv, RetainedInv, ReservedInv
  <2>2. RetainedInv' /\ NoOrphanedReservation'
    BY <1>24 DEF RollCloseFail, Return, GoTo, RetainedInv, FreshInv, GivenBackInv,
           NoOrphanedReservation
  <2>3. RollCloserInv' /\ ClosedInv'
    BY <1>24
       DEF RollCloseFail, Return, GoTo, RollCloserInv, RollCloser, RetainedInv, ClosedInv,
           GivenBackInv
  <2>4. QED
    BY <2>1, <2>2, <2>3 DEF OwnerInv
<1>25. CASE RollCloseRelease(t)
  <2>1. FreshInv' /\ GivenBackInv'
    BY <1>25 DEF RollCloseRelease, GoTo, GivenBackInv, FreshInv, RetainedInv, ReservedInv
  <2>2. RetainedInv' /\ NoOrphanedReservation'
    BY <1>25 DEF RollCloseRelease, GoTo, RetainedInv, FreshInv, GivenBackInv,
           NoOrphanedReservation
  <2>3. RollCloserInv' /\ ClosedInv'
    BY <1>25 DEF RollCloseRelease, GoTo, RollCloserInv, RollCloser, RetainedInv, ClosedInv,
           GivenBackInv
  <2>4. QED
    BY <2>1, <2>2, <2>3 DEF OwnerInv
<1>26. CASE RollCloseEnd(t)
  <2>1. FreshInv' /\ GivenBackInv'
    BY <1>26
       DEF RollCloseEnd, Return, GoTo, GivenBackInv, FreshInv, RetainedInv, ReservedInv
  <2>2. RetainedInv' /\ NoOrphanedReservation'
    BY <1>26 DEF RollCloseEnd, Return, GoTo, RetainedInv, FreshInv, GivenBackInv,
           NoOrphanedReservation
  <2>3. RollCloserInv' /\ ClosedInv'
    BY <1>26
       DEF RollCloseEnd, Return, GoTo, RollCloserInv, RollCloser, RetainedInv, ClosedInv,
           GivenBackInv
  <2>4. QED
    BY <2>1, <2>2, <2>3 DEF OwnerInv
<1>27. CASE PreviewAcquire(t)
  <2>1. FreshInv' /\ GivenBackInv'
    BY <1>27 DEF PreviewAcquire, AcquireLane, LaneUsable, GoTo, GivenBackInv, FreshInv,
           RetainedInv, ReservedInv
  <2>2. RetainedInv' /\ NoOrphanedReservation'
    BY <1>27 DEF PreviewAcquire, AcquireLane, LaneUsable, GoTo, RetainedInv, FreshInv,
           GivenBackInv, NoOrphanedReservation
  <2>3. RollCloserInv' /\ ClosedInv'
    BY <1>27 DEF PreviewAcquire, AcquireLane, LaneUsable, GoTo, RollCloserInv, RollCloser,
           RetainedInv, ClosedInv, GivenBackInv
  <2>4. QED
    BY <2>1, <2>2, <2>3 DEF OwnerInv
<1>28. CASE PreviewEnd(t)
  <2>1. FreshInv' /\ GivenBackInv'
    BY <1>28 DEF PreviewEnd, GoTo, GivenBackInv, FreshInv, RetainedInv, ReservedInv
  <2>2. RetainedInv' /\ NoOrphanedReservation'
    BY <1>28
       DEF PreviewEnd, GoTo, RetainedInv, FreshInv, GivenBackInv, NoOrphanedReservation
  <2>3. RollCloserInv' /\ ClosedInv'
    BY <1>28 DEF PreviewEnd, GoTo, RollCloserInv, RollCloser, RetainedInv, ClosedInv,
           GivenBackInv
  <2>4. QED
    BY <2>1, <2>2, <2>3 DEF OwnerInv
<1>29. CASE PreviewRelease(t)
  <2>1. FreshInv' /\ GivenBackInv'
    BY <1>29 DEF PreviewRelease, GoTo, GivenBackInv, FreshInv, RetainedInv, ReservedInv
  <2>2. RetainedInv' /\ NoOrphanedReservation'
    BY <1>29
       DEF PreviewRelease, GoTo, RetainedInv, FreshInv, GivenBackInv, NoOrphanedReservation
  <2>3. RollCloserInv' /\ ClosedInv'
    BY <1>29 DEF PreviewRelease, GoTo, RollCloserInv, RollCloser, RetainedInv, ClosedInv,
           GivenBackInv
  <2>4. QED
    BY <2>1, <2>2, <2>3 DEF OwnerInv
<1>30. CASE DeviceEnd(t)
  <2>1. FreshInv' /\ GivenBackInv'
    BY <1>30 DEF DeviceEnd, GoTo, GivenBackInv, FreshInv, RetainedInv, ReservedInv
  <2>2. RetainedInv' /\ NoOrphanedReservation'
    BY <1>30 DEF DeviceEnd, GoTo, RetainedInv, FreshInv, GivenBackInv, NoOrphanedReservation
  <2>3. RollCloserInv' /\ ClosedInv'
    BY <1>30
       DEF DeviceEnd, GoTo, RollCloserInv, RollCloser, RetainedInv, ClosedInv, GivenBackInv
  <2>4. QED
    BY <2>1, <2>2, <2>3 DEF OwnerInv
<1>31. CASE NextJoinTimeout(t)
  <2>1. FreshInv' /\ GivenBackInv'
    BY <1>31 DEF NextJoinTimeout, GoTo, GivenBackInv, FreshInv, RetainedInv, ReservedInv
  <2>2. RetainedInv' /\ NoOrphanedReservation'
    BY <1>31 DEF NextJoinTimeout, GoTo, RetainedInv, FreshInv, GivenBackInv,
           NoOrphanedReservation
  <2>3. RollCloserInv' /\ ClosedInv'
    BY <1>31 DEF NextJoinTimeout, GoTo, RollCloserInv, RollCloser, RetainedInv, ClosedInv,
           GivenBackInv
  <2>4. QED
    BY <2>1, <2>2, <2>3 DEF OwnerInv
<1>32. CASE CloseTimeout(t)
  <2>1. FreshInv' /\ GivenBackInv'
    BY <1>32 DEF CloseTimeout, Idle, GoTo, GivenBackInv, FreshInv, RetainedInv, ReservedInv
  <2>2. RetainedInv' /\ NoOrphanedReservation'
    BY <1>32 DEF CloseTimeout, Idle, GoTo, RetainedInv, FreshInv, GivenBackInv,
           NoOrphanedReservation
  <2>3. RollCloserInv' /\ ClosedInv'
    BY <1>32
       DEF CloseTimeout, Idle, GoTo, RollCloserInv, RollCloser, RetainedInv, ClosedInv,
           GivenBackInv
  <2>4. QED
    BY <2>1, <2>2, <2>3 DEF OwnerInv
<1>33. CASE DrainTimeout(t)
  <2>1. FreshInv' /\ GivenBackInv'
    BY <1>33 DEF DrainTimeout, GoTo, GivenBackInv, FreshInv, RetainedInv, ReservedInv
  <2>2. RetainedInv' /\ NoOrphanedReservation'
    BY <1>33
       DEF DrainTimeout, GoTo, RetainedInv, FreshInv, GivenBackInv, NoOrphanedReservation
  <2>3. RollCloserInv' /\ ClosedInv'
    BY <1>33 DEF DrainTimeout, GoTo, RollCloserInv, RollCloser, RetainedInv, ClosedInv,
           GivenBackInv
  <2>4. QED
    BY <2>1, <2>2, <2>3 DEF OwnerInv
<1>34. CASE CloseJoinTimeout(t)
  <2>1. FreshInv' /\ GivenBackInv'
    BY <1>34 DEF CloseJoinTimeout, GoTo, GivenBackInv, FreshInv, RetainedInv, ReservedInv
  <2>2. RetainedInv' /\ NoOrphanedReservation'
    BY <1>34 DEF CloseJoinTimeout, GoTo, RetainedInv, FreshInv, GivenBackInv,
           NoOrphanedReservation
  <2>3. RollCloserInv' /\ ClosedInv'
    BY <1>34 DEF CloseJoinTimeout, GoTo, RollCloserInv, RollCloser, RetainedInv, ClosedInv,
           GivenBackInv
  <2>4. QED
    BY <2>1, <2>2, <2>3 DEF OwnerInv
<1>35. CASE RollCloseQueueTimeout(t)
  <2>1. FreshInv' /\ GivenBackInv'
    BY <1>35 DEF RollCloseQueueTimeout, Return, GoTo, GivenBackInv, FreshInv, RetainedInv,
           ReservedInv
  <2>2. RetainedInv' /\ NoOrphanedReservation'
    BY <1>35 DEF RollCloseQueueTimeout, Return, GoTo, RetainedInv, FreshInv, GivenBackInv,
           NoOrphanedReservation
  <2>3. RollCloserInv' /\ ClosedInv'
    BY <1>35
       DEF RollCloseQueueTimeout, Return, GoTo, RollCloserInv, RollCloser, RetainedInv,
           ClosedInv, GivenBackInv
  <2>4. QED
    BY <2>1, <2>2, <2>3 DEF OwnerInv
<1>36. CASE RollCloseTimeout(t)
  <2>1. FreshInv' /\ GivenBackInv'
    BY <1>36
       DEF RollCloseTimeout, Return, GoTo, GivenBackInv, FreshInv, RetainedInv, ReservedInv
  <2>2. RetainedInv' /\ NoOrphanedReservation'
    BY <1>36 DEF RollCloseTimeout, Return, GoTo, RetainedInv, FreshInv, GivenBackInv,
           NoOrphanedReservation
  <2>3. RollCloserInv' /\ ClosedInv'
    BY <1>36 DEF RollCloseTimeout, Return, GoTo, RollCloserInv, RollCloser, RetainedInv,
           ClosedInv, GivenBackInv
  <2>4. QED
    BY <2>1, <2>2, <2>3 DEF OwnerInv
<1>37. QED
  BY <1>1, <1>2, <1>3, <1>4, <1>5, <1>6, <1>7, <1>8, <1>9, <1>10, <1>11, <1>12, <1>13, <1>14,
     <1>15, <1>16, <1>17, <1>18, <1>19, <1>20, <1>21, <1>22, <1>23, <1>24, <1>25, <1>26,
     <1>27, <1>28, <1>29, <1>30, <1>31, <1>32, <1>33, <1>34, <1>35, <1>36
     DEF Call, Continue, HardwareReturns, Timeout

\* The worker and safe_stop() concern nobody's ownership.
LEMMA OwnerStep == IInv /\ OwnerInv /\ [Next]_vars => OwnerInv'
<1> SUFFICES ASSUME IInv, OwnerInv, [Next]_vars PROVE OwnerInv'
  OBVIOUS
<1>1. CASE UNCHANGED <<gen, itVars, pc, bt, viaRoll, lane, devClosed, closing, closed,
                       previewActive, active, uncertainBatch>>
  BY <1>1 DEF itVars, OwnerInv, FreshInv, GivenBackInv, RetainedInv, RollCloserInv,
         RollCloser, ClosedInv, NoOrphanedReservation
<1>2. ASSUME NEW b \in Batches, Worker(b)
      PROVE  OwnerInv'
  BY <1>1, <1>2 DEF Worker, WorkerLaunch, WorkerFrame, WorkerFail, WorkerCallbackReturns,
         WorkerPut, WorkerCheckStop, WorkerAck, WorkerChildExits, WorkerTerminal,
         WorkerDies, devVars, rollVars, thVars
<1>3. CASE SafeStop \/ UNCHANGED vars
  BY <1>1, <1>3 DEF SafeStop, vars, devVars, rollVars, thVars
<1>4. QED
  BY <1>2, <1>3, OwnerThread DEF Next

LEMMA OwnerInit == Init => OwnerInv
<1> SUFFICES ASSUME Init PROVE OwnerInv
  OBVIOUS
<1> USE RollAssumption DEF Init, RollPcs
<1>1. FreshInv /\ GivenBackInv /\ RetainedInv
  BY DEF FreshInv, GivenBackInv, RetainedInv
<1>2. RollCloserInv /\ ClosedInv /\ NoOrphanedReservation
  BY DEF RollCloserInv, RollCloser, ClosedInv, NoOrphanedReservation
<1>3. QED
  BY <1>1, <1>2 DEF OwnerInv

\* Whatever times out or is collected: nothing runs behind a closed Roll or Device,
\* and Roll.close() can find every reservation nobody else can reach (Roll.close,
\* _retain_uncertain_batch, the iterator's __del__).
THEOREM NothingLost ==
    ASSUME ~RetryAfterBusy, ~CallbackCloses
    PROVE  Spec => []NothingOrphaned
<1>1. Spec => [](IInv /\ OwnerInv)
  BY LaneInit, LaneStep, OwnerInit, OwnerStep, PTL DEF Spec
<1>2. ASSUME IInv, OwnerInv
      PROVE  NothingOrphaned
  <2>1. \A b \in Batches : Live(b) => active = b /\ lane = b
    BY <1>2, LiveHoldsLane DEF LaneOwned, IInv, ReservedInv, Running, Live, LiveStages
  <2>2. devClosed => HardwareUsers = {}
    BY <1>2, <2>1, LiveHoldsLane, RollAssumption
       DEF OwnerInv, ClosedInv, HardwareUsers, LaneOwned
  <2>3. closed => active = NoBatch /\ ~previewActive /\ \A b \in Batches : ~Live(b)
    BY <1>2, <2>1, RollAssumption DEF OwnerInv, ClosedInv
  <2>4. QED
    BY <1>2, <2>2, <2>3 DEF OwnerInv, NothingOrphaned, QuietWhenClosed
<1>3. QED
  BY <1>1, <1>2, PTL

=============================================================================
