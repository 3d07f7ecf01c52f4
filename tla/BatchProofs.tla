---------------------------- MODULE BatchProofs ----------------------------
(***************************************************************************)
(* Theorems about BatchSession, for any number of frames and of scans a    *)
(* frame.                                                                  *)
(*                                                                         *)
(* Type correctness, with the counters it rests on.  Safety: RELEASE is    *)
(* sent at most once, the cleanup keeps the order of the scan, receipts    *)
(* and verdicts tell the truth about the scanner, and the child is never   *)
(* ahead of its parent; the invariant says what the child's bookkeeping    *)
(* knows of the scanner at each point of its normal and its exception      *)
(* path.  Last, the contract: a verdict of "complete" means a whole batch, *)
(* and BatchSession implements BatchContract; the invariant relates what   *)
(* the child has published, what the parent has consumed and acknowledged, *)
(* and what the final receipt says of both.                                *)
(***************************************************************************)
EXTENDS BatchSession, FiniteSetTheorems, TLAPS

-----------------------------------------------------------------------------
(* Counters.                                                               *)

EarlyPcs == {"unborn", "start", "connect", "reserve"}

\* The child starts with the first frame; a frame that is not captured yet has
\* a scan to make.
ScansLeft ==
    /\ child \in EarlyPcs => frame = 1
    /\ child \in EarlyPcs \cup {"open"} => scans = 0
    /\ child \in {"ready", "reissue", "reading", "settling"} => scans < Passes

\* The receipt counts the frames before the active one, then the active one.
CompletedTracks ==
    /\ child \in EarlyPcs \cup FramePcs \cup {"open", "book"} =>
           receipt.completed = frame - 1
    /\ child = "await" => receipt.completed = frame

\* The parent launches the child, and watches for a frame only if one is left.
HandlerRoom ==
    /\ parent = "launch" => child = "unborn" /\ handled = 0
    /\ parent \in {"journal", "receipt", "poll", "handler"} => handled < NFrames

TInv == TypeOK /\ ScansLeft /\ CompletedTracks /\ HandlerRoom

-----------------------------------------------------------------------------
(* Types.                                                                  *)

\* The updates of a receipt that the child makes give a receipt.
LEMMA ReceiptTypes ==
    ASSUME NEW r \in Receipts, NEW s \in Statuses, NEW c \in 0..NFrames,
           NEW a \in {0, 1}, NEW b \in BOOLEAN, NEW v \in Recoveries
    PROVE  /\ r.completed \in 0..NFrames /\ r.attempts \in {0, 1} /\ r.released \in BOOLEAN
           /\ [r EXCEPT !.acquired = TRUE] \in Receipts
           /\ [r EXCEPT !.status = s] \in Receipts
           /\ [r EXCEPT !.completed = c, !.status = s] \in Receipts
           /\ [r EXCEPT !.status = s, !.attempts = a] \in Receipts
           /\ [r EXCEPT !.released = b, !.recovery = v, !.status = s] \in Receipts
           /\ [r EXCEPT !.status = s, !.recovery = v, !.attempts = a, !.released = b]
                  \in Receipts
<1>1. r.completed \in 0..NFrames /\ r.attempts \in {0, 1} /\ r.released \in BOOLEAN
  BY DEF Receipts
<1>2. [r EXCEPT !.acquired = TRUE] \in Receipts
  BY DEF Receipts
<1>3. [r EXCEPT !.status = s] \in Receipts
  BY DEF Receipts
<1>4. [r EXCEPT !.completed = c, !.status = s] \in Receipts
  BY DEF Receipts
<1>5. [r EXCEPT !.status = s, !.attempts = a] \in Receipts
  BY DEF Receipts
<1>6. [r EXCEPT !.released = b, !.recovery = v, !.status = s] \in Receipts
  BY DEF Receipts
<1>7. [r EXCEPT !.status = s, !.recovery = v, !.attempts = a, !.released = b] \in Receipts
  BY DEF Receipts
<1>8. QED
  BY <1>1, <1>2, <1>3, <1>4, <1>5, <1>6, <1>7

\* No step of the child breaks a type or a counter.
LEMMA ChildTypes ==
    ASSUME TInv, ChildSteps
    PROVE  WorkerTypeOK' /\ ScansLeft' /\ CompletedTracks'
<1> USE LiveAssumption DEF TInv, TypeOK, WorkerTypeOK
<1>1. CASE ChildStarts
  <2>0. 0 \in 0..NFrames
    OBVIOUS
  <2>1. ScannerTypeOK'
    BY <1>1 DEF ChildStarts, ScannerTypeOK, scannerVars
  <2>2. PlaceTypeOK'
    BY <1>1 DEF ChildStarts, Exit, GoOn, PlaceTypeOK, ChildPcs
  <2>3. FlagTypeOK'
    BY <1>1 DEF ChildStarts, GoOn, FlagTypeOK, localVars, cleanupVars
  <2>4. SessionTypeOK'
    <3>1. [NoReceipt EXCEPT !.status = "capturing"] \in Receipts
      BY <2>0, Zenon DEF Receipts, NoReceipt, Statuses, Recoveries
    <3>2. QED
      BY <1>1, <3>1 DEF ChildStarts, SessionTypeOK, sessionVars
  <2>5. FileTypeOK'
    BY <1>1 DEF ChildStarts, Exit, FileTypeOK, Journals
  <2>6. ScansLeft'
    BY <1>1 DEF ChildStarts, ScansLeft, EarlyPcs
  <2>7. CompletedTracks'
    BY <1>1 DEF ChildStarts, Exit, GoOn, CompletedTracks, ScansLeft, EarlyPcs,
           FramePcs, NoReceipt
  <2>8. QED
    BY <2>1, <2>2, <2>3, <2>4, <2>5, <2>6, <2>7
<1>2. CASE Connect
  <2>1. ScannerTypeOK'
    BY <1>2 DEF Connect, ScannerTypeOK, scannerVars
  <2>2. PlaceTypeOK'
    BY <1>2 DEF Connect, Persist, Raise, GoOn, PlaceTypeOK, ChildPcs
  <2>3. FlagTypeOK'
    BY <1>2 DEF Connect, Persist, Raise, GoOn, FlagTypeOK, localVars, cleanupVars
  <2>4. SessionTypeOK'
    BY <1>2 DEF Connect, Persist, SessionTypeOK, sessionVars
  <2>5. FileTypeOK'
    BY <1>2 DEF Connect, FileTypeOK
  <2>6. ScansLeft'
    BY <1>2 DEF Connect, ScansLeft, EarlyPcs
  <2>7. CompletedTracks'
    BY <1>2 DEF Connect, Persist, Raise, GoOn, CompletedTracks, EarlyPcs, FramePcs
  <2>8. QED
    BY <2>1, <2>2, <2>3, <2>4, <2>5, <2>6, <2>7
<1>3. CASE Reserve
  <2>1. ScannerTypeOK'
    BY <1>3 DEF Reserve, ScannerTypeOK
  <2>2. PlaceTypeOK'
    BY <1>3 DEF Reserve, Persist, Raise, GoOn, PlaceTypeOK, ChildPcs, FramePcs
  <2>3. FlagTypeOK'
    BY <1>3 DEF Reserve, Persist, Raise, GoOn, FlagTypeOK, cleanupVars
  <2>4. SessionTypeOK'
    <3>1. [receipt EXCEPT !.acquired = TRUE] \in Receipts
      BY DEF SessionTypeOK, Receipts
    <3>2. QED
      BY <1>3, <3>1 DEF Reserve, Persist, SessionTypeOK, sessionVars
  <2>5. FileTypeOK'
    BY <1>3 DEF Reserve, FileTypeOK
  <2>6. ScansLeft'
    BY <1>3 DEF Reserve, ScansLeft, EarlyPcs
  <2>7. CompletedTracks'
    BY <1>3 DEF Reserve, Persist, Raise, GoOn, CompletedTracks, EarlyPcs, FramePcs,
           SessionTypeOK, Receipts
  <2>8. QED
    BY <2>1, <2>2, <2>3, <2>4, <2>5, <2>6, <2>7
<1>4. CASE FrameFails
  <2>1. ScannerTypeOK'
    BY <1>4 DEF FrameFails, ScannerTypeOK, scannerVars
  <2>2. PlaceTypeOK'
    BY <1>4 DEF FrameFails, Raise, PlaceTypeOK, ChildPcs
  <2>3. FlagTypeOK'
    BY <1>4 DEF FrameFails, Raise, FlagTypeOK, localVars, cleanupVars
  <2>4. SessionTypeOK'
    BY <1>4 DEF FrameFails, SessionTypeOK, sessionVars
  <2>5. FileTypeOK'
    BY <1>4 DEF FrameFails, FileTypeOK
  <2>6. ScansLeft'
    BY <1>4 DEF FrameFails, Raise, ScansLeft, EarlyPcs
  <2>7. CompletedTracks'
    BY <1>4 DEF FrameFails, Raise, CompletedTracks, EarlyPcs, FramePcs
  <2>8. QED
    BY <2>1, <2>2, <2>3, <2>4, <2>5, <2>6, <2>7
<1>5. CASE ArmScan
  <2>1. ScannerTypeOK'
    BY <1>5 DEF ArmScan, Refused, ScannerTypeOK
  <2>2. PlaceTypeOK'
    BY <1>5 DEF ArmScan, Raise, GoOn, PlaceTypeOK, ChildPcs, FramePcs
  <2>3. FlagTypeOK'
    BY <1>5 DEF ArmScan, Raise, GoOn, FlagTypeOK, cleanupVars
  <2>4. SessionTypeOK'
    BY <1>5 DEF ArmScan, SessionTypeOK, sessionVars
  <2>5. FileTypeOK'
    BY <1>5 DEF ArmScan, FileTypeOK
  <2>6. ScansLeft'
    BY <1>5 DEF ArmScan, Raise, GoOn, ScansLeft, EarlyPcs
  <2>7. CompletedTracks'
    BY <1>5 DEF ArmScan, Raise, GoOn, CompletedTracks, FramePcs, sessionVars
  <2>8. QED
    BY <2>1, <2>2, <2>3, <2>4, <2>5, <2>6, <2>7
<1>6. CASE DrainScan
  <2>1. ScannerTypeOK'
    BY <1>6 DEF DrainScan, Refused, ScannerTypeOK
  <2>2. PlaceTypeOK'
    BY <1>6 DEF DrainScan, Raise, GoOn, PlaceTypeOK, ChildPcs, FramePcs
  <2>3. FlagTypeOK'
    BY <1>6 DEF DrainScan, Raise, GoOn, FlagTypeOK, cleanupVars
  <2>4. SessionTypeOK'
    BY <1>6 DEF DrainScan, SessionTypeOK, sessionVars
  <2>5. FileTypeOK'
    BY <1>6 DEF DrainScan, FileTypeOK
  <2>6. ScansLeft'
    BY <1>6 DEF DrainScan, Raise, GoOn, ScansLeft, EarlyPcs
  <2>7. CompletedTracks'
    BY <1>6 DEF DrainScan, Raise, GoOn, CompletedTracks, FramePcs, sessionVars
  <2>8. QED
    BY <2>1, <2>2, <2>3, <2>4, <2>5, <2>6, <2>7
<1>7. CASE WaitReady
  <2>1. ScannerTypeOK'
    BY <1>7 DEF WaitReady, ScannerTypeOK
  <2>2. PlaceTypeOK'
    BY <1>7 DEF WaitReady, Raise, GoOn, PlaceTypeOK, ChildPcs, FramePcs, ScansLeft
  <2>3. FlagTypeOK'
    BY <1>7 DEF WaitReady, Raise, GoOn, FlagTypeOK, cleanupVars
  <2>4. SessionTypeOK'
    BY <1>7 DEF WaitReady, SessionTypeOK, sessionVars
  <2>5. FileTypeOK'
    BY <1>7 DEF WaitReady, FileTypeOK
  <2>6. ScansLeft'
    BY <1>7 DEF WaitReady, Raise, GoOn, ScansLeft, EarlyPcs, PlaceTypeOK
  <2>7. CompletedTracks'
    BY <1>7 DEF WaitReady, Raise, GoOn, CompletedTracks, FramePcs, sessionVars
  <2>8. QED
    BY <2>1, <2>2, <2>3, <2>4, <2>5, <2>6, <2>7
<1>8. CASE PublishFrame
  <2>1. ScannerTypeOK'
    BY <1>8 DEF PublishFrame, ScannerTypeOK, scannerVars
  <2>2. PlaceTypeOK'
    BY <1>8 DEF PublishFrame, PersistFrame, Raise, GoOn, PlaceTypeOK, ChildPcs
  <2>3. FlagTypeOK'
    BY <1>8 DEF PublishFrame, PersistFrame, Raise, GoOn, FlagTypeOK, localVars,
           cleanupVars
  <2>4. SessionTypeOK'
    BY <1>8 DEF PublishFrame, SessionTypeOK, sessionVars
  <2>5. FileTypeOK'
    BY <1>8 DEF PublishFrame, PersistFrame, FileTypeOK, Journals
  <2>6. ScansLeft'
    BY <1>8 DEF PublishFrame, PersistFrame, Raise, GoOn, ScansLeft, EarlyPcs
  <2>7. CompletedTracks'
    BY <1>8 DEF PublishFrame, PersistFrame, Raise, GoOn, CompletedTracks, FramePcs,
           sessionVars
  <2>8. QED
    BY <2>1, <2>2, <2>3, <2>4, <2>5, <2>6, <2>7
<1>9. CASE BookFrame
  <2>1. ScannerTypeOK'
    BY <1>9 DEF BookFrame, ScannerTypeOK, scannerVars
  <2>2. PlaceTypeOK'
    BY <1>9 DEF BookFrame, Persist, Raise, GoOn, PlaceTypeOK, ChildPcs
  <2>3. FlagTypeOK'
    BY <1>9 DEF BookFrame, Persist, Raise, GoOn, FlagTypeOK, localVars, cleanupVars
  <2>4. SessionTypeOK'
    <3>1. [receipt EXCEPT !.completed = @ + 1, !.status = "awaiting-parent-ack"] \in Receipts
      <4>1. receipt.completed + 1 \in 0..NFrames
        BY <1>9 DEF BookFrame, CompletedTracks, PlaceTypeOK, Frames
      <4>2. QED
        BY <4>1 DEF SessionTypeOK, Receipts, Statuses
    <3>2. QED
      BY <1>9, <3>1 DEF BookFrame, Persist, SessionTypeOK
  <2>5. FileTypeOK'
    BY <1>9 DEF BookFrame, FileTypeOK
  <2>6. ScansLeft'
    BY <1>9 DEF BookFrame, Persist, Raise, GoOn, ScansLeft, EarlyPcs
  <2>7. CompletedTracks'
    BY <1>9 DEF BookFrame, Persist, Raise, GoOn, CompletedTracks, EarlyPcs,
           FramePcs, Frames, PlaceTypeOK
  <2>8. QED
    BY <2>1, <2>2, <2>3, <2>4, <2>5, <2>6, <2>7
<1>10. CASE AwaitAck
  <2>1. ScannerTypeOK'
    BY <1>10 DEF AwaitAck, ScannerTypeOK, scannerVars
  <2>2. PlaceTypeOK'
    BY <1>10 DEF AwaitAck, NextFrame, EndFrames, AckTimeout, LastFrame, Persist,
           Raise, GoOn, PlaceTypeOK, ChildPcs, Frames
  <2>3. FlagTypeOK'
    BY <1>10 DEF AwaitAck, NextFrame, EndFrames, AckTimeout, Persist, Raise, GoOn,
           FlagTypeOK, localVars, cleanupVars
  <2>4. SessionTypeOK'
    BY <1>10 DEF AwaitAck, NextFrame, EndFrames, AckTimeout, Persist, Raise,
           SessionTypeOK, sessionVars, Receipts, Statuses
  <2>5. FileTypeOK'
    BY <1>10 DEF AwaitAck, FileTypeOK
  <2>6. ScansLeft'
    BY <1>10 DEF AwaitAck, NextFrame, EndFrames, AckTimeout, Persist, Raise, GoOn,
           ScansLeft, EarlyPcs
  <2>7. CompletedTracks'
    BY <1>10 DEF AwaitAck, NextFrame, EndFrames, AckTimeout, Persist, Raise, GoOn,
           CompletedTracks, EarlyPcs, FramePcs, SessionTypeOK, Receipts
  <2>8. QED
    BY <2>1, <2>2, <2>3, <2>4, <2>5, <2>6, <2>7
<1>11. CASE OpenFrame
  <2>1. ScannerTypeOK'
    BY <1>11 DEF OpenFrame, ScannerTypeOK, scannerVars
  <2>2. PlaceTypeOK'
    BY <1>11 DEF OpenFrame, PersistFrame, Raise, GoOn, PlaceTypeOK, ChildPcs,
           FramePcs
  <2>3. FlagTypeOK'
    BY <1>11 DEF OpenFrame, PersistFrame, Raise, GoOn, FlagTypeOK, localVars,
           cleanupVars
  <2>4. SessionTypeOK'
    BY <1>11 DEF OpenFrame, SessionTypeOK, sessionVars
  <2>5. FileTypeOK'
    BY <1>11 DEF OpenFrame, PersistFrame, FileTypeOK, Journals
  <2>6. ScansLeft'
    BY <1>11 DEF OpenFrame, PersistFrame, Raise, GoOn, ScansLeft, EarlyPcs
  <2>7. CompletedTracks'
    BY <1>11 DEF OpenFrame, PersistFrame, Raise, GoOn, CompletedTracks, sessionVars
  <2>8. QED
    BY <2>1, <2>2, <2>3, <2>4, <2>5, <2>6, <2>7
<1>12. CASE PrepareRelease
  <2>1. ScannerTypeOK'
    BY <1>12 DEF PrepareRelease, ScannerTypeOK, scannerVars
  <2>2. PlaceTypeOK'
    BY <1>12 DEF PrepareRelease, Persist, Raise, GoOn, PlaceTypeOK, ChildPcs
  <2>3. FlagTypeOK'
    BY <1>12 DEF PrepareRelease, Persist, Raise, GoOn, FlagTypeOK, localVars,
           cleanupVars
  <2>4. SessionTypeOK'
    <3>1. [receipt EXCEPT !.status = "releasing", !.attempts = 1] \in Receipts
      BY ReceiptTypes DEF SessionTypeOK, Statuses, Recoveries
    <3>2. QED
      BY <1>12, <3>1 DEF PrepareRelease, Persist, SessionTypeOK
  <2>5. FileTypeOK'
    BY <1>12 DEF PrepareRelease, FileTypeOK
  <2>6. ScansLeft'
    BY <1>12 DEF PrepareRelease, Persist, Raise, GoOn, ScansLeft, EarlyPcs
  <2>7. CompletedTracks'
    BY <1>12 DEF PrepareRelease, Persist, Raise, GoOn, CompletedTracks, EarlyPcs,
           FramePcs
  <2>8. QED
    BY <2>1, <2>2, <2>3, <2>4, <2>5, <2>6, <2>7
<1>13. CASE Release
  <2>1. ScannerTypeOK'
    <3>1. releases' \in Nat
      BY <1>13 DEF Release, ScannerTypeOK
    <3>2. unitReserved' \in BOOLEAN /\ scan' \in {"idle", "active", "settling"}
      BY <1>13 DEF Release, ScannerTypeOK
    <3>3. QED
      BY <3>1, <3>2 DEF ScannerTypeOK
  <2>2. PlaceTypeOK'
    BY <1>13 DEF Release, Raise, GoOn, PlaceTypeOK, ChildPcs
  <2>3. FlagTypeOK'
    BY <1>13 DEF Release, Raise, GoOn, FlagTypeOK, cleanupVars
  <2>4. SessionTypeOK'
    BY <1>13 DEF Release, SessionTypeOK, sessionVars
  <2>5. FileTypeOK'
    BY <1>13 DEF Release, FileTypeOK
  <2>6. ScansLeft'
    BY <1>13 DEF Release, Raise, GoOn, ScansLeft, EarlyPcs
  <2>7. CompletedTracks'
    BY <1>13 DEF Release, Raise, GoOn, CompletedTracks, EarlyPcs, FramePcs
  <2>8. QED
    BY <2>1, <2>2, <2>3, <2>4, <2>5, <2>6, <2>7
<1>14. CASE Report
  <2>1. ScannerTypeOK'
    BY <1>14 DEF Report, ScannerTypeOK, scannerVars
  <2>2. PlaceTypeOK'
    BY <1>14 DEF Report, Persist, Raise, GoOn, PlaceTypeOK, ChildPcs
  <2>3. FlagTypeOK'
    BY <1>14 DEF Report, Persist, Raise, GoOn, FlagTypeOK, localVars, cleanupVars
  <2>4. SessionTypeOK'
    <3>1. [receipt EXCEPT !.released = TRUE, !.recovery = "none",
                     !.status = IF batchStopped THEN "stopped" ELSE "complete"] \in Receipts
      BY ReceiptTypes DEF SessionTypeOK, Statuses, Recoveries
    <3>2. QED
      BY <1>14, <3>1 DEF Report, Persist, SessionTypeOK
  <2>5. FileTypeOK'
    BY <1>14 DEF Report, FileTypeOK
  <2>6. ScansLeft'
    BY <1>14 DEF Report, Persist, Raise, GoOn, ScansLeft, EarlyPcs
  <2>7. CompletedTracks'
    BY <1>14 DEF Report, Persist, Raise, GoOn, CompletedTracks, EarlyPcs, FramePcs
  <2>8. QED
    BY <2>1, <2>2, <2>3, <2>4, <2>5, <2>6, <2>7
<1>15. CASE Spoil
  <2>1. ScannerTypeOK'
    BY <1>15 DEF Spoil, ScannerTypeOK, scannerVars
  <2>2. PlaceTypeOK'
    BY <1>15 DEF Spoil, Exit, PlaceTypeOK, ChildPcs
  <2>3. FlagTypeOK'
    BY <1>15 DEF Spoil, FlagTypeOK, localVars, cleanupVars
  <2>4. SessionTypeOK'
    BY <1>15 DEF Spoil, SessionTypeOK, sessionVars
  <2>5. FileTypeOK'
    BY <1>15 DEF Spoil, Exit, FileTypeOK, Journals
  <2>6. ScansLeft'
    BY <1>15 DEF Spoil, Exit, ScansLeft, EarlyPcs
  <2>7. CompletedTracks'
    BY <1>15 DEF Spoil, Exit, CompletedTracks, EarlyPcs, FramePcs
  <2>8. QED
    BY <2>1, <2>2, <2>3, <2>4, <2>5, <2>6, <2>7
<1>16. CASE StartCleanup
  <2>1. ScannerTypeOK'
    BY <1>16 DEF StartCleanup, ScannerTypeOK, scannerVars
  <2>2. PlaceTypeOK'
    BY <1>16 DEF StartCleanup, PlaceTypeOK, ChildPcs
  <2>3. FlagTypeOK'
    BY <1>16 DEF StartCleanup, FlagTypeOK, localVars, cleanupVars
  <2>4. SessionTypeOK'
    BY <1>16 DEF StartCleanup, SessionTypeOK, sessionVars
  <2>5. FileTypeOK'
    BY <1>16 DEF StartCleanup, FileTypeOK
  <2>6. ScansLeft'
    BY <1>16 DEF StartCleanup, ScansLeft, EarlyPcs
  <2>7. CompletedTracks'
    BY <1>16 DEF StartCleanup, CompletedTracks, EarlyPcs, FramePcs
  <2>8. QED
    BY <2>1, <2>2, <2>3, <2>4, <2>5, <2>6, <2>7
<1>17. CASE CleanupCancel
  <2>1. ScannerTypeOK'
    BY <1>17 DEF CleanupCancel, ScannerTypeOK
  <2>2. PlaceTypeOK'
    BY <1>17 DEF CleanupCancel, PlaceTypeOK, ChildPcs
  <2>3. FlagTypeOK'
    BY <1>17 DEF CleanupCancel, FlagTypeOK, localVars, cleanupVars
  <2>4. SessionTypeOK'
    BY <1>17 DEF CleanupCancel, SessionTypeOK, sessionVars
  <2>5. FileTypeOK'
    BY <1>17 DEF CleanupCancel, FileTypeOK
  <2>6. ScansLeft'
    BY <1>17 DEF CleanupCancel, ScansLeft, EarlyPcs
  <2>7. CompletedTracks'
    BY <1>17 DEF CleanupCancel, CompletedTracks, EarlyPcs, FramePcs
  <2>8. QED
    BY <2>1, <2>2, <2>3, <2>4, <2>5, <2>6, <2>7
<1>18. CASE CleanupSettle
  <2>1. ScannerTypeOK'
    BY <1>18 DEF CleanupSettle, ScannerTypeOK
  <2>2. PlaceTypeOK'
    BY <1>18 DEF CleanupSettle, PlaceTypeOK, ChildPcs
  <2>3. FlagTypeOK'
    BY <1>18 DEF CleanupSettle, FlagTypeOK, localVars
  <2>4. SessionTypeOK'
    BY <1>18 DEF CleanupSettle, SessionTypeOK, sessionVars
  <2>5. FileTypeOK'
    BY <1>18 DEF CleanupSettle, FileTypeOK
  <2>6. ScansLeft'
    BY <1>18 DEF CleanupSettle, ScansLeft, EarlyPcs
  <2>7. CompletedTracks'
    BY <1>18 DEF CleanupSettle, CompletedTracks, EarlyPcs, FramePcs
  <2>8. QED
    BY <2>1, <2>2, <2>3, <2>4, <2>5, <2>6, <2>7
<1>19. CASE CleanupRelease
  <2>1. ScannerTypeOK'
    <3>1. releases' \in Nat
      BY <1>19 DEF CleanupRelease, ScannerTypeOK
    <3>2. unitReserved' \in BOOLEAN /\ scan' \in {"idle", "active", "settling"}
      BY <1>19 DEF CleanupRelease, ScannerTypeOK
    <3>3. QED
      BY <3>1, <3>2 DEF ScannerTypeOK
  <2>2. PlaceTypeOK'
    BY <1>19 DEF CleanupRelease, PlaceTypeOK, ChildPcs
  <2>3. FlagTypeOK'
    BY <1>19 DEF CleanupRelease, FlagTypeOK, localVars
  <2>4. SessionTypeOK'
    BY <1>19 DEF CleanupRelease, SessionTypeOK, sessionVars
  <2>5. FileTypeOK'
    BY <1>19 DEF CleanupRelease, FileTypeOK
  <2>6. ScansLeft'
    BY <1>19 DEF CleanupRelease, ScansLeft, EarlyPcs
  <2>7. CompletedTracks'
    BY <1>19 DEF CleanupRelease, CompletedTracks, EarlyPcs, FramePcs
  <2>8. QED
    BY <2>1, <2>2, <2>3, <2>4, <2>5, <2>6, <2>7
<1>20. CASE ReportFailure
  <2>1. ScannerTypeOK'
    BY <1>20 DEF ReportFailure, ScannerTypeOK, scannerVars
  <2>2. PlaceTypeOK'
    BY <1>20 DEF ReportFailure, Exit, PlaceTypeOK, ChildPcs
  <2>3. FlagTypeOK'
    BY <1>20 DEF ReportFailure, FlagTypeOK, localVars, cleanupVars
  <2>4. SessionTypeOK'
    <3>1. [receipt EXCEPT !.status = "failed", !.recovery = Recovery,
                     !.attempts = IF releaseTried THEN 1 ELSE @,
                     !.released = IF releaseTried THEN cleaned ELSE @] \in Receipts
      <4>1. Recovery \in Recoveries
        BY DEF Recovery, Recoveries
      <4>2. receipt.attempts \in {0, 1} /\ receipt.released \in BOOLEAN
        BY DEF SessionTypeOK, Receipts
      <4>3. QED
        BY <4>1, <4>2 DEF SessionTypeOK, Receipts, Statuses, FlagTypeOK
    <3>2. QED
      BY <1>20, <3>1 DEF ReportFailure, SessionTypeOK
  <2>5. FileTypeOK'
    BY <1>20 DEF ReportFailure, Exit, FileTypeOK
  <2>6. ScansLeft'
    BY <1>20 DEF ReportFailure, Exit, ScansLeft, EarlyPcs
  <2>7. CompletedTracks'
    BY <1>20 DEF ReportFailure, Exit, CompletedTracks, EarlyPcs, FramePcs
  <2>8. QED
    BY <2>1, <2>2, <2>3, <2>4, <2>5, <2>6, <2>7
<1>21. QED
  BY <1>1, <1>2, <1>3, <1>4, <1>5, <1>6, <1>7, <1>8, <1>9, <1>10, <1>11, <1>12,
     <1>13, <1>14, <1>15, <1>16, <1>17, <1>18, <1>19, <1>20 DEF ChildSteps

\* A step that leaves the scanner and the child alone, and an ACK an ACK, breaks
\* none of their types.
LEMMA WorkerFrame ==
    ASSUME TInv, UNCHANGED <<scannerVars, childVars>>,
           ack' \in [Frames -> {"none", "continue", "stop"}]
    PROVE  WorkerTypeOK' /\ ScansLeft' /\ CompletedTracks'
<1> USE DEF TInv, TypeOK, WorkerTypeOK, scannerVars, childVars
<1>1. ScannerTypeOK' /\ PlaceTypeOK'
  BY DEF ScannerTypeOK, PlaceTypeOK
<1>2. FlagTypeOK'
  BY DEF FlagTypeOK, localVars, cleanupVars
<1>3. SessionTypeOK' /\ FileTypeOK'
  BY DEF SessionTypeOK, FileTypeOK, sessionVars
<1>4. ScansLeft' /\ CompletedTracks'
  BY DEF ScansLeft, CompletedTracks, sessionVars
<1>5. QED
  BY <1>1, <1>2, <1>3, <1>4

\* No step of the parent breaks a type or a counter.
LEMMA ParentTypes ==
    ASSUME TInv, ParentSteps
    PROVE  TInv'
<1> USE LiveAssumption DEF TInv, TypeOK
<1>1. CASE Launch
  <2>1. WorkerTypeOK'
    <3>1. ScannerTypeOK' /\ PlaceTypeOK'
      BY <1>1 DEF Launch, WorkerTypeOK, ScannerTypeOK, PlaceTypeOK, ChildPcs,
             scannerVars
    <3>2. FlagTypeOK'
      BY <1>1 DEF Launch, WorkerTypeOK, FlagTypeOK, localVars, cleanupVars
    <3>3. SessionTypeOK' /\ FileTypeOK'
      BY <1>1 DEF Launch, WorkerTypeOK, SessionTypeOK, FileTypeOK, sessionVars
    <3>4. QED
      BY <3>1, <3>2, <3>3 DEF WorkerTypeOK
  <2>2. ScansLeft' /\ CompletedTracks'
    BY <1>1 DEF Launch, HandlerRoom, ScansLeft, CompletedTracks, EarlyPcs,
           sessionVars
  <2>3. handled' \in 0..NFrames
    BY <1>1 DEF Launch
  <2>4. parent' \in ParentPcs
    BY <1>1 DEF Launch, ParentPcs
  <2>5. action' \in {"continue", "stop"} /\ outcome' \in Outcomes \cup {"pending"}
    BY <1>1 DEF Launch, Outcomes
  <2>6. stopRequested' \in BOOLEAN /\ stopped' \in BOOLEAN /\ refused' \in BOOLEAN
    BY <1>1 DEF Launch
  <2>7. handlerError' \in BOOLEAN /\ monitorError' \in BOOLEAN /\ late' \in Nat
    BY <1>1 DEF Launch
  <2>8. HandlerRoom'
    BY <1>1 DEF Launch, HandlerRoom
  <2>9. QED
    BY <2>1, <2>2, <2>3, <2>4, <2>5, <2>6, <2>7, <2>8
<1>2. CASE WatchJournal
  <2>1. ack' \in [Frames -> {"none", "continue", "stop"}]
    BY <1>2 DEF WatchJournal, PublishAck, WorkerTypeOK, FileTypeOK
  <2>2. WorkerTypeOK' /\ ScansLeft' /\ CompletedTracks'
    BY <1>2, <2>1, WorkerFrame DEF WatchJournal
  <2>3. handled' \in 0..NFrames
    BY <1>2 DEF WatchJournal
  <2>4. parent' \in ParentPcs
    BY <1>2 DEF WatchJournal, ParentPcs
  <2>5. action' \in {"continue", "stop"} /\ outcome' \in Outcomes \cup {"pending"}
    BY <1>2 DEF WatchJournal
  <2>6. stopRequested' \in BOOLEAN /\ stopped' \in BOOLEAN /\ refused' \in BOOLEAN
    BY <1>2 DEF WatchJournal
  <2>7. handlerError' \in BOOLEAN /\ monitorError' \in BOOLEAN /\ late' \in Nat
    BY <1>2 DEF WatchJournal
  <2>8. HandlerRoom'
    BY <1>2 DEF WatchJournal, HandlerRoom
  <2>9. QED
    BY <2>1, <2>2, <2>3, <2>4, <2>5, <2>6, <2>7, <2>8
<1>3. CASE WatchReceipt
  <2>1. WorkerTypeOK'
    BY <1>3, WorkerFrame DEF WatchReceipt, workerVars, WorkerTypeOK, FileTypeOK
  <2>2. ScansLeft' /\ CompletedTracks'
    BY <1>3, WorkerFrame DEF WatchReceipt, workerVars, WorkerTypeOK, FileTypeOK
  <2>3. handled' \in 0..NFrames
    BY <1>3 DEF WatchReceipt
  <2>4. parent' \in ParentPcs
    BY <1>3 DEF WatchReceipt, ParentPcs
  <2>5. action' \in {"continue", "stop"} /\ outcome' \in Outcomes \cup {"pending"}
    BY <1>3 DEF WatchReceipt
  <2>6. stopRequested' \in BOOLEAN /\ stopped' \in BOOLEAN /\ refused' \in BOOLEAN
    BY <1>3 DEF WatchReceipt
  <2>7. handlerError' \in BOOLEAN /\ monitorError' \in BOOLEAN /\ late' \in Nat
    BY <1>3 DEF WatchReceipt
  <2>8. HandlerRoom'
    BY <1>3 DEF WatchReceipt, HandlerRoom
  <2>9. QED
    BY <2>1, <2>2, <2>3, <2>4, <2>5, <2>6, <2>7, <2>8
<1>4. CASE WatchExit
  <2>1. WorkerTypeOK'
    BY <1>4, WorkerFrame DEF WatchExit, workerVars, WorkerTypeOK, FileTypeOK
  <2>2. ScansLeft' /\ CompletedTracks'
    BY <1>4, WorkerFrame DEF WatchExit, workerVars, WorkerTypeOK, FileTypeOK
  <2>3. handled' \in 0..NFrames
    BY <1>4 DEF WatchExit
  <2>4. parent' \in ParentPcs
    BY <1>4 DEF WatchExit, ParentPcs
  <2>5. action' \in {"continue", "stop"} /\ outcome' \in Outcomes \cup {"pending"}
    BY <1>4 DEF WatchExit
  <2>6. stopRequested' \in BOOLEAN /\ stopped' \in BOOLEAN /\ refused' \in BOOLEAN
    BY <1>4 DEF WatchExit
  <2>7. handlerError' \in BOOLEAN /\ monitorError' \in BOOLEAN /\ late' \in Nat
    BY <1>4 DEF WatchExit
  <2>8. HandlerRoom'
    BY <1>4 DEF WatchExit, HandlerRoom
  <2>9. QED
    BY <2>1, <2>2, <2>3, <2>4, <2>5, <2>6, <2>7, <2>8
<1>5. CASE Handle
  <2>1. WorkerTypeOK'
    BY <1>5, WorkerFrame DEF Handle, workerVars, WorkerTypeOK, FileTypeOK
  <2>2. ScansLeft' /\ CompletedTracks'
    BY <1>5, WorkerFrame DEF Handle, workerVars, WorkerTypeOK, FileTypeOK
  <2>3. handled' \in 0..NFrames
    BY <1>5 DEF Handle, HandlerRoom
  <2>4. parent' \in ParentPcs
    BY <1>5 DEF Handle, ParentPcs
  <2>5. action' \in {"continue", "stop"} /\ outcome' \in Outcomes \cup {"pending"}
    BY <1>5 DEF Handle
  <2>6. stopRequested' \in BOOLEAN /\ stopped' \in BOOLEAN /\ refused' \in BOOLEAN
    BY <1>5 DEF Handle
  <2>7. handlerError' \in BOOLEAN /\ monitorError' \in BOOLEAN /\ late' \in Nat
    BY <1>5 DEF Handle
  <2>8. HandlerRoom'
    BY <1>5 DEF Handle, HandlerRoom
  <2>9. QED
    BY <2>1, <2>2, <2>3, <2>4, <2>5, <2>6, <2>7, <2>8
<1>6. CASE Acknowledge
  <2>1. ack' \in [Frames -> {"none", "continue", "stop"}]
    BY <1>6 DEF Acknowledge, PublishAck, WorkerTypeOK, FileTypeOK
  <2>2. WorkerTypeOK' /\ ScansLeft' /\ CompletedTracks'
    BY <1>6, <2>1, WorkerFrame DEF Acknowledge
  <2>3. handled' \in 0..NFrames
    BY <1>6 DEF Acknowledge
  <2>4. parent' \in ParentPcs
    BY <1>6 DEF Acknowledge, ParentPcs
  <2>5. action' \in {"continue", "stop"} /\ outcome' \in Outcomes \cup {"pending"}
    BY <1>6 DEF Acknowledge
  <2>6. stopRequested' \in BOOLEAN /\ stopped' \in BOOLEAN /\ refused' \in BOOLEAN
    BY <1>6 DEF Acknowledge
  <2>7. handlerError' \in BOOLEAN /\ monitorError' \in BOOLEAN /\ late' \in Nat
    BY <1>6 DEF Acknowledge
  <2>8. HandlerRoom'
    BY <1>6 DEF Acknowledge, HandlerRoom
  <2>9. QED
    BY <2>1, <2>2, <2>3, <2>4, <2>5, <2>6, <2>7, <2>8
<1>7. CASE JoinChild
  <2>1. WorkerTypeOK'
    BY <1>7, WorkerFrame DEF JoinChild, workerVars, WorkerTypeOK, FileTypeOK
  <2>2. ScansLeft' /\ CompletedTracks'
    BY <1>7, WorkerFrame DEF JoinChild, workerVars, WorkerTypeOK, FileTypeOK
  <2>3. handled' \in 0..NFrames
    BY <1>7 DEF JoinChild
  <2>4. parent' \in ParentPcs
    BY <1>7 DEF JoinChild, ParentPcs
  <2>5. action' \in {"continue", "stop"} /\ outcome' \in Outcomes \cup {"pending"}
    BY <1>7 DEF JoinChild, Verdict, Outcomes
  <2>6. stopRequested' \in BOOLEAN /\ stopped' \in BOOLEAN /\ refused' \in BOOLEAN
    BY <1>7 DEF JoinChild
  <2>7. handlerError' \in BOOLEAN /\ monitorError' \in BOOLEAN /\ late' \in Nat
    BY <1>7 DEF JoinChild
  <2>8. HandlerRoom'
    BY <1>7 DEF JoinChild, HandlerRoom
  <2>9. QED
    BY <2>1, <2>2, <2>3, <2>4, <2>5, <2>6, <2>7, <2>8
<1>8. QED
  BY <1>1, <1>2, <1>3, <1>4, <1>5, <1>6, <1>7 DEF ParentSteps

\* A child that is not born or has exited takes no step.
LEMMA ChildAlive ==
    ASSUME ChildSteps
    PROVE  child \notin {"unborn", "exited"}
  BY DEF ChildSteps, ChildStarts, Connect, Reserve, FrameFails, ArmScan, DrainScan,
         WaitReady, PublishFrame, BookFrame, AwaitAck, OpenFrame, PrepareRelease,
         Release, Report, Spoil, StartCleanup, CleanupCancel, CleanupSettle,
         CleanupRelease, ReportFailure, FramePcs

\* No step breaks a type.
LEMMA TypeStep == TInv /\ [Next]_vars => TInv'
<1> USE DEF TInv
<1> SUFFICES ASSUME TInv, [Next]_vars PROVE TInv'
  OBVIOUS
<1>1. CASE Child
  <2>1. late' \in Nat
    BY <1>1 DEF Child, TypeOK
  <2>2. QED
    BY <1>1, <2>1, ChildTypes, ChildAlive DEF Child, TypeOK, HandlerRoom, parentVars
<1>2. CASE ParentSteps
  BY <1>2, ParentTypes
<1>3. CASE RequestStop
  <2>1. WorkerTypeOK' /\ ScansLeft' /\ CompletedTracks'
    BY <1>3, WorkerFrame DEF RequestStop, workerVars, TypeOK, WorkerTypeOK,
           FileTypeOK
  <2>2. stopRequested' \in BOOLEAN
    BY <1>3 DEF RequestStop
  <2>3. QED
    BY <1>3, <2>1, <2>2 DEF RequestStop, TypeOK, HandlerRoom, workerVars, childVars
<1>4. CASE ParentDies
  <2>1. WorkerTypeOK' /\ ScansLeft' /\ CompletedTracks'
    BY <1>4, WorkerFrame DEF ParentDies, workerVars, TypeOK, WorkerTypeOK,
           FileTypeOK
  <2>2. QED
    BY <1>4, <2>1 DEF ParentDies, TypeOK, ParentPcs, HandlerRoom
<1>5. CASE Killed
  <2> USE DEF TypeOK, WorkerTypeOK
  <2>1. ScannerTypeOK' /\ PlaceTypeOK'
    BY <1>5 DEF Killed, ChildKilled, Exit, ScannerTypeOK, PlaceTypeOK, ChildPcs,
           scannerVars
  <2>2. FlagTypeOK'
    BY <1>5 DEF Killed, ChildKilled, FlagTypeOK, localVars, cleanupVars
  <2>3. SessionTypeOK' /\ FileTypeOK'
    BY <1>5 DEF Killed, ChildKilled, Exit, SessionTypeOK, FileTypeOK, sessionVars
  <2>4. ScansLeft' /\ CompletedTracks'
    BY <1>5 DEF Killed, ChildKilled, Exit, ScansLeft, CompletedTracks, EarlyPcs,
           FramePcs
  <2>5. QED
    BY <1>5, <2>1, <2>2, <2>3, <2>4 DEF Killed, ChildKilled, HandlerRoom, parentVars
<1>6. CASE Ended \/ UNCHANGED vars
  <2>1. UNCHANGED vars
    BY <1>6 DEF Ended
  <2>2. WorkerTypeOK' /\ ScansLeft' /\ CompletedTracks'
    BY <2>1, WorkerFrame DEF vars, workerVars, TypeOK, WorkerTypeOK, FileTypeOK
  <2>3. HandlerRoom'
    BY <2>1 DEF vars, parentVars, workerVars, childVars, HandlerRoom
  <2>4. QED
    BY <2>1, <2>2, <2>3 DEF vars, parentVars, TypeOK
<1>7. QED
  BY <1>1, <1>2, <1>3, <1>4, <1>5, <1>6 DEF Next

\* The initial states are well typed.
LEMMA TypeInit == Init => TInv
<1> USE LiveAssumption DEF Init, WorkerInit
<1> SUFFICES ASSUME Init PROVE TInv
  OBVIOUS
<1>1. ScannerTypeOK /\ FlagTypeOK
  BY DEF ScannerTypeOK, FlagTypeOK
<1>2. PlaceTypeOK
  BY DEF PlaceTypeOK, ChildPcs, Frames
<1>3. SessionTypeOK
  BY DEF SessionTypeOK, NoReceipt, Receipts, Statuses, Recoveries
<1>4. FileTypeOK
  BY DEF FileTypeOK, Journals
<1>5. TypeOK
  <2>1. WorkerTypeOK
    BY <1>1, <1>2, <1>3, <1>4 DEF WorkerTypeOK
  <2>2. handled \in 0..NFrames /\ late \in Nat
    OBVIOUS
  <2>3. QED
    BY <2>1, <2>2 DEF TypeOK, ParentPcs
<1>6. ScansLeft /\ CompletedTracks /\ HandlerRoom
  BY DEF ScansLeft, CompletedTracks, HandlerRoom, NoReceipt
<1>7. QED
  BY <1>5, <1>6 DEF TInv

\* Every reachable state of a capture session is well typed: the child never makes
\* a scan or a frame too many, the parent never handles one too many.
THEOREM BatchTypeCorrect == Spec => []TypeOK
<1>1. TInv => TypeOK
  BY DEF TInv
<1>2. QED
  BY TypeInit, TypeStep, <1>1, PTL DEF Spec

-----------------------------------------------------------------------------
(* One release.                                                            *)

CleanupPcs == {"cancel", "settle", "giveBack"}

\* The session is over, but for the first frame's journal that is rewritten
\* after the receipt.
Over == child \in {"fail", "exited"} \/ (child = "spoil" /\ frame = 1)

\* The exception path has not begun to clean up.
Uncleaned == ~Over /\ child \notin CleanupPcs

FinalizedInv ==
    /\ frame > 1 => finalized
    /\ child \in {"book", "await"} => finalized

\* RELEASE was sent once, and then the receipt says so or the session is over.
ReleasedOnce ==
    /\ releases \in {0, 1}
    /\ child \in EarlyPcs \cup FramePcs \cup CleanupPcs
           \cup {"book", "await", "open", "prepare", "release"} => releases = 0
    /\ child \in {"release", "report"} => receipt.attempts = 1
    /\ Uncleaned /\ releases = 1 => receipt.attempts = 1

ReleaseInv == FinalizedInv /\ ReleasedOnce

-----------------------------------------------------------------------------
(* The scanner and the child's bookkeeping.                                *)

\* The normal path knows where the scanner is ...
NormalSync == Uncleaned /\ child \notin {"except", "spoil"} => sync

\* ... and at each point of it the scan is in one state.
ScanAtPc ==
    /\ child \in EarlyPcs \cup {"ready", "reissue", "captured", "book", "await",
                                "open", "prepare", "release", "report"} =>
           scan = "idle" /\ ~scanActive /\ ~readyRequired
    /\ child = "reading" => scan = "active" /\ scanActive /\ ~readyRequired
    /\ child = "settling" => scan = "settling" /\ ~scanActive /\ readyRequired
    /\ child \in EarlyPcs \cup {"report"} => ~unitReserved /\ ~reserved

\* A synchronized child's flags are true of the scanner; a settled scan may be
\* booked as settling still.
Tracked ==
    Uncleaned /\ sync =>
        /\ unitReserved = reserved
        /\ scan = "active" <=> scanActive
        /\ scan = "settling" => readyRequired

\* Whoever cleans up knows the reservation and works towards an idle scanner.
CleanupInv ==
    /\ child \in CleanupPcs => sync /\ Held /\ unitReserved = reserved
    /\ child = "cancel" => scan = "active"
    /\ child = "giveBack" => scan = "idle"

\* What the final receipt is computed from.
FailInv ==
    /\ Uncleaned \/ child \in CleanupPcs => ~cleaned /\ ~releaseTried
    /\ child = "fail" /\ (cleaned \/ (sync /\ ~Held)) => ScannerFree

\* A receipt without recovery is written when the scanner is free, and nothing
\* more is sent afterwards.
ReceiptInv ==
    receipt.recovery = "none" \/ disk.recovery = "none" =>
        /\ ScannerFree
        /\ Over \/ (child = "except" /\ receipt.attempts = 1)

\* The child has one end.
EndInv ==
    /\ returncode # "running" => child = "exited"
    /\ returncode = "bootstrap" => ScannerFree

TrackInv ==
    NormalSync /\ ScanAtPc /\ Tracked /\ CleanupInv /\ FailInv /\ ReceiptInv /\ EndInv

\* The verdict is the last word.
VerdictInv ==
    /\ outcome # "pending" => parent = "returned"
    /\ HonestVerdict

\* An ACK to go on follows the frame's consumption.
AckInv ==
    /\ \A f \in Frames : ack[f] = "continue" => f <= handled
    /\ frame - 1 <= handled

-----------------------------------------------------------------------------
(* One release: proof.                                                     *)

\* No step of the child sends a second RELEASE.
LEMMA ReleaseChild ==
    ASSUME TInv, ReleaseInv, ChildSteps
    PROVE  ReleaseInv'
<1> USE LiveAssumption DEF ReleaseInv, TInv, TypeOK, WorkerTypeOK, PlaceTypeOK, Frames
<1>1. CASE ChildStarts
  <2>1. FinalizedInv'
    BY <1>1 DEF ChildStarts, Exit, GoOn, FinalizedInv
  <2>2. ReleasedOnce'
    BY <1>1 DEF ChildStarts, Exit, GoOn, ReleasedOnce, EarlyPcs, scannerVars
  <2>3. QED
    BY <2>1, <2>2
<1>2. CASE Connect
  <2>1. FinalizedInv'
    BY <1>2 DEF Connect, Persist, Raise, GoOn, FinalizedInv
  <2>2. ReleasedOnce'
    BY <1>2 DEF Connect, Persist, Raise, GoOn, ReleasedOnce, EarlyPcs, scannerVars
  <2>3. QED
    BY <2>1, <2>2
<1>3. CASE Reserve
  <2>1. FinalizedInv'
    BY <1>3 DEF Reserve, Persist, Raise, GoOn, FinalizedInv
  <2>2. ReleasedOnce'
    BY <1>3 DEF Reserve, Persist, Raise, GoOn, ReleasedOnce, EarlyPcs
  <2>3. QED
    BY <2>1, <2>2
<1>4. CASE FrameFails
  <2>1. FinalizedInv'
    BY <1>4 DEF FrameFails, Raise, FinalizedInv
  <2>2. ReleasedOnce'
    BY <1>4 DEF FrameFails, Raise, ReleasedOnce, scannerVars
  <2>3. QED
    BY <2>1, <2>2
<1>5. CASE ArmScan
  <2>1. FinalizedInv'
    BY <1>5 DEF ArmScan, Raise, GoOn, FinalizedInv
  <2>2. ReleasedOnce'
    BY <1>5 DEF ArmScan, Raise, GoOn, ReleasedOnce, FramePcs
  <2>3. QED
    BY <2>1, <2>2
<1>6. CASE DrainScan
  <2>1. FinalizedInv'
    BY <1>6 DEF DrainScan, Raise, GoOn, FinalizedInv
  <2>2. ReleasedOnce'
    BY <1>6 DEF DrainScan, Raise, GoOn, ReleasedOnce, FramePcs
  <2>3. QED
    BY <2>1, <2>2
<1>7. CASE WaitReady
  <2>1. FinalizedInv'
    BY <1>7 DEF WaitReady, Raise, GoOn, FinalizedInv
  <2>2. ReleasedOnce'
    BY <1>7 DEF WaitReady, Raise, GoOn, ReleasedOnce, FramePcs
  <2>3. QED
    BY <2>1, <2>2
<1>8. CASE PublishFrame
  <2>1. FinalizedInv'
    BY <1>8 DEF PublishFrame, PersistFrame, Raise, GoOn, FinalizedInv
  <2>2. ReleasedOnce'
    BY <1>8 DEF PublishFrame, PersistFrame, Raise, GoOn, ReleasedOnce, FramePcs,
           scannerVars
  <2>3. QED
    BY <2>1, <2>2
<1>9. CASE BookFrame
  <2>1. FinalizedInv'
    BY <1>9 DEF BookFrame, FinalizedInv
  <2>2. ReleasedOnce'
    BY <1>9 DEF BookFrame, Persist, Raise, GoOn, ReleasedOnce, scannerVars
  <2>3. QED
    BY <2>1, <2>2
<1>10. CASE AwaitAck
  <2>1. FinalizedInv'
    BY <1>10 DEF AwaitAck, FinalizedInv
  <2>2. ReleasedOnce'
    BY <1>10 DEF AwaitAck, NextFrame, EndFrames, AckTimeout, Persist, Raise, GoOn,
           ReleasedOnce, scannerVars
  <2>3. QED
    BY <2>1, <2>2
<1>11. CASE OpenFrame
  <2>1. FinalizedInv'
    BY <1>11 DEF OpenFrame, PersistFrame, Raise, GoOn, FinalizedInv
  <2>2. ReleasedOnce'
    BY <1>11 DEF OpenFrame, PersistFrame, Raise, GoOn, ReleasedOnce, scannerVars
  <2>3. QED
    BY <2>1, <2>2
<1>12. CASE PrepareRelease
  <2>1. FinalizedInv'
    BY <1>12 DEF PrepareRelease, Persist, Raise, GoOn, FinalizedInv
  <2>2. ReleasedOnce'
    BY <1>12 DEF PrepareRelease, Persist, ReleasedOnce, scannerVars
  <2>3. QED
    BY <2>1, <2>2
<1>13. CASE Release
  <2>1. FinalizedInv'
    BY <1>13 DEF Release, Raise, GoOn, FinalizedInv
  <2>2. ReleasedOnce'
    BY <1>13 DEF Release, Raise, GoOn, ReleasedOnce, EarlyPcs, FramePcs, CleanupPcs,
           sessionVars
  <2>3. QED
    BY <2>1, <2>2
<1>14. CASE Report
  <2>1. FinalizedInv'
    BY <1>14 DEF Report, Persist, Raise, GoOn, FinalizedInv
  <2>2. ReleasedOnce'
    BY <1>14 DEF Report, Persist, Raise, GoOn, ReleasedOnce, EarlyPcs, FramePcs,
           CleanupPcs, scannerVars
  <2>3. QED
    BY <2>1, <2>2
<1>15. CASE Spoil
  <2>1. FinalizedInv'
    BY <1>15 DEF Spoil, Exit, FinalizedInv
  <2>2. ReleasedOnce'
    BY <1>15 DEF Spoil, Exit, ReleasedOnce, EarlyPcs, FramePcs, CleanupPcs, Over,
           Uncleaned, scannerVars, sessionVars
  <2>3. QED
    BY <2>1, <2>2
<1>16. CASE StartCleanup
  <2>1. FinalizedInv'
    BY <1>16 DEF StartCleanup, FinalizedInv
  <2>2. ReleasedOnce'
    BY <1>16 DEF StartCleanup, MayCleanUp, ReleasedOnce, EarlyPcs, FramePcs,
           CleanupPcs, Over, Uncleaned, scannerVars
  <2>3. QED
    BY <2>1, <2>2
<1>17. CASE CleanupCancel
  <2>1. FinalizedInv'
    BY <1>17 DEF CleanupCancel, FinalizedInv
  <2>2. ReleasedOnce'
    BY <1>17 DEF CleanupCancel, ReleasedOnce, CleanupPcs
  <2>3. QED
    BY <2>1, <2>2
<1>18. CASE CleanupSettle
  <2>1. FinalizedInv'
    BY <1>18 DEF CleanupSettle, FinalizedInv
  <2>2. ReleasedOnce'
    BY <1>18 DEF CleanupSettle, ReleasedOnce, CleanupPcs
  <2>3. QED
    BY <2>1, <2>2
<1>19. CASE CleanupRelease
  <2>1. FinalizedInv'
    BY <1>19 DEF CleanupRelease, FinalizedInv
  <2>2. ReleasedOnce'
    BY <1>19 DEF CleanupRelease, ReleasedOnce, EarlyPcs, FramePcs, CleanupPcs, Over,
           Uncleaned
  <2>3. QED
    BY <2>1, <2>2
<1>20. CASE ReportFailure
  <2>1. FinalizedInv'
    BY <1>20 DEF ReportFailure, FinalizedInv
  <2>2. ReleasedOnce'
    BY <1>20 DEF ReportFailure, Exit, ReleasedOnce, FinalizedInv, EarlyPcs,
           FramePcs, CleanupPcs, Over, Uncleaned, scannerVars
  <2>3. QED
    BY <2>1, <2>2
<1>21. QED
  BY <1>1, <1>2, <1>3, <1>4, <1>5, <1>6, <1>7, <1>8, <1>9, <1>10, <1>11, <1>12,
     <1>13, <1>14, <1>15, <1>16, <1>17, <1>18, <1>19, <1>20 DEF ChildSteps

-----------------------------------------------------------------------------
(* The scanner and the bookkeeping: proof.                                 *)

\* No step of the child makes its bookkeeping untrue.
LEMMA TrackChild ==
    ASSUME ~UntracedEffects, TInv, ReleaseInv, TrackInv, ChildSteps
    PROVE  TrackInv'
<1> USE LiveAssumption
        DEF TrackInv, ReleaseInv, TInv, TypeOK, WorkerTypeOK, PlaceTypeOK, Frames
<1>1. CASE ChildStarts
  <2>1. NormalSync'
    BY <1>1 DEF ChildStarts, GoOn, NormalSync, CleanupPcs, Over, Uncleaned
  <2>2. ScanAtPc'
    BY <1>1 DEF ChildStarts, Exit, GoOn, ScanAtPc, EarlyPcs, scannerVars, localVars
  <2>3. Tracked'
    BY <1>1 DEF ChildStarts, GoOn, Tracked, CleanupPcs, Over, Uncleaned,
           scannerVars, localVars
  <2>4. CleanupInv'
    BY <1>1 DEF ChildStarts, Exit, GoOn, CleanupInv, CleanupPcs
  <2>5. FailInv'
    BY <1>1 DEF ChildStarts, Exit, GoOn, FailInv, Over, Uncleaned, cleanupVars
  <2>6. ReceiptInv'
    BY <1>1 DEF ChildStarts, ReceiptInv, NoReceipt, sessionVars, Over
  <2>7. EndInv'
    BY <1>1 DEF ChildStarts, Exit, EndInv, ScannerFree, ScanAtPc, EarlyPcs,
           scannerVars
  <2>8. QED
    BY <2>1, <2>2, <2>3, <2>4, <2>5, <2>6, <2>7
<1>2. CASE Connect
  <2>1. NormalSync'
    BY <1>2 DEF Connect, Persist, Raise, GoOn, NormalSync, CleanupPcs, Over,
           Uncleaned
  <2>2. ScanAtPc'
    BY <1>2 DEF Connect, Persist, Raise, GoOn, ScanAtPc, EarlyPcs, scannerVars,
           localVars
  <2>3. Tracked'
    BY <1>2 DEF Connect, Tracked, NormalSync, CleanupPcs, Over, Uncleaned,
           scannerVars, localVars
  <2>4. CleanupInv'
    BY <1>2 DEF Connect, Persist, Raise, GoOn, CleanupInv, CleanupPcs
  <2>5. FailInv'
    BY <1>2 DEF Connect, Persist, Raise, GoOn, FailInv, Over, Uncleaned, cleanupVars
  <2>6. ReceiptInv'
    BY <1>2 DEF Connect, Persist, ReceiptInv, sessionVars, Over
  <2>7. EndInv'
    BY <1>2 DEF Connect, EndInv
  <2>8. QED
    BY <2>1, <2>2, <2>3, <2>4, <2>5, <2>6, <2>7
<1>3. CASE Reserve
  <2>1. NormalSync'
    BY <1>3 DEF Reserve, Persist, Raise, GoOn, NormalSync, CleanupPcs, Over,
           Uncleaned
  <2>2. ScanAtPc'
    BY <1>3 DEF Reserve, Persist, Raise, GoOn, ScanAtPc, EarlyPcs
  <2>3. Tracked'
    <3>1. scan' = "idle" /\ ~scanActive'
      BY <1>3 DEF Reserve, ScanAtPc, EarlyPcs
    <3>2. unitReserved = reserved
      BY <1>3 DEF Reserve, ScanAtPc, EarlyPcs, FlagTypeOK, ScannerTypeOK
    <3>3. sync' => \/ unitReserved' = TRUE /\ reserved' = TRUE
                   \/ unitReserved' = unitReserved /\ reserved' = reserved
      BY <1>3 DEF Reserve, Raise
    <3>4. QED
      BY <3>1, <3>2, <3>3 DEF Tracked
  <2>4. CleanupInv'
    BY <1>3 DEF Reserve, Persist, Raise, GoOn, CleanupInv, CleanupPcs
  <2>5. FailInv'
    BY <1>3 DEF Reserve, Persist, Raise, GoOn, FailInv, Over, Uncleaned, cleanupVars
  <2>6. ReceiptInv'
    BY <1>3 DEF Reserve, Persist, ReceiptInv, Receipts, SessionTypeOK, sessionVars,
           Over
  <2>7. EndInv'
    BY <1>3 DEF Reserve, EndInv
  <2>8. QED
    BY <2>1, <2>2, <2>3, <2>4, <2>5, <2>6, <2>7
<1>4. CASE FrameFails
  <2>1. NormalSync'
    BY <1>4 DEF FrameFails, Raise, NormalSync
  <2>2. ScanAtPc'
    BY <1>4 DEF FrameFails, Raise, ScanAtPc, EarlyPcs
  <2>3. Tracked'
    BY <1>4 DEF FrameFails, Tracked, NormalSync, FramePcs, CleanupPcs, Over,
           Uncleaned, scannerVars, localVars
  <2>4. CleanupInv'
    BY <1>4 DEF FrameFails, Raise, CleanupInv, CleanupPcs
  <2>5. FailInv'
    BY <1>4 DEF FrameFails, Raise, FailInv, FramePcs, Over, Uncleaned, cleanupVars
  <2>6. ReceiptInv'
    BY <1>4 DEF FrameFails, ReceiptInv, sessionVars, FramePcs, Over
  <2>7. EndInv'
    BY <1>4 DEF FrameFails, EndInv, FramePcs
  <2>8. QED
    BY <2>1, <2>2, <2>3, <2>4, <2>5, <2>6, <2>7
<1>5. CASE ArmScan
  <2>1. NormalSync'
    BY <1>5 DEF ArmScan, Raise, GoOn, NormalSync, CleanupPcs, Over, Uncleaned
  <2>2. ScanAtPc'
    BY <1>5 DEF ArmScan, Raise, GoOn, ScanAtPc, EarlyPcs
  <2>3. Tracked'
    BY <1>5 DEF ArmScan, Raise, Refused, Tracked, NormalSync, ScanAtPc, CleanupPcs,
           Over, Uncleaned
  <2>4. CleanupInv'
    BY <1>5 DEF ArmScan, Raise, GoOn, CleanupInv, CleanupPcs
  <2>5. FailInv'
    BY <1>5 DEF ArmScan, Raise, GoOn, FailInv, Over, Uncleaned, cleanupVars
  <2>6. ReceiptInv'
    BY <1>5 DEF ArmScan, ReceiptInv, sessionVars, Over
  <2>7. EndInv'
    BY <1>5 DEF ArmScan, EndInv
  <2>8. QED
    BY <2>1, <2>2, <2>3, <2>4, <2>5, <2>6, <2>7
<1>6. CASE DrainScan
  <2>1. NormalSync'
    BY <1>6 DEF DrainScan, Raise, GoOn, NormalSync, CleanupPcs, Over, Uncleaned
  <2>2. ScanAtPc'
    BY <1>6 DEF DrainScan, Raise, GoOn, ScanAtPc, EarlyPcs
  <2>3. Tracked'
    BY <1>6 DEF DrainScan, Raise, Refused, Tracked, NormalSync, CleanupPcs, Over,
           Uncleaned
  <2>4. CleanupInv'
    BY <1>6 DEF DrainScan, Raise, GoOn, CleanupInv, CleanupPcs
  <2>5. FailInv'
    BY <1>6 DEF DrainScan, Raise, GoOn, FailInv, Over, Uncleaned, cleanupVars
  <2>6. ReceiptInv'
    BY <1>6 DEF DrainScan, ReceiptInv, ScannerFree, sessionVars, ScanAtPc
  <2>7. EndInv'
    BY <1>6 DEF DrainScan, EndInv
  <2>8. QED
    BY <2>1, <2>2, <2>3, <2>4, <2>5, <2>6, <2>7
<1>7. CASE WaitReady
  <2>1. NormalSync'
    BY <1>7 DEF WaitReady, Raise, GoOn, NormalSync, CleanupPcs, Over, Uncleaned
  <2>2. ScanAtPc'
    BY <1>7 DEF WaitReady, Raise, GoOn, ScanAtPc, EarlyPcs
  <2>3. Tracked'
    BY <1>7 DEF WaitReady, Tracked, NormalSync, ScanAtPc, CleanupPcs, Over,
           Uncleaned
  <2>4. CleanupInv'
    BY <1>7 DEF WaitReady, Raise, GoOn, CleanupInv, CleanupPcs
  <2>5. FailInv'
    BY <1>7 DEF WaitReady, Raise, GoOn, FailInv, Over, Uncleaned, cleanupVars
  <2>6. ReceiptInv'
    BY <1>7 DEF WaitReady, ReceiptInv, ScannerFree, sessionVars, ScanAtPc
  <2>7. EndInv'
    BY <1>7 DEF WaitReady, EndInv
  <2>8. QED
    BY <2>1, <2>2, <2>3, <2>4, <2>5, <2>6, <2>7
<1>8. CASE PublishFrame
  <2>1. NormalSync'
    BY <1>8 DEF PublishFrame, PersistFrame, Raise, GoOn, NormalSync, CleanupPcs,
           Over, Uncleaned
  <2>2. ScanAtPc'
    BY <1>8 DEF PublishFrame, PersistFrame, Raise, GoOn, ScanAtPc, EarlyPcs,
           scannerVars, localVars
  <2>3. Tracked'
    BY <1>8 DEF PublishFrame, Tracked, NormalSync, CleanupPcs, Over, Uncleaned,
           scannerVars, localVars
  <2>4. CleanupInv'
    BY <1>8 DEF PublishFrame, PersistFrame, Raise, GoOn, CleanupInv, CleanupPcs
  <2>5. FailInv'
    BY <1>8 DEF PublishFrame, PersistFrame, Raise, GoOn, FailInv, Over, Uncleaned,
           cleanupVars
  <2>6. ReceiptInv'
    BY <1>8 DEF PublishFrame, ReceiptInv, sessionVars, Over
  <2>7. EndInv'
    BY <1>8 DEF PublishFrame, EndInv
  <2>8. QED
    BY <2>1, <2>2, <2>3, <2>4, <2>5, <2>6, <2>7
<1>9. CASE BookFrame
  <2>1. NormalSync'
    BY <1>9 DEF BookFrame, Persist, Raise, GoOn, NormalSync, CleanupPcs, Over,
           Uncleaned
  <2>2. ScanAtPc'
    BY <1>9 DEF BookFrame, Persist, Raise, GoOn, ScanAtPc, EarlyPcs, scannerVars,
           localVars
  <2>3. Tracked'
    BY <1>9 DEF BookFrame, Tracked, NormalSync, CleanupPcs, Over, Uncleaned,
           scannerVars, localVars
  <2>4. CleanupInv'
    BY <1>9 DEF BookFrame, Persist, Raise, GoOn, CleanupInv, CleanupPcs
  <2>5. FailInv'
    BY <1>9 DEF BookFrame, Persist, Raise, GoOn, FailInv, Over, Uncleaned,
           cleanupVars
  <2>6. ReceiptInv'
    BY <1>9 DEF BookFrame, Persist, ReceiptInv, Receipts, SessionTypeOK, Over
  <2>7. EndInv'
    BY <1>9 DEF BookFrame, EndInv
  <2>8. QED
    BY <2>1, <2>2, <2>3, <2>4, <2>5, <2>6, <2>7
<1>10. CASE AwaitAck
  <2>1. NormalSync'
    BY <1>10 DEF AwaitAck, NextFrame, EndFrames, AckTimeout, Persist, Raise, GoOn,
           NormalSync, CleanupPcs, Over, Uncleaned
  <2>2. ScanAtPc'
    BY <1>10 DEF AwaitAck, NextFrame, EndFrames, AckTimeout, Persist, Raise, GoOn,
           ScanAtPc, EarlyPcs, scannerVars, localVars
  <2>3. Tracked'
    BY <1>10 DEF AwaitAck, Tracked, NormalSync, CleanupPcs, Over, Uncleaned,
           scannerVars, localVars
  <2>4. CleanupInv'
    BY <1>10 DEF AwaitAck, NextFrame, EndFrames, AckTimeout, Persist, Raise, GoOn,
           CleanupInv, CleanupPcs
  <2>5. FailInv'
    BY <1>10 DEF AwaitAck, NextFrame, EndFrames, AckTimeout, Persist, Raise, GoOn,
           FailInv, Over, Uncleaned, cleanupVars
  <2>6. ReceiptInv'
    BY <1>10 DEF AwaitAck, NextFrame, EndFrames, AckTimeout, Persist, ReceiptInv,
           Receipts, SessionTypeOK, sessionVars, Over
  <2>7. EndInv'
    BY <1>10 DEF AwaitAck, EndInv
  <2>8. QED
    BY <2>1, <2>2, <2>3, <2>4, <2>5, <2>6, <2>7
<1>11. CASE OpenFrame
  <2>1. NormalSync'
    BY <1>11 DEF OpenFrame, PersistFrame, Raise, GoOn, NormalSync, CleanupPcs, Over,
           Uncleaned
  <2>2. ScanAtPc'
    BY <1>11 DEF OpenFrame, PersistFrame, Raise, GoOn, ScanAtPc, EarlyPcs,
           scannerVars, localVars
  <2>3. Tracked'
    BY <1>11 DEF OpenFrame, Tracked, NormalSync, CleanupPcs, Over, Uncleaned,
           scannerVars, localVars
  <2>4. CleanupInv'
    BY <1>11 DEF OpenFrame, PersistFrame, Raise, GoOn, CleanupInv, CleanupPcs
  <2>5. FailInv'
    BY <1>11 DEF OpenFrame, PersistFrame, Raise, GoOn, FailInv, Over, Uncleaned,
           cleanupVars
  <2>6. ReceiptInv'
    BY <1>11 DEF OpenFrame, ReceiptInv, sessionVars, Over
  <2>7. EndInv'
    BY <1>11 DEF OpenFrame, EndInv
  <2>8. QED
    BY <2>1, <2>2, <2>3, <2>4, <2>5, <2>6, <2>7
<1>12. CASE PrepareRelease
  <2>1. NormalSync'
    BY <1>12 DEF PrepareRelease, Persist, Raise, GoOn, NormalSync, CleanupPcs, Over,
           Uncleaned
  <2>2. ScanAtPc'
    BY <1>12 DEF PrepareRelease, Persist, Raise, GoOn, ScanAtPc, EarlyPcs,
           scannerVars, localVars
  <2>3. Tracked'
    BY <1>12 DEF PrepareRelease, Tracked, NormalSync, CleanupPcs, Over, Uncleaned,
           scannerVars, localVars
  <2>4. CleanupInv'
    BY <1>12 DEF PrepareRelease, Persist, Raise, GoOn, CleanupInv, CleanupPcs
  <2>5. FailInv'
    BY <1>12 DEF PrepareRelease, Persist, Raise, GoOn, FailInv, Over, Uncleaned,
           cleanupVars
  <2>6. ReceiptInv'
    BY <1>12 DEF PrepareRelease, Persist, ReceiptInv, Receipts, SessionTypeOK, Over
  <2>7. EndInv'
    BY <1>12 DEF PrepareRelease, EndInv
  <2>8. QED
    BY <2>1, <2>2, <2>3, <2>4, <2>5, <2>6, <2>7
<1>13. CASE Release
  <2>1. NormalSync'
    BY <1>13 DEF Release, Raise, GoOn, NormalSync, CleanupPcs, Over, Uncleaned
  <2>2. ScanAtPc'
    BY <1>13 DEF Release, Raise, GoOn, ScanAtPc, EarlyPcs
  <2>3. Tracked'
    BY <1>13 DEF Release, Raise, Tracked, NormalSync, CleanupPcs, Over, Uncleaned
  <2>4. CleanupInv'
    BY <1>13 DEF Release, Raise, GoOn, CleanupInv, CleanupPcs
  <2>5. FailInv'
    BY <1>13 DEF Release, Raise, GoOn, FailInv, Over, Uncleaned, cleanupVars
  <2>6. ReceiptInv'
    BY <1>13 DEF Release, ReceiptInv, sessionVars, Over
  <2>7. EndInv'
    BY <1>13 DEF Release, EndInv
  <2>8. QED
    BY <2>1, <2>2, <2>3, <2>4, <2>5, <2>6, <2>7
<1>14. CASE Report
  <2>1. NormalSync'
    BY <1>14 DEF Report, Persist, Raise, GoOn, NormalSync, Over, Uncleaned
  <2>2. ScanAtPc'
    BY <1>14 DEF Report, Persist, Raise, GoOn, ScanAtPc, EarlyPcs
  <2>3. Tracked'
    BY <1>14 DEF Report, Tracked, NormalSync, CleanupPcs, Over, Uncleaned,
           scannerVars, localVars
  <2>4. CleanupInv'
    BY <1>14 DEF Report, Persist, Raise, GoOn, CleanupInv, CleanupPcs
  <2>5. FailInv'
    BY <1>14 DEF Report, Persist, Raise, GoOn, FailInv, Over, Uncleaned, cleanupVars
  <2>6. ReceiptInv'
    BY <1>14 DEF Report, Persist, Raise, GoOn, ReceiptInv, ScannerFree, ScanAtPc,
           ReleasedOnce, FramePcs, Over, scannerVars
  <2>7. EndInv'
    BY <1>14 DEF Report, EndInv
  <2>8. QED
    BY <2>1, <2>2, <2>3, <2>4, <2>5, <2>6, <2>7
<1>15. CASE Spoil
  <2>1. NormalSync'
    BY <1>15 DEF Spoil, Exit, NormalSync, Over, Uncleaned
  <2>2. ScanAtPc'
    BY <1>15 DEF Spoil, Exit, ScanAtPc, EarlyPcs
  <2>3. Tracked'
    BY <1>15 DEF Spoil, Exit, Tracked, CleanupPcs, Over, Uncleaned, scannerVars,
           localVars
  <2>4. CleanupInv'
    BY <1>15 DEF Spoil, Exit, CleanupInv, CleanupPcs
  <2>5. FailInv'
    BY <1>15 DEF Spoil, Exit, FailInv, CleanupPcs, Over, Uncleaned, cleanupVars
  <2>6. ReceiptInv'
    BY <1>15 DEF Spoil, Exit, ReceiptInv, ScannerFree, sessionVars, Over,
           scannerVars
  <2>7. EndInv'
    BY <1>15 DEF Spoil, Exit, EndInv
  <2>8. QED
    BY <2>1, <2>2, <2>3, <2>4, <2>5, <2>6, <2>7
<1>16. CASE StartCleanup
  <2>1. NormalSync'
    BY <1>16 DEF StartCleanup, MayCleanUp, NormalSync, Over, Uncleaned
  <2>2. ScanAtPc'
    BY <1>16 DEF StartCleanup, ScanAtPc, EarlyPcs
  <2>3. Tracked'
    BY <1>16 DEF StartCleanup, Tracked, CleanupPcs, Over, Uncleaned
  <2>4. CleanupInv'
    BY <1>16 DEF StartCleanup, MayCleanUp, Held, CleanupInv, Tracked, CleanupPcs,
           Over, Uncleaned, scannerVars, localVars, ScannerTypeOK
  <2>5. FailInv'
    BY <1>16 DEF StartCleanup, Held, FailInv, ScannerFree, CleanupInv, Tracked,
           Over, Uncleaned, scannerVars, localVars, cleanupVars, ScannerTypeOK
  <2>6. ReceiptInv'
    BY <1>16 DEF StartCleanup, MayCleanUp, ReceiptInv, ScannerFree, sessionVars,
           Over, scannerVars
  <2>7. EndInv'
    BY <1>16 DEF StartCleanup, EndInv
  <2>8. QED
    BY <2>1, <2>2, <2>3, <2>4, <2>5, <2>6, <2>7
<1>17. CASE CleanupCancel
  <2>1. NormalSync'
    BY <1>17 DEF CleanupCancel, NormalSync, CleanupPcs, Over, Uncleaned
  <2>2. ScanAtPc'
    BY <1>17 DEF CleanupCancel, ScanAtPc, EarlyPcs
  <2>3. Tracked'
    BY <1>17 DEF CleanupCancel, Tracked, CleanupPcs, Over, Uncleaned
  <2>4. CleanupInv'
    BY <1>17 DEF CleanupCancel, Held, CleanupInv, CleanupPcs, localVars
  <2>5. FailInv'
    BY <1>17 DEF CleanupCancel, Held, FailInv, CleanupInv, CleanupPcs, localVars,
           cleanupVars
  <2>6. ReceiptInv'
    BY <1>17 DEF CleanupCancel, ReceiptInv, sessionVars, Over
  <2>7. EndInv'
    BY <1>17 DEF CleanupCancel, EndInv
  <2>8. QED
    BY <2>1, <2>2, <2>3, <2>4, <2>5, <2>6, <2>7
<1>18. CASE CleanupSettle
  <2>1. NormalSync'
    BY <1>18 DEF CleanupSettle, NormalSync, CleanupPcs, Over, Uncleaned
  <2>2. ScanAtPc'
    BY <1>18 DEF CleanupSettle, ScanAtPc, EarlyPcs
  <2>3. Tracked'
    BY <1>18 DEF CleanupSettle, Tracked, CleanupPcs, Over, Uncleaned
  <2>4. CleanupInv'
    BY <1>18 DEF CleanupSettle, Held, CleanupInv, CleanupPcs, localVars
  <2>5. FailInv'
    BY <1>18 DEF CleanupSettle, Held, FailInv, ScannerFree, CleanupInv, CleanupPcs,
           Over, Uncleaned, localVars
  <2>6. ReceiptInv'
    BY <1>18 DEF CleanupSettle, ReceiptInv, sessionVars, Over
  <2>7. EndInv'
    BY <1>18 DEF CleanupSettle, EndInv
  <2>8. QED
    BY <2>1, <2>2, <2>3, <2>4, <2>5, <2>6, <2>7
<1>19. CASE CleanupRelease
  <2>1. NormalSync'
    BY <1>19 DEF CleanupRelease, NormalSync, Over, Uncleaned
  <2>2. ScanAtPc'
    BY <1>19 DEF CleanupRelease, ScanAtPc, EarlyPcs
  <2>3. Tracked'
    BY <1>19 DEF CleanupRelease, Tracked, Over, Uncleaned
  <2>4. CleanupInv'
    BY <1>19 DEF CleanupRelease, CleanupInv, CleanupPcs
  <2>5. FailInv'
    <3>1. child' = "fail" /\ scan' = "idle" /\ ~cleaned
      BY <1>19 DEF CleanupRelease, CleanupInv, FailInv, CleanupPcs
    <3>2. Held /\ (Held' <=> Held)
      BY <1>19 DEF CleanupRelease, CleanupInv, CleanupPcs, Held, localVars
    <3>3. cleaned' => ~unitReserved'
      BY <1>19, <3>1 DEF CleanupRelease
    <3>4. QED
      BY <3>1, <3>2, <3>3 DEF FailInv, ScannerFree, Uncleaned, Over, CleanupPcs
  <2>6. ReceiptInv'
    BY <1>19 DEF CleanupRelease, ReceiptInv, sessionVars, Over
  <2>7. EndInv'
    BY <1>19 DEF CleanupRelease, EndInv
  <2>8. QED
    BY <2>1, <2>2, <2>3, <2>4, <2>5, <2>6, <2>7
<1>20. CASE ReportFailure
  <2>1. NormalSync'
    BY <1>20 DEF ReportFailure, Exit, NormalSync, Over, Uncleaned
  <2>2. ScanAtPc'
    BY <1>20 DEF ReportFailure, Exit, ScanAtPc, EarlyPcs
  <2>3. Tracked'
    BY <1>20 DEF ReportFailure, Exit, Tracked, Over, Uncleaned, FinalizedInv
  <2>4. CleanupInv'
    BY <1>20 DEF ReportFailure, Exit, CleanupInv, CleanupPcs
  <2>5. FailInv'
    BY <1>20 DEF ReportFailure, Exit, FailInv, CleanupPcs, Over, Uncleaned,
           FinalizedInv
  <2>6. ReceiptInv'
    <3>1. Recovery = "none" => ScannerFree
      BY <1>20 DEF ReportFailure, Recovery, FailInv
    <3>2. disk.recovery = "none" => ScannerFree
      BY DEF ReceiptInv
    <3>3. ScannerFree' <=> ScannerFree
      BY <1>20 DEF ReportFailure, ScannerFree, scannerVars
    <3>4. receipt'.recovery = Recovery /\ disk' \in {disk, receipt'}
      BY <1>20 DEF ReportFailure
    <3>5. Over'
      BY <1>20 DEF ReportFailure, Exit, Over, FinalizedInv
    <3>6. QED
      BY <3>1, <3>2, <3>3, <3>4, <3>5 DEF ReceiptInv
  <2>7. EndInv'
    BY <1>20 DEF ReportFailure, Exit, EndInv
  <2>8. QED
    BY <2>1, <2>2, <2>3, <2>4, <2>5, <2>6, <2>7
<1>21. QED
  BY <1>1, <1>2, <1>3, <1>4, <1>5, <1>6, <1>7, <1>8, <1>9, <1>10, <1>11, <1>12,
     <1>13, <1>14, <1>15, <1>16, <1>17, <1>18, <1>19, <1>20 DEF ChildSteps

\* What the parent does leaves the scanner and the child alone, but for the
\* launch.
LEMMA TrackFrame ==
    ASSUME UNCHANGED <<scannerVars, childVars>>
    PROVE  /\ ReleaseInv => ReleaseInv'
           /\ TrackInv => TrackInv'
<1> USE DEF scannerVars, childVars, localVars, cleanupVars, sessionVars
<1>1. ReleaseInv => ReleaseInv'
  BY DEF ReleaseInv, FinalizedInv, ReleasedOnce, Over, Uncleaned
<1>2. NormalSync /\ ScanAtPc /\ Tracked => NormalSync' /\ ScanAtPc' /\ Tracked'
  BY DEF NormalSync, ScanAtPc, Tracked, Over, Uncleaned
<1>3. CleanupInv /\ FailInv => CleanupInv' /\ FailInv'
  BY DEF CleanupInv, FailInv, Over, Uncleaned, Held, ScannerFree
<1>4. ReceiptInv /\ EndInv => ReceiptInv' /\ EndInv'
  BY DEF ReceiptInv, EndInv, Over, ScannerFree
<1>5. QED
  BY <1>1, <1>2, <1>3, <1>4 DEF TrackInv

\* Launching the child disturbs neither.
LEMMA TrackLaunch ==
    ASSUME TInv, Launch
    PROVE  /\ ReleaseInv => ReleaseInv'
           /\ TrackInv => TrackInv'
<1> USE DEF Launch, TInv, HandlerRoom, scannerVars, localVars,
        cleanupVars, sessionVars, EarlyPcs, FramePcs, CleanupPcs
<1>1. ReleaseInv => ReleaseInv'
  BY DEF ReleaseInv, FinalizedInv, ReleasedOnce
<1>2. NormalSync /\ ScanAtPc /\ Tracked => NormalSync' /\ ScanAtPc' /\ Tracked'
  BY DEF NormalSync, ScanAtPc, Tracked, Over, Uncleaned
<1>3. CleanupInv /\ FailInv => CleanupInv' /\ FailInv'
  BY DEF CleanupInv, FailInv, Over, Uncleaned
<1>4. ReceiptInv /\ EndInv => ReceiptInv' /\ EndInv'
  BY DEF ReceiptInv, EndInv, Over
<1>5. QED
  BY <1>1, <1>2, <1>3, <1>4 DEF TrackInv

\* Nor does its death at any point.
LEMMA TrackKilled ==
    ASSUME TInv, Killed
    PROVE  /\ ReleaseInv => ReleaseInv'
           /\ TrackInv => TrackInv'
<1> USE DEF Killed, ChildKilled, Exit, scannerVars, localVars,
        cleanupVars, sessionVars, EarlyPcs, FramePcs, CleanupPcs
<1>1. ReleaseInv => ReleaseInv'
  BY DEF ReleaseInv, FinalizedInv, ReleasedOnce, Over, Uncleaned
<1>2. NormalSync' /\ ScanAtPc' /\ Tracked'
  BY DEF NormalSync, ScanAtPc, Tracked, Over, Uncleaned
<1>3. CleanupInv' /\ FailInv'
  BY DEF CleanupInv, FailInv, Over, Uncleaned
<1>4. ReceiptInv /\ EndInv => ReceiptInv' /\ EndInv'
  BY DEF ReceiptInv, EndInv, Over, ScannerFree
<1>5. QED
  BY <1>1, <1>2, <1>3, <1>4 DEF TrackInv

\* Every other step of the parent or its environment.
LEMMA OtherSteps ==
    ASSUME [Next]_vars
    PROVE  \/ Child \/ Killed \/ Launch
           \/ UNCHANGED <<scannerVars, childVars>>
  BY DEF Next, ParentSteps, WatchJournal, WatchReceipt, WatchExit, Handle,
         Acknowledge, JoinChild, RequestStop, ParentDies, Ended, vars, workerVars

\* The release invariant is inductive ...
LEMMA ReleaseStep == TInv /\ ReleaseInv /\ [Next]_vars => ReleaseInv'
  BY ReleaseChild, TrackLaunch, TrackKilled, TrackFrame, OtherSteps DEF Child

\* ... and with it the invariant of the bookkeeping.
LEMMA TrackStep ==
    ASSUME ~UntracedEffects
    PROVE  TInv /\ ReleaseInv /\ TrackInv /\ [Next]_vars => TrackInv'
  BY TrackChild, TrackLaunch, TrackKilled, TrackFrame, OtherSteps DEF Child

\* The initial states satisfy the invariants.
LEMMA SafetyInit == Init => ReleaseInv /\ TrackInv /\ VerdictInv /\ AckInv
<1> USE LiveAssumption DEF Init, WorkerInit
<1> SUFFICES ASSUME Init PROVE ReleaseInv /\ TrackInv /\ VerdictInv /\ AckInv
  OBVIOUS
<1>1. ReleaseInv
  BY DEF ReleaseInv, FinalizedInv, ReleasedOnce
<1>2. NormalSync /\ ScanAtPc /\ Tracked
  BY DEF NormalSync, ScanAtPc, Tracked
<1>3. CleanupInv /\ FailInv
  BY DEF CleanupInv, FailInv, CleanupPcs
<1>4. ReceiptInv /\ EndInv
  BY DEF ReceiptInv, EndInv, NoReceipt
<1>5. VerdictInv /\ AckInv
  BY DEF VerdictInv, HonestVerdict, Outcomes, AckInv
<1>6. QED
  BY <1>1, <1>2, <1>3, <1>4, <1>5 DEF TrackInv

\* RELEASE is sent at most once, whatever fails and whenever the child is killed
\* (run_live_capture: "the exception path must never retry it").
THEOREM OneRelease == Spec => []SingleRelease
<1>1. TInv /\ ReleaseInv => SingleRelease
  BY DEF ReleaseInv, ReleasedOnce, SingleRelease
<1>2. QED
  BY TypeInit, TypeStep, SafetyInit, ReleaseStep, <1>1, PTL DEF Spec

\* A session receipt that asks for no power cycle is true of the scanner.
THEOREM ReceiptsAreHonest ==
    ASSUME ~UntracedEffects
    PROVE  Spec => []HonestReceipt
<1>1. TrackInv => HonestReceipt
  BY DEF TrackInv, ReceiptInv, HonestReceipt
<1>2. QED
  BY TypeInit, TypeStep, SafetyInit, ReleaseStep, TrackStep, <1>1, PTL DEF Spec

\* The cleanup cancels only a running scan, and no RELEASE is sent during one.
THEOREM CleanupInOrder ==
    ASSUME ~UntracedEffects
    PROVE  Spec => []CleanupOrder
<1>1. TrackInv => CleanupOrder
  BY DEF TrackInv, CleanupInv, ScanAtPc, CleanupOrder
<1>2. QED
  BY TypeInit, TypeStep, SafetyInit, ReleaseStep, TrackStep, <1>1, PTL DEF Spec

\* The scanner is given back once, and not in the middle of a scan.
THEOREM GivenBackOnce ==
    ASSUME ~UntracedEffects
    PROVE  Spec => []CleanupSound
<1>1. SingleRelease /\ CleanupOrder => CleanupSound
  BY DEF CleanupSound
<1>2. QED
  BY <1>1, OneRelease, CleanupInOrder, PTL

-----------------------------------------------------------------------------
(* The verdict.                                                            *)

\* What the parent says once the child is gone is true.
LEMMA VerdictIsTrue ==
    ASSUME TInv, TrackInv
    PROVE  Verdict \in Outcomes /\ (Verdict # "recovery-required" => ScannerFree)
<1>1. Verdict \in Outcomes
  BY DEF Verdict, Outcomes
<1>2. Verdict = "bootstrap-failed" => returncode = "bootstrap"
  BY DEF Verdict
<1>3. Verdict = "complete" => disk.recovery = "none"
  BY DEF Verdict, Trusted, SuccessReceipt
<1>4. Verdict = "synchronized-refusal" => disk.recovery = "none"
  BY DEF Verdict
<1>5. Verdict # "not-launched"
  BY DEF Verdict
<1>6. QED
  BY <1>1, <1>2, <1>3, <1>4, <1>5 DEF Outcomes, TrackInv, EndInv, ReceiptInv

\* A verdict is given once, and stays true.
LEMMA VerdictStep == TInv /\ TrackInv /\ VerdictInv /\ [Next]_vars => VerdictInv'
<1> SUFFICES ASSUME TInv, TrackInv, VerdictInv, [Next]_vars PROVE VerdictInv'
  OBVIOUS
<1> USE DEF VerdictInv, HonestVerdict
<1>1. CASE Child
  BY <1>1, ChildAlive DEF Child, parentVars
<1>2. CASE Killed
  BY <1>2 DEF Killed, ChildKilled, parentVars
<1>3. CASE Launch
  <2>1. outcome = "pending" /\ child = "unborn"
    BY <1>3 DEF Launch, TInv, HandlerRoom
  <2>2. ScannerFree
    BY <2>1 DEF TrackInv, ScanAtPc, EarlyPcs, ScannerFree
  <2>3. ScannerFree'
    BY <1>3, <2>2 DEF Launch, ScannerFree, scannerVars
  <2>4. QED
    BY <1>3, <2>1, <2>3 DEF Launch, Outcomes
<1>4. CASE JoinChild
  <2>1. outcome' = Verdict /\ parent' = "returned" /\ child' = "exited"
    BY <1>4 DEF JoinChild, workerVars, childVars
  <2>2. ScannerFree' <=> ScannerFree
    BY <1>4 DEF JoinChild, workerVars, scannerVars, ScannerFree
  <2>3. QED
    BY <2>1, <2>2, VerdictIsTrue
<1>5. CASE WatchJournal \/ WatchReceipt \/ WatchExit \/ Handle \/ Acknowledge \/ ParentDies
  <2>1. outcome = "pending" /\ outcome' = "pending"
    BY <1>5 DEF WatchJournal, WatchReceipt, WatchExit, Handle, Acknowledge,
           ParentDies
  <2>2. QED
    BY <2>1 DEF Outcomes
<1>6. CASE RequestStop \/ Ended \/ UNCHANGED vars
  <2>1. UNCHANGED <<outcome, parent, child, unitReserved, scan>>
    BY <1>6 DEF RequestStop, Ended, vars, workerVars, childVars, scannerVars,
           parentVars
  <2>2. QED
    BY <2>1 DEF ScannerFree
<1>7. QED
  BY <1>1, <1>2, <1>3, <1>4, <1>5, <1>6 DEF Next, ParentSteps

\* A verdict after which the scanner may be used is given when it is free and
\* the child gone.
THEOREM VerdictsAreHonest ==
    ASSUME ~UntracedEffects
    PROVE  Spec => []HonestVerdict
<1>1. VerdictInv => HonestVerdict
  BY DEF VerdictInv
<1>2. QED
  BY TypeInit, TypeStep, SafetyInit, ReleaseStep, TrackStep, VerdictStep, <1>1, PTL
     DEF Spec

\* Who is told that the scanner is usable, in a receipt or a verdict, may use it.
THEOREM HonestThroughout ==
    ASSUME ~UntracedEffects
    PROVE  Spec => []Honest
<1>1. HonestReceipt /\ HonestVerdict => Honest
  BY DEF Honest
<1>2. QED
  BY <1>1, ReceiptsAreHonest, VerdictsAreHonest, PTL

-----------------------------------------------------------------------------
(* The handoff of frames.                                                  *)

\* Only an ACK brings the child to the next frame.
LEMMA FrameAdvance ==
    ASSUME ChildSteps
    PROVE  /\ ack' = ack
           /\ frame' = frame \/ (ack[frame] = "continue" /\ frame' = frame + 1)

<1>1. CASE AwaitAck
  BY <1>1 DEF AwaitAck, NextFrame, EndFrames, AckTimeout
<1>2. CASE ChildStarts
  BY <1>2 DEF ChildStarts
<1>3. CASE Connect
  BY <1>3 DEF Connect
<1>4. CASE Reserve
  BY <1>4 DEF Reserve
<1>5. CASE FrameFails
  BY <1>5 DEF FrameFails
<1>6. CASE ArmScan
  BY <1>6 DEF ArmScan
<1>7. CASE DrainScan
  BY <1>7 DEF DrainScan
<1>8. CASE WaitReady
  BY <1>8 DEF WaitReady
<1>9. CASE PublishFrame
  BY <1>9 DEF PublishFrame
<1>10. CASE BookFrame
  BY <1>10 DEF BookFrame
<1>11. CASE OpenFrame
  BY <1>11 DEF OpenFrame
<1>12. CASE PrepareRelease
  BY <1>12 DEF PrepareRelease
<1>13. CASE Release
  BY <1>13 DEF Release
<1>14. CASE Report
  BY <1>14 DEF Report
<1>15. CASE Spoil
  BY <1>15 DEF Spoil
<1>16. CASE StartCleanup
  BY <1>16 DEF StartCleanup
<1>17. CASE CleanupCancel
  BY <1>17 DEF CleanupCancel
<1>18. CASE CleanupSettle
  BY <1>18 DEF CleanupSettle
<1>19. CASE CleanupRelease
  BY <1>19 DEF CleanupRelease
<1>20. CASE ReportFailure
  BY <1>20 DEF ReportFailure
<1>21. QED
  BY <1>1, <1>2, <1>3, <1>4, <1>5, <1>6, <1>7, <1>8, <1>9, <1>10, <1>11, <1>12,
     <1>13, <1>14, <1>15, <1>16, <1>17, <1>18, <1>19, <1>20 DEF ChildSteps

\* No step lets the child overtake its parent.
LEMMA AckStep == TInv /\ AckInv /\ [Next]_vars => AckInv'
<1> SUFFICES ASSUME TInv, AckInv, [Next]_vars PROVE AckInv'
  OBVIOUS
<1>0. frame \in Frames /\ handled \in 0..NFrames /\ Frames = 1..NFrames /\ NFrames \in Nat
  BY LiveAssumption DEF TInv, TypeOK, WorkerTypeOK, PlaceTypeOK, Frames
<1>1. CASE Child
  <2>1. handled' = handled
    BY <1>1 DEF Child, parentVars
  <2>2. QED
    BY <1>0, <1>1, <2>1, FrameAdvance DEF Child, AckInv
<1>2. CASE Handle
  <2>1. handled' = handled + 1 /\ UNCHANGED <<ack, frame>>
    BY <1>2 DEF Handle, workerVars, childVars
  <2>2. QED
    BY <1>0, <2>1 DEF AckInv
<1>3. CASE WatchJournal \/ Acknowledge
  <2>1. UNCHANGED <<handled, frame>>
    BY <1>3 DEF WatchJournal, Acknowledge, childVars
  <2>2. \A f \in Frames : ack'[f] \in {ack[f], "stop"} \/ f = handled
    BY <1>0, <1>3 DEF WatchJournal, Acknowledge, PublishAck, TInv, TypeOK,
           WorkerTypeOK, FileTypeOK
  <2>3. QED
    BY <1>0, <2>1, <2>2 DEF AckInv
<1>4. CASE Killed \/ Launch \/ WatchReceipt \/ WatchExit \/ JoinChild \/ RequestStop
              \/ ParentDies \/ Ended \/ UNCHANGED vars
  <2>1. UNCHANGED <<handled, ack, frame>>
    BY <1>4 DEF Killed, ChildKilled, Launch, WatchReceipt, WatchExit, JoinChild,
           RequestStop, ParentDies, Ended, vars, workerVars, childVars, parentVars
  <2>2. QED
    BY <2>1 DEF AckInv
<1>5. QED
  BY <1>1, <1>2, <1>3, <1>4 DEF Next, ParentSteps

\* While the child works on a frame, the parent has consumed every earlier one.
THEOREM ParentIsFirst == Spec => []ParentConsumesFirst
<1>1. TInv /\ AckInv => ParentConsumesFirst
  BY LiveAssumption DEF AckInv, ParentConsumesFirst
<1>2. QED
  BY TypeInit, TypeStep, SafetyInit, AckStep, <1>1, PTL DEF Spec

\* Once a stop is requested no CONTINUE is published: the decision and the
\* publication are one step under the gate.
THEOREM StopWins == Spec => StopWinsTheGate
<1>1. TInv /\ [Next]_vars =>
          [stopRequested => \A f \in Frames : ack[f] = "none" => ack'[f] # "continue"]_vars
  <2> SUFFICES ASSUME TInv, Next, stopRequested
               PROVE  \A f \in Frames : ack[f] = "none" => ack'[f] # "continue"
    OBVIOUS
  <2>1. CASE Acknowledge \/ WatchJournal
    <3>1. ack' = ack \/ \E g : PublishAck(g, "stop")
      BY <2>1 DEF Acknowledge, WatchJournal
    <3>2. QED
      BY <3>1 DEF PublishAck, TInv, TypeOK, WorkerTypeOK, FileTypeOK
  <2>2. CASE Child
    BY <2>2, FrameAdvance DEF Child
  <2>3. CASE Killed \/ Launch \/ WatchReceipt \/ WatchExit \/ Handle \/ JoinChild
                \/ RequestStop \/ ParentDies \/ Ended
    <3>1. ack' = ack
      BY <2>3 DEF Killed, ChildKilled, Launch, WatchReceipt, WatchExit, Handle,
             JoinChild, RequestStop, ParentDies, Ended, vars, workerVars
    <3>2. QED
      BY <3>1
  <2>4. QED
    BY <2>1, <2>2, <2>3 DEF Next, ParentSteps
<1>2. QED
  BY TypeInit, TypeStep, <1>1, PTL DEF Spec, StopWinsTheGate

-----------------------------------------------------------------------------
(* What is made, handed over and reported.                                 *)

\* Published, and perhaps overwritten later by an error path.
Made(f) == journal[f] \in {"complete", "spoiled"}

\* The journals tell which frame the child is at and how far.
FramesInv ==
    /\ \A f \in Frames : /\ f < frame => journal[f] = "complete"
                         /\ f > frame => journal[f] = "none"
    /\ child \in {"unborn", "start", "open"} => journal[frame] = "none"
    /\ child \in {"connect", "reserve"} \cup FramePcs => journal[frame] = "open"
    /\ child \in {"book", "await", "prepare", "release", "report"} =>
           journal[frame] = "complete"
    /\ journal[frame] = "spoiled" => child = "exited" \/ (frame > 1 /\ child # "spoil")

\* The parent takes the frame the child has published last, and no other.
HandoverInv ==
    /\ handled <= frame
    /\ handled = frame => Made(frame)
    /\ parent = "handler" => handled = frame - 1 /\ Made(frame)
    /\ parent = "ack" => handled = frame /\ ack[frame] # "continue"

\* A STOP ends the parent's watch, and answers the child's last frame.
StopInv ==
    /\ stopped => /\ parent \in {"join", "returned", "gone"}
                  /\ ack[frame] = "stop" /\ Made(frame)
    /\ refused => monitorError

\* A frame made after the stop is the last: nobody will ask for another.
LateInv ==
    late > 0 => /\ late = 1 /\ stopRequested
                /\ Made(frame) /\ ack[frame] # "continue"

\* What the release and the end of the child say of its frames.
ReportInv ==
    /\ child \in {"prepare", "release", "report"} =>
           receipt.completed = frame /\ (~batchStopped => frame = NFrames)
    /\ returncode = "ok" =>
           /\ child = "exited" /\ disk.completed = frame
           /\ journal[frame] = "complete"
           /\ disk.status = "complete" => frame = NFrames
    /\ returncode = "bootstrap" =>
           child = "exited" /\ frame = 1 /\ journal[frame] = "none"

\* The verdict is the last word, and no word is said while the child runs.
JoinInv ==
    /\ outcome # "pending" => parent = "returned"
    /\ parent = "returned" => child \in {"unborn", "exited"}
    /\ CompleteIsWhole

\* What the child sees to, and what the two see to together.
MadeInv == FramesInv /\ ReportInv
HandInv == HandoverInv /\ StopInv /\ LateInv /\ JoinInv

-----------------------------------------------------------------------------
(* The child's part.                                                       *)

\* Every step of the child publishes in order and reports what it published.
LEMMA MadeChild ==
    ASSUME TInv, ReleaseInv, MadeInv, ChildSteps
    PROVE  MadeInv'
<1> USE LiveAssumption DEF MadeInv, TInv, TypeOK, WorkerTypeOK, PlaceTypeOK,
        FileTypeOK, Frames
<1>1. CASE ChildStarts
  <2>1. FramesInv'
    BY <1>1 DEF ChildStarts, Exit, GoOn, NoReceipt, FramesInv, ScansLeft, EarlyPcs, FramePcs
  <2>2. ReportInv'
    BY <1>1 DEF ChildStarts, Exit, GoOn, NoReceipt, ReportInv, FramesInv, ScansLeft,
           EarlyPcs, sessionVars, CompletedTracks, SessionTypeOK, Receipts
  <2>3. QED
    BY <2>1, <2>2
<1>2. CASE Connect
  <2>1. FramesInv'
    BY <1>2 DEF Connect, Persist, Raise, GoOn, FramesInv, ScansLeft, EarlyPcs, FramePcs
  <2>2. ReportInv'
    BY <1>2 DEF Connect, Persist, Raise, GoOn, ReportInv, FramesInv, ScansLeft, EarlyPcs,
           sessionVars, CompletedTracks, SessionTypeOK, Receipts
  <2>3. QED
    BY <2>1, <2>2
<1>3. CASE Reserve
  <2>1. FramesInv'
    BY <1>3 DEF Reserve, Persist, Raise, GoOn, FramesInv, ScansLeft, EarlyPcs, FramePcs
  <2>2. ReportInv'
    BY <1>3 DEF Reserve, Persist, Raise, GoOn, ReportInv, FramesInv, ScansLeft, EarlyPcs,
           sessionVars, CompletedTracks, SessionTypeOK, Receipts
  <2>3. QED
    BY <2>1, <2>2
<1>4. CASE FrameFails
  <2>1. FramesInv'
    BY <1>4 DEF FrameFails, Raise, FramesInv, ScansLeft, EarlyPcs, FramePcs
  <2>2. ReportInv'
    BY <1>4 DEF FrameFails, Raise, ReportInv, FramesInv, ScansLeft, EarlyPcs, sessionVars,
           CompletedTracks, SessionTypeOK, Receipts
  <2>3. QED
    BY <2>1, <2>2
<1>5. CASE ArmScan
  <2>1. FramesInv'
    BY <1>5 DEF ArmScan, Raise, GoOn, FramesInv, ScansLeft, EarlyPcs, FramePcs
  <2>2. ReportInv'
    BY <1>5 DEF ArmScan, Raise, GoOn, ReportInv, FramesInv, ScansLeft, EarlyPcs, sessionVars,
           CompletedTracks, SessionTypeOK, Receipts
  <2>3. QED
    BY <2>1, <2>2
<1>6. CASE DrainScan
  <2>1. FramesInv'
    BY <1>6 DEF DrainScan, Raise, GoOn, FramesInv, ScansLeft, EarlyPcs, FramePcs
  <2>2. ReportInv'
    BY <1>6 DEF DrainScan, Raise, GoOn, ReportInv, FramesInv, ScansLeft, EarlyPcs, sessionVars,
           CompletedTracks, SessionTypeOK, Receipts
  <2>3. QED
    BY <2>1, <2>2
<1>7. CASE WaitReady
  <2>1. FramesInv'
    BY <1>7 DEF WaitReady, Raise, GoOn, FramesInv, ScansLeft, EarlyPcs, FramePcs
  <2>2. ReportInv'
    BY <1>7 DEF WaitReady, Raise, GoOn, ReportInv, FramesInv, ScansLeft, EarlyPcs, sessionVars,
           CompletedTracks, SessionTypeOK, Receipts
  <2>3. QED
    BY <2>1, <2>2
<1>8. CASE PublishFrame
  <2>1. FramesInv'
    BY <1>8 DEF PublishFrame, PersistFrame, Raise, GoOn, FramesInv, ScansLeft, EarlyPcs,
             FramePcs
  <2>2. ReportInv'
    BY <1>8 DEF PublishFrame, PersistFrame, Raise, GoOn, ReportInv, FramesInv, ScansLeft,
           EarlyPcs, sessionVars, CompletedTracks, SessionTypeOK, Receipts
  <2>3. QED
    BY <2>1, <2>2
<1>9. CASE BookFrame
  <2>1. FramesInv'
    BY <1>9 DEF BookFrame, Persist, Raise, GoOn, FramesInv, ScansLeft, EarlyPcs, FramePcs
  <2>2. ReportInv'
    BY <1>9 DEF BookFrame, Persist, Raise, GoOn, ReportInv, FramesInv, ScansLeft, EarlyPcs,
           sessionVars, CompletedTracks, SessionTypeOK, Receipts
  <2>3. QED
    BY <2>1, <2>2
<1>10. CASE AwaitAck
  <2>1. FramesInv'
    BY <1>10 DEF AwaitAck, NextFrame, EndFrames, AckTimeout, LastFrame, Persist, Raise, GoOn,
           FramesInv, ScansLeft, EarlyPcs, FramePcs
  <2>2. ReportInv'
    BY <1>10 DEF AwaitAck, NextFrame, EndFrames, AckTimeout, LastFrame, Persist, Raise, GoOn,
           ReportInv, FramesInv, ScansLeft, EarlyPcs, sessionVars,
           CompletedTracks, SessionTypeOK, Receipts
  <2>3. QED
    BY <2>1, <2>2
<1>11. CASE OpenFrame
  <2>1. FramesInv'
    BY <1>11 DEF OpenFrame, PersistFrame, Raise, GoOn, FramesInv, ScansLeft, EarlyPcs, FramePcs
  <2>2. ReportInv'
    BY <1>11 DEF OpenFrame, PersistFrame, Raise, GoOn, ReportInv, FramesInv, ScansLeft,
           EarlyPcs, sessionVars, CompletedTracks, SessionTypeOK, Receipts
  <2>3. QED
    BY <2>1, <2>2
<1>12. CASE PrepareRelease
  <2>1. FramesInv'
    BY <1>12 DEF PrepareRelease, Persist, Raise, GoOn, FramesInv, ScansLeft, EarlyPcs, FramePcs
  <2>2. ReportInv'
    BY <1>12 DEF PrepareRelease, Persist, Raise, GoOn, ReportInv, FramesInv, ScansLeft,
           EarlyPcs, sessionVars, CompletedTracks, SessionTypeOK, Receipts
  <2>3. QED
    BY <2>1, <2>2
<1>13. CASE Release
  <2>1. FramesInv'
    BY <1>13 DEF Release, Raise, GoOn, FramesInv, ScansLeft, EarlyPcs, FramePcs
  <2>2. ReportInv'
    BY <1>13 DEF Release, Raise, GoOn, ReportInv, FramesInv, ScansLeft, EarlyPcs, sessionVars,
           CompletedTracks, SessionTypeOK, Receipts
  <2>3. QED
    BY <2>1, <2>2
<1>14. CASE Report
  <2>1. FramesInv'
    BY <1>14 DEF Report, Persist, Raise, GoOn, FramesInv, ScansLeft, EarlyPcs, FramePcs
  <2>2. ReportInv'
    BY <1>14 DEF Report, Persist, Raise, GoOn, ReportInv, FramesInv, ScansLeft, EarlyPcs,
           sessionVars, CompletedTracks, SessionTypeOK, Receipts
  <2>3. QED
    BY <2>1, <2>2
<1>15. CASE Spoil
  <2>1. FramesInv'
    BY <1>15 DEF Spoil, Exit, FramesInv, ScansLeft, EarlyPcs, FramePcs
  <2>2. ReportInv'
    BY <1>15 DEF Spoil, Exit, ReportInv, FramesInv, ScansLeft, EarlyPcs, sessionVars,
           CompletedTracks, SessionTypeOK, Receipts
  <2>3. QED
    BY <2>1, <2>2
<1>16. CASE StartCleanup
  <2>1. FramesInv'
    BY <1>16 DEF StartCleanup, FramesInv, ScansLeft, EarlyPcs, FramePcs
  <2>2. ReportInv'
    BY <1>16 DEF StartCleanup, ReportInv, FramesInv, ScansLeft, EarlyPcs, sessionVars,
           CompletedTracks, SessionTypeOK, Receipts
  <2>3. QED
    BY <2>1, <2>2
<1>17. CASE CleanupCancel
  <2>1. FramesInv'
    BY <1>17 DEF CleanupCancel, FramesInv, ScansLeft, EarlyPcs, FramePcs
  <2>2. ReportInv'
    BY <1>17 DEF CleanupCancel, ReportInv, FramesInv, ScansLeft, EarlyPcs, sessionVars,
           CompletedTracks, SessionTypeOK, Receipts
  <2>3. QED
    BY <2>1, <2>2
<1>18. CASE CleanupSettle
  <2>1. FramesInv'
    BY <1>18 DEF CleanupSettle, FramesInv, ScansLeft, EarlyPcs, FramePcs
  <2>2. ReportInv'
    BY <1>18 DEF CleanupSettle, ReportInv, FramesInv, ScansLeft, EarlyPcs, sessionVars,
           CompletedTracks, SessionTypeOK, Receipts
  <2>3. QED
    BY <2>1, <2>2
<1>19. CASE CleanupRelease
  <2>1. FramesInv'
    BY <1>19 DEF CleanupRelease, FramesInv, ScansLeft, EarlyPcs, FramePcs
  <2>2. ReportInv'
    BY <1>19 DEF CleanupRelease, ReportInv, FramesInv, ScansLeft, EarlyPcs, sessionVars,
           CompletedTracks, SessionTypeOK, Receipts
  <2>3. QED
    BY <2>1, <2>2
<1>20. CASE ReportFailure
  <2>1. FramesInv'
    BY <1>20 DEF ReportFailure, Exit, ReleaseInv, FinalizedInv, FramesInv, ScansLeft,
           EarlyPcs, FramePcs
  <2>2. ReportInv'
    BY <1>20 DEF ReportFailure, Exit, ReportInv, FramesInv, ScansLeft, EarlyPcs, sessionVars,
           CompletedTracks, SessionTypeOK, Receipts
  <2>3. QED
    BY <2>1, <2>2
<1>21. QED
  BY <1>1, <1>2, <1>3, <1>4, <1>5, <1>6, <1>7, <1>8, <1>9, <1>10, <1>11, <1>12, <1>13, <1>14,
     <1>15, <1>16, <1>17, <1>18, <1>19, <1>20 DEF ChildSteps

\* What is published stays published, and a frame is published by the step of a
\* child that has captured it.
LEMMA MadeStays ==
    ASSUME TInv, MadeInv, ChildSteps
    PROVE  /\ \A f \in Frames : Made(f) => Made(f)'
           /\ \A f \in Frames : Made(f)' /\ ~Made(f) =>
                  /\ f = frame /\ frame' = frame
                  /\ child = "captured" /\ journal'[frame] = "complete"
           /\ UNCHANGED scannerVars \/ (\A f \in Frames : Made(f)' => Made(f))
<1> USE LiveAssumption DEF MadeInv, FramesInv, TInv, TypeOK, WorkerTypeOK, PlaceTypeOK,
        FileTypeOK, Frames, Made
<1>1. CASE PublishFrame \/ OpenFrame
  BY <1>1 DEF PublishFrame, OpenFrame, PersistFrame, FramePcs
<1>2. CASE ChildStarts
  BY <1>2 DEF ChildStarts, ScansLeft, EarlyPcs
<1>8. CASE Spoil
  BY <1>8 DEF Spoil
<1>3. CASE journal' = journal
  BY <1>3
<1>4. CASE Connect \/ Reserve \/ FrameFails \/ ArmScan \/ DrainScan \/ WaitReady
  BY <1>3, <1>4 DEF Connect, Reserve, FrameFails, ArmScan, DrainScan, WaitReady
<1>5. CASE BookFrame \/ AwaitAck \/ PrepareRelease \/ Release \/ Report
  BY <1>3, <1>5 DEF BookFrame, AwaitAck, PrepareRelease, Release, Report
<1>6. CASE StartCleanup \/ CleanupCancel \/ CleanupSettle \/ CleanupRelease \/ ReportFailure
  BY <1>3, <1>6 DEF StartCleanup, CleanupCancel, CleanupSettle, CleanupRelease,
         ReportFailure
<1>7. QED
  BY <1>1, <1>2, <1>4, <1>5, <1>6, <1>8 DEF ChildSteps

LEMMA MadeStep == TInv /\ ReleaseInv /\ MadeInv /\ [Next]_vars => MadeInv'
<1> SUFFICES ASSUME TInv, ReleaseInv, MadeInv, [Next]_vars PROVE MadeInv'
  OBVIOUS
<1>1. CASE Child
  BY <1>1, MadeChild DEF Child
<1>2. CASE Killed
  BY <1>2 DEF Killed, ChildKilled, Exit, MadeInv, FramesInv, ReportInv, FramePcs,
         sessionVars
<1>3. CASE Launch
  BY <1>3 DEF Launch, TInv, HandlerRoom, MadeInv, FramesInv, ReportInv, FramePcs,
         sessionVars
<1>4. CASE UNCHANGED <<scannerVars, childVars>>
  BY <1>4 DEF childVars, sessionVars, MadeInv, FramesInv, ReportInv
<1>5. QED
  BY <1>1, <1>2, <1>3, <1>4, OtherSteps

-----------------------------------------------------------------------------
(* The two together.                                                       *)

LEMMA HandChild ==
    ASSUME TInv, MadeInv, AckInv, HandInv, Child
    PROVE  HandInv'
<1> USE LiveAssumption DEF TInv, TypeOK, WorkerTypeOK, PlaceTypeOK, Frames
<1>1. UNCHANGED <<parentVars, ack>> /\ ChildSteps
  BY FrameAdvance DEF Child
<1>2. frame' = frame \/ (ack[frame] = "continue" /\ frame' = frame + 1)
  BY <1>1, FrameAdvance
<1>3. Made(frame) => journal'[frame] \in {"complete", "spoiled"}
  BY <1>1, MadeStays DEF Made
<1>4. ack[frame] = "continue" => handled = frame
  BY DEF AckInv, HandInv, HandoverInv
<1>5. HandoverInv'
  BY <1>1, <1>2, <1>3, <1>4 DEF HandInv, HandoverInv, parentVars, Made
<1>6. StopInv'
  BY <1>1, <1>2, <1>3 DEF HandInv, StopInv, parentVars, Made
<1>7. LateInv'
  <2>1. CASE late' = late
    BY <1>1, <1>2, <1>3, <2>1 DEF HandInv, LateInv, parentVars, Made
  <2>2. CASE late' # late
    <3>1. /\ late' = late + 1 /\ stopRequested
          /\ child = "captured" /\ journal'[frame] = "complete"
      BY <2>2 DEF Child
    <3>2. ~Made(frame)
      BY <3>1 DEF MadeInv, FramesInv, FramePcs, Made
    <3>3. ack[frame] # "continue" /\ late = 0
      BY <1>4, <3>2 DEF HandInv, HandoverInv, LateInv
    <3>4. QED
      BY <1>1, <1>2, <3>1, <3>3 DEF LateInv, parentVars, Made
  <2>3. QED
    BY <2>1, <2>2
<1>8. JoinInv'
  BY <1>1, ChildAlive DEF HandInv, JoinInv, CompleteIsWhole, parentVars
<1>9. QED
  BY <1>5, <1>6, <1>7, <1>8 DEF HandInv

\* A frame that the parent finds complete is the one after those it handled, and
\* the one the child waits with.
LEMMA WatchedIsLast ==
    ASSUME TInv, MadeInv, AckInv, HandInv, handled < NFrames, journal[Watched] = "complete"
    PROVE  handled = frame - 1 /\ Watched = frame /\ Made(frame)
<1>1. Watched \in Frames /\ frame \in Frames /\ handled \in Nat /\ frame \in Nat
  BY LiveAssumption DEF Watched, TInv, TypeOK, WorkerTypeOK, PlaceTypeOK, Frames
<1>2. Watched <= frame
  BY <1>1, LiveAssumption DEF MadeInv, FramesInv, Frames
<1>3. QED
  BY <1>1, <1>2 DEF Watched, AckInv, Made

\* A verdict of "complete" is a receipt about exactly the frames that were handled.
VerdictIsWhole ==
    /\ handled = frame /\ journal[frame] = "complete"
    /\ ~handlerError
    /\ ~stopped => frame = NFrames

LEMMA WholeVerdict ==
    ASSUME TInv, MadeInv, HandInv, Verdict = "complete"
    PROVE  VerdictIsWhole
<1>1. returncode = "ok" /\ ~monitorError /\ ~handlerError /\ Trusted
  BY DEF Verdict
<1>2. ~refused
  BY <1>1 DEF HandInv, StopInv
<1>3. disk.completed = handled
  BY <1>1, <1>2 DEF Trusted, ExpectedCompleted, TInv, TypeOK
<1>4. disk.completed = frame /\ journal[frame] = "complete"
  BY <1>1 DEF MadeInv, ReportInv
<1>5. ~stopped => disk.status = "complete"
  BY <1>1 DEF Trusted, SuccessReceipt
<1>6. QED
  BY <1>1, <1>3, <1>4, <1>5 DEF VerdictIsWhole, MadeInv, ReportInv

LEMMA HandParent ==
    ASSUME TInv, MadeInv, AckInv, HandInv, ParentSteps
    PROVE  HandInv'
<1> USE LiveAssumption DEF TInv, TypeOK, WorkerTypeOK, PlaceTypeOK, FileTypeOK, Frames,
        HandInv, HandlerRoom
<1>1. CASE Launch
  BY <1>1 DEF Launch, HandoverInv, StopInv, LateInv, JoinInv, CompleteIsWhole, Made,
         FramePcs, ScansLeft, EarlyPcs
<1>2. CASE WatchJournal
  <2>1. UNCHANGED <<frame, journal, child, late, stopRequested, handled, outcome>>
    BY <1>2 DEF WatchJournal, childVars
  <2>2. parent = "journal" /\ outcome = "pending" /\ ~stopped
    BY <1>2 DEF WatchJournal, JoinInv, StopInv
  <2>3. CASE journal[Watched] # "complete" \/ UNCHANGED <<ack, stopped, refused>>
    <3>1. UNCHANGED <<ack, stopped, refused>> /\ (monitorError => monitorError')
      BY <1>2, <2>3 DEF WatchJournal
    <3>2. parent' = "handler" => journal[Watched] = "complete"
      BY <1>2, <2>3 DEF WatchJournal
    <3>3. parent' \in {"receipt", "handler", "join"}
      BY <1>2 DEF WatchJournal
    <3>4. QED
      BY <2>1, <2>2, <3>1, <3>2, <3>3, WatchedIsLast
         DEF HandoverInv, StopInv, LateInv, JoinInv, CompleteIsWhole, Made
  <2>4. CASE /\ journal[Watched] = "complete" /\ PublishAck(Watched, "stop")
             /\ stopped' /\ refused' /\ monitorError' /\ parent' = "join"
    <3>1. Watched = frame /\ Made(frame)
      BY <2>2, <2>4, WatchedIsLast
    <3>2. ack' = [ack EXCEPT ![frame] = "stop"]
      BY <2>4, <3>1 DEF PublishAck
    <3>3. QED
      BY <2>1, <2>2, <2>4, <3>1, <3>2
         DEF HandoverInv, StopInv, LateInv, JoinInv, CompleteIsWhole, Made
  <2>5. QED
    BY <1>2, <2>3, <2>4 DEF WatchJournal
<1>3. CASE WatchReceipt \/ WatchExit
  <2>1. UNCHANGED <<workerVars, late, stopRequested, handled, outcome, stopped, refused>>
    BY <1>3 DEF WatchReceipt, WatchExit
  <2>2. /\ parent \in {"receipt", "poll"} /\ parent' \in {"poll", "join", "journal"}
        /\ monitorError => monitorError'
    BY <1>3 DEF WatchReceipt, WatchExit
  <2>3. QED
    BY <2>1, <2>2 DEF workerVars, childVars, HandoverInv, StopInv, LateInv, JoinInv,
           CompleteIsWhole, Made
<1>4. CASE Handle
  <2>1. UNCHANGED <<workerVars, late, stopRequested, outcome, stopped, refused, monitorError>>
    BY <1>4 DEF Handle
  <2>2. parent = "handler" /\ parent' = "ack" /\ handled' = handled + 1
    BY <1>4 DEF Handle
  <2>3. handled = frame - 1 /\ Made(frame) /\ ack[frame] # "continue"
    BY <2>2 DEF HandoverInv, AckInv
  <2>4. QED
    BY <2>1, <2>2, <2>3 DEF workerVars, childVars, HandoverInv, StopInv, LateInv, JoinInv,
           CompleteIsWhole, Made
<1>5. CASE Acknowledge
  <2>1. UNCHANGED <<frame, journal, child, late, stopRequested, handled, outcome, refused>>
    BY <1>5 DEF Acknowledge, childVars
  <2>2. /\ parent = "ack" /\ parent' \in {"join", "journal"}
        /\ handled = frame /\ Made(frame) /\ outcome = "pending" /\ ~stopped
    BY <1>5 DEF Acknowledge, HandoverInv, JoinInv, StopInv
  <2>3. /\ monitorError => monitorError'
        /\ \/ UNCHANGED <<ack, stopped>>
           \/ /\ ack' = [ack EXCEPT ![frame] = IF stopRequested THEN "stop" ELSE action]
              /\ stopped' => ack'[frame] = "stop" /\ parent' = "join"
    BY <1>5, <2>2 DEF Acknowledge, PublishAck
  <2>4. QED
    BY <2>1, <2>2, <2>3
       DEF HandoverInv, StopInv, LateInv, JoinInv, CompleteIsWhole, Made
<1>6. CASE JoinChild
  <2>1. UNCHANGED <<workerVars, late, stopRequested, handled, stopped, refused, monitorError,
                    handlerError>>
    BY <1>6 DEF JoinChild
  <2>2. /\ parent = "join" /\ parent' = "returned" /\ child = "exited" /\ outcome' = Verdict
    BY <1>6 DEF JoinChild
  <2>3. Verdict = "complete" => VerdictIsWhole
    BY WholeVerdict
  <2>4. QED
    BY <2>1, <2>2, <2>3 DEF workerVars, childVars, HandoverInv, StopInv, LateInv, JoinInv,
           CompleteIsWhole, Made, VerdictIsWhole, MadeInv, FramesInv
<1>7. QED
  BY <1>1, <1>2, <1>3, <1>4, <1>5, <1>6 DEF ParentSteps

LEMMA HandStep == TInv /\ MadeInv /\ AckInv /\ HandInv /\ [Next]_vars => HandInv'
<1> SUFFICES ASSUME TInv, MadeInv, AckInv, HandInv, [Next]_vars PROVE HandInv'
  OBVIOUS
<1> USE DEF HandInv, HandoverInv, StopInv, LateInv, JoinInv, CompleteIsWhole, Made
<1>1. CASE Child
  BY <1>1, HandChild
<1>2. CASE ParentSteps
  BY <1>2, HandParent
<1>3. CASE RequestStop
  BY <1>3 DEF RequestStop, workerVars, childVars
<1>4. CASE ParentDies
  BY <1>4 DEF ParentDies, workerVars, childVars
<1>5. CASE Killed
  BY <1>5 DEF Killed, ChildKilled, Exit, parentVars
<1>6. CASE Ended \/ UNCHANGED vars
  BY <1>6 DEF Ended, vars, workerVars, childVars, parentVars
<1>7. QED
  BY <1>1, <1>2, <1>3, <1>4, <1>5, <1>6 DEF Next

LEMMA HandInit == Init => MadeInv /\ HandInv
<1> USE LiveAssumption DEF Init, WorkerInit
<1> SUFFICES ASSUME Init PROVE MadeInv /\ HandInv
  OBVIOUS
<1>1. MadeInv
  BY DEF MadeInv, FramesInv, ReportInv, FramePcs, Frames
<1>2. HandInv
  BY DEF HandInv, HandoverInv, StopInv, LateInv, JoinInv, CompleteIsWhole, Made, Frames
<1>3. QED
  BY <1>1, <1>2

\* A batch is called complete only if the parent consumed every frame the child
\* made, its handler never failed, and no frame is missing but after a stop
\* (run_batch_session's verdict, and the counts it wants in the receipt).
THEOREM WholeWhenComplete == Spec => []CompleteIsWhole
<1>1. HandInv => CompleteIsWhole
  BY DEF HandInv, JoinInv
<1>2. QED
  BY TypeInit, TypeStep, SafetyInit, ReleaseStep, AckStep, HandInit, MadeStep, HandStep,
     <1>1, PTL DEF Spec

-----------------------------------------------------------------------------
(* The contract.                                                           *)

\* Frames are published in order, so that the current frame tells how many are.
LEMMA CountInOrder ==
    ASSUME LiveAssumption, NEW j, NEW k \in Frames,
           \A f \in Frames : /\ f < k => j[f] = "complete"
                             /\ f > k => j[f] = "none"
    PROVE  Cardinality({f \in Frames : j[f] \in {"complete", "spoiled"}}) =
               IF j[k] \in {"complete", "spoiled"} THEN k ELSE k - 1
<1> DEFINE Published == {f \in Frames : j[f] \in {"complete", "spoiled"}}
           last == IF j[k] \in {"complete", "spoiled"} THEN k ELSE k - 1
<1>1. k \in Int /\ last \in Int /\ last >= 0
  BY DEF LiveAssumption, Frames
<1>2. Published = 1..last
  BY DEF LiveAssumption, Frames
<1>3. Cardinality(1..last) = last
  BY <1>1, FS_Interval
<1>4. QED
  BY <1>2, <1>3

\* The contract's count of the frames made.
MadeCount == Cardinality({f \in Frames : journal[f] \in {"complete", "spoiled"}})

LEMMA CountNow ==
    ASSUME TInv, FramesInv
    PROVE  MadeCount = IF Made(frame) THEN frame ELSE frame - 1
  BY CountInOrder, LiveAssumption
     DEF MadeCount, Made, FramesInv, TInv, TypeOK, WorkerTypeOK, PlaceTypeOK

\* What the contract's caller sees.
ContractView == <<MadeCount, handled, stopRequested \/ stopped, late, ~ScannerFree, outcome>>

\* Everything the steps of the session and their images rest on.
SessionInv ==
    /\ TInv /\ ReleaseInv /\ TrackInv /\ VerdictInv /\ AckInv
    /\ MadeInv /\ HandInv

\* A step that publishes a frame makes it, in turn and at most one after a stop;
\* any other step of the child concerns the scanner or nobody.
LEMMA ChildKeepsContract ==
    ASSUME SessionInv, SessionInv', Child
    PROVE  Contract!Make \/ Contract!UseScanner \/ UNCHANGED ContractView
<1> USE DEF SessionInv
<1>1. /\ ChildSteps
      /\ UNCHANGED <<handled, stopRequested, stopped, outcome>>
  BY DEF Child, parentVars
<1>2. outcome = "pending"
  BY <1>1, ChildAlive DEF HandInv, JoinInv
<1>3. \A f \in Frames : Made(f) => Made(f)'
  BY <1>1, MadeStays
<1>4. /\ frame \in Nat /\ frame \in Frames /\ frame <= NFrames
      /\ handled \in Nat /\ late \in Nat
  BY LiveAssumption DEF TInv, TypeOK, WorkerTypeOK, PlaceTypeOK, Frames
<1>5. CASE \E f \in Frames : Made(f)' /\ ~Made(f)
  <2>1. /\ frame' = frame /\ child = "captured" /\ journal'[frame] = "complete"
        /\ ~Made(frame)
    BY <1>1, <1>5, MadeStays
  <2>2. UNCHANGED scannerVars
    BY <1>1, <1>5, MadeStays
  <2>3. ScannerFree' <=> ScannerFree
    BY <2>2 DEF ScannerFree, scannerVars
  <2>4. MadeCount = frame - 1
    BY <2>1, CountNow DEF MadeInv
  <2>5. MadeCount' = frame
    <3>1. MadeCount' = IF journal'[frame'] \in {"complete", "spoiled"}
                            THEN frame' ELSE frame' - 1
      BY CountInOrder, LiveAssumption
         DEF MadeCount, MadeInv, FramesInv, TInv, TypeOK, WorkerTypeOK, PlaceTypeOK
    <3>2. QED
      BY <2>1, <3>1
  <2>6. handled = frame - 1
    BY <1>4, <2>1 DEF AckInv, HandInv, HandoverInv
  <2>7. ~stopped /\ late = 0
    BY <1>4, <2>1 DEF HandInv, StopInv, LateInv
  <2>8. late' = IF stopRequested \/ stopped THEN late + 1 ELSE late
    BY <2>1, <2>7 DEF Child, HandInv, StopInv
  <2>9. /\ MadeCount < NFrames /\ handled = MadeCount
        /\ MadeCount' = MadeCount + 1
    BY <1>4, <2>4, <2>5, <2>6, LiveAssumption
  <2>10. Contract!Make
    BY <1>1, <1>2, <2>3, <2>7, <2>8, <2>9
       DEF Contract!Make, Contract!Pending, MadeCount
  <2>11. QED
    BY <2>10
<1>6. CASE \A f \in Frames : Made(f)' => Made(f)
  <2>1. MadeCount' = MadeCount
    <3>1. {f \in Frames : journal'[f] \in {"complete", "spoiled"}} =
              {f \in Frames : journal[f] \in {"complete", "spoiled"}}
      BY <1>3, <1>6 DEF Made
    <3>2. QED
      BY <3>1 DEF MadeCount
  <2>2. late' = late
    <3>1. child = "captured" /\ journal'[frame] = "complete" => ~Made(frame) /\ Made(frame)
      BY <1>4, <1>6 DEF MadeInv, FramesInv, FramePcs, Made
    <3>2. QED
      BY <3>1 DEF Child
  <2>3. QED
    BY <1>1, <1>2, <2>1, <2>2
       DEF Contract!UseScanner, Contract!Pending, ContractView, MadeCount, ScannerFree
<1>7. QED
  BY <1>5, <1>6

\* The handler consumes what was made; the verdict comes when the scanner is free
\* or is reported to need a power cycle.
LEMMA ParentKeepsContract ==
    ASSUME SessionInv, SessionInv', ParentSteps
    PROVE  \/ Contract!Consume \/ Contract!RequestStop \/ Contract!Finish
           \/ UNCHANGED ContractView
<1> USE DEF SessionInv
<1>1. UNCHANGED <<scannerVars, journal, frame, late>>
  BY DEF ParentSteps, Launch, WatchJournal, WatchReceipt, WatchExit, Handle, Acknowledge,
         JoinChild, workerVars, childVars
<1>2. MadeCount' = MadeCount /\ (ScannerFree' <=> ScannerFree)
  BY <1>1 DEF MadeCount, ScannerFree, scannerVars
<1>3. /\ frame \in Nat /\ handled \in Nat /\ frame >= 1
      /\ MadeCount = IF Made(frame) THEN frame ELSE frame - 1
  BY CountNow, LiveAssumption
     DEF MadeInv, TInv, TypeOK, WorkerTypeOK, PlaceTypeOK, Frames
<1>4. CASE Launch
  <2>1. CASE UNCHANGED outcome
    BY <1>1, <1>2, <1>4, <2>1 DEF Launch, ContractView
  <2>2. CASE outcome' = "not-launched"
    <3>1. child = "unborn" /\ handled = 0 /\ outcome = "pending"
      BY <1>4 DEF Launch, TInv, HandlerRoom, HandInv, JoinInv
    <3>2. MadeCount = 0
      BY <1>3, <3>1 DEF MadeInv, FramesInv, Made, AckInv
    <3>3. ScannerFree
      BY <3>1 DEF TrackInv, ScanAtPc, EarlyPcs, ScannerFree
    <3>4. QED
      BY <1>1, <1>2, <1>4, <2>2, <3>1, <3>2, <3>3
         DEF Launch, Contract!Finish, Contract!Pending, Contract!Usable, MadeCount
  <2>3. QED
    BY <1>4, <2>1, <2>2 DEF Launch
<1>5. CASE WatchJournal \/ WatchReceipt \/ WatchExit \/ Acknowledge
  <2>1. UNCHANGED <<handled, stopRequested, outcome>>
    BY <1>5 DEF WatchJournal, WatchReceipt, WatchExit, Acknowledge
  <2>2. stopped => stopped'
    BY <1>5 DEF WatchJournal, WatchReceipt, WatchExit, Acknowledge, HandInv, StopInv
  <2>3. stopped \in BOOLEAN /\ stopped' \in BOOLEAN /\ stopRequested \in BOOLEAN
    BY DEF TInv, TypeOK
  <2>4. QED
    BY <1>1, <1>2, <2>1, <2>2, <2>3 DEF Contract!RequestStop, ContractView, MadeCount
<1>6. CASE Handle
  <2>1. /\ handled = frame - 1 /\ Made(frame) /\ outcome = "pending"
        /\ handled' = handled + 1 /\ UNCHANGED <<stopRequested, stopped, outcome>>
    BY <1>6 DEF Handle, HandInv, HandoverInv, JoinInv
  <2>2. QED
    BY <1>1, <1>2, <1>3, <2>1 DEF Contract!Consume, Contract!Pending, MadeCount
<1>7. CASE JoinChild
  <2>1. /\ outcome = "pending" /\ outcome' = Verdict
        /\ UNCHANGED <<handled, stopRequested, stopped>>
    BY <1>7 DEF JoinChild, HandInv, JoinInv
  <2>2. /\ Verdict \in Outcomes \ {"not-launched"}
        /\ Verdict # "recovery-required" => ScannerFree
    BY VerdictIsTrue DEF Verdict
  <2>3. Verdict = "complete" => handled = MadeCount /\ (stopped \/ MadeCount = NFrames)
    BY <1>3, WholeVerdict DEF VerdictIsWhole, Made
  <2>4. Verdict = "bootstrap-failed" => MadeCount = 0
    BY <1>3 DEF Verdict, MadeInv, ReportInv, Made
  <2>5. QED
    BY <1>1, <1>2, <2>1, <2>2, <2>3, <2>4
       DEF Outcomes, Contract!Finish, Contract!Pending, Contract!Usable, MadeCount
<1>8. QED
  BY <1>4, <1>5, <1>6, <1>7 DEF ParentSteps

\* run_batch_session keeps its contract: frames are made one at a time, each
\* consumed before the next, at most one after a stop, and a verdict that lets the
\* scanner be used is given when it is free.
THEOREM SessionKeepsContract ==
    ASSUME ~UntracedEffects
    PROVE  Spec => KeepsContract
<1>1. Init => Contract!ContractInit
  <2> SUFFICES ASSUME Init PROVE Contract!ContractInit
    OBVIOUS
  <2>1. {f \in Frames : journal[f] \in {"complete", "spoiled"}} = {}
    BY DEF Init, WorkerInit
  <2>2. QED
    BY <2>1, FS_EmptySet DEF Init, WorkerInit, ScannerFree, Contract!ContractInit
<1>2. SessionInv /\ SessionInv' /\ [Next]_vars =>
          [Contract!ContractNext]_ContractView
  <2> SUFFICES ASSUME SessionInv, SessionInv', [Next]_vars
               PROVE  Contract!ContractNext \/ UNCHANGED ContractView
    OBVIOUS
  <2> USE DEF Contract!ContractNext
  <2>1. CASE Child
    BY <2>1, ChildKeepsContract
  <2>2. CASE ParentSteps
    BY <2>2, ParentKeepsContract
  <2>3. CASE RequestStop
    BY <2>3 DEF RequestStop, Contract!RequestStop, workerVars, childVars, scannerVars,
           ScannerFree, MadeCount
  <2>4. CASE Killed \/ ParentDies \/ Ended \/ UNCHANGED vars
    BY <2>4 DEF Killed, ChildKilled, ParentDies, Ended, vars, workerVars, childVars,
           scannerVars, parentVars, ScannerFree, ContractView, MadeCount
  <2>5. QED
    BY <2>1, <2>2, <2>3, <2>4 DEF Next
<1>3. Spec => []SessionInv
  BY TypeInit, TypeStep, SafetyInit, ReleaseStep, TrackStep, VerdictStep, AckStep, HandInit,
     MadeStep, HandStep, PTL DEF Spec, SessionInv
<1>4. QED
  BY <1>1, <1>2, <1>3, PTL
     DEF Spec, KeepsContract, Contract!ContractSpec, Contract!contractVars, ContractView,
         MadeCount

=============================================================================
