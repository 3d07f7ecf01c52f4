---------------------------- MODULE StreamProofs ----------------------------
(***************************************************************************)
(* Safety of module StreamSidecar, for any number of records and any queue *)
(* limit, with a decoder that may fail or hang anywhere.                   *)
(***************************************************************************)
EXTENDS StreamSidecar, TLAPS

-----------------------------------------------------------------------------
(* The inductive invariant.                                                *)

\* There is a result when every record is decoded and the thread has nothing
\* left to do; who publishes has seen a result, and has seen the thread gone.
Publishing == {"close", "linkData", "dropTemp", "linkReceipt", "verify", "kept"}
ResultInv ==
    /\ result => decoded = NRecords /\ decoder \in {"exit", "dead"}
    /\ caller \in Publishing \cup {"confirm"} => result
    /\ caller \in Publishing \cup {"cleaning"} => ~ThreadIsAlive

\* The mapping and its file appear at the start of the thread and are taken
\* away after its end.
MappingInv ==
    /\ mapping = "closed" => decoder = "dead"
    /\ decoder \in {"none", "factory", "map"} => mapping = "none" /\ ~tempPath
    /\ decoder = "map" => tempFile
    /\ tempPath => tempFile

\* The session knows which files are its own.
OwnInv ==
    /\ dataFile = "ours" <=> publishedData
    /\ receiptFile = "ours" <=> publishedReceipt
    /\ publishedData => result /\ decoder = "dead"

\* The receipt comes after the data and goes before it.
CommitInv ==
    /\ caller \in {"dropTemp", "linkReceipt", "verify", "kept"} => publishedData
    /\ caller \in {"verify", "kept"} => publishedReceipt
    /\ publishedReceipt => publishedData \/ "receipt" \in leaks
    /\ cleanup \in {"data", "temp", "over"} /\ publishedReceipt => "receipt" \in leaks

\* Only who gives up cleans up, when the thread is gone; who said ok has not
\* given up.
CleanupInv ==
    /\ cleanup # "idle" => answer = "abandoned" /\ caller \in {"cleaning", "over"}
    /\ cleanup \in {"receipt", "data", "temp", "over"} => ~ThreadIsAlive
    /\ caller = "retire" => answer = "abandoned"
    /\ answer = "ok" => caller \in {"kept", "over", "abandon"} /\ publishedReceipt
    /\ answer = "ok" => publishedData

SInv == TypeOK /\ ResultInv /\ MappingInv /\ OwnInv /\ CommitInv /\ CleanupInv

-----------------------------------------------------------------------------
(* Steps.                                                                  *)

\* A put into a queue that has room.
LEMMA Put ==
    ASSUME NEW x \in {"record", "end"}, QueueTypeOK, QueueHasRoom
    PROVE  /\ Append(queue, x) \in Seq({"record", "end"})
           /\ Len(Append(queue, x)) <= QueueLimit
<1>1. Append(queue, x) \in Seq({"record", "end"})
  BY DEF QueueTypeOK
<1>2. Len(Append(queue, x)) = Len(queue) + 1
  BY DEF QueueTypeOK
<1>3. Len(queue) \in Nat
  BY DEF QueueTypeOK
<1>4. QED
  BY <1>1, <1>2, <1>3, StreamAssumption DEF QueueHasRoom

\* No step of the decoder thread breaks the invariant.
LEMMA DecoderStep ==
    ASSUME SInv, Decoder
    PROVE  SInv'
<1> USE StreamAssumption DEF SInv, TypeOK
<1>1. CASE DecoderMakesTemp
  <2>1. ThreadTypeOK'
    BY <1>1 DEF DecoderMakesTemp, Fail, callerVars, ThreadTypeOK, DecoderPcs
  <2>2. QueueTypeOK'
    BY <1>1 DEF DecoderMakesTemp, Fail, QueueTypeOK
  <2>3. FileTypeOK'
    BY <1>1 DEF DecoderMakesTemp, ownVars, cleanupVars, FileTypeOK
  <2>4. ResultInv'
    BY <1>1 DEF DecoderMakesTemp, callerVars, ResultInv, ThreadIsAlive
  <2>5. MappingInv'
    BY <1>1 DEF DecoderMakesTemp, Fail, ownVars, MappingInv
  <2>6. OwnInv'
    BY <1>1 DEF DecoderMakesTemp, ownVars, OwnInv
  <2>7. CleanupInv'
    BY <1>1 DEF DecoderMakesTemp, callerVars, ownVars, cleanupVars, CleanupInv,
           ThreadIsAlive
  <2>8. CommitInv'
    BY <1>1 DEF DecoderMakesTemp, callerVars, ownVars, cleanupVars, CommitInv
  <2>9. QED
    BY <2>1, <2>2, <2>3, <2>4, <2>5, <2>6, <2>7, <2>8
<1>2. CASE DecoderMaps
  <2>1. ThreadTypeOK'
    BY <1>2 DEF DecoderMaps, Fail, callerVars, ThreadTypeOK, DecoderPcs
  <2>2. QueueTypeOK'
    BY <1>2 DEF DecoderMaps, Fail, QueueTypeOK
  <2>3. FileTypeOK'
    <3>1. CASE UNCHANGED tempFile
      BY <3>1, <1>2 DEF DecoderMaps, Fail, FileTypeOK
    <3>2. CASE tempFile' = FALSE
      BY <3>2, <1>2 DEF DecoderMaps, Fail, FileTypeOK
    <3>3. QED
      BY <3>1, <3>2, <1>2 DEF DecoderMaps, Fail
  <2>4. ResultInv'
    BY <1>2 DEF DecoderMaps, callerVars, ResultInv, ThreadIsAlive
  <2>5. MappingInv'
    <3>1. mapping' # "closed" /\ decoder' \notin {"none", "factory", "map"}
      BY <1>2 DEF DecoderMaps, Fail, MappingInv
    <3>2. tempPath' => tempFile'
      BY <1>2 DEF DecoderMaps, MappingInv
    <3>3. QED
      BY <3>1, <3>2 DEF MappingInv
  <2>6. OwnInv'
    BY <1>2 DEF DecoderMaps, OwnInv
  <2>7. CommitInv'
    BY <1>2 DEF DecoderMaps, callerVars, CommitInv
  <2>8. CleanupInv'
    BY <1>2 DEF DecoderMaps, callerVars, CleanupInv, ThreadIsAlive
  <2>9. QED
    BY <2>1, <2>2, <2>3, <2>4, <2>5, <2>6, <2>7, <2>8
<1>3. CASE DecoderLooks
  <2>1. ThreadTypeOK'
    BY <1>3 DEF DecoderLooks, callerVars, ThreadTypeOK, DecoderPcs
  <2>2. ResultInv'
    BY <1>3 DEF DecoderLooks, callerVars, consumerVars, ResultInv, ThreadIsAlive
  <2>3. MappingInv'
    BY <1>3 DEF DecoderLooks, ownVars, diskVars, MappingInv
  <2>4. OwnInv'
    BY <1>3 DEF DecoderLooks, ownVars, diskVars, OwnInv
  <2>5. CleanupInv'
    BY <1>3 DEF DecoderLooks, callerVars, ownVars, cleanupVars, CleanupInv,
           ThreadIsAlive
  <2>6. QueueTypeOK' /\ FileTypeOK' /\ CommitInv'
    BY <1>3 DEF DecoderLooks, consumerVars, QueueTypeOK, ownVars, cleanupVars,
           diskVars, FileTypeOK, callerVars, CommitInv
  <2>7. QED
    BY <2>1, <2>2, <2>3, <2>4, <2>5, <2>6
<1>4. CASE DecoderGets
  <2>1. ThreadTypeOK'
    BY <1>4 DEF DecoderGets, callerVars, ThreadTypeOK, DecoderPcs
  <2>2. QueueTypeOK'
    BY <1>4 DEF DecoderGets, QueueTypeOK
  <2>3. ResultInv'
    BY <1>4 DEF DecoderGets, callerVars, ResultInv, ThreadIsAlive
  <2>4. MappingInv'
    BY <1>4 DEF DecoderGets, ownVars, diskVars, MappingInv
  <2>5. OwnInv'
    BY <1>4 DEF DecoderGets, ownVars, diskVars, OwnInv
  <2>6. CleanupInv'
    BY <1>4 DEF DecoderGets, callerVars, ownVars, cleanupVars, CleanupInv,
           ThreadIsAlive
  <2>7. FileTypeOK' /\ CommitInv'
    BY <1>4 DEF DecoderGets, ownVars, cleanupVars, diskVars, FileTypeOK, callerVars,
           CommitInv
  <2>8. QED
    BY <2>1, <2>2, <2>3, <2>4, <2>5, <2>6, <2>7
<1>5. CASE DecoderPushes
  <2>1. ThreadTypeOK'
    BY <1>5 DEF DecoderPushes, Fail, callerVars, ThreadTypeOK, DecoderPcs
  <2>2. QueueTypeOK'
    BY <1>5 DEF DecoderPushes, Fail, QueueTypeOK
  <2>3. ResultInv'
    BY <1>5 DEF DecoderPushes, callerVars, ResultInv, ThreadIsAlive
  <2>4. MappingInv'
    BY <1>5 DEF DecoderPushes, Fail, ownVars, diskVars, MappingInv
  <2>5. OwnInv'
    BY <1>5 DEF DecoderPushes, ownVars, diskVars, OwnInv
  <2>6. CleanupInv'
    BY <1>5 DEF DecoderPushes, callerVars, ownVars, cleanupVars, CleanupInv,
           ThreadIsAlive
  <2>7. FileTypeOK' /\ CommitInv'
    BY <1>5 DEF DecoderPushes, ownVars, cleanupVars, diskVars, FileTypeOK,
           callerVars, CommitInv
  <2>8. QED
    BY <2>1, <2>2, <2>3, <2>4, <2>5, <2>6, <2>7
<1>6. CASE DecoderFinishes
  <2>1. ThreadTypeOK'
    BY <1>6 DEF DecoderFinishes, Fail, callerVars, ThreadTypeOK, DecoderPcs
  <2>2. QueueTypeOK'
    BY <1>6 DEF DecoderFinishes, Fail, QueueTypeOK
  <2>3. ResultInv'
    BY <1>6 DEF DecoderFinishes, callerVars, ResultInv, ThreadIsAlive
  <2>4. MappingInv'
    BY <1>6 DEF DecoderFinishes, Fail, ownVars, diskVars, MappingInv
  <2>5. OwnInv'
    BY <1>6 DEF DecoderFinishes, ownVars, diskVars, OwnInv
  <2>6. CleanupInv'
    BY <1>6 DEF DecoderFinishes, callerVars, ownVars, cleanupVars, CleanupInv,
           ThreadIsAlive
  <2>7. FileTypeOK' /\ CommitInv'
    BY <1>6 DEF DecoderFinishes, ownVars, cleanupVars, diskVars, FileTypeOK,
           callerVars, CommitInv
  <2>8. QED
    BY <2>1, <2>2, <2>3, <2>4, <2>5, <2>6, <2>7
<1>7. CASE DecoderExits
  <2>1. ThreadTypeOK'
    BY <1>7 DEF DecoderExits, callerVars, ThreadTypeOK, DecoderPcs
  <2>2. ResultInv'
    BY <1>7 DEF DecoderExits, callerVars, consumerVars, ResultInv, ThreadIsAlive
  <2>3. MappingInv'
    BY <1>7 DEF DecoderExits, ownVars, diskVars, MappingInv
  <2>4. OwnInv'
    BY <1>7 DEF DecoderExits, ownVars, diskVars, OwnInv
  <2>5. CleanupInv'
    BY <1>7 DEF DecoderExits, callerVars, ownVars, cleanupVars, CleanupInv,
           ThreadIsAlive
  <2>6. QueueTypeOK' /\ FileTypeOK' /\ CommitInv'
    BY <1>7 DEF DecoderExits, consumerVars, QueueTypeOK, ownVars, cleanupVars,
           diskVars, FileTypeOK, callerVars, CommitInv
  <2>7. QED
    BY <2>1, <2>2, <2>3, <2>4, <2>5, <2>6
<1>8. QED
  BY <1>1, <1>2, <1>3, <1>4, <1>5, <1>6, <1>7 DEF Decoder

\* Nor does a step of the capture thread ...
LEMMA CaptureStep ==
    ASSUME SInv, Capture
    PROVE  SInv'
<1> USE StreamAssumption DEF SInv, TypeOK
<1>1. CASE Submit
  <2>1. ThreadTypeOK'
    BY <1>1 DEF Submit, ThreadTypeOK, CallerPcs, DecoderPcs
  <2>2. QueueTypeOK'
    BY <1>1, Put DEF Submit, QueueTypeOK
  <2>3. ResultInv'
    BY <1>1 DEF Submit, ResultInv, Publishing
  <2>4. MappingInv'
    BY <1>1 DEF Submit, ownVars, diskVars, MappingInv
  <2>5. OwnInv'
    BY <1>1 DEF Submit, ownVars, diskVars, OwnInv
  <2>6. CommitInv'
    BY <1>1 DEF Submit, ownVars, cleanupVars, CommitInv
  <2>7. CleanupInv'
    BY <1>1 DEF Submit, cleanupVars, CleanupInv
  <2>8. FileTypeOK'
    BY <1>1 DEF Submit, ownVars, cleanupVars, diskVars, FileTypeOK
  <2>9. QED
    BY <2>1, <2>2, <2>3, <2>4, <2>5, <2>6, <2>7, <2>8
<1>2. CASE CaptureFails
  <2>1. ThreadTypeOK'
    BY <1>2 DEF CaptureFails, decoderVars, ThreadTypeOK, CallerPcs
  <2>2. ResultInv'
    BY <1>2 DEF CaptureFails, consumerVars, decoderVars, ResultInv, Publishing
  <2>3. CommitInv'
    BY <1>2 DEF CaptureFails, ownVars, cleanupVars, CommitInv
  <2>4. CleanupInv'
    BY <1>2 DEF CaptureFails, cleanupVars, CleanupInv
  <2>5. QueueTypeOK' /\ FileTypeOK' /\ MappingInv' /\ OwnInv'
    BY <1>2 DEF CaptureFails, consumerVars, QueueTypeOK, ownVars, cleanupVars,
           diskVars, FileTypeOK, decoderVars, MappingInv, OwnInv
  <2>6. QED
    BY <2>1, <2>2, <2>3, <2>4, <2>5
<1>3. CASE Finish
  <2>1. ThreadTypeOK'
    BY <1>3 DEF Finish, To, decoderVars, ThreadTypeOK, CallerPcs
  <2>2. ResultInv'
    BY <1>3 DEF Finish, To, consumerVars, decoderVars, ResultInv, Publishing
  <2>3. CommitInv'
    BY <1>3 DEF Finish, To, ownVars, cleanupVars, CommitInv
  <2>4. CleanupInv'
    BY <1>3 DEF Finish, To, cleanupVars, CleanupInv
  <2>5. QueueTypeOK' /\ FileTypeOK' /\ MappingInv' /\ OwnInv'
    BY <1>3 DEF Finish, To, consumerVars, QueueTypeOK, ownVars, cleanupVars,
           diskVars, FileTypeOK, decoderVars, MappingInv, OwnInv
  <2>6. QED
    BY <2>1, <2>2, <2>3, <2>4, <2>5
<1>4. CASE Seal
  <2>1. ThreadTypeOK'
    BY <1>4 DEF Seal, decoderVars, ThreadTypeOK, CallerPcs
  <2>2. QueueTypeOK'
    BY <1>4, Put DEF Seal, QueueTypeOK
  <2>3. ResultInv'
    BY <1>4 DEF Seal, decoderVars, ResultInv, Publishing
  <2>4. CommitInv'
    BY <1>4 DEF Seal, ownVars, cleanupVars, CommitInv
  <2>5. CleanupInv'
    BY <1>4 DEF Seal, cleanupVars, CleanupInv
  <2>6. FileTypeOK' /\ MappingInv' /\ OwnInv'
    BY <1>4 DEF Seal, ownVars, cleanupVars, diskVars, FileTypeOK, decoderVars,
           MappingInv, OwnInv
  <2>7. QED
    BY <2>1, <2>2, <2>3, <2>4, <2>5, <2>6
<1>5. CASE Collect
  <2>1. ThreadTypeOK'
    BY <1>5 DEF Collect, To, decoderVars, ThreadTypeOK, CallerPcs
  <2>2. ResultInv'
    BY <1>5 DEF Collect, To, consumerVars, decoderVars, ResultInv, Publishing
  <2>3. CommitInv'
    BY <1>5 DEF Collect, To, ownVars, cleanupVars, CommitInv
  <2>4. CleanupInv'
    BY <1>5 DEF Collect, To, cleanupVars, CleanupInv
  <2>5. QueueTypeOK' /\ FileTypeOK' /\ MappingInv' /\ OwnInv'
    BY <1>5 DEF Collect, To, consumerVars, QueueTypeOK, ownVars, cleanupVars,
           diskVars, FileTypeOK, decoderVars, MappingInv, OwnInv
  <2>6. QED
    BY <2>1, <2>2, <2>3, <2>4, <2>5
<1>6. CASE Confirm
  <2>1. ThreadTypeOK'
    BY <1>6 DEF Confirm, To, decoderVars, ThreadTypeOK, CallerPcs
  <2>2. ResultInv'
    BY <1>6 DEF Confirm, To, consumerVars, decoderVars, ResultInv, Publishing,
           ThreadIsAlive
  <2>3. CommitInv'
    BY <1>6 DEF Confirm, To, ownVars, cleanupVars, CommitInv
  <2>4. CleanupInv'
    BY <1>6 DEF Confirm, To, cleanupVars, CleanupInv
  <2>5. QueueTypeOK' /\ FileTypeOK' /\ MappingInv' /\ OwnInv'
    BY <1>6 DEF Confirm, To, consumerVars, QueueTypeOK, ownVars, cleanupVars,
           diskVars, FileTypeOK, decoderVars, MappingInv, OwnInv
  <2>6. QED
    BY <2>1, <2>2, <2>3, <2>4, <2>5
<1>7. CASE CloseMapping
  <2>1. ThreadTypeOK'
    BY <1>7 DEF CloseMapping, decoderVars, ThreadTypeOK, CallerPcs
  <2>2. FileTypeOK'
    BY <1>7 DEF CloseMapping, cleanupVars, diskVars, FileTypeOK
  <2>3. ResultInv'
    BY <1>7 DEF CloseMapping, consumerVars, decoderVars, ResultInv, Publishing,
           ThreadIsAlive
  <2>4. MappingInv'
    BY <1>7 DEF CloseMapping, decoderVars, diskVars, MappingInv, ResultInv,
           Publishing, ThreadIsAlive
  <2>5. CommitInv'
    BY <1>7 DEF CloseMapping, cleanupVars, CommitInv
  <2>6. CleanupInv'
    BY <1>7 DEF CloseMapping, cleanupVars, CleanupInv
  <2>7. QueueTypeOK' /\ OwnInv'
    BY <1>7 DEF CloseMapping, consumerVars, QueueTypeOK, decoderVars, diskVars,
           OwnInv
  <2>8. QED
    BY <2>1, <2>2, <2>3, <2>4, <2>5, <2>6, <2>7
<1>8. CASE LinkData
  <2>1. ThreadTypeOK'
    BY <1>8 DEF LinkData, decoderVars, ThreadTypeOK, CallerPcs
  <2>2. FileTypeOK'
    <3>1. CASE UNCHANGED tempFile
      BY <3>1, <1>8 DEF LinkData, cleanupVars, FileTypeOK
    <3>2. CASE tempFile' = FALSE
      BY <3>2, <1>8 DEF LinkData, cleanupVars, FileTypeOK
    <3>3. QED
      BY <3>1, <3>2, <1>8 DEF LinkData
  <2>3. ResultInv'
    BY <1>8 DEF LinkData, consumerVars, decoderVars, ResultInv, Publishing,
           ThreadIsAlive
  <2>4. MappingInv'
    BY <1>8 DEF LinkData, decoderVars, MappingInv, ResultInv, Publishing
  <2>5. OwnInv'
    BY <1>8 DEF LinkData, consumerVars, decoderVars, OwnInv, ResultInv, Publishing,
           ThreadIsAlive
  <2>6. CommitInv'
    BY <1>8 DEF LinkData, cleanupVars, CommitInv
  <2>7. CleanupInv'
    BY <1>8 DEF LinkData, cleanupVars, CleanupInv
  <2>8. QueueTypeOK'
    BY <1>8 DEF LinkData, consumerVars, QueueTypeOK
  <2>9. QED
    BY <2>1, <2>2, <2>3, <2>4, <2>5, <2>6, <2>7, <2>8
<1>9. CASE DropTemp
  <2>1. ThreadTypeOK'
    BY <1>9 DEF DropTemp, decoderVars, ThreadTypeOK, CallerPcs
  <2>2. FileTypeOK'
    BY <1>9 DEF DropTemp, cleanupVars, FileTypeOK
  <2>3. ResultInv'
    BY <1>9 DEF DropTemp, consumerVars, decoderVars, ResultInv, Publishing,
           ThreadIsAlive
  <2>4. MappingInv'
    BY <1>9 DEF DropTemp, decoderVars, MappingInv, ResultInv, Publishing
  <2>5. CommitInv'
    BY <1>9 DEF DropTemp, cleanupVars, CommitInv
  <2>6. CleanupInv'
    BY <1>9 DEF DropTemp, cleanupVars, CleanupInv
  <2>7. QueueTypeOK' /\ OwnInv'
    BY <1>9 DEF DropTemp, consumerVars, QueueTypeOK, decoderVars, OwnInv
  <2>8. QED
    BY <2>1, <2>2, <2>3, <2>4, <2>5, <2>6, <2>7
<1>10. CASE LinkReceipt
  <2>1. ThreadTypeOK'
    BY <1>10 DEF LinkReceipt, decoderVars, ThreadTypeOK, CallerPcs
  <2>2. FileTypeOK'
    BY <1>10 DEF LinkReceipt, FileTypeOK
  <2>3. ResultInv'
    BY <1>10 DEF LinkReceipt, consumerVars, decoderVars, ResultInv, Publishing,
           ThreadIsAlive
  <2>4. OwnInv'
    BY <1>10 DEF LinkReceipt, consumerVars, decoderVars, OwnInv
  <2>5. CommitInv'
    BY <1>10 DEF LinkReceipt, CommitInv, CleanupInv
  <2>6. CleanupInv'
    BY <1>10 DEF LinkReceipt, decoderVars, CleanupInv, ThreadIsAlive, ResultInv,
           Publishing
  <2>7. QueueTypeOK' /\ MappingInv'
    BY <1>10 DEF LinkReceipt, consumerVars, QueueTypeOK, decoderVars, MappingInv
  <2>8. QED
    BY <2>1, <2>2, <2>3, <2>4, <2>5, <2>6, <2>7
<1>11. CASE Verify
  <2>1. ThreadTypeOK'
    BY <1>11 DEF Verify, decoderVars, ThreadTypeOK, CallerPcs
  <2>2. ResultInv'
    BY <1>11 DEF Verify, consumerVars, decoderVars, ResultInv, Publishing,
           ThreadIsAlive
  <2>3. CommitInv'
    BY <1>11 DEF Verify, ownVars, cleanupVars, CommitInv
  <2>4. CleanupInv'
    BY <1>11 DEF Verify, ownVars, cleanupVars, CleanupInv, CommitInv
  <2>5. QueueTypeOK' /\ FileTypeOK' /\ MappingInv' /\ OwnInv'
    BY <1>11 DEF Verify, consumerVars, QueueTypeOK, ownVars, cleanupVars, diskVars,
           FileTypeOK, decoderVars, MappingInv, OwnInv
  <2>6. QED
    BY <2>1, <2>2, <2>3, <2>4, <2>5
<1>12. CASE EndFrame
  <2>1. ThreadTypeOK'
    BY <1>12 DEF EndFrame, To, decoderVars, ThreadTypeOK, CallerPcs
  <2>2. ResultInv'
    BY <1>12 DEF EndFrame, To, decoderVars, ResultInv, Publishing
  <2>3. CommitInv'
    BY <1>12 DEF EndFrame, To, ownVars, cleanupVars, CommitInv
  <2>4. CleanupInv'
    BY <1>12 DEF EndFrame, To, ownVars, cleanupVars, CleanupInv
  <2>5. QueueTypeOK' /\ FileTypeOK' /\ MappingInv' /\ OwnInv'
    <3>1. UNCHANGED <<consumerVars, decoderVars, ownVars, cleanupVars, diskVars>>
      BY <1>12 DEF EndFrame, To
    <3>2. QED
      BY <3>1 DEF consumerVars, QueueTypeOK, ownVars, cleanupVars, diskVars,
             FileTypeOK, decoderVars, MappingInv, OwnInv
  <2>6. QED
    BY <2>1, <2>2, <2>3, <2>4, <2>5
<1>13. CASE Abandon
  <2>1. ThreadTypeOK'
    BY <1>13 DEF Abandon, decoderVars, ThreadTypeOK, CallerPcs
  <2>2. QueueTypeOK'
    BY <1>13 DEF Abandon, QueueTypeOK
  <2>3. ResultInv'
    BY <1>13 DEF Abandon, decoderVars, ResultInv, Publishing
  <2>4. CommitInv'
    BY <1>13 DEF Abandon, ownVars, cleanupVars, CommitInv
  <2>5. CleanupInv'
    BY <1>13 DEF Abandon, cleanupVars, CleanupInv
  <2>6. FileTypeOK' /\ MappingInv' /\ OwnInv'
    BY <1>13 DEF Abandon, ownVars, cleanupVars, diskVars, FileTypeOK, decoderVars,
           MappingInv, OwnInv
  <2>7. QED
    BY <2>1, <2>2, <2>3, <2>4, <2>5, <2>6
<1>14. CASE Retire
  <2>1. ThreadTypeOK'
    BY <1>14 DEF Retire, decoderVars, ThreadTypeOK, CallerPcs
  <2>2. FileTypeOK'
    BY <1>14 DEF Retire, diskVars, FileTypeOK
  <2>3. ResultInv'
    BY <1>14 DEF Retire, consumerVars, decoderVars, ResultInv, Publishing,
           ThreadIsAlive
  <2>4. MappingInv'
    BY <1>14 DEF Retire, decoderVars, diskVars, MappingInv, ThreadIsAlive
  <2>5. CommitInv'
    BY <1>14 DEF Retire, CommitInv
  <2>6. CleanupInv'
    BY <1>14 DEF Retire, decoderVars, CleanupInv, ThreadIsAlive
  <2>7. QueueTypeOK' /\ OwnInv'
    BY <1>14 DEF Retire, consumerVars, QueueTypeOK, decoderVars, diskVars, OwnInv
  <2>8. QED
    BY <2>1, <2>2, <2>3, <2>4, <2>5, <2>6, <2>7
<1>15. QED
  BY <1>1, <1>2, <1>3, <1>4, <1>5, <1>6, <1>7, <1>8, <1>9, <1>10, <1>11, <1>12,
     <1>13, <1>14 DEF Capture

\* ... nor one of the cleanup, in whichever thread.
LEMMA CleanUpStep ==
    ASSUME SInv, CleanUp
    PROVE  SInv'
<1> USE StreamAssumption DEF SInv, TypeOK
<1>1. CASE JanitorWakes
  <2>1. FileTypeOK'
    BY <1>1 DEF JanitorWakes, diskVars, FileTypeOK
  <2>2. MappingInv'
    BY <1>1 DEF JanitorWakes, decoderVars, diskVars, MappingInv, ThreadIsAlive
  <2>3. CommitInv'
    BY <1>1 DEF JanitorWakes, callerVars, CommitInv
  <2>4. CleanupInv'
    BY <1>1 DEF JanitorWakes, callerVars, decoderVars, CleanupInv, ThreadIsAlive
  <2>5. ThreadTypeOK' /\ QueueTypeOK' /\ ResultInv' /\ OwnInv'
    BY <1>1 DEF JanitorWakes, callerVars, decoderVars, ThreadTypeOK, consumerVars,
           QueueTypeOK, ResultInv, ThreadIsAlive, diskVars, OwnInv
  <2>6. QED
    BY <2>1, <2>2, <2>3, <2>4, <2>5
<1>2. CASE CleanReceipt
  <2>1. FileTypeOK'
    BY <1>2 DEF CleanReceipt, FileTypeOK
  <2>2. OwnInv'
    BY <1>2 DEF CleanReceipt, consumerVars, decoderVars, OwnInv
  <2>3. CommitInv'
    BY <1>2 DEF CleanReceipt, callerVars, CommitInv, CleanupInv
  <2>4. CleanupInv'
    BY <1>2 DEF CleanReceipt, callerVars, decoderVars, CleanupInv, ThreadIsAlive
  <2>5. ThreadTypeOK' /\ QueueTypeOK' /\ ResultInv' /\ MappingInv'
    BY <1>2 DEF CleanReceipt, callerVars, decoderVars, ThreadTypeOK, consumerVars,
           QueueTypeOK, ResultInv, ThreadIsAlive, MappingInv
  <2>6. QED
    BY <2>1, <2>2, <2>3, <2>4, <2>5
<1>3. CASE CleanData
  <2>1. FileTypeOK'
    BY <1>3 DEF CleanData, FileTypeOK
  <2>2. OwnInv'
    BY <1>3 DEF CleanData, consumerVars, decoderVars, OwnInv
  <2>3. CommitInv'
    BY <1>3 DEF CleanData, callerVars, CommitInv, CleanupInv
  <2>4. CleanupInv'
    BY <1>3 DEF CleanData, callerVars, decoderVars, CleanupInv, ThreadIsAlive
  <2>5. ThreadTypeOK' /\ QueueTypeOK' /\ ResultInv' /\ MappingInv'
    BY <1>3 DEF CleanData, callerVars, decoderVars, ThreadTypeOK, consumerVars,
           QueueTypeOK, ResultInv, ThreadIsAlive, MappingInv
  <2>6. QED
    BY <2>1, <2>2, <2>3, <2>4, <2>5
<1>4. CASE CleanTemp
  <2>1. ThreadTypeOK'
    BY <1>4 DEF CleanTemp, decoderVars, ThreadTypeOK, CallerPcs
  <2>2. FileTypeOK'
    BY <1>4 DEF CleanTemp, FileTypeOK
  <2>3. ResultInv'
    BY <1>4 DEF CleanTemp, consumerVars, decoderVars, ResultInv, Publishing,
           ThreadIsAlive
  <2>4. MappingInv'
    BY <1>4 DEF CleanTemp, decoderVars, MappingInv
  <2>5. CommitInv'
    BY <1>4 DEF CleanTemp, CommitInv
  <2>6. CleanupInv'
    BY <1>4 DEF CleanTemp, decoderVars, CleanupInv, ThreadIsAlive
  <2>7. QueueTypeOK' /\ OwnInv'
    BY <1>4 DEF CleanTemp, consumerVars, QueueTypeOK, decoderVars, OwnInv
  <2>8. QED
    BY <2>1, <2>2, <2>3, <2>4, <2>5, <2>6, <2>7
<1>5. QED
  BY <1>1, <1>2, <1>3, <1>4 DEF CleanUp

\* The invariant holds initially, and every step keeps it.
LEMMA StreamInductive == Spec => []SInv
<1>1. Init => SInv
  <2> SUFFICES ASSUME Init PROVE SInv
    OBVIOUS
  <2>1. ThreadTypeOK
    BY StreamAssumption DEF Init, ThreadTypeOK, CallerPcs, DecoderPcs
  <2>2. QueueTypeOK
    <3>1. <<>> \in Seq({"record", "end"}) /\ Len(<<>>) = 0
      OBVIOUS
    <3>2. queue = <<>>
      BY DEF Init
    <3>3. queue \in Seq({"record", "end"}) /\ Len(queue) = 0
      BY <3>1, <3>2, Zenon
    <3>4. disabled \in BOOLEAN /\ failed \in BOOLEAN /\ result \in BOOLEAN
      BY DEF Init
    <3>5. QED
      BY <3>3, <3>4, StreamAssumption DEF QueueTypeOK
  <2>3. FileTypeOK
    BY StreamAssumption DEF Init, FileTypeOK
  <2>4. ResultInv
    BY StreamAssumption DEF Init, ResultInv, Publishing
  <2>5. MappingInv
    BY StreamAssumption DEF Init, MappingInv
  <2>6. OwnInv
    BY StreamAssumption DEF Init, OwnInv
  <2>7. CommitInv
    BY StreamAssumption DEF Init, CommitInv
  <2>8. CleanupInv
    BY StreamAssumption DEF Init, CleanupInv
  <2>9. QED
    BY <2>1, <2>2, <2>3, <2>4, <2>5, <2>6, <2>7, <2>8 DEF SInv, TypeOK
<1>2. SInv /\ [Next]_vars => SInv'
  <2> SUFFICES ASSUME SInv, [Next]_vars
               PROVE  SInv'
    OBVIOUS
  <2>1. CASE Decoder
    BY <2>1, DecoderStep
  <2>2. CASE Capture
    BY <2>2, CaptureStep
  <2>3. CASE CleanUp
    BY <2>3, CleanUpStep
  <2>4. CASE Dies
    <3>1. ThreadTypeOK'
      BY <2>4 DEF Dies, SInv, TypeOK, ThreadTypeOK, callerVars, decoderVars
    <3>2. /\ QueueTypeOK' /\ FileTypeOK'
          /\ ResultInv' /\ MappingInv' /\ OwnInv' /\ CommitInv' /\ CleanupInv'
      BY <2>4 DEF Dies, SInv, TypeOK, QueueTypeOK, FileTypeOK, ResultInv,
             MappingInv, OwnInv, CommitInv, CleanupInv, ThreadIsAlive, callerVars,
             consumerVars, decoderVars, ownVars, cleanupVars, diskVars
    <3>3. QED
      BY <3>1, <3>2 DEF SInv, TypeOK
  <2>5. CASE UNCHANGED vars
    BY <2>5 DEF vars, SInv, TypeOK, ThreadTypeOK, QueueTypeOK, FileTypeOK,
           ResultInv, MappingInv, OwnInv, CommitInv, CleanupInv, ThreadIsAlive,
           callerVars, consumerVars, decoderVars, ownVars, cleanupVars, diskVars
  <2>6. QED
    BY <2>1, <2>2, <2>3, <2>4, <2>5 DEF Next
<1>3. QED
  BY <1>1, <1>2, PTL DEF Spec

-----------------------------------------------------------------------------
(* Theorems.                                                               *)

\* TypeOK, for every frame and every queue limit: the queue stays within its
\* limit whatever the decoder does.
THEOREM StreamTypeCorrect == Spec => []TypeOK
<1>1. SInv => TypeOK
  BY DEF SInv
<1>2. QED
  BY <1>1, StreamInductive, PTL

\* LiveMappingUntouched: while the decoder thread may write, nobody unmaps,
\* unlinks or publishes what it writes to.
THEOREM MappingIsSafe == Spec => []LiveMappingUntouched
<1>1. SInv => LiveMappingUntouched
  BY DEF SInv, LiveMappingUntouched, MappingInv, OwnInv, ThreadIsAlive
<1>2. QED
  BY <1>1, StreamInductive, PTL

\* CommitIsWhole: what is public is whole, at any moment the process may end,
\* and ok means committed.
THEOREM CommitsAreWhole == Spec => []CommitIsWhole
<1>1. SInv => CommitIsWhole
  BY DEF SInv, CommitIsWhole, ResultInv, OwnInv, CommitInv, CleanupInv
<1>2. QED
  BY <1>1, StreamInductive, PTL

\* ForeignSurvives: no step overwrites or removes a file of an earlier attempt.
THEOREM ForeignFilesSurvive == Spec => ForeignSurvives
<1>1. SInv /\ [Next]_vars =>
        [/\ dataFile = "foreign" => dataFile' = "foreign"
         /\ receiptFile = "foreign" => receiptFile' = "foreign"]_vars
  <2> SUFFICES ASSUME SInv, [Next]_vars
               PROVE  /\ dataFile = "foreign" => dataFile' = "foreign"
                      /\ receiptFile = "foreign" => receiptFile' = "foreign"
    OBVIOUS
  <2>1. CASE Decoder
    BY <2>1 DEF Decoder, DecoderMakesTemp, DecoderMaps, DecoderLooks, DecoderGets,
           DecoderPushes, DecoderFinishes, DecoderExits, diskVars
  <2>2. CASE Capture
    BY <2>2 DEF Capture, Submit, CaptureFails, Finish, Seal, Collect, Confirm, To,
           CloseMapping, LinkData, DropTemp, LinkReceipt, Verify, EndFrame, Abandon,
           Retire, diskVars
  <2>3. CASE CleanUp
    BY <2>3 DEF CleanUp, JanitorWakes, CleanReceipt, CleanData, CleanTemp, SInv,
           OwnInv, diskVars
  <2>4. CASE Dies \/ UNCHANGED vars
    BY <2>4 DEF Dies, vars, diskVars
  <2>5. QED
    BY <2>1, <2>2, <2>3, <2>4 DEF Next
<1>2. QED
  BY <1>1, StreamInductive, PTL DEF Spec, ForeignSurvives

=============================================================================
