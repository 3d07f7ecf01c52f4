---------------------------- MODULE StreamSidecar ----------------------------
(***************************************************************************)
(* The streaming decode beside the capture of one frame                    *)
(* (src/src/coolscanpy/protocol/ls5000_single_pass/streaming_sidecar.py).  *)
(*                                                                         *)
(* The capture thread submits every record it has written to a bounded     *)
(* queue; a decoder thread decodes them into a memory-mapped private file. *)
(* At the end of the frame the capture thread collects the result within a *)
(* deadline and publishes the file by a hard link, and after it a receipt  *)
(* that commits it.  Whatever goes wrong the sidecar is abandoned and the  *)
(* capture goes on.  The decoder may hang for ever: then its mapping must  *)
(* not be touched, and a janitor cleans up if it ever ends.                *)
(***************************************************************************)
EXTENDS Naturals, Sequences

CONSTANTS
    NRecords,    \* records of the frame
    QueueLimit   \* max_queue

ASSUME StreamAssumption ==
    NRecords \in Nat \ {0} /\ QueueLimit \in Nat \ {0}

VARIABLES
    alive,                             \* the process runs
    \* the capture thread, the records it submitted, the outcome of the session
    caller, submitted, answer,
    \* FailOpenStreamConsumer: _queue, _disabled with _stop, _failed, _result
    queue, disabled, failed, result,
    \* its thread, and the records that are in the mapping
    decoder, decoded,
    \* FineStreamSession: _memmap, _temp_data_path and what it published
    mapping, tempPath, publishedData, publishedReceipt,
    \* _cleanup_scratch, wherever it runs, and the files it failed to remove
    cleanup, leaks,
    \* the private file, and what is under the two public names
    tempFile, dataFile, receiptFile

callerVars   == <<caller, submitted, answer>>
consumerVars == <<queue, disabled, failed, result>>
decoderVars  == <<decoder, decoded>>
ownVars      == <<mapping, tempPath, publishedData, publishedReceipt>>
cleanupVars  == <<cleanup, leaks>>
diskVars     == <<tempFile, dataFile, receiptFile>>
vars == <<alive, callerVars, consumerVars, decoderVars, ownVars, cleanupVars, diskVars>>

CallerPcs == {"feed", "finish", "seal", "collect", "confirm", "close", "linkData",
              "dropTemp", "linkReceipt", "verify", "abandon", "retire", "cleaning",
              "kept", "over"}
DecoderPcs == {"none", "factory", "map", "loop", "get", "push", "finish", "exit",
               "dead"}

\* A decoder that is somewhere in its thread.
ThreadIsAlive == decoder \notin {"none", "dead"}

ThreadTypeOK ==
    /\ alive \in BOOLEAN
    /\ caller \in CallerPcs /\ submitted \in 0..NRecords
    /\ answer \in {"pending", "ok", "abandoned"}
    /\ decoder \in DecoderPcs /\ decoded \in Nat
QueueTypeOK ==
    /\ queue \in Seq({"record", "end"}) /\ Len(queue) <= QueueLimit
    /\ disabled \in BOOLEAN /\ failed \in BOOLEAN /\ result \in BOOLEAN
FileTypeOK ==
    /\ mapping \in {"none", "open", "closed"}
    /\ tempPath \in BOOLEAN /\ publishedData \in BOOLEAN /\ publishedReceipt \in BOOLEAN
    /\ cleanup \in {"idle", "deferred", "receipt", "data", "temp", "over"}
    /\ leaks \subseteq {"receipt", "data", "temp"}
    /\ tempFile \in BOOLEAN
    /\ dataFile \in {"absent", "foreign", "ours"}
    /\ receiptFile \in {"absent", "foreign", "ours"}
TypeOK == ThreadTypeOK /\ QueueTypeOK /\ FileTypeOK

\* The public names may be taken by an earlier attempt.
Init ==
    /\ alive = TRUE
    /\ caller = "feed" /\ submitted = 0 /\ answer = "pending"
    /\ queue = <<>> /\ disabled = FALSE /\ failed = FALSE /\ result = FALSE
    /\ decoder = "none" /\ decoded = 0
    /\ mapping = "none" /\ tempPath = FALSE
    /\ publishedData = FALSE /\ publishedReceipt = FALSE
    /\ cleanup = "idle" /\ leaks = {}
    /\ tempFile = FALSE
    /\ dataFile \in {"absent", "foreign"} /\ receiptFile \in {"absent", "foreign"}

\* (RoomForOneMore: a variant that counts one too far.)
RoomForOneMore == Len(queue) <= QueueLimit
QueueHasRoom == Len(queue) < QueueLimit

-----------------------------------------------------------------------------
(* The decoder thread: _run and _factory.                                  *)

Fail == failed' = TRUE /\ decoder' = "exit"

DecoderMakesTemp ==
    /\ decoder = "factory"
    /\ \/ tempFile' = TRUE /\ decoder' = "map" /\ UNCHANGED failed
       \/ Fail /\ UNCHANGED tempFile
    /\ UNCHANGED <<alive, callerVars, queue, disabled, result, decoded, ownVars,
                   cleanupVars, dataFile, receiptFile>>

\* open_memmap; a failure unlinks the file that nobody else knows of.
DecoderMaps ==
    /\ decoder = "map"
    /\ \/ /\ mapping' = "open" /\ tempPath' = TRUE
          /\ decoder' = "loop"
          /\ UNCHANGED <<failed, tempFile, leaks>>
       \/ /\ Fail
          /\ \/ tempFile' = FALSE /\ UNCHANGED leaks
             \/ leaks' = leaks \cup {"temp"} /\ UNCHANGED tempFile
          /\ UNCHANGED <<mapping, tempPath>>
    /\ UNCHANGED <<alive, callerVars, queue, disabled, result, decoded, publishedData,
                   publishedReceipt, cleanup, dataFile, receiptFile>>

\* The stop is looked at before each wait, not after it.
DecoderLooks ==
    /\ decoder = "loop"
    /\ decoder' = IF disabled THEN "exit" ELSE "get"
    /\ UNCHANGED <<alive, callerVars, consumerVars, decoded, ownVars, cleanupVars,
                   diskVars>>

DecoderGets ==
    /\ decoder = "get"
    /\ \/ queue = <<>> /\ decoder' = "loop" /\ UNCHANGED queue
       \/ /\ queue # <<>>
          /\ queue' = Tail(queue)
          /\ decoder' = IF Head(queue) = "record" THEN "push" ELSE "finish"
    /\ UNCHANGED <<alive, callerVars, disabled, failed, result, decoded, ownVars,
                   cleanupVars, diskVars>>

DecoderPushes ==
    /\ decoder = "push"
    /\ \/ decoded' = decoded + 1 /\ decoder' = "loop" /\ UNCHANGED failed
       \/ Fail /\ UNCHANGED decoded
    /\ UNCHANGED <<alive, callerVars, queue, disabled, result, ownVars, cleanupVars,
                   diskVars>>

\* StreamingFrameDecoder.finish reveals nothing unless every record is decoded.
DecoderFinishes ==
    /\ decoder = "finish"
    /\ \/ decoded = NRecords /\ result' = TRUE /\ decoder' = "exit" /\ UNCHANGED failed
       \/ decoded # NRecords /\ Fail /\ UNCHANGED result
    /\ UNCHANGED <<alive, callerVars, queue, disabled, decoded, ownVars, cleanupVars,
                   diskVars>>

DecoderExits ==
    /\ decoder = "exit"
    /\ decoder' = "dead"
    /\ UNCHANGED <<alive, callerVars, consumerVars, decoded, ownVars, cleanupVars,
                   diskVars>>

Decoder ==
    \/ DecoderMakesTemp \/ DecoderMaps \/ DecoderLooks \/ DecoderGets
    \/ DecoderPushes \/ DecoderFinishes \/ DecoderExits

-----------------------------------------------------------------------------
(* The capture thread during the frame.                                    *)

\* submit, and _submit_fine_stream_record around it: what is not accepted ends
\* the session.  The thread starts with the first record, unless it cannot.
Submit ==
    /\ caller = "feed" /\ submitted < NRecords
    /\ \/ /\ ~failed /\ QueueHasRoom
          /\ decoder' = IF decoder = "none" THEN "factory" ELSE decoder
          /\ queue' = Append(queue, "record")
          /\ submitted' = submitted + 1
          /\ UNCHANGED <<caller, disabled>>
       \/ /\ failed
          /\ caller' = "abandon"
          /\ UNCHANGED <<submitted, queue, disabled, decoder>>
       \/ /\ ~failed /\ (~QueueHasRoom \/ decoder = "none")
          /\ disabled' = TRUE
          /\ caller' = "abandon"
          /\ UNCHANGED <<submitted, queue, decoder>>
    /\ UNCHANGED <<alive, answer, failed, result, decoded, ownVars, cleanupVars,
                   diskVars>>

\* The capture of the frame fails at any point of it: _abort_fine_stream.
CaptureFails ==
    /\ caller = "feed"
    /\ caller' = "abandon"
    /\ UNCHANGED <<alive, submitted, answer, consumerVars, decoderVars, ownVars,
                   cleanupVars, diskVars>>

-----------------------------------------------------------------------------
(* finish: seal, collect, publish.                                         *)

To(p) ==
    /\ caller' = p
    /\ UNCHANGED <<alive, submitted, answer, consumerVars, decoderVars, ownVars,
                   cleanupVars, diskVars>>

Finish ==
    /\ caller = "feed" /\ submitted = NRecords
    /\ To(IF failed THEN "abandon" ELSE "seal")

\* The sentinel waits for room until the deadline.
Seal ==
    /\ caller = "seal"
    /\ caller' = "collect"
    /\ \/ failed /\ UNCHANGED <<queue, disabled>>
       \/ ~failed /\ QueueHasRoom /\ queue' = Append(queue, "end") /\ UNCHANGED disabled
       \/ ~failed /\ ~QueueHasRoom /\ disabled' = TRUE /\ UNCHANGED queue
    /\ UNCHANGED <<alive, submitted, answer, failed, result, decoderVars, ownVars,
                   cleanupVars, diskVars>>

\* result(): the thread has ended, or the deadline has passed.
\* (CollectWithoutDeadline: a variant that joins for ever.)
CollectWithoutDeadline ==
    /\ caller = "collect" /\ ~ThreadIsAlive
    /\ To(IF disabled \/ failed \/ ~result THEN "abandon" ELSE "confirm")
Collect ==
    /\ caller = "collect"
    /\ To(IF disabled \/ failed \/ ~result THEN "abandon" ELSE "confirm")

\* A result is there; but the thread must be gone before its mapping is closed.
Confirm ==
    /\ caller = "confirm"
    /\ To(IF ThreadIsAlive THEN "abandon" ELSE "close")

\* Flush and unmap, sync and hash the private file.
CloseMapping ==
    /\ caller = "close"
    /\ mapping' = "closed"
    /\ caller' \in {"linkData", "abandon"}
    /\ UNCHANGED <<alive, submitted, answer, consumerVars, decoderVars, tempPath,
                   publishedData, publishedReceipt, cleanupVars, diskVars>>

\* The data is published by a link that refuses an existing name; then the file
\* there is not ours, and the private one is all there is to remove.
LinkData ==
    /\ caller = "linkData"
    /\ \/ /\ dataFile = "absent"
          /\ dataFile' = "ours" /\ publishedData' = TRUE
          /\ caller' = "dropTemp"
          /\ UNCHANGED <<answer, tempPath, tempFile>>
       \/ /\ dataFile = "foreign"
          /\ tempFile' = FALSE /\ tempPath' = FALSE
          /\ caller' = "over" /\ answer' = "abandoned"
          /\ UNCHANGED <<dataFile, publishedData>>
       \/ /\ caller' = "abandon"
          /\ UNCHANGED <<dataFile, publishedData, answer, tempPath, tempFile>>
    /\ UNCHANGED <<alive, submitted, consumerVars, decoderVars, mapping,
                   publishedReceipt, cleanupVars, receiptFile>>

\* The private name goes, and the directory is synced.
DropTemp ==
    /\ caller = "dropTemp"
    /\ \/ /\ tempFile' = FALSE /\ tempPath' = FALSE
          /\ caller' \in {"linkReceipt", "abandon"}
       \/ caller' = "abandon" /\ UNCHANGED <<tempFile, tempPath>>
    /\ UNCHANGED <<alive, submitted, answer, consumerVars, decoderVars, mapping,
                   publishedData, publishedReceipt, cleanupVars, dataFile, receiptFile>>

\* _publish_receipt: the commit.  Any failure removes what was published.
LinkReceipt ==
    /\ caller = "linkReceipt"
    /\ \/ /\ receiptFile = "absent"
          /\ receiptFile' = "ours" /\ publishedReceipt' = TRUE
          /\ \/ caller' = "verify" /\ UNCHANGED <<answer, cleanup>>
             \/ caller' = "cleaning" /\ answer' = "abandoned" /\ cleanup' = "receipt"
       \/ /\ caller' = "cleaning" /\ answer' = "abandoned" /\ cleanup' = "receipt"
          /\ UNCHANGED <<receiptFile, publishedReceipt>>
    /\ UNCHANGED <<alive, submitted, consumerVars, decoderVars, mapping, tempPath,
                   publishedData, leaks, tempFile, dataFile>>

Verify ==
    /\ caller = "verify"
    /\ \/ caller' = "kept" /\ answer' = "ok"
       \/ caller' = "abandon" /\ UNCHANGED answer
    /\ UNCHANGED <<alive, submitted, consumerVars, decoderVars, ownVars, cleanupVars,
                   diskVars>>

\* The frame's journal is written with the receipt's digest in it, or the frame
\* fails after all and the sidecar is retracted.
EndFrame ==
    /\ caller = "kept"
    /\ To("over") \/ To("abandon")

-----------------------------------------------------------------------------
(* Giving up: abort, _abandon, _cleanup_scratch, _defer_cleanup.           *)

Abandon ==
    /\ caller = "abandon"
    /\ disabled' = TRUE
    /\ answer' = "abandoned"
    /\ caller' = "retire"
    /\ UNCHANGED <<alive, submitted, queue, failed, result, decoderVars, ownVars,
                   cleanupVars, diskVars>>

\* A thread that may still write keeps its mapping and its file.
\* (RetireNow: a variant that does not look.)
RetireNow ==
    /\ caller = "retire"
    /\ mapping' = (IF mapping = "none" THEN "none" ELSE "closed")
    /\ cleanup' = "receipt" /\ caller' = "cleaning"
    /\ UNCHANGED <<alive, submitted, answer, consumerVars, decoderVars, tempPath,
                   publishedData, publishedReceipt, leaks, diskVars>>
Retire ==
    /\ caller = "retire"
    /\ \/ /\ ThreadIsAlive
          /\ cleanup' = "deferred" /\ caller' = "over"
          /\ UNCHANGED mapping
       \/ /\ ~ThreadIsAlive
          /\ mapping' = (IF mapping = "none" THEN "none" ELSE "closed")
          /\ cleanup' = "receipt" /\ caller' = "cleaning"
    /\ UNCHANGED <<alive, submitted, answer, consumerVars, decoderVars, tempPath,
                   publishedData, publishedReceipt, leaks, diskVars>>

\* The janitor waits for the thread's end.
JanitorWakes ==
    /\ cleanup = "deferred" /\ ~ThreadIsAlive
    /\ mapping' = (IF mapping = "none" THEN "none" ELSE "closed")
    /\ cleanup' = "receipt"
    /\ UNCHANGED <<alive, callerVars, consumerVars, decoderVars, tempPath, publishedData,
                   publishedReceipt, leaks, diskVars>>

\* What this session published or made is removed, the receipt first; a file
\* that cannot be removed stays, and the next one's turn comes.
\* (CleanReceiptBlindly: a variant that does not ask whose the receipt is, and
\* LeavesReceipt: one that forgets it.)
LeavesReceipt ==
    /\ cleanup = "receipt"
    /\ cleanup' = "data"
    /\ UNCHANGED <<alive, callerVars, consumerVars, decoderVars, ownVars, leaks,
                   diskVars>>
CleanReceiptBlindly ==
    /\ cleanup = "receipt"
    /\ cleanup' = "data"
    /\ receiptFile' = "absent" /\ publishedReceipt' = FALSE
    /\ UNCHANGED <<alive, callerVars, consumerVars, decoderVars, mapping, tempPath,
                   publishedData, leaks, tempFile, dataFile>>
CleanReceipt ==
    /\ cleanup = "receipt"
    /\ cleanup' = "data"
    /\ \/ ~publishedReceipt /\ UNCHANGED <<receiptFile, publishedReceipt, leaks>>
       \/ /\ publishedReceipt
          /\ receiptFile' = "absent" /\ publishedReceipt' = FALSE
          /\ UNCHANGED leaks
       \/ /\ publishedReceipt
          /\ leaks' = leaks \cup {"receipt"}
          /\ UNCHANGED <<receiptFile, publishedReceipt>>
    /\ UNCHANGED <<alive, callerVars, consumerVars, decoderVars, mapping, tempPath,
                   publishedData, tempFile, dataFile>>

CleanData ==
    /\ cleanup = "data"
    /\ cleanup' = "temp"
    /\ \/ ~publishedData /\ UNCHANGED <<dataFile, publishedData, leaks>>
       \/ /\ publishedData
          /\ dataFile' = "absent" /\ publishedData' = FALSE
          /\ UNCHANGED leaks
       \/ /\ publishedData
          /\ leaks' = leaks \cup {"data"}
          /\ UNCHANGED <<dataFile, publishedData>>
    /\ UNCHANGED <<alive, callerVars, consumerVars, decoderVars, mapping, tempPath,
                   publishedReceipt, tempFile, receiptFile>>

CleanTemp ==
    /\ cleanup = "temp"
    /\ cleanup' = "over"
    /\ caller' = (IF caller = "cleaning" THEN "over" ELSE caller)
    /\ \/ ~tempPath /\ UNCHANGED <<tempFile, tempPath, leaks>>
       \/ tempPath /\ tempFile' = FALSE /\ tempPath' = FALSE /\ UNCHANGED leaks
       \/ /\ tempPath
          /\ leaks' = leaks \cup {"temp"}
          /\ UNCHANGED <<tempFile, tempPath>>
    /\ UNCHANGED <<alive, submitted, answer, consumerVars, decoderVars, mapping,
                   publishedData, publishedReceipt, dataFile, receiptFile>>

-----------------------------------------------------------------------------

Capture ==
    \/ Submit \/ CaptureFails \/ Finish \/ Seal \/ Collect \/ Confirm \/ CloseMapping
    \/ LinkData \/ DropTemp \/ LinkReceipt \/ Verify \/ EndFrame \/ Abandon \/ Retire
CleanUp == JanitorWakes \/ CleanReceipt \/ CleanData \/ CleanTemp

\* The process ends, at its end or before: its daemon threads go with it.
Dies ==
    /\ alive' = FALSE
    /\ UNCHANGED <<callerVars, consumerVars, decoderVars, ownVars, cleanupVars, diskVars>>

Next ==
    \/ alive /\ (Capture \/ CleanUp \/ Decoder \/ Dies)
    \/ ~alive /\ UNCHANGED vars

Spec == Init /\ [][Next]_vars

-----------------------------------------------------------------------------
(* Properties.                                                             *)

\* "never unmaps, flushes, unlinks, or publishes the live mapping": while the
\* decoder thread may write, its mapping is open, its file is there, and what
\* it writes to is not public.
LiveMappingUntouched ==
    ThreadIsAlive =>
        /\ mapping # "closed" /\ (tempPath => tempFile)
        /\ dataFile # "ours"

\* Public data is whole at any moment, so after any crash; a receipt vouches for
\* data that is there; a session that says ok has committed.
CommitIsWhole ==
    /\ dataFile = "ours" => decoded = NRecords
    /\ receiptFile = "ours" /\ "receipt" \notin leaks => dataFile = "ours"
    /\ answer = "ok" => receiptFile = "ours"

\* Files of an earlier attempt are never overwritten nor removed.
ForeignSurvives ==
    [][/\ dataFile = "foreign" => dataFile' = "foreign"
       /\ receiptFile = "foreign" => receiptFile' = "foreign"]_vars

\* The capture is never held up: a session that has begun to end is over soon,
\* although its decoder may hang.
CaptureGoesOn ==
    caller \notin {"feed", "over"} ~> (caller = "over" \/ ~alive)

\* An abandoned session whose decoder has ended leaves nothing behind that could
\* be removed.
NothingLeft ==
    (caller = "over" /\ answer = "abandoned" /\ ~ThreadIsAlive)
        ~> (\/ ~alive \/ leaks # {}
            \/ ~tempFile /\ dataFile # "ours" /\ receiptFile # "ours")

\* However the session ends, the capture goes on and its traces go.
SessionSettles == CaptureGoesOn /\ NothingLeft

=============================================================================
