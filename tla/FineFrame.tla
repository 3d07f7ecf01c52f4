------------------------------ MODULE FineFrame ------------------------------
(***************************************************************************)
(* The capture of one frame: it is metered (Metering), and when the fine   *)
(* scan is armed its records stream through the sidecar (StreamSidecar).   *)
(* Both run in one process, which may end at any moment.                   *)
(***************************************************************************)
EXTENDS StreamSidecar, Metering

frameVars == <<vars, meterVars>>

FrameTypeOK == TypeOK /\ MeterTypeOK

FrameInit == Init /\ MeterInit

\* The frame is metered; no stream is open yet.
Meter == alive /\ MeterNext /\ UNCHANGED vars

\* _open_fine_stream_session and the fine READs come after the fine windows.
Stream ==
    /\ alive /\ step = "armed"
    /\ Capture \/ CleanUp \/ Decoder
    /\ UNCHANGED meterVars

ProcessDies == alive /\ Dies /\ UNCHANGED meterVars

FrameNext ==
    \/ Meter \/ Stream \/ ProcessDies
    \/ ~alive /\ UNCHANGED frameVars

FrameSpec == FrameInit /\ [][FrameNext]_frameVars

\* The capture thread and the janitor run as long as the process does.  The
\* decoder owes nothing.
FrameFairSpec ==
    /\ FrameSpec
    /\ WF_frameVars(Stream /\ Capture)
    /\ WF_frameVars(Stream /\ CleanUp)
=============================================================================
