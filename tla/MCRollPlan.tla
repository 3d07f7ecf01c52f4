------------------------------ MODULE MCRollPlan ------------------------------
(* Values for the constant operator of RollPlan. *)
EXTENDS RollPlan

\* Frame 2 may come out too dark to be verified, and unclear when scanned fine.
FrameShows == <<{"clear"}, {"clear", "faded"}>>
FrameTakes == <<{"clean"}, {"clean", "unclear"}>>

\* One geometry is fitted to the whole roll, from all its wide previews.
SharedFit(wide) ==
    [f \in Frames |-> IF \E g \in Frames : wide[g] = "faded" THEN "near" ELSE "far"]
=============================================================================
