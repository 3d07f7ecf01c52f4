------------------------------- MODULE Promotion -------------------------------
(***************************************************************************)
(* Publication of a finalized frame in the user's scan folder              *)
(* (receipts/outputs.py), after the finalization whose result is still in  *)
(* hand: a free basename is looked for, the three TIFFs are copied to      *)
(* names opened exclusively, and a receipt is written last.  Other         *)
(* programs write into the same folder, an operation may fail, and the     *)
(* process may die, between the copies as well as inside one.              *)
(***************************************************************************)
EXTENDS Finalization

CONSTANTS Basenames,    \* 1..Basenames: the sequence numbers the folder can hold
          MaxPromotions

ASSUME PromotionAssumption == Basenames \in Nat \ {0} /\ MaxPromotions \in Nat

Receipt == 4
Names == Roles \cup {Receipt}
Partial == -3            \* opened, not yet whole
Foreign == -4            \* another program's file
Whole == 5               \* the receipt, whole

VARIABLES
    folder,      \* [1..Basenames -> [Names -> content]]
    sequence,    \* the basename this promotion takes
    created,     \* the files it has created so far
    promotions,  \* bound on the calls
    step,        \* the statement the promotion is at, "none" outside
    stuck        \* history: basenames whose whole receipt outlived its own failed call

promotionVars == <<folder, sequence, created, promotions, step, stuck>>
vars == <<finalizationVars, promotionVars>>

PromotionType ==
    /\ folder \in [1..Basenames -> [Names -> Written \cup {Gone, Altered, Partial, Foreign, Whole}]]
    /\ sequence \in 1..Basenames
    /\ created \subseteq Names
    /\ promotions \in 0..MaxPromotions
    /\ step \in {"none", "pick", "open", "fill", "discard", "sync", "unpublish"}
    /\ stuck \subseteq 1..Basenames

TypeOK == FinalizationType /\ PromotionType

\* The folder may already hold a frame of an earlier attempt.
WithEarlierFrame ==
    [k \in 1..Basenames |-> [i \in Names |->
        CASE k > 1 -> Gone [] k = 1 /\ i = Receipt -> Whole [] OTHER -> 1]]

Init ==
    /\ FinalizationInit
    /\ folder = IF attempt = Good THEN WithEarlierFrame
                ELSE [k \in 1..Basenames |-> [i \in Names |-> Gone]]
    /\ sequence = 1 /\ created = {} /\ promotions = 0 /\ step = "none" /\ stuck = {}

-----------------------------------------------------------------------------
\* promote_single_pass_frame: the manifest and the outputs must be there, and
\* the manifest must be the one the result carries.
Promote ==
    /\ step = "none" /\ pc = "idle" /\ verdict = "done"
    /\ promotions < MaxPromotions
    /\ promotions' = promotions + 1
    /\ manifest.kind = "this" /\ \A r \in Roles : out[r] # Gone
    /\ step' = "pick" /\ sequence' = 1 /\ created' = {} /\ at' = 1
    /\ UNCHANGED <<pc, verdict, given, files, locals, out, bak, before, gen, moved, placed,
                   budgets, folder, stuck>>

\* The first basename none of whose four files exists.  (The search has no end
\* in the code; here it gives up when the bound Basenames is reached.)
Pick ==
    /\ step = "pick"
    /\ \/ /\ \A i \in Names : folder[sequence][i] = Gone
          /\ step' = "open" /\ UNCHANGED sequence
       \/ /\ \E i \in Names : folder[sequence][i] # Gone
          /\ IF sequence < Basenames THEN sequence' = sequence + 1 /\ UNCHANGED step
                                     ELSE step' = "none" /\ UNCHANGED sequence
    /\ UNCHANGED <<finalizationVars, folder, created, promotions, stuck>>

\* Variant: the name found free is opened without "x".
OpenBlindly ==
    /\ step = "open"
    /\ folder' = [folder EXCEPT ![sequence][at] = Partial] /\ step' = "fill"
    /\ UNCHANGED <<finalizationVars, sequence, created, promotions, stuck>>

\* Every error outside the writing of one file goes to the removal of what was created.
Abandon == step' = "unpublish" /\ at' = Receipt

\* Exclusive creation: a name somebody took meanwhile makes the promotion fail,
\* and so does an error before the name is opened.
Open ==
    /\ step = "open"
    /\ \/ /\ folder[sequence][at] = Gone
          /\ folder' = [folder EXCEPT ![sequence][at] = Partial] /\ step' = "fill"
          /\ UNCHANGED <<at, budgets>>
       \/ folder[sequence][at] # Gone /\ Abandon /\ UNCHANGED <<folder, budgets>>
       \/ Fault /\ Abandon /\ UNCHANGED folder
    /\ UNCHANGED <<pc, verdict, given, files, locals, out, bak, before, gen, moved, placed,
                   sequence, created, promotions, stuck>>

\* What the file in hand holds once it is whole: a copy of the archive's file, as
\* it is now, or the receipt with the hashes of the three.
Content == IF at = Receipt THEN Whole ELSE out[at]

\* The file is written, flushed and closed, and a copy is compared with its source.
\* An error before the close is met with the file's own removal; one in the close
\* is not, and the file is not yet among the created; one in the comparison is,
\* and it is.
Fill ==
    /\ step = "fill"
    /\ \/ /\ folder' = [folder EXCEPT ![sequence][at] = Content]
          /\ created' = created \cup {at}
          /\ IF at = Receipt THEN step' = "sync" /\ UNCHANGED at
                             ELSE step' = "open" /\ at' = at + 1
          /\ UNCHANGED <<stuck, budgets>>
       \/ /\ \E c \in {Partial, Content} : folder' = [folder EXCEPT ![sequence][at] = c]
          /\ Fault /\ step' = "discard" /\ UNCHANGED <<at, created, stuck>>
       \/ /\ folder' = [folder EXCEPT ![sequence][at] = Content]
          /\ stuck' = IF at = Receipt THEN stuck \cup {sequence} ELSE stuck
          /\ Fault /\ Abandon /\ UNCHANGED created
       \/ /\ at # Receipt
          /\ folder' = [folder EXCEPT ![sequence][at] = Content]
          /\ created' = created \cup {at}
          /\ Fault /\ Abandon /\ UNCHANGED stuck
    /\ UNCHANGED <<pc, verdict, given, files, locals, out, bak, before, gen, moved, placed,
                   sequence, promotions>>

\* The removal of the file in hand can fail too, and then it stays.
Discard ==
    /\ step = "discard" /\ Abandon
    /\ \/ folder' = [folder EXCEPT ![sequence][at] = Gone] /\ UNCHANGED <<stuck, budgets>>
       \/ /\ stuck' = IF folder[sequence][at] = Whole THEN stuck \cup {sequence} ELSE stuck
          /\ Fault /\ UNCHANGED folder
    /\ UNCHANGED <<pc, verdict, given, files, locals, out, bak, before, gen, moved, placed,
                   sequence, created, promotions>>

\* The folder is synced and the promoted frame returned.
Sync ==
    /\ step = "sync"
    /\ \/ step' = "none" /\ UNCHANGED <<at, budgets>>
       \/ Fault /\ Abandon
    /\ UNCHANGED <<pc, verdict, given, files, locals, out, bak, before, gen, moved, placed,
                   folder, sequence, created, promotions, stuck>>

\* After an error the files it created go, the last one first; an unlink that
\* fails ends the promotion where it is.
Unpublish ==
    /\ step = "unpublish"
    /\ IF at = 0
       THEN step' = "none" /\ at' = 1 /\ UNCHANGED <<folder, budgets>>
       ELSE \/ /\ folder' = [folder EXCEPT ![sequence][at] = IF at \in created THEN Gone ELSE @]
               /\ at' = at - 1
               /\ UNCHANGED <<step, budgets>>
            \/ at \in created /\ Fault /\ step' = "none" /\ UNCHANGED <<at, folder>>
    /\ UNCHANGED <<pc, verdict, given, files, locals, out, bak, before, gen, moved, placed,
                   sequence, created, promotions, stuck>>

PromotionStep == Pick \/ Open \/ Fill \/ Discard \/ Sync \/ Unpublish

PromotionCrash ==
    /\ step # "none"
    /\ crashes < MaxCrashes /\ crashes' = crashes + 1
    /\ step' = "none" /\ verdict' = "crashed"
    /\ UNCHANGED <<pc, given, files, locals, triplet, faults, tampers,
                   folder, sequence, created, promotions, stuck>>

\* Another program creates a file in the folder.
ForeignFile ==
    /\ Tampering
    /\ \E k \in 1..Basenames, i \in Names :
          folder[k][i] = Gone /\ folder' = [folder EXCEPT ![k][i] = Foreign]
    /\ UNCHANGED <<pc, verdict, given, files, locals, triplet, faults, crashes,
                   sequence, created, promotions, step, stuck>>

Next ==
    \/ step = "none" /\ FinalizationNext /\ UNCHANGED promotionVars
    \/ Promote \/ PromotionStep \/ PromotionCrash \/ ForeignFile

Spec == Init /\ [][Next]_vars /\ WF_vars(FinalizeStep /\ UNCHANGED promotionVars)
             /\ WF_vars(step = "none" /\ Finalize /\ UNCHANGED promotionVars)
             /\ WF_vars(PromotionStep)

-----------------------------------------------------------------------------
\* A whole receipt stands beside three whole copies of one sealed triplet, or of
\* files somebody altered after they were sealed: no crash, failure, or other
\* program's file leaves it beside less, unless the call that wrote the receipt
\* failed to remove it again.
\* (promote_single_pass_frame: the receipt is created last and removed first)
ReceiptMeansWhole ==
    \A k \in 1..Basenames \ stuck : folder[k][Receipt] = Whole =>
        /\ \A r \in Roles : folder[k][r] \in Written \cup {Altered}
        /\ \A r, s \in Roles : Altered \notin {folder[k][r], folder[k][s]} =>
                                folder[k][r] = folder[k][s]

\* What _write_receipt_exclusive says of itself, with no such exception: "Write the
\* completion marker once, removing it after handled failures."  (outputs.py:85)
ReceiptMarksCompletion ==
    \A k \in 1..Basenames : folder[k][Receipt] = Whole => \A r \in Roles : folder[k][r] # Gone

\* Both seals, the archive's manifest and the folder's receipt, vouch for what is there.
SealsAreTrue == SealedIsTheCapture /\ ReceiptMeansWhole

\* A file of another program, and one that an ended promotion left under a whole
\* receipt, is never replaced or removed.
\* (_copy_exclusive, the collision loop, the cleanup of created files only)
FolderIsAppendOnly ==
    [][ \A k \in 1..Basenames, i \in Names :
          \/ folder[k][i] = Foreign
          \/ /\ folder[k][Receipt] = Whole /\ folder[k][i] # Gone
             /\ ~(step # "none" /\ sequence = k)
          => folder'[k][i] = folder[k][i] ]_vars
=============================================================================
