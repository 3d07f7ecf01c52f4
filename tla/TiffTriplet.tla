------------------------------ MODULE TiffTriplet ------------------------------
(***************************************************************************)
(* The transactional writer of one frame's three TIFFs                     *)
(* (receipts/writer.py, io/encoders.py): the new files are written beside  *)
(* their targets, the old ones are renamed to reserved siblings, the new   *)
(* ones are renamed into place, and a failed rename puts everything back.  *)
(* Every rename is a step of its own, may fail (MaxFaults in all), and the *)
(* process may die between any two.                                        *)
(*                                                                         *)
(* A file's content is the generation that wrote it: 1..Generations for    *)
(* the calls of the writer (each takes one that no target holds), or one   *)
(* of the three marks.                                                     *)
(***************************************************************************)
EXTENDS Integers, FiniteSets

CONSTANTS MaxCrashes, MaxFaults, MaxTampers

ASSUME BudgetAssumption ==
    MaxCrashes \in Nat /\ MaxFaults \in Nat /\ MaxTampers \in Nat

Gone == 0                \* no file of that name
Empty == -1              \* a reserved sibling, still without content
Altered == -2            \* content this program did not write
Generations == 4
Written == 1..Generations
Roles == 1..3            \* rgb, ir, ir_valid_mask: the order of every loop

VARIABLES
    pc,        \* the statement the caller's thread is at
    verdict,   \* how its last call ended
    out,       \* [Roles -> content]: the target files
    bak,       \* [Roles -> content]: the siblings that hold the old ones
    before,    \* [Roles -> content]: history, the targets when the commit began
    gen,       \* the generation this call writes
    at,        \* the role the current loop is at
    moved,     \* moved_old
    placed,    \* committed_new
    faults, crashes, tampers    \* what has been spent of the three budgets

triplet == <<out, bak, before, gen, at, moved, placed>>
budgets == <<faults, crashes, tampers>>

TripletType ==
    /\ out \in [Roles -> Written \cup {Gone, Altered}]
    /\ bak \in [Roles -> Written \cup {Gone, Empty, Altered}]
    /\ before \in [Roles -> Written \cup {Gone, Altered}]
    /\ gen \in Written
    /\ at \in 0..4
    /\ moved \subseteq Roles /\ placed \subseteq Roles
    /\ faults \in 0..MaxFaults /\ crashes \in 0..MaxCrashes /\ tampers \in 0..MaxTampers

TripletInit ==
    /\ out = [r \in Roles |-> Gone]
    /\ bak = [r \in Roles |-> Gone]
    /\ before = [r \in Roles |-> Gone]
    /\ gen = 1
    /\ at = 1
    /\ moved = {} /\ placed = {}
    /\ faults = 0 /\ crashes = 0 /\ tampers = 0

\* One file operation raises OSError.
Fault == faults < MaxFaults /\ faults' = faults + 1 /\ UNCHANGED <<crashes, tampers>>

\* The call raises: the caller is told, its locals are gone.
Raise(how) == pc' = "idle" /\ verdict' = how

\* The three temporaries are written and their evidence is taken.  A failure
\* unlinks them and leaves the targets alone.  The backups of an earlier call
\* that died keep their unique names: nothing refers to them any more.
WriteTemps ==
    /\ pc = "temps"
    /\ \/ /\ pc' = "moveOld"
          /\ before' = out
          /\ bak' = [r \in Roles |-> Gone]
          /\ gen' = CHOOSE g \in Written : \A r \in Roles : out[r] # g
          /\ at' = 1 /\ moved' = {} /\ placed' = {}
          /\ UNCHANGED <<verdict, out, budgets>>
       \/ Fault /\ Raise("raised") /\ UNCHANGED triplet

StartRollback == pc' = "rollback" /\ at' = 3 /\ Fault

\* First loop: reserve a sibling, rename the old target onto it.  Either can fail.
MoveOld ==
    /\ pc = "moveOld"
    /\ \/ /\ out[at] # Gone
          /\ bak' = [bak EXCEPT ![at] = out[at]]
          /\ out' = [out EXCEPT ![at] = Gone]
          /\ moved' = moved \cup {at}
          /\ at' = (at % 3) + 1
          /\ pc' = IF at = 3 THEN "place" ELSE pc
          /\ UNCHANGED budgets
       \/ /\ out[at] = Gone
          /\ at' = (at % 3) + 1
          /\ pc' = IF at = 3 THEN "place" ELSE pc
          /\ UNCHANGED <<out, bak, moved, budgets>>
       \/ /\ out[at] # Gone
          /\ \E reserved \in {Gone, Empty} : bak' = [bak EXCEPT ![at] = reserved]
          /\ StartRollback
          /\ UNCHANGED <<out, moved>>
    /\ UNCHANGED <<verdict, before, gen, placed>>

\* Second loop: rename the new file onto its target.
Place ==
    /\ pc = "place"
    /\ \/ /\ out' = [out EXCEPT ![at] = gen]
          /\ placed' = placed \cup {at}
          /\ at' = (at % 3) + 1
          /\ pc' = IF at = 3 THEN "dropBackups" ELSE pc
          /\ UNCHANGED budgets
       \/ StartRollback /\ UNCHANGED <<out, placed>>
    /\ UNCHANGED <<verdict, bak, before, gen, moved>>

\* What undoing one role does when nothing fails: an old file returns to its
\* name, a new one with no predecessor is unlinked.
Restored(r) ==
    CASE r \in moved -> [out |-> [out EXCEPT ![r] = bak[r]],
                         bak |-> [bak EXCEPT ![r] = Gone]]
      [] r \notin moved /\ r \in placed -> [out |-> [out EXCEPT ![r] = Gone], bak |-> bak]
      [] OTHER -> [out |-> out, bak |-> bak]

\* The roles are undone in reverse order; an error is collected, not raised.
RollbackRole ==
    /\ pc = "rollback" /\ at \in Roles
    /\ at' = at - 1
    /\ \/ /\ out' = Restored(at).out /\ bak' = Restored(at).bak
          /\ UNCHANGED <<verdict, budgets>>
       \/ /\ at \in moved \cup placed
          /\ verdict' = "incomplete"
          /\ Fault
          /\ UNCHANGED <<out, bak>>
    /\ UNCHANGED <<pc, before, gen, moved, placed>>

\* Variant: every sibling is taken for an unused reservation.
EndRollbackDropsAll ==
    /\ pc = "rollback" /\ at = 0
    /\ bak' = [r \in Roles |-> Gone]
    /\ Raise(IF verdict = "incomplete" THEN "incomplete" ELSE "rolledBack")
    /\ at' = 1 /\ moved' = {} /\ placed' = {}
    /\ UNCHANGED <<out, before, gen, budgets>>

\* Then the temporaries and the unused reservations are unlinked, and the error
\* is raised again: as "rollback was incomplete" if anything was collected.
EndRollback ==
    /\ pc = "rollback" /\ at = 0
    /\ \/ /\ bak' = [r \in Roles |-> IF r \in moved THEN bak[r] ELSE Gone]
          /\ Raise(IF verdict = "incomplete" THEN "incomplete" ELSE "rolledBack")
          /\ UNCHANGED budgets
       \/ Fault /\ Raise("incomplete") /\ UNCHANGED bak
    /\ at' = 1 /\ moved' = {} /\ placed' = {}
    /\ UNCHANGED <<out, before, gen>>

\* The triplet is committed: the backups go, and one that cannot go is only
\* reported.  A failed fsync after that raises, with the new triplet in place.
\* Otherwise the caller continues at "verify".
DropBackups ==
    /\ pc = "dropBackups"
    /\ \/ /\ bak' = [r \in Roles |-> Gone]
          /\ pc' = "verify"
          /\ UNCHANGED <<verdict, budgets>>
       \/ /\ \E r \in moved : bak' = [s \in Roles |-> IF s = r THEN bak[s] ELSE Gone]
          /\ pc' = "verify"
          /\ Fault /\ UNCHANGED verdict
       \/ /\ bak' = [r \in Roles |-> Gone]
          /\ Fault /\ Raise("raised")
    /\ at' = 1 /\ moved' = {} /\ placed' = {}
    /\ UNCHANGED <<out, before, gen>>

WriterStep == WriteTemps \/ MoveOld \/ Place \/ RollbackRole \/ EndRollback \/ DropBackups

-----------------------------------------------------------------------------
\* Every file of an old triplet survives, under its name or in its sibling,
\* until the three new ones are in place; and a failure whose rollback was
\* complete leaves the targets as they were.  At every step, after a crash too.
\* (_commit_tiff_triplet: renames, rollback and the removal of the backups)
TripletRecoverable ==
    /\ \/ \A r \in Roles : out[r] = gen
       \/ \A r \in Roles : before[r] \in {Gone, out[r], bak[r]}
    /\ verdict = "rolledBack" => out = before
=============================================================================
