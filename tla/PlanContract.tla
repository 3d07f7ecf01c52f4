----------------------------- MODULE PlanContract -----------------------------
(***************************************************************************)
(* What a roll plan promises to whoever captures under its approval        *)
(* (roll/service.py): the evidence that was approved does not change while *)
(* the approval stands.  Other evidence needs another approval, and the    *)
(* old one is withdrawn first.                                             *)
(***************************************************************************)
CONSTANTS Evidence, None

VARIABLE binding    \* the approved evidence; None while nothing is approved

TypeOK == binding \in Evidence \cup {None}

Init == binding = None

Approve == binding = None /\ binding' \in Evidence
Withdraw == binding # None /\ binding' = None

Next == Approve \/ Withdraw
Spec == Init /\ [][Next]_binding
=============================================================================
