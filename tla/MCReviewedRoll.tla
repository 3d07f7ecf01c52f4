---------------------------- MODULE MCReviewedRoll ----------------------------
(* Films, readings and distances for ReviewedRoll. *)
EXTENDS ReviewedRoll, TLC

\* Ten pictures; the fifth exchanged for another, and for one without contrast; and
\* eleven pictures of one motif that are hard to tell apart; and a strip of three, the
\* last of which shows nothing.
Roll10 == [p \in 1..10 |-> p]
Exchanged == [Roll10 EXCEPT ![5] = 11]
Faint == [Roll10 EXCEPT ![5] = 0]
Series == [p \in 1..11 |-> 100 + p]

Strip == <<21, 22, 0>>

TheFilms == <<Roll10, Exchanged, Faint, Series, Strip>>

\* Nikon's own page continues after each of these films.
ThePage == [k \in 1..PageRecords |-> Scale * Pitch * (k - 1)]

BitsApart(p, q) == IF p = q THEN 0 ELSE IF p > 100 /\ q > 100 THEN 20 ELSE 128

TheFeeds ==
    {[film |-> 1, load |-> 0], [film |-> 1, load |-> 3],
     [film |-> 1, load |-> 20], [film |-> 2, load |-> 0],
     [film |-> 3, load |-> 0], [film |-> 4, load |-> 0], [film |-> 5, load |-> 0]}

Ordinary ==
    {{}} \cup
    {{<<k, 1>>} : k \in {"vague", "leading", "sliver", "astray"}} \cup
    {{<<k, 5>>} : k \in {"broad", "beyond", "clamped", "astray", "lost", "tail"}} \cup
    {{<<"leading", 1>>, <<"astray", 1>>}, {<<"leading", 1>>, <<"broad", 5>>}}

Oddities(f) ==
    IF f.film = 4 THEN {{<<"missed", 1>>}, {<<"cut", 1>>}}
    ELSE IF f.film = 1 /\ f.load = 0 THEN Ordinary
    ELSE IF f.film = 5 THEN {{}, {<<"cut", 3>>}, {<<"leading", 1>>, <<"cut", 3>>}}
    ELSE {{}}

TheReadings ==
    UNION {{[film |-> f.film, load |-> f.load, odd |-> o] : o \in Oddities(f)} : f \in TheFeeds}

\* FineScanIsReviewed is proved of films like these.
ASSUME FilmsAreTold == TellsFramesApart

PortSymmetry == Permutations(Ports)

\* Nothing is followed after the last batch; and during a batch, in which the saved
\* payload plays no part, only with nothing saved or the session itself.
Followed ==
    /\ jobs < MaxJobs \/ job # None
    /\ job # None => saved \in {None, session}
=============================================================================
