----------------------------- MODULE MCFineFrame -----------------------------
(***************************************************************************)
(* FineFrame on a small instance: one visible channel and infrared, and a  *)
(* handful of films.                                                       *)
(***************************************************************************)
EXTENDS FineFrame

MCDefault == [c \in {"G", "IR"} |-> IF c = "G" THEN 180000 ELSE 280000]

Shows(g, gPeak, ir, irPeak) ==
    [c \in {"G", "IR"} |->
        IF c = "G" THEN [core |-> g, peak |-> gPeak] ELSE [core |-> ir, peak |-> irPeak]]

\* An even film; the same under a lamp that is a twentieth and a fifth brighter;
\* one with highlights in the frame's border, steady and not; a dense one, a bright
\* one; and one that is too dark to meter.
MCSights ==
    {Shows(300, 330, 290, 300), Shows(315, 345, 305, 315), Shows(360, 396, 348, 360),
     Shows(300, 520, 250, 300), Shows(310, 530, 250, 340),
     Shows(90, 100, 150, 160), Shows(560, 600, 320, 345), Shows(8, 12, 290, 300)}
=============================================================================
