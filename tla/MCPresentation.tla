--------------------------- MODULE MCPresentation ---------------------------
(* Instance of Presentation for TLC: two questions, two pieces of output   *)
(* against a fuse of two, and one Ctrl+C.  A third question is for the     *)
(* configuration that shows one overtaking another.                        *)
EXTENDS Presentation

CONSTANTS r1, r2, r3

MCRequests == {r1, r2}
MCThree == {r1, r2, r3}
MCEffects == {"echo", "lines", "alt"}
=============================================================================
