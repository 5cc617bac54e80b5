------------------------------ MODULE MCResume ------------------------------
(***************************************************************************)
(* Model checking of Resume: how many chunks the commands of a run make,   *)
(* and how they are read back.                                             *)
(***************************************************************************)
EXTENDS Resume

CONSTANTS c1, c2

AllThree == [c \in Cmds |-> 3]
AllTwo == [c \in Cmds |-> 2]
Shorter == [c \in Cmds |-> IF c = c1 THEN 3 ELSE 2]
AsSaved == [c \in Cmds |-> c]
Misread == [c \in Cmds |-> IF c = c1 THEN c2 ELSE NoCmd]
=============================================================================
