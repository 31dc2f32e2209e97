------------------------------ MODULE PlainMemory ------------------------------
(***************************************************************************)
(* What the start-up code and the caches promise a lesson: after a start   *)
(* its variables hold what the image and C say, and from then on they      *)
(* change only when the program stores to them.                            *)
(***************************************************************************)
CONSTANTS
  Image,       \* the programs that may be loaded
  Fresh,       \* Fresh[i]: what the variables of program i start with
  Stores       \* the stores of the program, as <<word, value>>

VARIABLES
  image,  \* the program loaded last
  up,     \* it has been started
  view    \* its variables

vars == <<image, up, view>>

Init == image \in Image /\ up = FALSE

Load == image' \in Image /\ up' = FALSE

\* Before the start anything may be in memory.
Wait == ~up /\ up' = FALSE /\ UNCHANGED image

Boot ==
  /\ ~up /\ up' = TRUE
  /\ view' = Fresh[image]
  /\ UNCHANGED image

Store ==
  /\ up /\ up' = TRUE
  /\ \E s \in Stores : view' = [view EXCEPT ![s[1]] = s[2]]
  /\ UNCHANGED image

Next == Load \/ Wait \/ Boot \/ Store

Spec == Init /\ [][Next]_vars

=============================================================================
