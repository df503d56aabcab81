------------------------------ MODULE SeqTracker ------------------------------
(***************************************************************************)
(* What an agent session expects of its gap tracker: it remembers exactly  *)
(* the sequence numbers it was given, counts each of them once, and says   *)
(* it is complete when it has seen all that the Start message declared.    *)
(***************************************************************************)
EXTENDS Naturals

CONSTANT Sizes

VARIABLES size, seen, count, complete

vars == <<size, seen, count, complete>>

All == 0..(size - 1)

Init ==
  /\ size \in Sizes
  /\ seen = {}
  /\ count = 0
  /\ complete = (size = 0)

Observe(seq) ==
  /\ seen' = seen \cup {seq}
  /\ count' = IF seq \in seen THEN count ELSE count + 1
  /\ complete' = (seen' = All)
  /\ UNCHANGED size

Next == \E seq \in All : Observe(seq)

Spec == Init /\ [][Next]_vars
==============================================================================
