----------------------------- MODULE PrintQueue -----------------------------
(***************************************************************************)
(* What a print job promises: the pages of the file come out in order,     *)
(* each of them once, and all of them unless the job is stopped or fails.  *)
(***************************************************************************)
EXTENDS Naturals, Sequences

CONSTANT NumPages

VARIABLES out,    \* the pages that came out; the first is page 0
          halted  \* was the job stopped, or did it fail?

queueVars == <<out, halted>>

Init == out = <<>> /\ halted = FALSE

PrintPage ==
  /\ Len(out) < NumPages
  /\ out' = Append(out, Len(out))
  /\ UNCHANGED halted

Halt ==
  /\ ~halted
  /\ halted' = TRUE
  /\ UNCHANGED out

Next == PrintPage \/ Halt

Spec == Init /\ [][Next]_queueVars /\ WF_queueVars(~halted /\ PrintPage)
=============================================================================
