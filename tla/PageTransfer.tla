---------------------------- MODULE PageTransfer ----------------------------
(***************************************************************************)
(* What compression and decompression promise together: the lines of a     *)
(* page come out in order and unchanged, all of them or, if the raster     *)
(* ended early, all that were complete (ScoaStreambufTest.cpp, General and *)
(* PartialRaster).                                                         *)
(***************************************************************************)
EXTENDS Naturals, Sequences, SequencesExt

CONSTANTS Pages,    \* the pages: raster is what the source holds of it,
                    \* lines is how many lines it should have
          LineBytes(_) \* the bytes of a line as a sequence

VARIABLES page,     \* the page in transfer
          printed,  \* the bytes that have come out
          outcome   \* "decoding", "page" when whole, "error" when cut short

transferVars == <<page, printed, outcome>>

Flat(lines) == FlattenSeq([k \in 1 .. Len(lines) |-> LineBytes(lines[k])])

Complete == Len(page.raster) >= page.lines

(* The lines that can come out.                                            *)
Expected == IF Complete THEN Flat(SubSeq(page.raster, 1, page.lines))
                        ELSE Flat(page.raster)

Init ==
  /\ page \in Pages
  /\ printed = <<>>
  /\ outcome = "decoding"

PrintLine ==
  /\ outcome = "decoding"
  /\ \E k \in 1 .. Len(page.raster) :
       /\ k <= page.lines
       /\ printed = Flat(SubSeq(page.raster, 1, k - 1))
       /\ printed' = printed \o LineBytes(page.raster[k])
  /\ UNCHANGED <<page, outcome>>

EndPage ==
  /\ outcome = "decoding"
  /\ printed = Expected
  /\ outcome' = IF Complete THEN "page" ELSE "error"
  /\ UNCHANGED <<page, printed>>

NextPage ==
  /\ outcome # "decoding"
  /\ page' \in Pages
  /\ printed' = <<>>
  /\ outcome' = "decoding"

Next == PrintLine \/ EndPage \/ NextPage

(* A page that was begun is brought to its end.                            *)
Spec == Init /\ [][Next]_transferVars /\ WF_transferVars(PrintLine \/ EndPage)
=============================================================================
