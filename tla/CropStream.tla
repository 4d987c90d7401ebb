----------------------------- MODULE CropStream -----------------------------
(***************************************************************************)
(* CropStream (libcapt/Utility/CropStreambuf.cpp): a stream buffer that    *)
(* shows the upper left corner of each page of a raster.                   *)
(*                                                                         *)
(* A byte of the raster stands for itself by its position, so what was     *)
(* read is the sequence of the positions that were delivered.  xsgetn      *)
(* calls itself for all but the last cropLineSize bytes; one turn of its   *)
(* loop, and the read after it, are one step.  underflow changes nothing.  *)
(***************************************************************************)
EXTENDS Naturals, Sequences

CONSTANTS origLineSize, origLines, cropLineSize, cropLines,
          Lengths,  \* of the raster: it may have pages after the first, or end early
          Wanted,   \* the numbers of bytes a reader asks for
          MaxRead   \* bound: the bytes a reader reads

ASSUME CropAssumption ==
  /\ origLineSize \in Nat /\ origLines \in Nat
  /\ cropLineSize \in 1 .. origLineSize
  /\ cropLines \in 1 .. origLines
  /\ Lengths \subseteq Nat /\ Wanted \subseteq Nat \ {0} /\ MaxRead \in Nat

VARIABLES
  length, position,       \* rasterStream
  currentLine, lineRead,  \* the members
  want, asked, count,     \* the call: bytes still wanted, bytes asked for, bytes read
  aligned,                \* history: did the call begin with a line?
  got                     \* history: the bytes delivered

vars == <<length, position, currentLine, lineRead, want, asked, count, aligned, got>>

Minimum(a, b) == IF a <= b THEN a ELSE b

(* discard: sbumpc, at most to the end of the raster.                      *)
Discarded(from, n) == Minimum(from + n, length)

(* Slip: discardLines counts from the line that was read last.             *)
EndLineOneLess(from) ==
  LET next == Discarded(from, origLineSize - cropLineSize)
  IN  /\ lineRead' = 0
      /\ IF currentLine + 1 = cropLines
         THEN /\ currentLine' = 0
              /\ position' = Discarded(next, (origLines - currentLine) * origLineSize)
         ELSE currentLine' = currentLine + 1 /\ position' = next

(* Slip: the lines below the corner are left to the next page.             *)
EndLineLater(from) ==
  /\ lineRead' = 0
  /\ currentLine' = IF currentLine + 1 = cropLines THEN 0 ELSE currentLine + 1
  /\ position' = Discarded(from, origLineSize - cropLineSize)

(* endLine, and discardLines after the last line that is shown.            *)
EndLine(from) ==
  LET next == Discarded(from, origLineSize - cropLineSize)
  IN  /\ lineRead' = 0
      /\ IF currentLine + 1 = cropLines
         THEN /\ currentLine' = 0
              /\ position' = Discarded(next, (origLines - cropLines) * origLineSize)
         ELSE currentLine' = currentLine + 1 /\ position' = next

Init ==
  /\ length \in Lengths /\ position = 0
  /\ currentLine = 0 /\ lineRead = 0
  /\ want = 0 /\ asked = 0 /\ count = 0 /\ aligned = TRUE
  /\ got = <<>>

(* sgetn, and sbumpc by way of uflow, which reads one byte.                *)
Call ==
  /\ want = 0
  /\ \E n \in Wanted : Len(got) + n <= MaxRead /\ want' = n /\ asked' = n
  /\ count' = 0
  /\ aligned' = (lineRead = 0)
  /\ UNCHANGED <<length, position, currentLine, lineRead, got>>

(* Slip: where in the line the read begins is forgotten.                    *)
PartToEnd == Minimum(Minimum(want, cropLineSize), length - position)

(* What one read takes, and where the call goes on.                        *)
Part == Minimum(Minimum(Minimum(want, cropLineSize), cropLineSize - lineRead),
                length - position)

(* Slip: the loop does not look at what was read.                          *)
RestForever(read) == IF want > cropLineSize THEN want - read ELSE 0

(* Slip: a call reads one line at most.                                    *)
RestNone(read) == 0

Rest(read) == IF want > cropLineSize /\ read # 0 THEN want - read ELSE 0

GetSome ==
  /\ want > 0
  /\ LET read == Part
     IN  /\ got' = got \o [k \in 1 .. read |-> position + k - 1]
         /\ count' = count + read
         /\ want' = Rest(read)
         /\ IF lineRead + read = cropLineSize
            THEN EndLine(position + read)
            ELSE /\ lineRead' = lineRead + read
                 /\ position' = position + read
                 /\ UNCHANGED currentLine
  /\ UNCHANGED <<length, asked, aligned>>

Next == Call \/ GetSome

Spec == Init /\ [][Next]_vars /\ WF_vars(GetSome)
-----------------------------------------------------------------------------
TypeOK ==
  /\ length \in Lengths /\ position \in 0 .. length
  /\ currentLine \in 0 .. cropLines - 1
  /\ lineRead \in 0 .. cropLineSize - 1   \* underflow's assertion
  /\ want \in 0 .. MaxRead /\ asked \in 0 .. MaxRead /\ count \in 0 .. asked
  /\ aligned \in BOOLEAN
  /\ got \in Seq(0 .. length - 1)

(* Where the byte is that is the k-th to be shown, from 0.                 *)
Corner(k) ==
  LET shown == cropLineSize * cropLines
      page  == k \div shown
      line  == (k % shown) \div cropLineSize
  IN  (page * origLines + line) * origLineSize + (k % cropLineSize)

(***************************************************************************)
(* However a reader divides its reads, across lines and pages and also at  *)
(* the early end of a raster, it gets the corners of the pages, byte by    *)
(* byte, and nothing else.                                                 *)
(***************************************************************************)
Cropped == \A k \in 1 .. Len(got) : got[k] = Corner(k - 1)

(***************************************************************************)
(* Nothing that should be shown is skipped: a read that comes back short   *)
(* stopped at the end of the raster, or at the end of a line after it had  *)
(* begun within one.  A reader of whole lines, as ScoaStreambuf is, so     *)
(* never takes the end of a line for the end of its page                   *)
(* (ScoaStreambuf.cpp:224).                                                *)
(***************************************************************************)
NoShortLines ==
  (want = 0 /\ count < asked /\ aligned) => position = length

(***************************************************************************)
(* sgetc, which looks at the raster without an eye on the lines            *)
(* (CropStreambuf.cpp:44), shows the byte that is read next; and after     *)
(* the last line of a page the raster is at the next page, whose header    *)
(* the program reads past the crop.                                        *)
(***************************************************************************)
PeekIsNext == (want = 0 /\ position < length) => position = Corner(Len(got))

(* Every read returns, also at the end of the raster.                      *)
Returns == want > 0 ~> want = 0
=============================================================================
