----------------------------- MODULE ScoaState ------------------------------
(***************************************************************************)
(* ScoaState (libcapt/Compression/ScoaState.hpp): the scanner that cuts    *)
(* one raster line into runs, one run ahead of the run it hands out.       *)
(*                                                                         *)
(* The scanner keeps two runs: `last`, still growing, and `curr`, finished *)
(* and ready for Get.  A byte may move the border between them after both  *)
(* exist, which is why the look-ahead is needed and why it is easy to get  *)
(* wrong.  One action is one iteration of the loop in Next(); Get() is a   *)
(* call of the owner (nextCmd of ScoaStreambuf.cpp) and re-enters Next().  *)
(* Construct stands for the owner building a fresh ScoaState for the next  *)
(* line (ScoaStreambuf.cpp:230).                                           *)
(***************************************************************************)
EXTENDS ScoaFunc

CONSTANTS Byte,      (* the values a raster byte takes       *)
          LineSize   (* bytes in a line: line.size()         *)

(* A line of no bytes never becomes Empty() and fails the assertion in     *)
(* Peek (ScoaState.hpp:48): the code is only usable with one byte or more. *)
ASSUME LineSizeAssumption == LineSize \in Nat \ {0}

VARIABLES line,      (* the line being cut                                 *)
          prevLine,  (* the line above it, NoLine for the first of a page  *)
          index,     (* the scanning position, see Empty                   *)
          last,      (* the run still growing                              *)
          curr,      (* the run Peek and Get return                        *)
          inNext,    (* is Next() running?                                 *)
          taken      (* history: the runs Get has returned for this line   *)

scanVars == <<line, prevLine, index, last, curr, inNext, taken>>

Column == 0 .. LineSize - 1
Line   == [Column -> Byte]

(* Slip: Empty as soon as the last run is in curr.                         *)
EmptyEarly == index > LineSize

(* Past the last byte the index keeps counting: LineSize+1 when the last   *)
(* run has been moved to curr, LineSize+2 when it has been taken.          *)
Empty == index > LineSize + 1

(***************************************************************************)
(* A ScoaState built for line ln under the line above it.  The constructor *)
(* runs Next() before it returns.                                          *)
(***************************************************************************)
Constructed(ln, above) ==
  /\ line' = ln
  /\ prevLine' = above
  /\ index' = 0
  /\ last' = NoFunc
  /\ curr' = NoFunc
  /\ inNext' = TRUE
  /\ taken' = <<>>

Init ==
  /\ line \in Line
  /\ prevLine \in Line \union {NoLine}
  /\ index = 0
  /\ last = NoFunc
  /\ curr = NoFunc
  /\ inNext = TRUE
  /\ taken = <<>>

(* Slip: the first run of the line is handed out before there is one.      *)
ScanByteNoFirst ==
  /\ inNext
  /\ index < LineSize
  /\ index' = index + 1
  /\ LET r == NextFunc(prevLine, line, index, last)
     IN  /\ last' = IF r.func = NoFunc THEN r.last ELSE r.func
         /\ curr' = IF r.func = NoFunc THEN curr ELSE r.last
         /\ inNext' = (r.func = NoFunc)
  /\ UNCHANGED <<line, prevLine, taken>>

(* The loop of Next(): one more byte.                                      *)
ScanByte ==
  /\ inNext
  /\ index < LineSize
  /\ index' = index + 1
  /\ LET r == NextFunc(prevLine, line, index, last)
     IN \/ /\ r.func = NoFunc
           /\ last' = r.last
           /\ UNCHANGED <<curr, inNext>>
        \/ /\ r.func # NoFunc
           /\ index' = 1          \* the first run of the line: keep scanning
           /\ last' = r.func
           /\ UNCHANGED <<curr, inNext>>
        \/ /\ r.func # NoFunc
           /\ index' > 1
           /\ curr' = r.last
           /\ last' = r.func
           /\ inNext' = FALSE
  /\ UNCHANGED <<line, prevLine, taken>>

(* Slip: no second flush.                                                  *)
FlushOnce ==
  /\ inNext
  /\ index = LineSize
  /\ curr' = last
  /\ index' = index + 1
  /\ inNext' = FALSE
  /\ UNCHANGED <<line, prevLine, last, taken>>

(* The end of Next(), once for each of the two positions after the line.   *)
(* The third outcome in the code, `return false`, needs a call of Get on   *)
(* an Empty() scanner, which its callers exclude.                          *)
FlushLast ==
  /\ inNext
  /\ index \in {LineSize, LineSize + 1}
  /\ curr' = last
  /\ index' = index + 1
  /\ inNext' = FALSE
  /\ UNCHANGED <<line, prevLine, last, taken>>

(* Get(): the owner takes curr and the scanner runs Next() again.          *)
Get ==
  /\ ~inNext
  /\ ~Empty
  /\ taken' = Append(taken, curr)
  /\ inNext' = TRUE
  /\ UNCHANGED <<line, prevLine, index, last, curr>>

Construct ==
  /\ ~inNext
  /\ Empty
  /\ \E ln \in Line, above \in Line \union {NoLine} : Constructed(ln, above)

Scan == ScanByte \/ FlushLast

Next == Scan \/ Get \/ Construct

Spec == Init /\ [][Next]_scanVars

(* The loop in Next() is sequential code, and the loops around Get() in    *)
(* nextCmd and underflow run until Empty(): neither may stop halfway.      *)
FairSpec == Spec /\ WF_scanVars(Scan) /\ WF_scanVars(Get)
-----------------------------------------------------------------------------
Funcs == [Type : FuncTypes, Index : Column, Count : 1 .. LineSize]

TypeOK ==
  /\ line \in Line
  /\ prevLine \in Line \union {NoLine}
  /\ index \in 0 .. LineSize + 2
  /\ last \in Funcs \union {NoFunc}
  /\ curr \in Funcs \union {NoFunc}
  /\ inNext \in BOOLEAN
  /\ taken \in Seq(Funcs)

(***************************************************************************)
(* The runs handed out tile the line: each starts where the one before     *)
(* ended, the first at column zero, and when the scanner is Empty() the    *)
(* last one ends with the line (what processLine of ScoaStateTest.cpp      *)
(* asserts for a few lines).  No two neighbours are both Copy or both Raw: *)
(* nextCmd asserts that the run after a Copy is a Repeat or a Raw          *)
(* (ScoaStreambuf.cpp:195-198).                                            *)
(***************************************************************************)
Follows(f, g) ==
  /\ g.Index = End(f)
  /\ g.Type \in {"Copy", "Raw"} => f.Type # g.Type

Chained(s) ==
  /\ s # <<>> => s[1].Index = 0
  /\ \A k \in 1 .. Len(s) - 1 : Follows(s[k], s[k + 1])

Tiling ==
  /\ Chained(taken)
  /\ Empty => /\ taken # <<>>
              /\ End(taken[Len(taken)]) = LineSize

(***************************************************************************)
(* Every run handed out is true of the line although the border between    *)
(* two runs moves after the fact: a Repeat covers at least two equal       *)
(* bytes, a Copy only bytes equal to those above them.  A decoder that     *)
(* replays the runs would otherwise print something else.                  *)
(***************************************************************************)
Covers(f) == f.Index .. End(f) - 1

TrueOfLine(f) ==
  /\ f.Type = "Repeat" => /\ f.Count >= 2
                          /\ \A i \in Covers(f) : line[i] = line[f.Index]
  /\ f.Type = "Copy"   => /\ prevLine # NoLine
                          /\ \A i \in Covers(f) : line[i] = prevLine[i]

Faithful == \A k \in 1 .. Len(taken) : TrueOfLine(taken[k])

(***************************************************************************)
(* The compression is not lazy: what is sent as Raw could neither have     *)
(* been copied from the line above nor contains two equal neighbours, and  *)
(* the byte after a Copy differs from the one above it.                    *)
(***************************************************************************)
Incompressible(f) ==
  /\ f.Type = "Raw" =>
       /\ \A i \in Covers(f) : prevLine = NoLine \/ line[i] # prevLine[i]
       /\ \A i, j \in Covers(f) : j = i + 1 => line[i] # line[j]
  /\ f.Type = "Copy" /\ End(f) < LineSize => line[End(f)] # prevLine[End(f)]

NotLazy == \A k \in 1 .. Len(taken) : Incompressible(taken[k])

(* Cutting a line ends: whatever the bytes, the scanner becomes Empty().   *)
Exhausted == []<>Empty
=============================================================================
