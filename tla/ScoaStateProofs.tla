-------------------------- MODULE ScoaStateProofs ---------------------------
(***************************************************************************)
(* Proofs about ScoaState, for every alphabet of bytes and every length of *)
(* the line.                                                               *)
(*                                                                         *)
(* The border between `last` and `curr` moves after both exist, so none of *)
(* the properties is inductive over `taken` alone: the invariant says what *)
(* holds of the two runs in flight at each position of the scan.           *)
(***************************************************************************)
EXTENDS ScoaState, TLAPS

(* What holds of a run still growing: all that will hold of it when it is  *)
(* handed out, except that a Copy may yet get longer.                      *)
RawPart(f) ==
  f.Type = "Raw" =>
    /\ \A i \in Covers(f) : prevLine = NoLine \/ line[i] # prevLine[i]
    /\ \A i, j \in Covers(f) : j = i + 1 => line[i] # line[j]

Growing(f)  == f \in Funcs /\ TrueOfLine(f) /\ RawPart(f)
Finished(f) == f \in Funcs /\ TrueOfLine(f) /\ Incompressible(f)

(* The next run to be taken starts where the ones taken end.               *)
AfterTaken(f) == IF taken = <<>> THEN f.Index = 0
                                 ELSE Follows(taken[Len(taken)], f)

Starting  == index = 0 /\ inNext /\ taken = <<>> /\ last = NoFunc
Scanning  == /\ index \in 1 .. LineSize /\ inNext
             /\ Growing(last) /\ AfterTaken(last) /\ End(last) = index
Ahead     == /\ index \in 1 .. LineSize /\ ~inNext
             /\ Finished(curr) /\ AfterTaken(curr)
             /\ Growing(last) /\ Follows(curr, last) /\ End(last) = index
LastReady == /\ index = LineSize + 1 /\ ~inNext
             /\ Finished(curr) /\ AfterTaken(curr)
             /\ curr = last /\ End(curr) = LineSize
LastTaken == /\ index \in LineSize + 1 .. LineSize + 2
             /\ index = LineSize + 1 <=> inNext
             /\ last \in Funcs
             /\ taken # <<>> /\ End(taken[Len(taken)]) = LineSize

IInv ==
  /\ line \in Line
  /\ prevLine \in Line \union {NoLine}
  /\ curr \in Funcs \union {NoFunc}
  /\ taken \in Seq(Funcs)
  /\ inNext \in BOOLEAN
  /\ Chained(taken)
  /\ \A k \in 1 .. Len(taken) : Finished(taken[k])
  /\ Starting \/ Scanning \/ Ahead \/ LastReady \/ LastTaken
-----------------------------------------------------------------------------
(* ScoaState.hpp:40: the first byte of a line starts a run of its own.     *)
LEMMA FirstByte ==
  ASSUME line \in Line, prevLine \in Line \union {NoLine}
  PROVE  LET r == NextFunc(prevLine, line, 0, NoFunc)
         IN  /\ r.func # NoFunc
             /\ Growing(r.func) /\ r.func.Index = 0 /\ End(r.func) = 1
<1>1. 0 \in Column
  BY LineSizeAssumption DEF Column
<1>2. \/ NextFunc(prevLine, line, 0, NoFunc).func = Func("Copy", 0, 1)
         /\ prevLine # NoLine /\ line[0] = prevLine[0]
      \/ NextFunc(prevLine, line, 0, NoFunc).func = Func("Raw", 0, 1)
         /\ (prevLine = NoLine \/ line[0] # prevLine[0])
  BY DEF NextFunc, Repeats, Copies, TakenBack, NoFunc, Func
<1> QED
  BY <1>1, <1>2, LineSizeAssumption
     DEF Growing, Funcs, FuncTypes, TrueOfLine, RawPart, Covers, End, NoFunc, Func

(* ScoaState.hpp:17-41: a later byte either goes into the last run, which  *)
(* stays a run of the kinds it may be next to, or starts a run.            *)
LEMMA NextByte ==
  ASSUME line \in Line, prevLine \in Line \union {NoLine},
         NEW i \in Column, i >= 1,
         NEW f, Growing(f), End(f) = i
  PROVE  LET r == NextFunc(prevLine, line, i, f)
         IN  \/ /\ r.func = NoFunc
                /\ Growing(r.last) /\ End(r.last) = i + 1
                /\ r.last.Index = f.Index
                /\ r.last.Type \in {"Copy", "Raw"} => r.last.Type = f.Type
             \/ /\ r.func # NoFunc
                /\ Finished(r.last)
                /\ r.last.Index = f.Index /\ r.last.Type = f.Type
                /\ Growing(r.func) /\ End(r.func) = i + 1
                /\ Follows(r.last, r.func)
<1> DEFINE r == NextFunc(prevLine, line, i, f)
           repeats == line[i] = line[i - 1] /\ f.Type # "Copy"
           copies  == prevLine # NoLine /\ line[i] = prevLine[i]
<1>1. /\ f \in Funcs /\ f.Index + f.Count = i /\ TrueOfLine(f) /\ RawPart(f)
      /\ i \in 1 .. LineSize - 1
  BY LineSizeAssumption DEF Growing, End, Column
<1>2. CASE repeats /\ f.Type = "Repeat"
  <2>1. r = [last |-> Resized(f, f.Count + 1), func |-> NoFunc]
    BY <1>2 DEF NextFunc, Repeats, Copies, TakenBack
  <2> QED
    BY <1>1, <1>2, <2>1, LineSizeAssumption
       DEF Growing, Funcs, FuncTypes, TrueOfLine, RawPart, Covers, End, Column,
           Resized, Func
<1>3. CASE repeats /\ f.Type # "Repeat" /\ f.Count = 1
  <2>1. r = [last |-> Func("Repeat", f.Index, 2), func |-> NoFunc]
    BY <1>3 DEF NextFunc, Repeats, Copies, TakenBack
  <2> QED
    BY <1>1, <1>3, <2>1, LineSizeAssumption
       DEF Growing, Funcs, FuncTypes, TrueOfLine, RawPart, Covers, End, Column, Func
<1>4. CASE repeats /\ f.Type # "Repeat" /\ f.Count # 1
  <2>1. r = [last |-> Resized(f, f.Count - 1), func |-> Func("Repeat", i - 1, 2)]
    BY <1>4 DEF NextFunc, Repeats, Copies, TakenBack
  <2>2. f.Type = "Raw" /\ f.Count \in 2 .. LineSize
    BY <1>1, <1>4, LineSizeAssumption DEF Funcs, FuncTypes
  <2>3. Finished(r.last)
    BY <1>1, <2>1, <2>2, LineSizeAssumption
       DEF Finished, Incompressible, Funcs, FuncTypes, TrueOfLine, RawPart, Covers,
           End, Column, Resized, Func
  <2>4. Growing(r.func)
    BY <1>1, <1>4, <2>1, LineSizeAssumption
       DEF Growing, Funcs, FuncTypes, TrueOfLine, RawPart, Covers, End, Column, Func
  <2> QED
    BY <1>1, <2>1, <2>2, <2>3, <2>4, LineSizeAssumption
       DEF Follows, End, Resized, Func, NoFunc, Funcs, Column
<1>5. CASE ~repeats /\ copies /\ f.Type = "Copy"
  <2>1. r = [last |-> Resized(f, f.Count + 1), func |-> NoFunc]
    BY <1>5 DEF NextFunc, Repeats, Copies, TakenBack
  <2> QED
    BY <1>1, <1>5, <2>1, LineSizeAssumption
       DEF Growing, Funcs, FuncTypes, TrueOfLine, RawPart, Covers, End, Column,
           Resized, Func
<1>6. CASE ~repeats /\ copies /\ f.Type # "Copy"
  <2>1. r = [last |-> f, func |-> Func("Copy", i, 1)]
    BY <1>6 DEF NextFunc, Repeats, Copies, TakenBack
  <2>2. Finished(f)
    BY <1>1, <1>6 DEF Finished, Incompressible, RawPart
  <2>3. Growing(r.func)
    BY <1>1, <1>6, <2>1, LineSizeAssumption
       DEF Growing, Funcs, FuncTypes, TrueOfLine, RawPart, Covers, End, Column, Func
  <2> QED
    BY <1>1, <1>6, <2>1, <2>2, <2>3 DEF Follows, End, Func, NoFunc, Funcs
<1>7. CASE ~repeats /\ ~copies /\ f.Type = "Raw"
  <2>1. r = [last |-> Resized(f, f.Count + 1), func |-> NoFunc]
    BY <1>7 DEF NextFunc, Repeats, Copies, TakenBack
  <2> QED
    BY <1>1, <1>7, <2>1, LineSizeAssumption
       DEF Growing, Funcs, FuncTypes, TrueOfLine, RawPart, Covers, End, Column,
           Resized, Func
<1>8. CASE ~repeats /\ ~copies /\ f.Type # "Raw"
  <2>1. r = [last |-> f, func |-> Func("Raw", i, 1)]
    BY <1>8 DEF NextFunc, Repeats, Copies, TakenBack
  <2>2. Finished(f)
    BY <1>1, <1>8 DEF Finished, Incompressible, RawPart, TrueOfLine
  <2>3. Growing(r.func)
    BY <1>1, <1>8, <2>1, LineSizeAssumption
       DEF Growing, Funcs, FuncTypes, TrueOfLine, RawPart, Covers, End, Column, Func
  <2> QED
    BY <1>1, <1>8, <2>1, <2>2, <2>3 DEF Follows, End, Func, NoFunc, Funcs
<1> QED
  BY <1>2, <1>3, <1>4, <1>5, <1>6, <1>7, <1>8
-----------------------------------------------------------------------------
(* Handing out a run that follows the ones before it keeps the chain.      *)
LEMMA ChainGrows ==
  ASSUME NEW s \in Seq(Funcs), NEW f \in Funcs, Chained(s),
         IF s = <<>> THEN f.Index = 0 ELSE Follows(s[Len(s)], f)
  PROVE  Chained(Append(s, f))
<1>1. CASE s = <<>>
  BY <1>1 DEF Chained
<1>2. CASE s # <<>>
  <2>1. Append(s, f)[1].Index = 0
    BY <1>2 DEF Chained
  <2>2. ASSUME NEW k \in 1 .. Len(Append(s, f)) - 1
        PROVE  Follows(Append(s, f)[k], Append(s, f)[k + 1])
    <3>1. CASE k = Len(s)
      BY <1>2, <3>1
    <3>2. CASE k < Len(s)
      BY <1>2, <3>2 DEF Chained
    <3> QED
      BY <2>2, <3>1, <3>2
  <2> QED
    BY <2>1, <2>2 DEF Chained
<1> QED
  BY <1>1, <1>2

(* What the invariant says of runs depends only on the two lines.          *)
LEMMA SameLines ==
  ASSUME UNCHANGED <<line, prevLine>>
  PROVE  /\ \A f : TrueOfLine(f)' <=> TrueOfLine(f)
         /\ \A f : Growing(f)' <=> Growing(f)
         /\ \A f : Finished(f)' <=> Finished(f)
BY DEF Growing, Finished, TrueOfLine, RawPart, Incompressible
-----------------------------------------------------------------------------
(* A fresh ScoaState: Init, and Construct for every later line.            *)
LEMMA InitInv == Init => IInv
BY DEF Init, IInv, Starting, Chained

LEMMA ConstructInv == IInv /\ Construct => IInv'
BY DEF Construct, Constructed, IInv, Starting, Chained

(* One iteration of Next()'s loop.                                         *)
LEMMA ScanByteInv == IInv /\ ScanByte => IInv'
<1> SUFFICES ASSUME IInv, ScanByte PROVE IInv'
  OBVIOUS
<1> DEFINE r == NextFunc(prevLine, line, index, last)
<1>0. /\ UNCHANGED <<line, prevLine, taken>> /\ inNext /\ index < LineSize
      /\ index' = index + 1
      /\ \/ r.func = NoFunc /\ last' = r.last /\ UNCHANGED <<curr, inNext>>
         \/ r.func # NoFunc /\ index' = 1 /\ last' = r.func /\ UNCHANGED <<curr, inNext>>
         \/ /\ r.func # NoFunc /\ index' > 1
            /\ curr' = r.last /\ last' = r.func /\ inNext' = FALSE
  BY Zenon DEF ScanByte
<1>1. CASE Starting
  <2>1. /\ r.func # NoFunc
        /\ Growing(r.func) /\ r.func.Index = 0 /\ End(r.func) = 1
    BY <1>1, FirstByte DEF IInv, Starting
  <2>2. index' = 1 /\ last' = r.func /\ UNCHANGED <<curr, inNext>>
    <3>1. index' = 1
      BY <1>0, <1>1 DEF Starting
    <3> HIDE DEF r
    <3>2. ~(index' > 1)
      BY <3>1
    <3> QED
      BY <1>0, <2>1, <3>1, <3>2, Zenon
  <2>3. Scanning'
    BY <1>0, <1>1, <2>1, <2>2, SameLines, LineSizeAssumption
       DEF Scanning, Starting, AfterTaken
  <2> QED
    BY <1>0, <2>2, <2>3, SameLines DEF IInv
<1>2. CASE Scanning
  <2>1. index \in Column /\ index >= 1
    BY <1>0, <1>2, LineSizeAssumption DEF Scanning, Column
  <2>2. \/ /\ r.func = NoFunc
           /\ Growing(r.last) /\ End(r.last) = index + 1
           /\ r.last.Index = last.Index
           /\ r.last.Type \in {"Copy", "Raw"} => r.last.Type = last.Type
        \/ /\ r.func # NoFunc
           /\ Finished(r.last)
           /\ r.last.Index = last.Index /\ r.last.Type = last.Type
           /\ Growing(r.func) /\ End(r.func) = index + 1
           /\ Follows(r.last, r.func)
    BY <1>2, <2>1, NextByte DEF IInv, Scanning
  <2>3. CASE r.func = NoFunc
    <3>1. index' = index + 1 /\ last' = r.last /\ UNCHANGED <<curr, inNext>>
      BY <2>3 DEF ScanByte
    <3>2. AfterTaken(r.last)
      BY <1>2, <2>2, <2>3 DEF Scanning, AfterTaken, Follows
    <3>3. Scanning'
      BY <1>0, <1>2, <2>1, <2>2, <2>3, <3>1, <3>2, SameLines, LineSizeAssumption
         DEF Scanning, AfterTaken, Column
    <3> QED
      BY <1>0, <3>1, <3>3, SameLines DEF IInv
  <2>4. CASE r.func # NoFunc
    <3>1. index' = index + 1 /\ curr' = r.last /\ last' = r.func /\ inNext' = FALSE
      <4>1. index' = index + 1 /\ index' # 1
        BY <1>0, <2>1 DEF Column
      <4> HIDE DEF r
      <4> QED
        BY <1>0, <2>4, <4>1, Zenon
    <3>2. AfterTaken(r.last)
      BY <1>2, <2>2, <2>4 DEF Scanning, AfterTaken, Follows
    <3>3. Ahead'
      BY <1>0, <2>1, <2>2, <2>4, <3>1, <3>2, SameLines, LineSizeAssumption
         DEF Ahead, AfterTaken, Column
    <3> QED
      BY <1>0, <2>2, <2>4, <3>1, <3>3, SameLines DEF IInv, Finished
  <2> QED
    BY <2>3, <2>4
<1>3. ~Ahead /\ ~LastReady /\ ~LastTaken
  BY <1>0, LineSizeAssumption DEF Ahead, LastReady, LastTaken
<1> QED
  BY <1>1, <1>2, <1>3 DEF IInv

(* The two flushes after the last byte.                                    *)
LEMMA FlushLastInv == IInv /\ FlushLast => IInv'
<1> SUFFICES ASSUME IInv, FlushLast PROVE IInv'
  OBVIOUS
<1>0. /\ UNCHANGED <<line, prevLine, last, taken>> /\ inNext
      /\ curr' = last /\ index' = index + 1 /\ inNext' = FALSE
      /\ index \in {LineSize, LineSize + 1}
  BY DEF FlushLast
<1>1. CASE Scanning
  <2>1. index = LineSize
    BY <1>0, <1>1, LineSizeAssumption DEF Scanning
  <2>2. Finished(last)
    BY <1>1, <2>1, LineSizeAssumption
       DEF Scanning, Growing, Finished, Incompressible, RawPart
  <2>3. LastReady'
    BY <1>0, <1>1, <2>1, <2>2, SameLines DEF LastReady, Scanning, AfterTaken
  <2> QED
    BY <1>0, <2>2, <2>3, SameLines DEF IInv, Finished
<1>2. CASE LastTaken
  <2>1. LastTaken'
    BY <1>0, <1>2, LineSizeAssumption DEF LastTaken
  <2> QED
    BY <1>0, <1>2, <2>1, SameLines DEF IInv, LastTaken
<1>3. ~Starting /\ ~Ahead /\ ~LastReady
  BY <1>0, LineSizeAssumption DEF Starting, Ahead, LastReady
<1> QED
  BY <1>1, <1>2, <1>3 DEF IInv

(* Get(): curr joins the runs taken and Next() resumes.                    *)
LEMMA GetInv == IInv /\ Get => IInv'
<1> SUFFICES ASSUME IInv, Get PROVE IInv'
  OBVIOUS
<1>0. /\ UNCHANGED <<line, prevLine, index, last, curr>> /\ ~inNext /\ ~Empty
      /\ taken' = Append(taken, curr) /\ inNext' = TRUE
  BY DEF Get
<1>1. ~Starting /\ ~Scanning /\ ~LastTaken
  BY <1>0, LineSizeAssumption DEF Starting, Scanning, LastTaken, Empty
<1>2. Finished(curr) /\ AfterTaken(curr)
  BY <1>1 DEF IInv, Ahead, LastReady
<1>3. taken' \in Seq(Funcs) /\ Chained(taken')
  BY <1>0, <1>2, ChainGrows DEF IInv, Finished, AfterTaken
<1>4. (\A k \in 1 .. Len(taken) : Finished(taken[k]))'
  <2>1. ASSUME NEW k \in 1 .. Len(taken') PROVE Finished(taken'[k])
    BY <1>0, <1>2, <2>1 DEF IInv, Finished
  <2> QED
    BY <1>0, <2>1 DEF Finished, TrueOfLine, Incompressible
<1>5. taken' # <<>> /\ taken'[Len(taken')] = curr
  BY <1>0, <1>2 DEF IInv, Finished
<1>6. CASE Ahead
  <2>1. Scanning'
    BY <1>0, <1>5, <1>6, SameLines DEF Scanning, Ahead, AfterTaken
  <2> QED
    BY <1>0, <1>2, <1>3, <1>4, <2>1 DEF IInv, Chained, Follows, End
<1>7. CASE LastReady
  <2>1. LastTaken'
    BY <1>0, <1>2, <1>5, <1>7, LineSizeAssumption DEF LastTaken, LastReady, Finished
  <2> QED
    BY <1>0, <1>3, <1>4, <2>1 DEF IInv, Chained
<1> QED
  BY <1>1, <1>6, <1>7 DEF IInv
-----------------------------------------------------------------------------
(* The scanner keeps the invariant, whatever the line, the line above it   *)
(* and the order in which the owner calls Get.                             *)
THEOREM Invariance == Spec => []IInv
<1>1. IInv /\ [Next]_scanVars => IInv'
  <2>1. IInv /\ UNCHANGED scanVars => IInv'
    BY DEF scanVars, IInv, Starting, Scanning, Ahead, LastReady, LastTaken, Empty,
           Finished, Growing, AfterTaken, Chained, TrueOfLine, RawPart, Incompressible
  <2> QED
    BY <2>1, ConstructInv, ScanByteInv, FlushLastInv, GetInv DEF Next, Scan
<1> QED
  BY <1>1, InitInv, PTL DEF Spec

(* Every variable keeps its type.                                          *)
THEOREM TypeCorrect == Spec => []TypeOK
<1>1. IInv => TypeOK
  BY LineSizeAssumption
     DEF IInv, TypeOK, Starting, Scanning, Ahead, LastReady, LastTaken, Growing, Finished
<1> QED
  BY <1>1, Invariance, PTL

(* The runs nextCmd is given tile the line, for every LineSize and Byte.   *)
THEOREM TilingHolds == Spec => []Tiling
<1>1. IInv => Tiling
  BY LineSizeAssumption
     DEF IInv, Tiling, Empty, Starting, Scanning, Ahead, LastReady, LastTaken
<1> QED
  BY <1>1, Invariance, PTL

(* Every run nextCmd is given is true of the line.                         *)
THEOREM FaithfulHolds == Spec => []Faithful
<1>1. IInv => Faithful
  BY DEF IInv, Faithful, Finished
<1> QED
  BY <1>1, Invariance, PTL

(* No byte is sent raw that a copy or a repeat could have covered.         *)
THEOREM NotLazyHolds == Spec => []NotLazy
<1>1. IInv => NotLazy
  BY DEF IInv, NotLazy, Finished
<1> QED
  BY <1>1, Invariance, PTL
=============================================================================
