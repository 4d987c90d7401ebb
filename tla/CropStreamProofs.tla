-------------------------- MODULE CropStreamProofs --------------------------
(***************************************************************************)
(* Cropping, for lines, pages, rasters and reads of every size: whatever   *)
(* is read, and however it is divided, is the corners of the pages.        *)
(*                                                                         *)
(* The properties count the bytes that were read; the code counts bytes in *)
(* a line and lines in a page, and skips in the raster what it does not    *)
(* show.  The invariant says that the two agree: the position in the       *)
(* raster and the number of bytes read are those of the same byte of the   *)
(* same line of the same page.                                             *)
(***************************************************************************)
EXTENDS CropStream, SequenceTheorems, TLAPS

(* Byte r of line l of page q: how many bytes are shown before it ...      *)
Shown(q, l, r) == (q * cropLines + l) * cropLineSize + r

(* ... and where it is in the raster.                                      *)
Place(q, l, r) == (q * origLines + l) * origLineSize + r

(* The reader is in some page where the members say, unless the raster has *)
(* come to its end.                                                        *)
Where ==
  \E q \in Nat : /\ Len(got) = Shown(q, currentLine, lineRead)
                 /\ position # length => position = Place(q, currentLine, lineRead)

(* What is left of a call, and what a call that began with a line finds.   *)
Calling ==
  /\ want > 0 => count + want = asked
  /\ Len(got) + want <= MaxRead
  /\ want > 0 /\ aligned /\ position # length => lineRead = 0

IInv == TypeOK /\ Cropped /\ NoShortLines /\ Where /\ Calling
-----------------------------------------------------------------------------
LEMMA Sizes ==
  /\ origLineSize \in Nat /\ origLines \in Nat /\ MaxRead \in Nat
  /\ cropLineSize \in Nat \ {0} /\ cropLines \in Nat \ {0}
  /\ cropLineSize <= origLineSize /\ cropLines <= origLines
  BY CropAssumption

(* Dividing by b, and finding it again.                                    *)
LEMMA Division ==
  ASSUME NEW q \in Nat, NEW b \in Nat \ {0}, NEW r \in 0 .. b - 1
  PROVE  (q * b + r) \div b = q /\ (q * b + r) % b = r
  OBVIOUS

(* Corner finds the byte of the raster from the number of bytes before it. *)
LEMMA CornerOfShown ==
  ASSUME NEW q \in Nat, NEW l \in 0 .. cropLines - 1, NEW r \in 0 .. cropLineSize - 1
  PROVE  Corner(Shown(q, l, r)) = Place(q, l, r)
<1> DEFINE shown == cropLineSize * cropLines
           k == Shown(q, l, r)
           m == l * cropLineSize + r
<1> USE Sizes
<1>1. /\ shown \in Nat \ {0}
      /\ m \in 0 .. shown - 1
  <2>1. l * cropLineSize <= (cropLines - 1) * cropLineSize
    OBVIOUS
  <2>2. (cropLines - 1) * cropLineSize = shown - cropLineSize
    OBVIOUS
  <2> QED
    BY <2>1, <2>2
<1>2. k = q * shown + m
  BY DEF Shown
<1>3. k \div shown = q /\ k % shown = m
  <2> HIDE DEF shown, m, k
  <2> QED
    BY <1>1, <1>2, Division
<1>4. m \div cropLineSize = l
  BY Division
<1>5. k % cropLineSize = r
  BY Division DEF Shown
<1> QED
  BY <1>3, <1>4, <1>5 DEF Corner, Place

(* The byte that is n bytes further on in the same line.                   *)
LEMMA Further ==
  ASSUME NEW q \in Nat, NEW l \in Nat, NEW r \in Nat, NEW n \in Nat
  PROVE  /\ Shown(q, l, r + n) = Shown(q, l, r) + n
         /\ Place(q, l, r + n) = Place(q, l, r) + n
  BY Sizes DEF Shown, Place

(* The next line, and the next page.                                       *)
LEMMA NextLine ==
  ASSUME NEW q \in Nat, NEW l \in Nat
  PROVE  /\ Shown(q, l, cropLineSize) = Shown(q, l + 1, 0)
         /\ Place(q, l, origLineSize) = Place(q, l + 1, 0)
         /\ Shown(q, cropLines, 0) = Shown(q + 1, 0, 0)
         /\ Place(q, cropLines, 0) + (origLines - cropLines) * origLineSize = Place(q + 1, 0, 0)
  BY Sizes DEF Shown, Place

(* discard goes forward, and not beyond the end.                           *)
LEMMA Discarding ==
  ASSUME NEW from \in 0 .. length, NEW n \in Nat, length \in Nat
  PROVE  /\ Discarded(from, n) \in from .. length
         /\ Discarded(from, n) # length => Discarded(from, n) = from + n
  BY DEF Discarded, Minimum

(* A read takes no more than is wanted, than the line has and the raster.  *)
LEMMA PartProperties ==
  ASSUME TypeOK
  PROVE  /\ Part \in Nat
         /\ Part <= want /\ lineRead + Part <= cropLineSize
         /\ position + Part <= length
         /\ \/ Part = want \/ lineRead + Part = cropLineSize \/ position + Part = length
<1>1. /\ want \in Nat /\ lineRead \in 0 .. cropLineSize - 1
      /\ length \in Nat /\ position \in 0 .. length
  BY Sizes, CropAssumption DEF TypeOK
<1> QED
  BY <1>1, Sizes DEF Part, Minimum

(* What a read appends.                                                    *)
LEMMA Appended ==
  ASSUME TypeOK, NEW n \in Nat, position + n <= length,
         got' = got \o [k \in 1 .. n |-> position + k - 1]
  PROVE  /\ got' \in Seq(0 .. length - 1)
         /\ Len(got') = Len(got) + n
         /\ \A k \in 1 .. Len(got) : got'[k] = got[k]
         /\ \A k \in 1 .. n : got'[Len(got) + k] = position + k - 1
<1> DEFINE s == [k \in 1 .. n |-> position + k - 1]
<1>1. position \in Nat /\ length \in Nat /\ got \in Seq(0 .. length - 1)
  BY CropAssumption DEF TypeOK
<1>2. s \in Seq(0 .. length - 1) /\ Len(s) = n
  BY <1>1
<1>3. got' = got \o s
  OBVIOUS
<1>7. \A k \in 1 .. n : s[k] = position + k - 1
  OBVIOUS
<1> HIDE DEF s
<1>4. got' \in Seq(0 .. length - 1) /\ Len(got') = Len(got) + n
  BY <1>1, <1>2, <1>3
<1>5. \A k \in 1 .. Len(got) : got'[k] = got[k]
  BY <1>1, <1>2, <1>3
<1>6. ASSUME NEW k \in 1 .. n
      PROVE  got'[Len(got) + k] = position + k - 1
  <2>1. Len(got) + k \in Len(got) + 1 .. Len(got) + Len(s)
    BY <1>1, <1>2
  <2>2. (got \o s)[Len(got) + k] = s[k]
    BY <1>1, <1>2, <2>1
  <2> QED
    BY <2>2, <1>3, <1>7
<1> QED
  BY <1>4, <1>5, <1>6
-----------------------------------------------------------------------------
LEMMA InitHolds == Init => IInv
<1> SUFFICES ASSUME Init PROVE IInv
  OBVIOUS
<1> USE Sizes DEF Init
<1>1. TypeOK
  BY CropAssumption DEF TypeOK
<1>2. Where
  <2>1. Len(got) = Shown(0, currentLine, lineRead) /\ position = Place(0, currentLine, lineRead)
    BY DEF Shown, Place
  <2> QED
    BY <2>1 DEF Where
<1> QED
  BY <1>1, <1>2 DEF IInv, Cropped, NoShortLines, Calling

LEMMA CallStep == IInv /\ Call => IInv'
<1> SUFFICES ASSUME IInv, Call PROVE IInv'
  OBVIOUS
<1>1. PICK n \in Wanted : Len(got) + n <= MaxRead /\ want' = n /\ asked' = n
  BY DEF Call
<1>2. /\ count' = 0 /\ aligned' = (lineRead = 0)
      /\ UNCHANGED <<length, position, currentLine, lineRead, got>>
  BY DEF Call
<1>3. n \in Nat \ {0} /\ Len(got) \in Nat
  BY CropAssumption DEF IInv, TypeOK
<1>4. TypeOK'
  BY <1>1, <1>2, <1>3, Sizes DEF IInv, TypeOK
<1>5. Cropped' /\ Where'
  BY <1>2 DEF IInv, Cropped, Where
<1>6. NoShortLines'
  BY <1>1, <1>3 DEF NoShortLines
<1>7. aligned' => lineRead' = 0
  BY <1>2
<1>8. Calling'
  BY <1>1, <1>2, <1>3, <1>7 DEF Calling
<1> QED
  BY <1>4, <1>5, <1>6, <1>8 DEF IInv

(* Where a read leaves the members and the raster.                         *)
LEMMA EndLineProperties ==
  ASSUME TypeOK, NEW from \in 0 .. length, NEW q \in Nat, EndLine(from),
         from # length => from = Place(q, currentLine, cropLineSize)
  PROVE  /\ lineRead' = 0
         /\ currentLine' \in 0 .. cropLines - 1
         /\ position' \in from .. length
         /\ \E p \in Nat : /\ Shown(q, currentLine, cropLineSize) = Shown(p, currentLine', 0)
                           /\ position' # length => position' = Place(p, currentLine', 0)
<1> DEFINE rest == origLineSize - cropLineSize
           below == (origLines - cropLines) * origLineSize
           next == Discarded(from, rest)
<1> USE Sizes
<1>1. /\ currentLine \in 0 .. cropLines - 1 /\ length \in Nat
      /\ rest \in Nat /\ below \in Nat
  BY CropAssumption DEF TypeOK
<1>2. next \in from .. length /\ (next # length => next = from + rest)
  BY <1>1, Discarding
<1>3. next # length => next = Place(q, currentLine + 1, 0)
  <2> SUFFICES ASSUME next # length PROVE next = Place(q, currentLine + 1, 0)
    OBVIOUS
  <2>1. from # length /\ next = from + rest
    BY <1>1, <1>2
  <2>2. from + rest = Place(q, currentLine, origLineSize)
    BY <2>1, <1>1, Further
  <2> QED
    BY <2>1, <2>2, <1>1, NextLine
<1>4. lineRead' = 0
  BY DEF EndLine
<1>5. Shown(q, currentLine, cropLineSize) = Shown(q, currentLine + 1, 0)
  BY <1>1, NextLine
<1>6. CASE currentLine + 1 = cropLines
  <2>1. currentLine' = 0 /\ position' = Discarded(next, below)
    BY <1>6 DEF EndLine
  <2> HIDE DEF next, below
  <2>2. position' \in next .. length /\ (position' # length => position' = next + below)
    BY <2>1, <1>1, <1>2, Discarding
  <2>3. Shown(q, currentLine, cropLineSize) = Shown(q + 1, currentLine', 0)
    BY <1>5, <1>6, <2>1, NextLine
  <2>4. position' # length => position' = Place(q + 1, currentLine', 0)
    <3> SUFFICES ASSUME position' # length PROVE position' = Place(q + 1, 0, 0)
      BY <2>1
    <3>1. next # length /\ position' = next + below
      BY <2>2, <1>1, <1>2
    <3> QED
      BY <3>1, <1>3, <1>6, NextLine DEF below
  <2> QED
    BY <2>1, <2>2, <2>3, <2>4, <1>1, <1>2, <1>4
<1>7. CASE currentLine + 1 # cropLines
  <2>1. currentLine' = currentLine + 1 /\ position' = next
    BY <1>7 DEF EndLine
  <2> QED
    BY <2>1, <1>1, <1>2, <1>3, <1>4, <1>5, <1>7
<1> QED
  BY <1>6, <1>7

(* The bytes that a read delivers are the next to be shown.                *)
LEMMA ReadStep ==
  ASSUME IInv, NEW n \in Nat, position + n <= length, lineRead + n <= cropLineSize,
         got' = got \o [k \in 1 .. n |-> position + k - 1]
  PROVE  /\ Cropped'
         /\ \E q \in Nat :
              /\ Len(got') = Shown(q, currentLine, lineRead + n)
              /\ position + n # length => position + n = Place(q, currentLine, lineRead + n)
<1> USE Sizes
<1>1. /\ currentLine \in 0 .. cropLines - 1 /\ lineRead \in 0 .. cropLineSize - 1
      /\ currentLine \in Nat /\ lineRead \in Nat
      /\ length \in Nat /\ position \in 0 .. length
      /\ Len(got) \in Nat /\ Cropped
  BY CropAssumption DEF IInv, TypeOK
<1>2. PICK q \in Nat : /\ Len(got) = Shown(q, currentLine, lineRead)
                       /\ position # length => position = Place(q, currentLine, lineRead)
  BY DEF IInv, Where
<1>3. /\ Len(got') = Len(got) + n
      /\ \A k \in 1 .. Len(got) : got'[k] = got[k]
      /\ \A k \in 1 .. n : got'[Len(got) + k] = position + k - 1
  BY Appended DEF IInv
<1>4. /\ Len(got') = Shown(q, currentLine, lineRead + n)
      /\ position + n # length => position + n = Place(q, currentLine, lineRead + n)
  <2>1. /\ Shown(q, currentLine, lineRead + n) = Shown(q, currentLine, lineRead) + n
        /\ Place(q, currentLine, lineRead + n) = Place(q, currentLine, lineRead) + n
    BY <1>1, Sizes DEF Shown, Place
  <2>2. position + n # length => position # length
    BY <1>1
  <2> QED
    BY <2>1, <2>2, <1>2, <1>3
<1>5. ASSUME NEW k \in 1 .. n
      PROVE  got'[Len(got) + k] = Corner(Len(got) + k - 1)
  <2>1. position = Place(q, currentLine, lineRead)
    BY <1>1, <1>2
  <2>2. k - 1 \in Nat /\ lineRead + (k - 1) \in 0 .. cropLineSize - 1
    BY <1>1
  <2>3. /\ Len(got) + (k - 1) = Shown(q, currentLine, lineRead + (k - 1))
        /\ position + (k - 1) = Place(q, currentLine, lineRead + (k - 1))
    <3> DEFINE j == k - 1
    <3> HIDE DEF j
    <3>1. j \in Nat
      BY <2>2 DEF j
    <3>2. /\ Shown(q, currentLine, lineRead + j) = Shown(q, currentLine, lineRead) + j
          /\ Place(q, currentLine, lineRead + j) = Place(q, currentLine, lineRead) + j
      BY <3>1, <1>1, Sizes DEF Shown, Place
    <3> QED
      BY <3>2, <1>2, <2>1 DEF j
  <2>4. Corner(Len(got) + (k - 1)) = position + (k - 1)
    BY <1>1, <2>2, <2>3, CornerOfShown
  <2>5. Len(got) + (k - 1) = Len(got) + k - 1 /\ position + (k - 1) = position + k - 1
    BY <1>1
  <2> QED
    BY <1>3, <2>4, <2>5
<1>6. ASSUME NEW k \in 1 .. Len(got')
      PROVE  got'[k] = Corner(k - 1)
  <2>1. CASE k <= Len(got)
    BY <2>1, <1>1, <1>3 DEF Cropped
  <2>2. CASE k > Len(got)
    <3> DEFINE j == k - Len(got)
    <3>1. j \in 1 .. n /\ Len(got) + j = k /\ Len(got) + j - 1 = k - 1
      BY <2>2, <1>1, <1>3
    <3> HIDE DEF j
    <3>2. got'[Len(got) + j] = Corner(Len(got) + j - 1)
      BY <3>1, <1>5
    <3> QED
      BY <3>1, <3>2
  <2> QED
    BY <2>1, <2>2, <1>1
<1>7. Cropped'
  BY <1>6 DEF Cropped, Corner
<1> QED
  BY <1>4, <1>7

LEMMA GetSomeStep == IInv /\ GetSome => IInv'
<1> SUFFICES ASSUME IInv, GetSome PROVE IInv'
  OBVIOUS
<1> DEFINE n == Part
<1> USE Sizes
<1>1. /\ want > 0
      /\ got' = got \o [k \in 1 .. n |-> position + k - 1]
      /\ count' = count + n
      /\ want' = Rest(n)
      /\ IF lineRead + n = cropLineSize
         THEN EndLine(position + n)
         ELSE /\ lineRead' = lineRead + n
              /\ position' = position + n
              /\ currentLine' = currentLine
      /\ UNCHANGED <<length, asked, aligned>>
  BY DEF GetSome
<1>2. /\ TypeOK /\ Calling
      /\ length \in Lengths /\ length \in Nat /\ position \in 0 .. length
      /\ currentLine \in 0 .. cropLines - 1 /\ lineRead \in 0 .. cropLineSize - 1
      /\ want \in 0 .. MaxRead /\ asked \in 0 .. MaxRead /\ count \in 0 .. asked
      /\ aligned \in BOOLEAN /\ Len(got) \in Nat
      /\ count + want = asked /\ Len(got) + want <= MaxRead
      /\ aligned /\ position # length => lineRead = 0
  BY <1>1, CropAssumption DEF IInv, TypeOK, Calling
<1>3. /\ n \in Nat /\ n <= want /\ lineRead + n <= cropLineSize /\ position + n <= length
      /\ \/ n = want \/ lineRead + n = cropLineSize \/ position + n = length
  BY <1>2, PartProperties
<1> HIDE DEF n
<1>4. want' \in Nat /\ n + want' <= want /\ (want' > 0 => n + want' = want)
  BY <1>1, <1>2, <1>3 DEF Rest
<1>5. Cropped' /\ got' \in Seq(0 .. length - 1) /\ Len(got') = Len(got) + n
  BY <1>1, <1>2, <1>3, ReadStep, Appended
<1>6. PICK q \in Nat :
        /\ Len(got') = Shown(q, currentLine, lineRead + n)
        /\ position + n # length => position + n = Place(q, currentLine, lineRead + n)
  BY <1>1, <1>3, ReadStep
<1>7. /\ lineRead' \in 0 .. cropLineSize - 1
      /\ currentLine' \in 0 .. cropLines - 1
      /\ position' \in position + n .. length
      /\ Where'
  <2>1. CASE lineRead + n = cropLineSize
    <3>1. position + n \in 0 .. length /\ EndLine(position + n)
      BY <1>1, <1>2, <1>3, <2>1
    <3>2. position + n # length => position + n = Place(q, currentLine, cropLineSize)
      BY <1>6, <2>1
    <3>3. /\ lineRead' = 0
          /\ currentLine' \in 0 .. cropLines - 1
          /\ position' \in position + n .. length
          /\ \E t \in Nat :
               /\ Shown(q, currentLine, cropLineSize) = Shown(t, currentLine', 0)
               /\ position' # length => position' = Place(t, currentLine', 0)
      BY <1>2, <3>1, <3>2, EndLineProperties
    <3>4. PICK t \in Nat :
               /\ Shown(q, currentLine, cropLineSize) = Shown(t, currentLine', 0)
               /\ position' # length => position' = Place(t, currentLine', 0)
      BY <3>3
    <3>5. Len(got') = Shown(t, currentLine', lineRead')
      BY <3>3, <3>4, <1>6, <2>1
    <3>6. Where'
      BY <3>3, <3>4, <3>5, <1>1 DEF Where, Shown, Place
    <3> QED
      BY <3>3, <3>6
  <2>2. CASE lineRead + n # cropLineSize
    <3>1. lineRead' = lineRead + n /\ position' = position + n /\ currentLine' = currentLine
      BY <1>1, <2>2
    <3>2. Where'
      BY <3>1, <1>1, <1>6 DEF Where, Shown, Place
    <3> QED
      BY <3>1, <3>2, <1>2, <1>3, <2>2
  <2> QED
    BY <2>1, <2>2
<1>8. TypeOK'
  BY <1>1, <1>2, <1>3, <1>4, <1>5, <1>7 DEF TypeOK
<1>9. (aligned /\ position' # length) => (lineRead' = 0 \/ n = want)
  <2> SUFFICES ASSUME aligned, position' # length, n # want PROVE lineRead' = 0
    OBVIOUS
  <2>1. position + n # length
    BY <1>2, <1>3, <1>7
  <2>2. lineRead + n = cropLineSize
    BY <2>1, <1>3
  <2> QED
    BY <2>2, <1>1 DEF EndLine
<1>10. NoShortLines'
  <2> SUFFICES ASSUME want' = 0, count' < asked', aligned', position' # length'
               PROVE  FALSE
    BY DEF NoShortLines
  <2>1. n < want /\ aligned /\ position' # length
    BY <1>1, <1>2, <1>3
  <2>2. want <= cropLineSize \/ n = 0
    BY <2>1, <1>1, <1>2, <1>3 DEF Rest
  <2>3. lineRead = 0
    BY <2>1, <1>2, <1>3, <1>7
  <2>4. position + n # length
    BY <2>1, <1>2, <1>3, <1>7
  <2>5. n = cropLineSize
    BY <2>1, <2>3, <2>4, <1>3
  <2> QED
    BY <2>1, <2>2, <2>5, <1>2, <1>3
<1>11. Calling'
  <2>1. PICK w \in Nat : want' = w /\ n + w <= want /\ (w > 0 => n + w = want)
    BY <1>4
  <2>2. Len(got) + n + w <= MaxRead
    BY <2>1, <1>2, <1>3
  <2>3. w > 0 => count + n + w = asked /\ n # want
    BY <2>1, <1>2, <1>3
  <2>5. want' > 0 => count' + want' = asked'
    BY <2>1, <2>3, <1>1
  <2>6. Len(got') + want' <= MaxRead
    BY <2>1, <2>2, <1>5
  <2>4. want' > 0 /\ aligned' /\ position' # length' => lineRead' = 0
    BY <1>1, <1>9, <2>1, <2>3
  <2> QED
    BY <2>4, <2>5, <2>6 DEF Calling
<1> QED
  BY <1>5, <1>7, <1>8, <1>10, <1>11 DEF IInv

LEMMA StutterStep == IInv /\ UNCHANGED vars => IInv'
  BY DEF IInv, vars, TypeOK, Cropped, Corner, NoShortLines, Where, Shown, Place, Calling
-----------------------------------------------------------------------------
(***************************************************************************)
(* IInv is inductive: position, lineRead, currentLine and the number of    *)
(* bytes delivered are always those of one byte of one page.               *)
(***************************************************************************)
THEOREM Invariance == Spec => []IInv
<1>1. Init => IInv
  BY InitHolds
<1>2. IInv /\ [Next]_vars => IInv'
  BY CallStep, GetSomeStep, StutterStep DEF Next
<1> QED
  BY <1>1, <1>2, PTL DEF Spec

(***************************************************************************)
(* The members have their types for every size of line and page: underflow *)
(* never finds a line read to its end (CropStreambuf.cpp:43), and the      *)
(* count that sgetn returns is never more than was asked for.              *)
(***************************************************************************)
THEOREM TypeCorrect == Spec => []TypeOK
<1>1. IInv => TypeOK
  BY DEF IInv
<1> QED
  BY <1>1, Invariance, PTL

(***************************************************************************)
(* Cropped, for every size: however the reads are divided, they get the    *)
(* corners of the pages, byte by byte, and nothing else.                   *)
(***************************************************************************)
THEOREM CroppedHolds == Spec => []Cropped
<1>1. IInv => Cropped
  BY DEF IInv
<1> QED
  BY <1>1, Invariance, PTL

(***************************************************************************)
(* NoShortLines, for every size: a reader of whole lines comes back short  *)
(* only at the end of the raster.                                          *)
(***************************************************************************)
THEOREM NoShortLinesHolds == Spec => []NoShortLines
<1>1. IInv => NoShortLines
  BY DEF IInv
<1> QED
  BY <1>1, Invariance, PTL

(***************************************************************************)
(* PeekIsNext, for every size: what sgetc sees is the byte that comes      *)
(* next, and after the last line that is shown the raster stands at the    *)
(* next page.                                                              *)
(***************************************************************************)
THEOREM PeekIsNextHolds == Spec => []PeekIsNext
<1>1. IInv => PeekIsNext
  <2> SUFFICES ASSUME IInv, position # length PROVE position = Corner(Len(got))
    BY DEF PeekIsNext, IInv, TypeOK
  <2>1. PICK q \in Nat : /\ Len(got) = Shown(q, currentLine, lineRead)
                         /\ position = Place(q, currentLine, lineRead)
    BY DEF IInv, Where
  <2>2. currentLine \in 0 .. cropLines - 1 /\ lineRead \in 0 .. cropLineSize - 1
    BY DEF IInv, TypeOK
  <2> QED
    BY <2>1, <2>2, CornerOfShown
<1> QED
  BY <1>1, Invariance, PTL
=============================================================================
