------------------------- MODULE BufferedPageProofs -------------------------
(***************************************************************************)
(* Proofs about BufferedPage: for pages and blocks of every size, however  *)
(* reads, seeks and moves follow each other, no byte of a page is lost,    *)
(* and a BufferedPage is the cursor of PageView.                           *)
(***************************************************************************)
EXTENDS BufferedPage, SequenceTheorems, TLAPS

PageByte == Nat \X Nat

Holder == [page : Nat, buffer : Seq(PageByte), gptr : Nat, stream : StreamType, seen : Nat]

(* What holds of one page, whatever was done with it.                      *)
Sound(o) ==
  /\ o \in Holder
  /\ o.gptr <= Len(o.buffer)
  /\ o.seen <= Len(o.buffer)
  /\ o.buffer = Bytes(o.page, 0, Len(o.buffer))
  /\ o.stream # NoStream => /\ o.stream.page = o.page
                            /\ o.stream.read = Len(o.buffer)
                            /\ o.stream.read <= o.stream.length
  /\ o.page = 0 => o = Unused

IInv ==
  /\ obj \in [Names -> Holder]
  /\ \A n \in Names : Sound(obj[n])
  /\ opened \in 0 .. MaxPages
  /\ answer \in Seq(PageByte)
-----------------------------------------------------------------------------
LEMMA BytesProperties ==
  ASSUME NEW page \in Nat, NEW from \in Nat, NEW to \in Nat, from <= to
  PROVE  /\ Bytes(page, from, to) \in Seq(PageByte)
         /\ Len(Bytes(page, from, to)) = to - from
         /\ \A k \in 1 .. to - from : Bytes(page, from, to)[k] = <<page, from + k>>
<1>1. to - from \in Nat
  OBVIOUS
<1>2. Bytes(page, from, to) \in [1 .. to - from -> PageByte]
  BY DEF Bytes, PageByte
<1> QED
  BY <1>1, <1>2 DEF Bytes

LEMMA BytesFromTop ==
  ASSUME NEW page \in Nat, NEW to \in Nat
  PROVE  /\ Bytes(page, 0, to) \in Seq(PageByte)
         /\ Len(Bytes(page, 0, to)) = to
         /\ \A k \in 1 .. to : Bytes(page, 0, to)[k] = <<page, k>>
<1>1. /\ Bytes(page, 0, to) \in Seq(PageByte)
      /\ Len(Bytes(page, 0, to)) = to - 0
  <2>1. 0 \in Nat /\ 0 <= to
    OBVIOUS
  <2> QED
    BY <2>1, BytesProperties
<1>2. \A k \in 1 .. to : Bytes(page, 0, to)[k] = <<page, k>>
  <2>1. to - 0 = to /\ \A k \in 1 .. to : 0 + k = k
    OBVIOUS
  <2> QED
    BY <2>1 DEF Bytes
<1>3. to - 0 = to
  OBVIOUS
<1> QED
  BY <1>1, <1>2, <1>3

(* Nothing is read: nothing is appended.                                   *)
LEMMA BytesNone ==
  ASSUME NEW s \in Seq(PageByte), NEW page \in Nat, NEW at \in Nat
  PROVE  s \o Bytes(page, at, at) = s
<1>1. Bytes(page, at, at) \in Seq(PageByte) /\ Len(Bytes(page, at, at)) = 0
  <2>1. at <= at /\ at - at = 0
    OBVIOUS
  <2>2. Bytes(page, at, at) \in Seq(PageByte) /\ Len(Bytes(page, at, at)) = at - at
    BY <2>1, BytesProperties
  <2> QED
    BY <2>1, <2>2
<1>2. Bytes(page, at, at) = << >>
  BY <1>1, EmptySeq
<1>3. s \o << >> = s
  BY ConcatEmptySeq
<1> QED
  BY <1>2, <1>3

(* What is read next goes on where the buffer ends.                        *)
LEMMA BytesJoin ==
  ASSUME NEW page \in Nat, NEW m \in Nat, NEW to \in Nat, m <= to
  PROVE  Bytes(page, 0, m) \o Bytes(page, m, to) = Bytes(page, 0, to)
<1> DEFINE s == Bytes(page, 0, m)
           t == Bytes(page, m, to)
           u == Bytes(page, 0, to)
<1>1. /\ s \in Seq(PageByte) /\ Len(s) = m
      /\ \A k \in 1 .. m : s[k] = <<page, k>>
  BY BytesFromTop
<1>2. /\ t \in Seq(PageByte) /\ Len(t) = to - m
      /\ \A k \in 1 .. to - m : t[k] = <<page, m + k>>
  BY BytesProperties
<1>3. /\ u \in Seq(PageByte) /\ Len(u) = to
      /\ \A k \in 1 .. to : u[k] = <<page, k>>
  BY BytesFromTop
<1> HIDE DEF s, t, u
<1>4. /\ s \o t \in Seq(PageByte) /\ Len(s \o t) = to
      /\ \A k \in 1 .. to : (s \o t)[k] = IF k <= m THEN s[k] ELSE t[k - m]
  <2>1. /\ s \o t \in Seq(PageByte)
        /\ Len(s \o t) = Len(s) + Len(t)
        /\ \A k \in 1 .. Len(s) + Len(t) :
             (s \o t)[k] = IF k <= Len(s) THEN s[k] ELSE t[k - Len(s)]
    BY <1>1, <1>2, ConcatProperties
  <2>2. Len(s) = m /\ Len(s) + Len(t) = to
    BY <1>1, <1>2
  <2> QED
    BY <2>1, <2>2
<1>5. ASSUME NEW k \in 1 .. to PROVE (s \o t)[k] = u[k]
  <2>1. u[k] = <<page, k>>
    BY <1>3
  <2>2. CASE k <= m
    BY <1>1, <1>4, <2>1, <2>2
  <2>3. CASE ~(k <= m)
    <3>1. k - m \in 1 .. to - m /\ m + (k - m) = k
      BY <2>3
    <3>2. t[k - m] = <<page, m + (k - m)>>
      BY <1>2, <3>1
    <3> QED
      BY <1>4, <2>1, <2>3, <3>1, <3>2
  <2> QED
    BY <2>2, <2>3
<1>6. s \o t = u
  BY <1>3, <1>4, <1>5, SeqEqual
<1> QED
  BY <1>6 DEF s, t, u

(* What is taken from the buffer are bytes of the page.                    *)
LEMMA BytesPart ==
  ASSUME NEW page \in Nat, NEW end \in Nat, NEW from \in Nat, NEW to \in Nat,
         from <= to, to <= end
  PROVE  SubSeq(Bytes(page, 0, end), from + 1, to) = Bytes(page, from, to)
<1> DEFINE s == Bytes(page, 0, end)
           t == Bytes(page, from, to)
           u == SubSeq(s, from + 1, to)
<1>1. \A k \in 1 .. end : s[k] = <<page, k>> /\ s[k] \in PageByte
  <2>1. \A k \in 1 .. end : <<page, k>> \in PageByte
    BY DEF PageByte
  <2> QED
    BY <2>1, BytesFromTop
<1>2. /\ t \in Seq(PageByte) /\ Len(t) = to - from
      /\ \A k \in 1 .. to - from : t[k] = <<page, from + k>>
  BY BytesProperties
<1> HIDE DEF s, t
<1>3. \A k \in from + 1 .. to : s[k] \in PageByte
  BY <1>1
<1>4. /\ u \in Seq(PageByte) /\ Len(u) = to - from
      /\ \A k \in 1 .. to - from : u[k] = s[from + k]
  <2>1. /\ u \in Seq(PageByte)
        /\ Len(u) = IF from + 1 <= to THEN to - (from + 1) + 1 ELSE 0
        /\ \A k \in 1 .. to - (from + 1) + 1 : u[k] = s[from + 1 + k - 1]
    BY <1>3, SubSeqProperties
  <2>2. \A k \in 1 .. to - from : from + 1 + k - 1 = from + k
    OBVIOUS
  <2> QED
    BY <2>1, <2>2
<1> HIDE DEF u
<1>5. ASSUME NEW k \in 1 .. to - from PROVE u[k] = t[k]
  <2>1. from + k \in 1 .. end
    OBVIOUS
  <2> QED
    BY <1>1, <1>2, <1>4, <2>1
<1>6. u = t
  BY <1>2, <1>4, <1>5, SeqEqual
<1> QED
  BY <1>6 DEF s, t, u
-----------------------------------------------------------------------------
LEMMA OnwardFields ==
  ASSUME NEW s \in StreamType, NEW read \in Nat
  PROVE  /\ Onward(s, read) \in StreamType
         /\ Onward(s, read).page = s.page
         /\ Onward(s, read).read = s.read + read
         /\ Onward(s, read).length = s.length
BY DEF Onward, StreamType

LEMMA GrownFields ==
  ASSUME NEW o \in Holder, NEW read \in Nat
  PROVE  LET s == o.stream
             b == o.buffer \o Bytes(s.page, s.read, s.read + read)
             g == Grown(o, read)
         IN  /\ b \in Seq(PageByte) => g \in Holder
             /\ g.page = o.page /\ g.gptr = o.gptr /\ g.seen = o.seen
             /\ g.buffer = b
             /\ g.stream = Onward(s, read)
<1> DEFINE b == o.buffer \o Bytes(o.stream.page, o.stream.read, o.stream.read + read)
           w == Onward(o.stream, read)
<1>1. w \in StreamType
  BY OnwardFields DEF Holder
<1>2. Grown(o, read) = [o EXCEPT !.buffer = b, !.stream = w]
  BY DEF Grown
<1> HIDE DEF b, w
<1>3. b \in Seq(PageByte) => [o EXCEPT !.buffer = b, !.stream = w] \in Holder
  BY <1>1 DEF Holder
<1>4. LET g == [o EXCEPT !.buffer = b, !.stream = w]
      IN  /\ g.page = o.page /\ g.gptr = o.gptr /\ g.seen = o.seen
          /\ g.buffer = b /\ g.stream = w
  BY DEF Holder
<1> QED
  BY <1>2, <1>3, <1>4 DEF b, w

(* A block of any size that comes from the stream.                         *)
LEMMA GrownSound ==
  ASSUME NEW o, Sound(o), o.stream # NoStream,
         NEW read \in Nat, o.stream.read + read <= o.stream.length
  PROVE  Sound(Grown(o, read)) /\ ViewOf(Grown(o, read)) = ViewOf(o)
<1> DEFINE s == o.stream
           g == Grown(o, read)
           b == Bytes(s.page, s.read, s.read + read)
<1>1. /\ o \in Holder /\ o.page \in Nat /\ o.buffer \in Seq(PageByte)
      /\ o.gptr \in Nat /\ o.seen \in Nat /\ s \in StreamType
      /\ s.page \in Nat /\ s.read \in Nat /\ s.length \in Nat
  BY DEF Sound, Holder, StreamType
<1>2. o.page # 0
  BY DEF Sound, Unused
<1>3. s.page = o.page /\ s.read = Len(o.buffer)
  BY DEF Sound
<1>4. /\ g.page = o.page /\ g.gptr = o.gptr /\ g.seen = o.seen
      /\ g.buffer = o.buffer \o b
      /\ g.stream = Onward(s, read)
      /\ o.buffer \o b \in Seq(PageByte) => g \in Holder
  BY <1>1, GrownFields
<1>5. /\ g.buffer = Bytes(o.page, 0, s.read + read)
      /\ g.buffer \in Seq(PageByte) /\ Len(g.buffer) = s.read + read
  <2>1. o.buffer = Bytes(o.page, 0, s.read)
    BY <1>3 DEF Sound
  <2>2. s.read + read \in Nat /\ s.read <= s.read + read
    BY <1>1, SMTT(30)
  <2>3. Bytes(o.page, 0, s.read) \o Bytes(o.page, s.read, s.read + read)
          = Bytes(o.page, 0, s.read + read)
    BY <1>1, <2>2, BytesJoin
  <2>4. b = Bytes(o.page, s.read, s.read + read)
    BY <1>3
  <2>5. g.buffer = Bytes(o.page, 0, s.read + read)
    BY <1>4, <2>1, <2>3, <2>4
  <2> QED
    BY <1>1, <2>2, <2>5, BytesFromTop
<1>6. /\ g.stream.page = o.page /\ g.stream.read = s.read + read
      /\ g.stream.length = s.length /\ g.stream # NoStream
  <2>1. NoStream.page = 0
    BY DEF NoStream, Stream
  <2>2. /\ g.stream.page = s.page /\ g.stream.read = s.read + read
        /\ g.stream.length = s.length
    <3>1. LET w == Onward(s, read)
          IN  w.page = s.page /\ w.read = s.read + read /\ w.length = s.length
      BY <1>1, OnwardFields
    <3> QED
      BY <1>4, <3>1
  <2> QED
    BY <1>2, <1>3, <2>1, <2>2
<1>7. g \in Holder
  BY <1>4, <1>5
<1> HIDE DEF g, b
<1>8. g.gptr <= Len(g.buffer) /\ g.seen <= Len(g.buffer)
  <2>1. o.gptr <= s.read /\ o.seen <= s.read
    BY <1>3 DEF Sound
  <2>2. o.gptr <= s.read + read /\ o.seen <= s.read + read
    BY <1>1, <2>1
  <2> QED
    BY <1>4, <1>5, <2>2
<1>9. Sound(g)
  <2>1. g.stream.read <= g.stream.length
    BY <1>6
  <2> QED
    BY <1>2, <1>4, <1>5, <1>6, <1>7, <1>8, <2>1 DEF Sound
<1>10. ViewOf(g) = ViewOf(o)
  BY <1>4, <1>6 DEF ViewOf
<1> QED
  BY <1>9, <1>10 DEF g

(* Nothing comes from the stream, or there is no stream.                   *)
LEMMA GrownByNothing ==
  ASSUME NEW o, Sound(o)
  PROVE  Grown(o, 0) = o
<1> DEFINE s == o.stream
           g == Grown(o, 0)
<1>1. /\ o \in Holder /\ o.buffer \in Seq(PageByte) /\ s \in StreamType
      /\ s.page \in Nat /\ s.read \in Nat /\ s.read + 0 = s.read
  BY DEF Sound, Holder, StreamType
<1>2. o.buffer \o Bytes(s.page, s.read, s.read + 0) = o.buffer
  BY <1>1, BytesNone
<1>3. Onward(s, 0) = s
  BY <1>1 DEF Onward, StreamType
<1>4. /\ g \in Holder
      /\ g.page = o.page /\ g.gptr = o.gptr /\ g.seen = o.seen
      /\ g.buffer = o.buffer /\ g.stream = s
  BY <1>1, <1>2, <1>3, GrownFields
<1> HIDE DEF g
<1>5. g = o
  BY <1>1, <1>4 DEF Holder
<1> QED
  BY <1>5 DEF g

LEMMA UnusedSound == Unused \in Holder /\ Sound(Unused)
<1>1. NoStream \in StreamType
  BY DEF NoStream, Stream, StreamType
<1>2. << >> \in Seq(PageByte) /\ Len(<< >>) = 0
  OBVIOUS
<1>3. Bytes(0, 0, 0) = << >>
  <2>1. Bytes(0, 0, 0) \in Seq(PageByte) /\ Len(Bytes(0, 0, 0)) = 0
    BY BytesFromTop
  <2> QED
    BY <2>1, EmptySeq
<1>4. Unused \in Holder
  BY <1>1, <1>2 DEF Unused, Holder
<1>5. Unused.buffer = Bytes(Unused.page, 0, Len(Unused.buffer))
  BY <1>2, <1>3 DEF Unused
<1> QED
  BY <1>2, <1>4, <1>5 DEF Sound, Unused

LEMMA OpeningSound ==
  ASSUME NEW page \in Nat \ {0}, NEW length \in Nat
  PROVE  /\ Sound(Opening(page, length))
         /\ ViewOf(Opening(page, length)) =
              View!Cursor(page, 0, 0, length)
<1> DEFINE o == Opening(page, length)
           s == Stream(page, length)
<1>1. /\ s \in StreamType /\ s.page = page /\ s.read = 0 /\ s.length = length
      /\ s # NoStream
  BY DEF Stream, StreamType, NoStream
<1>2. /\ o.page = page /\ o.buffer = << >> /\ o.gptr = 0 /\ o.seen = 0
      /\ o.stream = Stream(page, length)
  BY DEF Opening, Unused
<1>5. o \in Holder
  <2>1. Unused \in Holder /\ o = [Unused EXCEPT !.page = page, !.stream = s]
    BY UnusedSound DEF Opening
  <2> QED
    BY <1>1, <2>1 DEF Holder
<1> HIDE DEF s
<1>3. Len(<< >>) = 0
  OBVIOUS
<1>4. Bytes(page, 0, 0) = << >>
  <2>1. Bytes(page, 0, 0) \in Seq(PageByte) /\ Len(Bytes(page, 0, 0)) = 0
    BY BytesFromTop
  <2> QED
    BY <2>1, EmptySeq
<1>6. o.stream = s
  BY <1>2 DEF s
<1> HIDE DEF o
<1> QED
  BY <1>1, <1>2, <1>3, <1>4, <1>5, <1>6 DEF Sound, ViewOf, View!Cursor, o

(* Reading from the get area, and seeking in it.                           *)
LEMMA RepositionedSound ==
  ASSUME NEW o, Sound(o), o.page # 0, NEW pos \in 0 .. Len(o.buffer),
         NEW seen \in 0 .. Len(o.buffer)
  PROVE  LET q == [o EXCEPT !.gptr = pos, !.seen = seen]
         IN  Sound(q) /\ ViewOf(q) = View!Cursor(o.page, pos, seen, ViewOf(o).end)
<1> DEFINE q == [o EXCEPT !.gptr = pos, !.seen = seen]
<1>1. o \in Holder /\ Len(o.buffer) \in Nat
  BY DEF Sound, Holder
<1>2. q \in Holder
  <2>1. pos \in Nat /\ seen \in Nat
    BY <1>1
  <2> QED
    BY <1>1, <2>1 DEF Holder
<1>3. /\ q.page = o.page /\ q.buffer = o.buffer /\ q.stream = o.stream
      /\ q.gptr = pos /\ q.seen = seen
  BY <1>1 DEF Holder
<1> HIDE DEF q
<1>4. Sound(q)
  BY <1>1, <1>2, <1>3 DEF Sound
<1>5. ViewOf(q) = View!Cursor(o.page, pos, seen, ViewOf(o).end)
  BY <1>3 DEF ViewOf, View!Cursor
<1> QED
  BY <1>4, <1>5 DEF q

LEMMA MovedSound ==
  ASSUME NEW o, Sound(o), o.page # 0
  PROVE  /\ Sound(Moved(o))
         /\ ViewOf(Moved(o)) =
              View!Cursor(o.page, 0, o.seen, Len(o.buffer))
<1> DEFINE q == Moved(o)
<1>1. o \in Holder /\ Len(o.buffer) \in Nat
  BY DEF Sound, Holder
<1>2. /\ q.page = o.page /\ q.buffer = o.buffer /\ q.stream = NoStream
      /\ q.gptr = 0 /\ q.seen = o.seen
  BY DEF Moved, Unused
<1>3. q \in Holder
  BY <1>1 DEF Moved, Unused, Holder, NoStream, Stream, StreamType
<1> HIDE DEF q
<1> QED
  BY <1>1, <1>2, <1>3 DEF Sound, ViewOf, View!Cursor, q
-----------------------------------------------------------------------------
ViewMap == [n \in Names |-> ViewOf(obj[n])]

(* A step that changes one page.                                           *)
LEMMA OneChanged ==
  ASSUME IInv, NEW n \in Names, NEW o, Sound(o), obj' = [obj EXCEPT ![n] = o],
         opened' \in 0 .. MaxPages, answer' \in Seq(PageByte)
  PROVE  IInv' /\ ViewMap' = [ViewMap EXCEPT ![n] = ViewOf(o)]
<1>1. o \in Holder
  BY DEF Sound
<1>2. obj' \in [Names -> Holder] /\ \A m \in Names : obj'[m] = IF m = n THEN o ELSE obj[m]
  BY <1>1 DEF IInv
<1>3. \A m \in Names : Sound(obj'[m])
  BY <1>2 DEF IInv
<1>4. IInv'
  BY <1>2, <1>3 DEF IInv
<1>5. ViewMap' = [ViewMap EXCEPT ![n] = ViewOf(o)]
  BY <1>2 DEF ViewMap
<1> QED
  BY <1>4, <1>5

LEMMA Shown == ASSUME NEW n \in Names PROVE ViewMap[n] = ViewOf(obj[n])
BY DEF ViewMap

(* What a page shows is its page, its cursor and how far it was read.      *)
LEMMA Fields ==
  ASSUME IInv, NEW n \in Names
  PROVE  /\ Sound(obj[n]) /\ obj[n] \in Holder
         /\ ViewMap[n].page = obj[n].page /\ ViewMap[n].pos = obj[n].gptr
         /\ ViewMap[n].seen = obj[n].seen
         /\ egptr(n) \in Nat /\ ViewMap[n].end \in Nat /\ egptr(n) <= ViewMap[n].end
<1>1. Sound(obj[n]) /\ obj[n] \in Holder
  BY DEF IInv, Sound
<1>2. Len(obj[n].buffer) \in Nat /\ obj[n].stream.length \in Nat
  BY <1>1 DEF Holder, StreamType
<1>3. ViewMap[n] = [page |-> obj[n].page, pos |-> obj[n].gptr, seen |-> obj[n].seen,
                    end |-> IF obj[n].stream = NoStream THEN Len(obj[n].buffer)
                            ELSE obj[n].stream.length]
  BY Shown DEF ViewOf
<1>4. egptr(n) = Len(obj[n].buffer)
  BY DEF egptr
<1>5. obj[n].stream # NoStream => Len(obj[n].buffer) <= obj[n].stream.length
  BY <1>1 DEF Sound
<1> QED
  BY <1>1, <1>2, <1>3, <1>4, <1>5

LEMMA ConstructStep ==
  ASSUME IInv, NEW n \in Names, Construct(n)
  PROVE  IInv' /\ View!Open(n)
<1>1. PICK length \in Lengths : obj' = [obj EXCEPT ![n] = Opening(opened + 1, length)]
  BY DEF Construct
<1>2. length \in Nat /\ opened + 1 \in Nat \ {0} /\ opened + 1 \in 0 .. MaxPages
  BY BufferedPageAssumption DEF IInv, Construct
<1>3. /\ Sound(Opening(opened + 1, length))
      /\ ViewOf(Opening(opened + 1, length)) = View!Cursor(opened + 1, 0, 0, length)
  BY <1>2, OpeningSound
<1>4. opened' = opened + 1 /\ answer' = answer /\ answer \in Seq(PageByte)
  BY DEF Construct, IInv
<1>5. IInv' /\ ViewMap' = [ViewMap EXCEPT ![n] = View!Cursor(opened + 1, 0, 0, length)]
  BY <1>1, <1>2, <1>3, <1>4, OneChanged
<1>6. ViewMap[n].page = 0
  BY Fields DEF Construct, InUse
<1> QED
  BY <1>4, <1>5, <1>6 DEF View!Open, ViewMap

LEMMA UnderflowStep ==
  ASSUME IInv, NEW n \in Names, Underflow(n)
  PROVE  /\ IInv'
         /\ View!AtEnd(n) \/ (ViewMap' = ViewMap /\ UNCHANGED <<opened, answer>>)
<1> DEFINE o == obj[n]
           s == obj[n].stream
<1>1. PICK read \in Sgetn(s) :
        /\ obj' = [obj EXCEPT ![n] = Grown(o, read)]
        /\ answer' = IF read = 0 THEN << >> ELSE answer
  BY DEF Underflow
<1>2. /\ Sound(o) /\ o \in Holder /\ s \in StreamType
      /\ s.read \in Nat /\ s.length \in Nat /\ Len(o.buffer) \in Nat
  BY Fields DEF Holder, StreamType
<1>3. opened' = opened /\ opened \in 0 .. MaxPages /\ answer \in Seq(PageByte)
  BY DEF Underflow, IInv
<1>4. answer' \in Seq(PageByte)
  BY <1>1, <1>3, EmptySeq
<1>5. ViewMap[n] = ViewOf(o)
  BY Shown
<1>6. CASE read = 0
  <2>1. Grown(o, read) = o
    BY <1>2, <1>6, GrownByNothing
  <2>2. IInv' /\ ViewMap' = [ViewMap EXCEPT ![n] = ViewOf(o)]
    BY <1>1, <1>2, <1>3, <1>4, <2>1, OneChanged
  <2>3. ViewMap' = ViewMap
    BY <1>5, <2>2 DEF ViewMap
  <2>4. s.read = s.length
    BY <1>1, <1>6 DEF Sgetn
  <2>5. ViewOf(o).end = Len(o.buffer)
    BY <1>2, <2>4 DEF ViewOf, Sound
  <2>6. ViewMap[n].page # 0 /\ ViewMap[n].pos = ViewMap[n].end
    BY <1>5, <2>5, Fields DEF Underflow, InUse, egptr
  <2>7. answer' = << >>
    BY <1>1, <1>6
  <2> QED
    BY <1>3, <2>2, <2>3, <2>6, <2>7 DEF View!AtEnd, ViewMap
<1>7. CASE read # 0
  <2>1. s.read # s.length /\ read \in 1 .. Smallest(blockSize, s.length - s.read)
    BY <1>1, <1>7 DEF Sgetn
  <2>2. s # NoStream
    BY <2>1 DEF NoStream, Stream
  <2>3. s.read <= s.length
    BY <1>2, <2>2 DEF Sound
  <2>4. read \in Nat /\ s.read + read <= s.length
    BY <1>2, <2>1, <2>3, BufferedPageAssumption DEF Smallest
  <2>5. Sound(Grown(o, read)) /\ ViewOf(Grown(o, read)) = ViewOf(o)
    BY <1>2, <2>2, <2>4, GrownSound
  <2>6. IInv' /\ ViewMap' = [ViewMap EXCEPT ![n] = ViewOf(o)]
    BY <1>1, <1>3, <1>4, <2>5, OneChanged
  <2>7. ViewMap' = ViewMap
    BY <1>5, <2>6 DEF ViewMap
  <2> QED
    BY <1>1, <1>3, <1>7, <2>6, <2>7
<1> QED
  BY <1>6, <1>7

LEMMA TakeStep ==
  ASSUME IInv, NEW n \in Names, Take(n)
  PROVE  IInv' /\ View!Read(n)
<1> DEFINE o == obj[n]
<1>1. PICK to \in o.gptr + 1 .. egptr(n) :
        /\ answer' = SubSeq(o.buffer, o.gptr + 1, to)
        /\ obj' = [obj EXCEPT ![n] = [o EXCEPT !.gptr = to, !.seen = Highest(o.seen, to)]]
  BY ZenonT(60) DEF Take
<1> DEFINE seen == Highest(o.seen, to)
           q == [o EXCEPT !.gptr = to, !.seen = seen]
<1>2. /\ Sound(o) /\ o \in Holder /\ o.page \in Nat /\ o.page # 0
      /\ o.gptr \in Nat /\ o.seen \in Nat
      /\ egptr(n) = Len(o.buffer) /\ egptr(n) \in Nat /\ o.seen <= Len(o.buffer)
  BY Fields DEF Holder, Sound, egptr, Take, InUse
<1>3. to \in 0 .. Len(o.buffer) /\ to \in Nat /\ o.gptr <= to /\ to <= Len(o.buffer)
  BY <1>1, <1>2
<1>4. seen \in 0 .. Len(o.buffer)
  BY <1>2, <1>3 DEF Highest
<1>5. Sound(q) /\ ViewOf(q) = View!Cursor(o.page, to, seen, ViewOf(o).end)
  <2>1. Sound(o) /\ o.page # 0 /\ to \in 0 .. Len(o.buffer)
    BY <1>2, <1>3
  <2> QED
    BY <2>1, <1>4, RepositionedSound, ZenonT(60)
<1>6. answer' = Bytes(o.page, o.gptr, to)
  <2>1. o.buffer = Bytes(o.page, 0, Len(o.buffer))
    BY <1>2 DEF Sound
  <2>2. SubSeq(Bytes(o.page, 0, Len(o.buffer)), o.gptr + 1, to) = Bytes(o.page, o.gptr, to)
    <3>1. /\ o.page \in Nat /\ Len(o.buffer) \in Nat /\ o.gptr \in Nat /\ to \in Nat
          /\ o.gptr <= to /\ to <= Len(o.buffer)
      BY <1>2, <1>3
    <3> QED
      BY <3>1, BytesPart
  <2> QED
    BY <1>1, <2>1, <2>2
<1>7. answer' \in Seq(PageByte)
  BY <1>2, <1>3, <1>6, BytesProperties
<1>8. opened' = opened /\ opened \in 0 .. MaxPages
  BY DEF Take, IInv
<1>9. obj' = [obj EXCEPT ![n] = q]
  BY <1>1
<1> HIDE DEF q
<1>10. IInv' /\ ViewMap' = [ViewMap EXCEPT ![n] = ViewOf(q)]
  BY <1>5, <1>7, <1>8, <1>9, OneChanged
<1>11. /\ ViewMap[n].page = o.page /\ ViewMap[n].pos = o.gptr /\ ViewMap[n].seen = o.seen
       /\ ViewMap[n].end = ViewOf(o).end
       /\ egptr(n) <= ViewMap[n].end /\ ViewMap[n].end \in Nat
  BY Fields, Shown
<1>12. to \in ViewMap[n].pos + 1 .. ViewMap[n].end
  BY <1>1, <1>2, <1>11
<1>13. View!Highest(o.seen, to) = seen
  BY DEF Highest, View!Highest
<1>14. View!Bytes(o.page, o.gptr, to) = Bytes(o.page, o.gptr, to)
  BY DEF Bytes, View!Bytes
<1>15. /\ answer' = View!Bytes(ViewMap[n].page, ViewMap[n].pos, to)
       /\ ViewMap' = [ViewMap EXCEPT ![n] =
            View!Cursor(ViewMap[n].page, to, View!Highest(ViewMap[n].seen, to), ViewMap[n].end)]
  BY <1>5, <1>6, <1>10, <1>11, <1>13, <1>14
<1>16. View!Read(n)
  BY <1>2, <1>8, <1>11, <1>12, <1>15 DEF View!Read, ViewMap
<1> QED
  BY <1>10, <1>16

LEMMA SeekStep ==
  ASSUME IInv, NEW n \in Names, Seek(n)
  PROVE  IInv' /\ View!Seek(n)
<1> DEFINE o == obj[n]
<1>1. PICK pos \in 0 .. egptr(n) : obj' = [obj EXCEPT ![n] = [o EXCEPT !.gptr = pos]]
  BY DEF Seek
<1> DEFINE q == [o EXCEPT !.gptr = pos, !.seen = o.seen]
<1>2. /\ Sound(o) /\ o \in Holder /\ o.page # 0 /\ o.seen \in Nat
      /\ egptr(n) = Len(o.buffer) /\ egptr(n) \in Nat /\ o.seen \in 0 .. Len(o.buffer)
  BY Fields DEF Holder, Sound, egptr, Seek, InUse
<1>3. [o EXCEPT !.gptr = pos] = q
  BY <1>2 DEF Holder
<1>4. Sound(q) /\ ViewOf(q) = View!Cursor(o.page, pos, o.seen, ViewOf(o).end)
  <2>1. /\ Sound(o) /\ o.page # 0
        /\ pos \in 0 .. Len(o.buffer) /\ o.seen \in 0 .. Len(o.buffer)
    BY <1>1, <1>2
  <2> QED
    BY <2>1, RepositionedSound, ZenonT(60)
<1>5. obj' = [obj EXCEPT ![n] = q]
  BY <1>1, <1>3
<1>6. /\ opened' = opened /\ opened \in 0 .. MaxPages
      /\ answer' = answer /\ answer \in Seq(PageByte)
  BY DEF Seek, IInv
<1> HIDE DEF q
<1>7. IInv' /\ ViewMap' = [ViewMap EXCEPT ![n] = ViewOf(q)]
  BY <1>4, <1>5, <1>6, OneChanged
<1>8. /\ ViewMap[n].page = o.page /\ ViewMap[n].seen = o.seen
      /\ ViewMap[n].end = ViewOf(o).end
      /\ egptr(n) <= ViewMap[n].end /\ ViewMap[n].end \in Nat
  BY Fields, Shown
<1>9. pos \in 0 .. ViewMap[n].end
  BY <1>1, <1>2, <1>8
<1>10. ViewMap' = [ViewMap EXCEPT ![n] =
                     View!Cursor(ViewMap[n].page, pos, ViewMap[n].seen, ViewMap[n].end)]
  BY <1>4, <1>7, <1>8
<1>11. View!Seek(n)
  BY <1>2, <1>6, <1>8, <1>9, <1>10 DEF View!Seek, ViewMap
<1> QED
  BY <1>7, <1>11

LEMMA MoveStep ==
  ASSUME IInv, NEW n \in Names, NEW to \in Names, Move(n, to)
  PROVE  IInv' /\ View!Move(n, to)
<1> DEFINE o == obj[n]
<1>1. n # to /\ obj' = [obj EXCEPT ![n] = Unused, ![to] = Moved(o)]
  BY DEF Move
<1>2. /\ Sound(o) /\ o \in Holder /\ o.page # 0 /\ o.seen \in Nat
      /\ egptr(n) = Len(o.buffer) /\ egptr(n) \in Nat /\ o.seen <= Len(o.buffer)
  BY Fields DEF Holder, Sound, egptr, Move, InUse
<1>3. Sound(Moved(o)) /\ ViewOf(Moved(o)) = View!Cursor(o.page, 0, o.seen, Len(o.buffer))
  BY <1>2, MovedSound
<1>4. Moved(o) \in Holder /\ Unused \in Holder /\ Sound(Unused)
  BY <1>3, UnusedSound DEF Sound
<1>5. ViewOf(Unused) = View!Nothing
  BY DEF ViewOf, Unused, View!Nothing, View!Cursor
<1>6. /\ obj' \in [Names -> Holder]
      /\ \A m \in Names : obj'[m] = IF m = to THEN Moved(o) ELSE
                                     IF m = n THEN Unused ELSE obj[m]
  BY <1>1, <1>4 DEF IInv
<1>7. \A m \in Names : Sound(obj'[m])
  BY <1>3, <1>4, <1>6 DEF IInv
<1>8. /\ opened' = opened /\ opened \in 0 .. MaxPages
      /\ answer' = answer /\ answer \in Seq(PageByte)
  BY DEF Move, IInv
<1>9. IInv'
  BY <1>6, <1>7, <1>8 DEF IInv
<1>10. ViewMap' = [ViewMap EXCEPT ![n] = View!Nothing,
                                  ![to] = View!Cursor(o.page, 0, o.seen, Len(o.buffer))]
  BY <1>1, <1>3, <1>5, <1>6 DEF ViewMap
<1>11. /\ ViewMap[n].page = o.page /\ ViewMap[n].seen = o.seen
       /\ egptr(n) <= ViewMap[n].end /\ ViewMap[n].end \in Nat
  BY Fields
<1>12. Len(o.buffer) \in ViewMap[n].seen .. ViewMap[n].end
  BY <1>2, <1>11
<1>13. View!Move(n, to)
  BY <1>1, <1>2, <1>8, <1>10, <1>11, <1>12 DEF View!Move, ViewMap
<1> QED
  BY <1>9, <1>13
-----------------------------------------------------------------------------
LEMMA InitInv == Init => IInv
<1> SUFFICES ASSUME Init PROVE IInv
  OBVIOUS
<1>1. 0 \in 0 .. MaxPages /\ << >> \in Seq(PageByte)
  BY BufferedPageAssumption, EmptySeq
<1> QED
  BY <1>1, UnusedSound DEF Init, IInv

LEMMA Step ==
  ASSUME IInv, [Next]_vars
  PROVE  IInv' /\ [View!Next]_<<ViewMap, opened, answer>>
<1>1. ASSUME NEW n \in Names, Construct(n) PROVE IInv' /\ View!Next
  BY <1>1, ConstructStep DEF View!Next
<1>2. ASSUME NEW n \in Names, Underflow(n)
      PROVE  IInv' /\ (View!Next \/ UNCHANGED <<ViewMap, opened, answer>>)
  BY <1>2, UnderflowStep DEF View!Next
<1>3. ASSUME NEW n \in Names, Take(n) PROVE IInv' /\ View!Next
  BY <1>3, TakeStep DEF View!Next
<1>4. ASSUME NEW n \in Names, Seek(n) PROVE IInv' /\ View!Next
  BY <1>4, SeekStep DEF View!Next
<1>5. ASSUME NEW n \in Names, NEW to \in Names, Move(n, to) PROVE IInv' /\ View!Next
  BY <1>5, MoveStep DEF View!Next
<1>6. CASE UNCHANGED vars
  BY <1>6 DEF vars, IInv, ViewMap
<1> QED
  BY <1>1, <1>2, <1>3, <1>4, <1>5, <1>6 DEF Next

(* IInv holds in every state, for every block size and every page.         *)
THEOREM Invariance == Spec => []IInv
<1>1. IInv /\ [Next]_vars => IInv'
  BY Step
<1> QED
  BY <1>1, InitInv, PTL DEF Spec

(* The members of every BufferedPage keep their types, and the get pointer *)
(* stays within the get area.                                              *)
THEOREM TypeCorrect == Spec => []TypeOK
<1>1. IInv => TypeOK
  BY DEF IInv, TypeOK, Sound, Holder, PageByte, egptr
<1> QED
  BY <1>1, Invariance, PTL

(* However reads, short blocks, seeks and moves follow each other, the     *)
(* buffer is what the page begins with, and the stream is where it ends.   *)
THEOREM NothingDroppedHolds == Spec => []NothingDropped
<1>1. ASSUME NEW o, Sound(o)
      PROVE  /\ o.buffer = Bytes(o.page, 0, Len(o.buffer))
             /\ o.stream # NoStream => o.stream.page = o.page /\ o.stream.read = Len(o.buffer)
  BY <1>1 DEF Sound
<1>2. IInv => NothingDropped
  BY <1>1, ZenonT(60) DEF IInv, NothingDropped, egptr
<1> QED
  BY <1>2, Invariance, PTL

(* Every step of a BufferedPage is a step of the cursor it promises to be, *)
(* or cannot be seen by its readers.                                       *)
THEOREM RewindableHolds == Spec => Rewindable
<1>1. Init => View!Init
  <2>1. ViewOf(Unused) = View!Nothing
    BY DEF ViewOf, Unused, View!Nothing, View!Cursor
  <2> QED
    BY <2>1 DEF Init, View!Init
<1>2. IInv /\ [Next]_vars => [View!Next]_<<ViewMap, opened, answer>>
  BY Step
<1> QED
  BY <1>1, <1>2, Invariance, PTL DEF Spec, Rewindable, View!Spec, ViewMap
=============================================================================
