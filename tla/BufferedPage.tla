---------------------------- MODULE BufferedPage ----------------------------
(***************************************************************************)
(* BufferedPage (libcapt/Utility/BufferedPage.cpp): a stream buffer that   *)
(* keeps what it has read of its stream, so that a page can be sent again. *)
(*                                                                         *)
(* A byte is its page and its position in the page.  The calls of the base *)
(* class appear as what they do to the get area: Take is the part of sgetn *)
(* or sbumpc that finds its bytes there, Underflow is called when it is    *)
(* empty.  The stream may come back short of a block at any time; only a   *)
(* read of nothing means that it is at its end.                            *)
(***************************************************************************)
EXTENDS Integers, Sequences

CONSTANTS Names,      \* the variables that hold a page
          Lengths,    \* of pages, in bytes
          blockSize,  \* of a read from the stream
          MaxPages    \* bound: the pages a program opens

ASSUME BufferedPageAssumption ==
  blockSize \in Nat \ {0} /\ Lengths \subseteq Nat /\ MaxPages \in Nat

VARIABLES
  obj,    \* obj[n]: the page and the members; gptr counts from eback
  opened, \* the pages opened so far
  answer  \* what the last read gave

vars == <<obj, opened, answer>>

Highest(a, b)  == IF a <= b THEN b ELSE a
Smallest(a, b) == IF a <= b THEN a ELSE b

(* The bytes from position from + 1 to position to of a page.              *)
Bytes(page, from, to) == [k \in 1 .. to - from |-> <<page, from + k>>]

(* videoStream: the stream of a page and how far it was read; no stream.   *)
Stream(page, length) == [page |-> page, read |-> 0, length |-> length]
NoStream == Stream(0, 0)

(* seen is history: how far the page was read from here.                   *)
Unused == [page |-> 0, buffer |-> <<>>, gptr |-> 0, stream |-> NoStream, seen |-> 0]

InUse(n) == obj[n].page # 0
egptr(n) == Len(obj[n].buffer)
-----------------------------------------------------------------------------
Init ==
  /\ obj = [n \in Names |-> Unused]
  /\ opened = 0
  /\ answer = <<>>

(* A page on the stream of the next page of the file.                      *)
Opening(page, length) == [Unused EXCEPT !.page = page, !.stream = Stream(page, length)]

Construct(n) ==
  /\ ~InUse(n) /\ opened < MaxPages
  /\ opened' = opened + 1
  /\ \E length \in Lengths :
       obj' = [obj EXCEPT ![n] = Opening(opened + 1, length)]
  /\ UNCHANGED answer

(* What the stream may answer when it is asked for a block.                *)
Sgetn(s) == IF s.read = s.length THEN {0} ELSE 1 .. Smallest(blockSize, s.length - s.read)

Onward(s, read) == [s EXCEPT !.read = @ + read]

(* Slip: the block is read over what is there.                             *)
GrownOverwrites(o, read) ==
  LET s == o.stream
  IN  [o EXCEPT !.buffer = Bytes(s.page, s.read, s.read + read),
                !.stream = Onward(s, read)]

(* The buffer with what was read appended to it.                           *)
Grown(o, read) ==
  LET s == o.stream
  IN  [o EXCEPT !.buffer = @ \o Bytes(s.page, s.read, s.read + read),
                !.stream = Onward(s, read)]

(* underflow with nothing in the get area: the buffer grows by a block.    *)
Underflow(n) ==
  /\ InUse(n) /\ obj[n].gptr = egptr(n)
  /\ \E read \in Sgetn(obj[n].stream) :
       /\ obj' = [obj EXCEPT ![n] = Grown(obj[n], read)]
       /\ answer' = IF read = 0 THEN <<>> ELSE answer
  /\ UNCHANGED opened

Take(n) ==
  /\ InUse(n)
  /\ \E to \in obj[n].gptr + 1 .. egptr(n) :
       /\ answer' = SubSeq(obj[n].buffer, obj[n].gptr + 1, to)
       /\ obj' = [obj EXCEPT ![n] = [obj[n] EXCEPT !.gptr = to,
                                                   !.seen = Highest(obj[n].seen, to)]]
  /\ UNCHANGED opened

(* seekpos and seekoff, to a byte of the buffer or its end.                *)
Seek(n) ==
  /\ InUse(n)
  /\ \E base \in {0, obj[n].gptr, egptr(n)} : \E off \in -egptr(n) .. egptr(n) :
       /\ base + off \in 0 .. egptr(n)
       /\ obj' = [obj EXCEPT ![n] = [obj[n] EXCEPT !.gptr = base + off]]
  /\ UNCHANGED <<opened, answer>>

(* Slip: only what is behind the get pointer is moved.                     *)
MovedReadOnly(o) == [Unused EXCEPT !.page = o.page, !.seen = o.seen,
                                   !.buffer = SubSeq(o.buffer, 1, o.gptr)]

(* The stream stays behind and the get pointer goes back to the top.       *)
Moved(o) == [Unused EXCEPT !.page = o.page, !.seen = o.seen, !.buffer = o.buffer]

(* Move construction and assignment.  A page that is assigned to keeps the *)
(* stream it has, so it must not have one.                                 *)
Move(n, to) ==
  /\ n # to /\ InUse(n) /\ obj[to].stream = NoStream
  /\ obj' = [obj EXCEPT ![n] = Unused, ![to] = Moved(obj[n])]
  /\ UNCHANGED <<opened, answer>>

Next == \E n \in Names :
          \/ Construct(n) \/ Underflow(n) \/ Take(n) \/ Seek(n)
          \/ \E to \in Names : Move(n, to)

Spec == Init /\ [][Next]_vars
-----------------------------------------------------------------------------
StreamType == [page : Nat, read : Nat, length : Nat]

TypeOK ==
  /\ obj \in [Names -> [page : Nat, buffer : Seq(Nat \X Nat), gptr : Nat,
                        stream : StreamType, seen : Nat]]
  /\ \A n \in Names : obj[n].gptr <= egptr(n)
  /\ opened \in 0 .. MaxPages
  /\ answer \in Seq(Nat \X Nat)

(***************************************************************************)
(* The buffer is what the page begins with: no block is lost, doubled or   *)
(* out of place however reads, seeks and moves follow each other, and a    *)
(* page that still has its stream holds all that was taken from it, so     *)
(* that buffer and stream together are the page.                           *)
(***************************************************************************)
NothingDropped ==
  \A n \in Names :
    /\ obj[n].buffer = Bytes(obj[n].page, 0, egptr(n))
    /\ obj[n].stream # NoStream =>
         obj[n].stream.page = obj[n].page /\ obj[n].stream.read = egptr(n)

(***************************************************************************)
(* As seen by its readers a BufferedPage is the cursor of PageView.        *)
(***************************************************************************)
ViewOf(o) ==
  [page |-> o.page, pos |-> o.gptr, seen |-> o.seen,
   end |-> IF o.stream = NoStream THEN Len(o.buffer) ELSE o.stream.length]

View == INSTANCE PageView WITH view <- [n \in Names |-> ViewOf(obj[n])]

Rewindable == View!Spec
=============================================================================
