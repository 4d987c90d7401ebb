------------------------------ MODULE PageView ------------------------------
(***************************************************************************)
(* What a BufferedPage promises: a cursor over a page that can be put back *)
(* to any byte that was there before, as often as one likes, and that can  *)
(* be handed on together with all that was read of the page.               *)
(***************************************************************************)
EXTENDS Integers, Sequences

CONSTANTS Names,   \* the variables that hold a page
          Lengths  \* of pages, in bytes

VARIABLES
  view,    \* view[n]: the page n shows, how much of it, the cursor
  opened,  \* the pages there have been
  answer   \* what the last read gave

(* The bytes from position from + 1 to position to of a page.              *)
Bytes(page, from, to) == [k \in 1 .. to - from |-> <<page, from + k>>]

Cursor(page, pos, seen, end) == [page |-> page, pos |-> pos, seen |-> seen, end |-> end]
Nothing == Cursor(0, 0, 0, 0)

Highest(a, b) == IF a <= b THEN b ELSE a

Init ==
  /\ view = [n \in Names |-> Nothing]
  /\ opened = 0
  /\ answer = <<>>

Open(n) ==
  /\ view[n].page = 0
  /\ \E length \in Lengths : view' = [view EXCEPT ![n] = Cursor(opened + 1, 0, 0, length)]
  /\ opened' = opened + 1
  /\ UNCHANGED answer

(* Some of the bytes after the cursor, in order.                           *)
Read(n) ==
  LET v == view[n]
  IN  /\ v.page # 0
      /\ \E to \in v.pos + 1 .. v.end :
           /\ answer' = Bytes(v.page, v.pos, to)
           /\ view' = [view EXCEPT ![n] = Cursor(v.page, to, Highest(v.seen, to), v.end)]
      /\ UNCHANGED opened

(* End of file, only at the end.                                           *)
AtEnd(n) ==
  /\ view[n].page # 0
  /\ view[n].pos = view[n].end
  /\ answer' = <<>>
  /\ UNCHANGED <<view, opened>>

Seek(n) ==
  LET v == view[n]
  IN  /\ v.page # 0
      /\ \E pos \in 0 .. v.end :
           view' = [view EXCEPT ![n] = Cursor(v.page, pos, v.seen, v.end)]
      /\ UNCHANGED <<opened, answer>>

(* Nothing that was read is missing where the page goes.                   *)
Move(n, to) ==
  LET v == view[n]
  IN  /\ n # to /\ v.page # 0
      /\ \E end \in v.seen .. v.end :
           view' = [view EXCEPT ![n] = Nothing, ![to] = Cursor(v.page, 0, v.seen, end)]
      /\ UNCHANGED <<opened, answer>>

Next == \E n \in Names :
          \/ Open(n) \/ Read(n) \/ AtEnd(n) \/ Seek(n)
          \/ \E to \in Names : Move(n, to)

Spec == Init /\ [][Next]_<<view, opened, answer>>
=============================================================================
