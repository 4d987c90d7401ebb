--------------------------- MODULE PrintJobProofs ---------------------------
(***************************************************************************)
(* A print job of up to 65536 pages, with pages of any number of blocks    *)
(* and any faults, as many as there may be: no page comes out twice or out *)
(* of order, and the video data of a page are sent in order.               *)
(*                                                                         *)
(* The heart of the invariant is that a page the program is about to send  *)
(* is not out and not in the paper path, nor is any page after it.  When a *)
(* page has failed, this is known of the page itself, and of the page      *)
(* before only from a comparison of registers; for the page that           *)
(* waitLastPage sends again only from the rejection.                       *)
(*                                                                         *)
(* Three more results follow: what can become of a page that is missing,   *)
(* that the assertions of printpbm hold, and that with a single fault the  *)
(* pages come out as PrintQueue says.                                      *)
(***************************************************************************)
EXTENDS PrintJob, TLAPS

(* The page numbers that a register can tell apart.  With one more page,   *)
(* Printed + 1 and Start differ for a page whose predecessor is out.       *)
FewPages == NumPages <= MaxNumber + 1

(* Everything that is out comes before page q.                             *)
Below(o, q) == \A i \in 1 .. Len(o) : o[i] < q

(* ... and so does the page in the path: no page from q on was taken.      *)
Passed(o, w, q) == Below(o, q) /\ w < q

(* The page that the turn of writePage is about.                           *)
Target == IF HasPrev /\ reprint = "Prev" THEN page - 1 ELSE ThisPage

Clearing == {"clear", "discard", "clearMisprint", "resetEngine"}
Sending  == {"checkOnline", "begin", "data", "send", "printEnd"}
Chosen   == {"ready", "goOnline"} \union Clearing \union Sending

PrinterTypes ==
  /\ reserved \in BOOLEAN /\ online \in BOOLEAN
  /\ cond \in {"ok", "attend", "service", "reset"}
  /\ errors \subseteq Errors
  /\ start \in Registers /\ printing \in Registers /\ printed \in Registers
  /\ rx \in [page : -1 .. NumPages - 1, blocks : Seq(Nat)]
  /\ path \in -1 .. NumPages - 1
  /\ out \in Seq(0 .. NumPages - 1)

ProgramTypes ==
  /\ pc \in Points
  /\ caller \in {"start", "main", "last"}
  /\ page \in 0 .. NumPages
  /\ p \in 0 .. page
  /\ reprint \in {"None", "Prev", "Current"}
  /\ pos \in 0 .. Blocks
  /\ held \in [cur : 0 .. Blocks, prev : 0 .. Blocks]
  /\ known \subseteq Errors
  /\ stop \in BOOLEAN

(* What is out, in the path and being received are in this order.          *)
Order ==
  /\ InOrder
  /\ path # NoPage => Below(out, path)
  /\ rx # NoRx => Passed(out, path, rx.page)
  /\ out # <<>> => printed = out[Len(out)]

(* The printer receives what the program sends, or nothing.                *)
Receiving ==
  rx # NoRx => /\ pc \in {"data", "send", "threw"}
               /\ IsReady
               /\ rx.page = p
               /\ rx.blocks = [k \in 1 .. pos |-> k]

(* Before the first page nothing is in the printer.                        *)
Starting ==
  /\ pc \in {"reserve", "start"} => caller = "start"
  /\ caller = "start" =>
       /\ page = 0 /\ out = <<>> /\ path = NoPage
       /\ pc \in {"reserve", "start", "header", "offline", "release", "done", "threw"}
                 \union Clearing

Counted ==
  /\ (caller = "main" /\ pc \in Chosen \union {"write", "written"}) => page < NumPages
  /\ (caller = "last" \/ pc = "last") => page > 0

(* A page is sent only if neither it nor a later page was taken.           *)
Choice ==
  caller # "start" =>
    /\ pc = "write" => Passed(out, path, Target)
    /\ pc \in Chosen => p = Target /\ Passed(out, path, p)
    /\ pc \in Sending => start = p

(* If the print is rejected, page q is lost.                               *)
Sure(q) == Rejected => Passed(out, path, q)

(* Between pages: what a rejection says of the page just written.          *)
Between ==
  ~stop =>
    /\ pc = "written" => p = ThisPage /\ Passed(out, path, p + 1) /\ Sure(p)
    /\ pc \in {"header", "last"} => Passed(out, path, page) /\ (page > 0 => Sure(page - 1))

(* The page before is in its buffer as a whole.                            *)
Kept ==
  /\ (pc \in Chosen \union {"write"} /\ caller # "start" /\ page > 0) => held.prev = Blocks
  /\ (pc \in {"header", "last"} /\ ~stop /\ page > 0) => held.prev = Blocks
  /\ (pc = "written" /\ ~stop) =>
        IF caller = "main" THEN held.cur = Blocks ELSE held.prev = Blocks

(* How far the page is read, and that its buffer has it up to there.       *)
Place ==
  /\ pc \in Chosen \ {"data", "send", "printEnd"} => caller = "start" \/ pos = 0
  /\ pc \in {"data", "send"} => pos <= Readable
  /\ pc = "send" => pos < Readable
  /\ (pc = "data" /\ p = page) => pos <= held.cur
  /\ (pc = "send" /\ p = page) => pos < held.cur
  /\ ("video" \notin Faults) => ~VideoDataError

IInv == /\ PrinterTypes /\ ProgramTypes /\ Order /\ Receiving /\ Starting
        /\ Counted /\ Choice /\ Between /\ Kept /\ Place
-----------------------------------------------------------------------------
(* The assumptions on the constants.                                       *)
LEMMA Sizes == Blocks \in Nat /\ Blocks # 0 /\ NumPages \in Nat
  BY JobAssumption, DeviceAssumption

(* A register holds a natural number ...                                   *)
LEMMA RegistersAre ==
  /\ MaxNumber \in Nat
  /\ Registers \subseteq Nat /\ 0 \in Registers /\ MaxNumber \in Registers
  <1>1. MaxNumber \in Nat
    BY DEF MaxNumber
  <1> QED BY <1>1 DEF Registers

(* ... and so does Number ...                                              *)
LEMMA NumberIn == \A q \in Nat : Number(q) \in Registers
  <1>1. \A q \in Nat : q % (MaxNumber + 1) \in Nat /\ q % (MaxNumber + 1) <= MaxNumber
    BY DEF MaxNumber
  <1> QED BY <1>1, RegistersAre DEF Number, Registers

(* ... which is the identity as long as there are few pages.               *)
LEMMA NumberIs == FewPages => \A q \in 0 .. NumPages - 1 : Number(q) = q
  <1>1. \A q \in Nat : q <= MaxNumber => q % (MaxNumber + 1) = q
    BY DEF MaxNumber
  <1>2. FewPages => \A q \in 0 .. NumPages - 1 : q \in Nat /\ q <= MaxNumber
    BY JobAssumption, RegistersAre DEF FewPages
  <1> QED BY <1>1, <1>2 DEF Number

(* Passed at q is passed at every later page.                              *)
LEMMA PassedUp ==
  \A o \in Seq(Int), w, q, r \in Int : Passed(o, w, q) /\ q <= r => Passed(o, w, r)
  BY DEF Passed, Below

(* A page that is taken into the path.                                     *)
LEMMA PassedTaken ==
  \A o \in Seq(Int), w, q \in Int : Passed(o, w, q) => Below(o, q) /\ Passed(o, q, q + 1)
  BY DEF Passed, Below

(* A page in the path that is lost.                                        *)
LEMMA PassedLost ==
  \A o \in Seq(Int), w, q \in Int : Passed(o, w, q) /\ 0 <= q => Passed(o, NoPage, q)
  BY DEF Passed, Below, NoPage

(* A page in the path that comes out.                                      *)
LEMMA PassedOut ==
  \A o \in Seq(Int), w, q \in Int :
    Passed(o, w, q) /\ 0 <= w => Passed(Append(o, w), NoPage, q)
  BY DEF Passed, Below, NoPage

USE DEF Clearing, Sending, Chosen, NoPage, NoRx, HasPrev, ThisPage, Target
-----------------------------------------------------------------------------
(* At the start nothing is out and nothing is on its way.                  *)
LEMMA InitHolds == Init => IInv
  <1> SUFFICES ASSUME Init
               PROVE  IInv
    OBVIOUS
  <1>0. reserved = FALSE /\ online = FALSE /\ stop = FALSE
    BY DEF Init, DeviceInit
  <1>9. reserved \in BOOLEAN /\ online \in BOOLEAN /\ stop \in BOOLEAN
    BY <1>0
  <1> USE DEF Init, DeviceInit
  <1>1. PrinterTypes
    <2>2. /\ NoPage \in -1 .. NumPages - 1
          /\ <<>> \in Seq(Nat) /\ <<>> \in Seq(0 .. NumPages - 1)
      BY Sizes
    <2>3. rx \in [page : -1 .. NumPages - 1, blocks : Seq(Nat)]
      BY <2>2
    <2>4. errors \subseteq Errors
      BY DEF Errors
    <2>5. start \in Registers /\ printing \in Registers /\ printed \in Registers
      BY RegistersAre
    <2>7. path \in -1 .. NumPages - 1 /\ out \in Seq(0 .. NumPages - 1)
      BY <2>2
    <2>8. cond \in {"ok", "attend", "service", "reset"}
      OBVIOUS
    <2> HIDE DEF Init, DeviceInit
    <2> QED BY <1>9, <2>3, <2>4, <2>5, <2>7, <2>8 DEF PrinterTypes
  <1>2. Order /\ Receiving /\ Starting /\ Counted /\ Choice /\ Between
    BY DEF Order, InOrder, Receiving, Starting, Counted, Choice, Between
  <1>3. ProgramTypes /\ Kept
    <2>1. pc \in Points /\ caller = "start" /\ page = 0 /\ p = 0 /\ reprint = "None"
      BY DEF Points
    <2>2. 0 \in 0 .. NumPages /\ 0 \in 0 .. Blocks
      BY Sizes
    <2>3. /\ pos \in 0 .. Blocks
          /\ held \in [cur : 0 .. Blocks, prev : 0 .. Blocks]
          /\ known \subseteq Errors
      BY <2>2
    <2>4. pc = "reserve"
      OBVIOUS
    <2> HIDE DEF Init, DeviceInit
    <2> QED BY <1>9, <2>1, <2>2, <2>3, <2>4 DEF ProgramTypes, Kept
  <1>4. Place
    <2>1. "video" \notin errors
      OBVIOUS
    <2>2. pc = "reserve"
      OBVIOUS
    <2> HIDE DEF Init, DeviceInit
    <2> QED BY <2>1, <2>2 DEF Place, VideoDataError
  <1> QED BY <1>1, <1>2, <1>3, <1>4 DEF IInv

(* Steps that leave pages, errors and registers of the printer alone.      *)
LEMMA QuietStep ==
  ASSUME IInv, UNCHANGED losses,
         ReserveUnit \/ FirstStatus \/ NoMorePages \/ WriteLoop \/ StopWriting \/ WaitReady
         \/ CheckOnline \/ GoOffline \/ ReleaseUnit \/ Throws
  PROVE  IInv'
  <1> USE DEF ReserveUnit, FirstStatus, NoMorePages, WriteLoop, StopWriting, WaitReady,
              CheckOnline, GoOffline, ReleaseUnit, Throws, Goto, deviceVars
  <1>1. UNCHANGED <<cond, errors, start, printing, printed, rx, path, out>>
    OBVIOUS
  <1>2. PrinterTypes' /\ Order'
    <2>1. reserved' \in BOOLEAN /\ online' \in BOOLEAN
      BY DEF IInv, PrinterTypes
    <2> QED BY <1>1, <2>1 DEF IInv, PrinterTypes, Order, InOrder
  <1>3. ProgramTypes' /\ Starting' /\ Counted'
    <2>1. /\ pc' \in Points /\ p' \in 0 .. page
          /\ pos' \in 0 .. Blocks /\ known' \subseteq Errors
      <3>1. CASE WriteLoop
        BY <3>1, Sizes DEF IInv, ProgramTypes, Points, Counted
      <3>2. CASE ~WriteLoop
        BY <3>2 DEF IInv, ProgramTypes, PrinterTypes, Points
      <3> QED BY <3>1, <3>2
    <2>2. UNCHANGED <<caller, page, reprint, held, stop>>
      OBVIOUS
    <2>3. ProgramTypes'
      BY <2>1, <2>2 DEF IInv, ProgramTypes
    <2>4. Starting' /\ Counted'
      BY <1>1, <2>2, Sizes DEF IInv, Starting, Counted, ProgramTypes
    <2> QED BY <2>3, <2>4
  <1>4. Receiving' /\ Place' /\ Kept'
    BY <1>1, Sizes
       DEF IInv, ProgramTypes, Receiving, Place, Kept, Starting, Counted, Choice,
           IsReady, Ready, IsPrev, Readable, VideoDataError
  <1>5. Choice' /\ Between'
    BY <1>1, Sizes
       DEF IInv, ProgramTypes, Choice, Between, Counted, Starting, Sure, Rejected,
           Online, NeedsGoOnline
  <1> QED BY <1>2, <1>3, <1>4, <1>5 DEF IInv

(* SIGINT only sets the flag.                                              *)
LEMMA SIGINTStep ==
  ASSUME IInv, SIGINT
  PROVE  IInv'
  <1> USE DEF SIGINT, deviceVars
  <1>1. PrinterTypes' /\ Order'
    BY DEF IInv, PrinterTypes, Order, InOrder
  <1>2. ProgramTypes' /\ Starting' /\ Counted' /\ Receiving'
    BY DEF IInv, ProgramTypes, Points, Starting, Counted, Receiving, IsReady
  <1>3. Place' /\ Kept' /\ Choice' /\ Between'
    BY DEF IInv, Place, Kept, Choice, Between, IsPrev, Readable, VideoDataError
  <1> QED BY <1>1, <1>2, <1>3 DEF IInv

(* Nothing changes.                                                        *)
LEMMA StutterStep == IInv /\ UNCHANGED vars => IInv'
  <1> SUFFICES ASSUME IInv, UNCHANGED vars
               PROVE  IInv'
    OBVIOUS
  <1> USE DEF vars, hostVars, deviceVars
  <1>1. PrinterTypes' /\ Order'
    BY DEF IInv, PrinterTypes, Order, InOrder
  <1>2. ProgramTypes' /\ Starting' /\ Counted' /\ Receiving'
    BY DEF IInv, ProgramTypes, Points, Starting, Counted, Receiving, IsReady
  <1>3. Place' /\ Kept' /\ Choice' /\ Between'
    BY DEF IInv, Place, Kept, Choice, Between, Sure, Rejected, IsPrev, Readable,
           VideoDataError
  <1> QED BY <1>1, <1>2, <1>3 DEF IInv

(* The next page: the page before is in prevPage's buffer.                 *)
LEMMA ReadHeaderStep ==
  ASSUME IInv, ReadHeader
  PROVE  IInv'
  <1>1. PrinterTypes' /\ Order'
    BY DEF IInv, ReadHeader, deviceVars, PrinterTypes, Order, InOrder
  <1>2. /\ held'.cur = 0 /\ held'.prev = held.prev
        /\ held' \in [cur : 0 .. Blocks, prev : 0 .. Blocks]
    BY Sizes DEF IInv, ReadHeader, ProgramTypes
  <1>3. ProgramTypes' /\ Starting' /\ Counted'
    BY <1>2 DEF IInv, ReadHeader, ProgramTypes, Points, Starting, Counted
  <1>4. Receiving' /\ Place' /\ Kept' /\ Choice' /\ Between'
    BY <1>2, Sizes
       DEF IInv, ReadHeader, deviceVars, ProgramTypes, PrinterTypes, Receiving, Place,
           Kept, Choice, Between, Sure, Rejected, IsReady, IsPrev, Readable,
           VideoDataError
  <1> QED BY <1>1, <1>3, <1>4 DEF IInv

(* A block is read before it is known whether it can be sent.              *)
LEMMA PollDataStep ==
  ASSUME IInv, PollData
  PROVE  IInv'
  <1>1. PrinterTypes' /\ Order'
    BY DEF IInv, PollData, deviceVars, PrinterTypes, Order, InOrder
  <1>2. /\ held' \in [cur : 0 .. Blocks, prev : 0 .. Blocks]
        /\ held'.prev = held.prev
        /\ p = page => pos + 1 <= held'.cur
    <2>1. CASE held' = held
      BY <2>1, Sizes DEF IInv, PollData, ProgramTypes, Place, Buffered, IsPrev
    <2>2. CASE p = page /\ held' = [held EXCEPT !.cur = pos + 1]
      BY <2>2, Sizes DEF IInv, PollData, ProgramTypes, Place, Readable, IsPrev
    <2> QED BY <2>1, <2>2 DEF PollData, Buffered, IsPrev
  <1>3. ProgramTypes' /\ Starting' /\ Counted'
    BY <1>2 DEF IInv, PollData, ProgramTypes, Points, Starting, Counted
  <1>4. Receiving' /\ Place' /\ Kept' /\ Choice' /\ Between'
    BY <1>2, Sizes
       DEF IInv, PollData, deviceVars, ProgramTypes, PrinterTypes, Receiving, Place,
           Kept, Choice, Between, Sure, Rejected, Ready, IsReady, IsPrev, Readable,
           VideoDataError
  <1> QED BY <1>1, <1>3, <1>4 DEF IInv

(* The page becomes the page before.                                       *)
LEMMA WrittenStep ==
  ASSUME IInv, Written
  PROVE  IInv'
  <1>1. PrinterTypes' /\ Order'
    BY DEF IInv, Written, deviceVars, PrinterTypes, Order, InOrder
  <1>2. CASE caller = "main"
    <2>1. held'.prev = held.cur /\ held' \in [cur : 0 .. Blocks, prev : 0 .. Blocks]
      BY <1>2, Sizes DEF IInv, Written, ProgramTypes
    <2>2. ProgramTypes' /\ Starting' /\ Counted'
      BY <1>2, <2>1, Sizes DEF IInv, Written, ProgramTypes, Points, Starting, Counted
    <2>3. Receiving' /\ Place' /\ Kept' /\ Choice'
      BY <1>2, <2>1, Sizes
         DEF IInv, Written, deviceVars, ProgramTypes, PrinterTypes, Receiving, Place,
             Kept, Choice, IsReady, IsPrev, Readable, VideoDataError
    <2>4. Between'
      BY <1>2, Sizes DEF IInv, Written, deviceVars, ProgramTypes, Between, Sure, Rejected
    <2> QED BY <1>1, <2>2, <2>3, <2>4 DEF IInv
  <1>3. CASE caller = "last"
    <2>2. ProgramTypes' /\ Starting' /\ Counted'
      BY <1>3, Sizes DEF IInv, Written, ProgramTypes, Points, Starting, Counted
    <2>3. Receiving' /\ Place' /\ Kept' /\ Choice'
      BY <1>3, Sizes
         DEF IInv, Written, deviceVars, ProgramTypes, PrinterTypes, Receiving, Place,
             Kept, Choice, IsReady, IsPrev, Readable, VideoDataError
    <2>4. Between'
      BY <1>3, Sizes DEF IInv, Written, deviceVars, ProgramTypes, Between, Sure, Rejected
    <2> QED BY <1>1, <2>2, <2>3, <2>4 DEF IInv
  <1> QED BY <1>2, <1>3 DEF IInv, Written, Starting, ProgramTypes

(* After a failed page: Prev only if the page before is not out.           *)
LEMMA PrintEndStep ==
  ASSUME IInv, PrintEnd
  PROVE  IInv'
  <1>1. PrinterTypes' /\ Order'
    BY DEF IInv, PrintEnd, deviceVars, PrinterTypes, Order, InOrder
  <1>2. ProgramTypes' /\ Starting' /\ Counted'
    BY DEF IInv, PrintEnd, ProgramTypes, Points, Starting, Counted, GetReprintStatus
  <1>3. Receiving' /\ Place' /\ Kept' /\ Between'
    BY Sizes
       DEF IInv, PrintEnd, deviceVars, ProgramTypes, PrinterTypes, Receiving, Place,
           Kept, Between, Sure, Rejected, Ready, IsReady, IsPrev, Readable,
           VideoDataError
  <1>4. Choice'
    <2> SUFFICES ASSUME pc' = "write", caller # "start"
                 PROVE  Passed(out, path, Target')
      BY DEF Choice, PrintEnd, deviceVars
    <2>1. /\ p = Target /\ start = p /\ path = NoPage /\ Passed(out, path, p)
          /\ pc = "printEnd" /\ reprint' = GetReprintStatus
      BY DEF IInv, PrintEnd, Choice, IsPrinting
    <2>2. out \in Seq(Int) /\ path \in Int /\ p \in Int /\ page \in Int
      BY Sizes DEF IInv, PrinterTypes, ProgramTypes
    <2>3. CASE Target' >= p
      BY <2>1, <2>2, <2>3, PassedUp DEF PrintEnd
    <2>4. CASE Target' < p
      <3>1. p = page /\ Target' = page - 1 /\ page > 0 /\ printed + 1 # p
        BY <2>1, <2>2, <2>4 DEF PrintEnd, GetReprintStatus
      <3>2. \A i \in 1 .. Len(out) : out[i] <= out[Len(out)] /\ out[Len(out)] < page - 1
        <4> SUFFICES ASSUME NEW i \in 1 .. Len(out)
                     PROVE  out[i] <= out[Len(out)] /\ out[Len(out)] < page - 1
          OBVIOUS
        <4>1. out # <<>> /\ Len(out) \in 1 .. Len(out) /\ out[Len(out)] \in Int /\ out[i] \in Int
          BY <2>2
        <4>2. out[Len(out)] < page /\ printed = out[Len(out)]
          BY <2>1, <3>1, <4>1 DEF IInv, Order, Passed, Below
        <4>3. out[i] <= out[Len(out)]
          BY <2>2, <4>1 DEF IInv, Order, InOrder
        <4> QED BY <2>2, <3>1, <4>1, <4>2, <4>3
      <3>3. Below(out, page - 1)
        BY <2>2, <3>2 DEF Below
      <3> QED BY <2>1, <2>2, <3>1, <3>3 DEF Passed
    <2>5. Target' \in Int
      BY <2>2 DEF PrintEnd
    <2> QED BY <2>2, <2>3, <2>4, <2>5
  <1> QED BY <1>1, <1>2, <1>3, <1>4 DEF IInv

(* waitLastPage sends the last page again only if it was lost.             *)
LEMMA WaitLastStep ==
  ASSUME IInv, WaitLast
  PROVE  IInv'
  <1>1. PrinterTypes' /\ Order'
    BY DEF IInv, WaitLast, deviceVars, PrinterTypes, Order, InOrder
  <1>2. ProgramTypes' /\ Starting' /\ Counted'
    BY DEF IInv, WaitLast, Goto, ProgramTypes, Points, Starting, Counted
  <1>3. Receiving' /\ Place' /\ Kept' /\ Between'
    BY Sizes
       DEF IInv, WaitLast, Goto, deviceVars, ProgramTypes, PrinterTypes, Receiving,
           Place, Kept, Counted, Between, Sure, Rejected, IsReady, IsPrev, Readable,
           VideoDataError
  <1>4. Choice'
    <2>2. CASE pc' \in {"offline", "failed"}
      BY <2>2 DEF IInv, WaitLast, Goto, deviceVars, Choice
    <2>1. CASE ~stop /\ Rejected /\ pc' = "write" /\ caller' = "last" /\ page' = page
      BY <2>1 DEF IInv, WaitLast, deviceVars, Choice, Counted, Between, Sure, ProgramTypes
    <2> QED BY <2>1, <2>2 DEF WaitLast, Goto
  <1> QED BY <1>1, <1>2, <1>3, <1>4 DEF IInv

(* Clearing errors touches no page.                                        *)
LEMMA ClearErrorStep ==
  ASSUME IInv, ClearError
  PROVE  IInv'
  <1> USE DEF CLEAR_ERROR, DISCARD_DATA, CLEAR_MISPRINT, RESET_ENGINE
  <1>1. UNCHANGED <<reserved, online, start, printing, printed, path, out>>
    BY DEF ClearError
  <1>2. errors' \subseteq errors
    BY DEF ClearError
  <1>3. rx = NoRx /\ rx' = NoRx
    BY DEF ClearError, IInv, Receiving
  <1>4. cond' \in {"ok", "attend", "service", "reset"}
    BY DEF ClearError, IInv, PrinterTypes
  <1>5. PrinterTypes' /\ Order'
    BY <1>1, <1>2, <1>3, <1>4, Sizes DEF IInv, PrinterTypes, Order, InOrder
  <1>6. /\ pc \in Clearing /\ pc' \in Clearing \union {Cleared}
        /\ UNCHANGED <<caller, page, p, reprint, pos, held, known, stop>>
    BY DEF ClearError, Goto, AfterDiscard, AfterMisprint
  <1>7. ProgramTypes' /\ Starting' /\ Counted' /\ Choice' /\ Kept' /\ Receiving'
    BY <1>1, <1>3, <1>6
       DEF IInv, ProgramTypes, Points, Starting, Counted, Choice, Kept, Receiving,
           Cleared
  <1>8. Place'
    BY <1>2, <1>6 DEF IInv, Place, Cleared, IsPrev, Readable, VideoDataError
  <1>9. Between'
    BY <1>1, <1>6 DEF IInv, Between, Cleared, Starting, ProgramTypes, Passed, Below
  <1> QED BY <1>5, <1>7, <1>8, <1>9 DEF IInv

(* GO_ONLINE sets Start to the page that comes next.                       *)
LEMMA GoOnlineStep ==
  ASSUME IInv, FewPages, GoOnline
  PROVE  IInv'
  <1>1. Number(p) \in Registers
    BY NumberIn DEF IInv, ProgramTypes
  <1>2. PrinterTypes' /\ Order'
    BY <1>1 DEF IInv, GoOnline, GO_ONLINE, PrinterTypes, Order, InOrder, IsReady
  <1>3. caller # "start" /\ p < NumPages /\ start' = p
    <2>1. caller # "start" /\ p \in 0 .. NumPages - 1
      BY Sizes DEF IInv, GoOnline, Counted, Choice, Starting, ProgramTypes
    <2> QED BY <2>1, Sizes, NumberIs DEF GoOnline, GO_ONLINE
  <1>4. ProgramTypes' /\ Starting' /\ Counted' /\ Choice' /\ Between' /\ Kept'
    BY <1>3
       DEF IInv, GoOnline, GO_ONLINE, Goto, ProgramTypes, Points, Starting, Counted,
           Choice, Between, Kept
  <1>5. Receiving' /\ Place'
    BY DEF IInv, GoOnline, GO_ONLINE, Goto, Receiving, Place, IsReady, IsPrev, Readable,
           VideoDataError
  <1> QED BY <1>2, <1>4, <1>5 DEF IInv

(* A page is begun, or rejected.                                           *)
LEMMA BeginPageStep ==
  ASSUME IInv, BeginPage
  PROVE  IInv'
  <1>1. caller # "start" /\ p < NumPages /\ rx = NoRx /\ pos = 0 /\ Passed(out, path, p)
    BY Sizes
       DEF IInv, BeginPage, Counted, Starting, ProgramTypes, Receiving, Place, Choice
  <1>2. \/ IsReady /\ rx' = [page |-> p, blocks |-> <<>>] /\ errors' = errors
        \/ rx' = NoRx /\ errors' = errors \union {"rejected"}
    BY <1>1 DEF BeginPage, IC_BEGIN_PAGE
  <1>3. rx' \in [page : -1 .. NumPages - 1, blocks : Seq(Nat)]
    <2>1. p \in -1 .. NumPages - 1 /\ <<>> \in Seq(Nat)
      BY <1>1, Sizes DEF IInv, ProgramTypes
    <2>2. rx \in [page : -1 .. NumPages - 1, blocks : Seq(Nat)]
      BY DEF IInv, PrinterTypes
    <2>3. CASE rx' = [page |-> p, blocks |-> <<>>]
      BY <2>1, <2>3
    <2> QED BY <1>1, <1>2, <2>2, <2>3
  <1>4. PrinterTypes'
    BY <1>2, <1>3 DEF IInv, BeginPage, IC_BEGIN_PAGE, PrinterTypes, Errors
  <1>5. Order'
    BY <1>1, <1>2 DEF IInv, BeginPage, IC_BEGIN_PAGE, Order, InOrder
  <1>6. ProgramTypes' /\ Starting' /\ Counted' /\ Choice' /\ Between' /\ Kept'
    BY <1>1
       DEF IInv, BeginPage, IC_BEGIN_PAGE, Goto, ProgramTypes, Points, Starting, Counted,
           Choice, Between, Kept
  <1>7. Receiving'
    <2>1. CASE rx' = NoRx
      BY <2>1 DEF Receiving
    <2>2. CASE IsReady /\ rx' = [page |-> p, blocks |-> <<>>] /\ errors' = errors
      <3>1. pos' = 0 /\ <<>> = [k \in 1 .. 0 |-> k]
        BY <1>1 DEF BeginPage, Goto
      <3>2. IsReady' /\ pc' = "data" /\ p' = p
        BY <2>2 DEF BeginPage, IC_BEGIN_PAGE, Goto, IsReady
      <3> QED BY <2>2, <3>1, <3>2 DEF Receiving
    <2> QED BY <1>2, <2>1, <2>2
  <1>8. Place'
    BY <1>1, <1>2, Sizes
       DEF IInv, BeginPage, IC_BEGIN_PAGE, Goto, Place, IsPrev, Readable, VideoDataError,
           ProgramTypes
  <1> QED BY <1>4, <1>5, <1>6, <1>7, <1>8 DEF IInv

(* The next block goes to the end of what was received, or nowhere.        *)
LEMMA SendDataStep ==
  ASSUME IInv, SendData
  PROVE  IInv'
  <1>1. pos < Readable /\ pos + 1 \in 0 .. Blocks /\ pos' = pos + 1 /\ pos \in Nat
    BY Sizes DEF IInv, SendData, Place, Readable, ProgramTypes
  <1>2. CASE rx = NoRx
    <2>1. rx' = NoRx
      BY <1>2 DEF SendData, IC_VIDEO_DATA
    <2> QED
      BY <1>1, <1>2, <2>1, Sizes
         DEF IInv, SendData, IC_VIDEO_DATA, PrinterTypes, Order, InOrder, ProgramTypes,
             Points, Starting, Counted, Choice, Between, Kept, Receiving, Place, IsPrev,
             Readable, VideoDataError
  <1>3. CASE rx # NoRx
    <2>1. /\ rx'.page = rx.page
          /\ rx'.blocks = Append(rx.blocks, pos + 1)
          /\ rx' \in [page : -1 .. NumPages - 1, blocks : Seq(Nat)]
      <3>1. rx \in [page : -1 .. NumPages - 1, blocks : Seq(Nat)] /\ pos + 1 \in Nat
        BY <1>1 DEF IInv, PrinterTypes
      <3>2. Append(rx.blocks, pos + 1) \in Seq(Nat)
        BY <3>1
      <3>3. rx' = [rx EXCEPT !.blocks = Append(@, pos + 1)]
        BY <1>3 DEF SendData, IC_VIDEO_DATA
      <3> QED BY <3>1, <3>2, <3>3
    <2>2. rx.blocks = [k \in 1 .. pos |-> k] /\ rx.page = p /\ IsReady
      BY <1>3 DEF IInv, Receiving
    <2>3. rx'.blocks = [k \in 1 .. pos' |-> k]
      BY <1>1, <2>1, <2>2
    <2>4. PrinterTypes' /\ Order'
      BY <1>3, <2>1 DEF IInv, SendData, IC_VIDEO_DATA, PrinterTypes, Order, InOrder
    <2>5. ProgramTypes' /\ Starting' /\ Counted' /\ Choice' /\ Between' /\ Kept' /\ Place'
      BY <1>1, Sizes
         DEF IInv, SendData, IC_VIDEO_DATA, ProgramTypes, Points, Starting, Counted,
             Choice, Between, Kept, Place, IsPrev, Readable, VideoDataError
    <2>6. Receiving'
      BY <2>1, <2>2, <2>3 DEF SendData, IC_VIDEO_DATA, Receiving, IsReady
    <2> QED BY <2>4, <2>5, <2>6 DEF IInv
  <1> QED BY <1>2, <1>3

(* A page that was received is whole, and goes into the path.              *)
LEMMA EndPageStep ==
  ASSUME IInv, EndPage
  PROVE  IInv'
  <1>1. caller # "start" /\ p = Target /\ Passed(out, path, p) /\ start = p /\ pc = "data"
    BY DEF IInv, EndPage, Starting, Choice
  <1>2. pos = Blocks /\ (p # page => held.prev = Blocks) /\ (p = page => held.cur = Blocks)
    BY <1>1, Sizes DEF IInv, EndPage, Kept, Place, Readable, IsPrev, ProgramTypes
  <1>3. rx # NoRx => rx.page = p /\ Whole(rx.blocks) /\ errors = {}
    BY <1>2 DEF IInv, Receiving, Whole, IsReady
  <1>4. /\ rx' = NoRx /\ errors' = errors
        /\ \/ rx # NoRx /\ path' = p /\ printing' = start
           \/ rx = NoRx /\ path' = path /\ printing' = printing
    BY <1>3 DEF EndPage, IC_END_PAGE
  <1>5. out \in Seq(Int) /\ path \in Int /\ p \in Int /\ 0 <= p /\ page \in Int
    BY Sizes DEF IInv, PrinterTypes, ProgramTypes
  <1>6. /\ Passed(out, path', p + 1) /\ path' \in Int /\ (path' # NoPage => Below(out, path'))
        /\ Rejected' => Passed(out, path', p)
    <2>1. CASE rx # NoRx
      BY <1>1, <1>3, <1>4, <1>5, <2>1, PassedTaken DEF Rejected
    <2>2. CASE rx = NoRx
      BY <1>1, <1>4, <1>5, <2>2, PassedUp DEF IInv, Order
    <2> QED BY <2>1, <2>2
  <1>7. PrinterTypes'
    <2>1. rx' \in [page : -1 .. NumPages - 1, blocks : Seq(Nat)]
      <3>1. -1 \in -1 .. NumPages - 1 /\ <<>> \in Seq(Nat)
        BY Sizes
      <3> QED BY <1>4, <3>1
    <2>2. path' \in -1 .. NumPages - 1
      <3>1. p < NumPages
        BY <1>1, Sizes DEF IInv, Counted, ProgramTypes
      <3> QED BY <1>4, <1>5, <3>1, Sizes DEF IInv, PrinterTypes
    <2> QED BY <1>4, <2>1, <2>2 DEF IInv, EndPage, IC_END_PAGE, PrinterTypes
  <1>8. Order'
    BY <1>4, <1>6 DEF IInv, EndPage, IC_END_PAGE, Order, InOrder
  <1>9. ProgramTypes' /\ Starting' /\ Counted' /\ Receiving' /\ Place'
    BY <1>1, <1>4
       DEF IInv, EndPage, ProgramTypes, Points, Starting, Counted, Receiving, Place,
           IsPrev, Readable, VideoDataError
  <1>10. Choice' /\ Between'
    <2>1. UNCHANGED <<caller, page, p, stop, out, start>>
      BY DEF EndPage, IC_END_PAGE
    <2>2. CASE HasPrev /\ reprint = "Prev"
      <3>1. pc' = "write" /\ Target' = p + 1
        BY <1>1, <1>5, <2>1, <2>2 DEF EndPage
      <3> QED BY <1>6, <2>1, <3>1 DEF Choice, Between
    <2>3. CASE ~(HasPrev /\ reprint = "Prev")
      <3>1. pc' = "written" /\ p = ThisPage
        BY <1>1, <2>3 DEF EndPage
      <3> QED BY <1>6, <2>1, <3>1 DEF Choice, Between, Sure
    <2> QED BY <2>2, <2>3
  <1>11. Kept'
    BY <1>1, <1>2, Sizes DEF IInv, EndPage, Kept, Counted, ProgramTypes
  <1> QED BY <1>7, <1>8, <1>9, <1>10, <1>11 DEF IInv

(* A page comes out.                                                       *)
LEMMA EjectStep ==
  ASSUME IInv, FewPages, Eject, UNCHANGED hostVars
  PROVE  IInv'
  <1> USE DEF Eject, hostVars
  <1>1. path \in 0 .. NumPages - 1 /\ out \in Seq(0 .. NumPages - 1)
    BY Sizes DEF IInv, PrinterTypes
  <1>2. /\ path' = NoPage /\ out' = Append(out, path) /\ printed' = path
        /\ out' \in Seq(0 .. NumPages - 1)
    BY <1>1, NumberIs
  <1>3. out \in Seq(Int) /\ path \in Int /\ page \in Int /\ p \in Int /\ 0 <= p /\ caller # "start"
    BY <1>1, Sizes DEF IInv, PrinterTypes, ProgramTypes, Starting
  <1>4. \A q \in Int : Passed(out, path, q) => Passed(out', path', q)
    BY <1>1, <1>2, <1>3, PassedOut
  <1>5. PrinterTypes'
    <2>1. printed' \in Registers
      BY <1>1, NumberIn
    <2> QED BY <1>1, <1>2, <2>1, Sizes DEF IInv, PrinterTypes
  <1>6. Order'
    <2>1. InOrder'
      BY <1>1, <1>2, <1>3 DEF IInv, Order, InOrder, Below
    <2>2. out' # <<>> => printed' = out'[Len(out')]
      BY <1>1, <1>2
    <2>3. rx' # NoRx => Passed(out', path', rx'.page)
      BY <1>3, <1>4 DEF IInv, Order, Receiving
    <2> QED BY <1>2, <2>1, <2>2, <2>3 DEF Order
  <1>7. ProgramTypes' /\ Starting' /\ Counted' /\ Receiving' /\ Place' /\ Kept'
    BY <1>3
       DEF IInv, ProgramTypes, Points, Starting, Counted, Receiving, IsReady, Place,
           IsPrev, Readable, VideoDataError, Kept
  <1>8. Choice' /\ Between'
    BY <1>3, <1>4 DEF IInv, Choice, Between, Sure, Rejected, ProgramTypes
  <1> QED BY <1>5, <1>6, <1>7, <1>8 DEF IInv

(* The operator and the engine touch no page.                              *)
LEMMA AttendStep ==
  ASSUME IInv, Attend \/ EngineRestarted, UNCHANGED hostVars
  PROVE  IInv'
  <1> USE DEF Attend, EngineRestarted, hostVars
  <1>1. PrinterTypes' /\ Order'
    BY DEF IInv, PrinterTypes, Order, InOrder
  <1>2. /\ ProgramTypes' /\ Starting' /\ Counted' /\ Receiving' /\ Place' /\ Kept'
        /\ Choice' /\ Between'
    BY DEF IInv, ProgramTypes, Points, Starting, Counted, Receiving, IsReady, Place,
           IsPrev, Readable, VideoDataError, Kept, Choice, Between, Sure, Rejected
  <1> QED BY <1>1, <1>2 DEF IInv

(* What is lost is not passed.                                             *)
LEMMA AccidentStep ==
  ASSUME IInv, Accident
  PROVE  IInv'
  <1>1. PICK f \in Faults : Fault(f) /\ UNCHANGED hostVars
    BY DEF Accident
  <1> USE DEF hostVars
  <1>2. out \in Seq(Int) /\ path \in Int /\ page \in Int /\ p \in Int /\ 0 <= p
    BY Sizes DEF IInv, PrinterTypes, ProgramTypes
  <1>3. /\ rx' = NoRx /\ path' \in {path, NoPage}
        /\ UNCHANGED <<out, start, printing, printed, reserved>>
    BY <1>1 DEF Fault
  <1>4. \A q \in Int : 0 <= q /\ Passed(out, path, q) => Passed(out, path', q)
    BY <1>2, <1>3, PassedLost
  <1>5. PrinterTypes'
    <2>1. rx' \in [page : -1 .. NumPages - 1, blocks : Seq(Nat)]
      <3>1. -1 \in -1 .. NumPages - 1 /\ <<>> \in Seq(Nat)
        BY Sizes
      <3> QED BY <1>3, <3>1
    <2>2. path' \in -1 .. NumPages - 1
      BY <1>3, Sizes DEF IInv, PrinterTypes
    <2>3. errors' \subseteq Errors
      BY <1>1 DEF IInv, Fault, PrinterTypes, Errors
    <2>4. cond' \in {"ok", "attend", "service", "reset"} /\ online' \in BOOLEAN
      BY <1>1, DeviceAssumption DEF IInv, Fault, PrinterTypes, Kinds
    <2> QED BY <1>3, <2>1, <2>2, <2>3, <2>4 DEF IInv, PrinterTypes
  <1>6. Order'
    BY <1>3 DEF IInv, Order, InOrder
  <1>7. ProgramTypes' /\ Starting' /\ Counted' /\ Receiving' /\ Kept'
    BY <1>1, <1>3 DEF IInv, ProgramTypes, Points, Starting, Counted, Receiving, Kept
  <1>8. Place'
    <2>1. "video" \notin Faults => ~VideoDataError'
      BY <1>1 DEF IInv, Place, Fault, VideoDataError
    <2> QED BY <1>1, <2>1 DEF IInv, Place, IsPrev, Readable
  <1>9. Choice'
    BY <1>1, <1>2, <1>3, <1>4 DEF IInv, Choice, Counted, ProgramTypes
  <1>10. Between'
    <2>1. \A q \in Int :
            0 <= q /\ rx = NoRx /\ Passed(out, path, q + 1) /\ Sure(q) => Sure(q)'
      <3> SUFFICES ASSUME NEW q \in Int, 0 <= q, rx = NoRx,
                          Passed(out, path, q + 1), Sure(q), Rejected'
                   PROVE  Passed(out, path', q)
        BY <1>3 DEF Sure
      <3>1. CASE Rejected
        BY <1>4, <3>1 DEF Sure
      <3>2. CASE ~Rejected
        <4>1. path # NoPage /\ path' = NoPage
          <5>1. f # "rejected"
            BY <1>1, DeviceAssumption DEF Kinds
          <5>2. Lost(f) # {}
            BY <1>1, <3>2, <5>1 DEF Fault, Rejected
          <5> QED BY <1>1, <5>2 DEF Fault, Lost
        <4>2. Below(out, path) /\ path <= q
          BY <1>2, <4>1 DEF IInv, Order, Passed
        <4> QED BY <1>2, <4>1, <4>2 DEF Below, Passed
      <3> QED BY <3>1, <3>2
    <2>2. CASE pc = "written"
      <3>1. rx = NoRx /\ (~stop => p = ThisPage /\ Passed(out, path, p + 1) /\ Sure(p))
        BY <2>2 DEF IInv, Receiving, Between
      <3>2. ~stop => Passed(out, path', p + 1) /\ Sure(p)'
        BY <1>1, <1>2, <1>4, <2>1, <3>1 DEF Sure
      <3> QED BY <1>1, <1>3, <2>2, <3>1, <3>2 DEF Between
    <2>3. CASE pc \in {"header", "last"}
      <3>1. page \in Nat /\ rx = NoRx
        BY <2>3 DEF IInv, Receiving, ProgramTypes
      <3>2. ~stop => Passed(out, path', page)
        BY <1>2, <1>4, <2>3, <3>1 DEF IInv, Between
      <3>3. ~stop /\ page > 0 => Sure(page - 1)'
        <4> HAVE ~stop /\ page > 0
        <4>1. Passed(out, path, (page - 1) + 1) /\ Sure(page - 1)
          BY <2>3, <3>1 DEF IInv, Between
        <4>2. Sure(page - 1)'
          BY <1>1, <2>1, <3>1, <4>1 DEF Sure
        <4> QED BY <4>2
      <3> QED BY <1>1, <1>3, <2>3, <3>2, <3>3 DEF Between
    <2> QED BY <1>1, <2>2, <2>3 DEF Between
  <1> QED BY <1>5, <1>6, <1>7, <1>8, <1>9, <1>10 DEF IInv
-----------------------------------------------------------------------------
(* The types of PrintJob follow from it ...                                *)
LEMMA Typed == IInv => TypeOK
  <1> SUFFICES ASSUME IInv
               PROVE  TypeOK
    OBVIOUS
  <1>1. Len(rx.blocks) <= Blocks
    <2>1. CASE rx = NoRx
      BY <2>1, Sizes
    <2>2. CASE rx # NoRx
      BY <2>2, Sizes DEF IInv, Receiving, ProgramTypes
    <2> QED BY <2>1, <2>2
  <1>2. rx.page \in -1 .. NumPages - 1
    BY DEF IInv, PrinterTypes
  <1> QED BY <1>1, <1>2 DEF IInv, PrinterTypes, ProgramTypes, TypeOK

(* ... and so does FromTheTop.                                             *)
LEMMA FromTop == IInv => FromTheTop
  <1> SUFFICES ASSUME IInv
               PROVE  FromTheTop
    OBVIOUS
  <1>1. CASE rx = NoRx
    BY <1>1 DEF IInv, Place, FromTheTop
  <1>2. CASE rx # NoRx
    BY <1>2 DEF IInv, Place, FromTheTop, Receiving, ProgramTypes
  <1> QED BY <1>1, <1>2

(* All steps.                                                              *)
LEMMA NextStep ==
  ASSUME IInv, FewPages, [Next]_vars
  PROVE  IInv'
  <1>1. CASE BeginPage
    BY <1>1, BeginPageStep
  <1>2. CASE UNCHANGED losses /\ (ReserveUnit \/ FirstStatus \/ NoMorePages \/ WriteLoop
                                \/ StopWriting \/ WaitReady \/ CheckOnline \/ GoOffline
                                \/ ReleaseUnit \/ Throws)
    BY <1>2, QuietStep
  <1>3. CASE ClearError
    BY <1>3, ClearErrorStep
  <1>4. CASE ReadHeader
    BY <1>4, ReadHeaderStep
  <1>5. CASE GoOnline
    BY <1>5, GoOnlineStep
  <1>6. CASE PollData
    BY <1>6, PollDataStep
  <1>7. CASE SendData
    BY <1>7, SendDataStep
  <1>8. CASE EndPage
    BY <1>8, EndPageStep
  <1>9. CASE PrintEnd
    BY <1>9, PrintEndStep
  <1>10. CASE Written
    BY <1>10, WrittenStep
  <1>11. CASE WaitLast
    BY <1>11, WaitLastStep
  <1>12. CASE Printer
    BY <1>12, EjectStep, AttendStep DEF Printer
  <1>13. CASE Operator
    BY <1>13, AttendStep DEF Operator
  <1>14. CASE Accident
    BY <1>14, AccidentStep
  <1>15. CASE SIGINT
    BY <1>15, SIGINTStep
  <1>16. CASE UNCHANGED vars
    BY <1>16, StutterStep
  <1> QED
    BY <1>1, <1>2, <1>3, <1>4, <1>5, <1>6, <1>7, <1>8, <1>9, <1>10, <1>11, <1>12, <1>13,
       <1>14, <1>15, <1>16
       DEF Next, Program, Failure
-----------------------------------------------------------------------------
(***************************************************************************)
(* IInv is inductive: what is out, in the path, being received and about   *)
(* to be sent are in order, whatever goes wrong.                           *)
(***************************************************************************)
THEOREM Invariance == FewPages => (Spec => []IInv)
  <1> SUFFICES ASSUME FewPages
               PROVE  Spec => []IInv
    OBVIOUS
  <1>1. Init => IInv
    BY InitHolds
  <1>2. IInv /\ [Next]_vars => IInv'
    BY NextStep
  <1> QED BY <1>1, <1>2, PTL DEF Spec

(***************************************************************************)
(* The state of a print job has its type: no page that is not in the file, *)
(* no position outside a page.                                             *)
(***************************************************************************)
THEOREM TypeCorrect == FewPages => (Spec => []TypeOK)
  <1> SUFFICES ASSUME FewPages
               PROVE  Spec => []TypeOK
    OBVIOUS
  <1>1. Spec => []IInv
    BY Invariance
  <1> QED BY <1>1, Typed, PTL

(***************************************************************************)
(* InOrder, for jobs of up to 65536 pages, pages of every size and faults  *)
(* of every kind, as many as there may be, at any time: no page comes out  *)
(* twice or out of order.                                                  *)
(***************************************************************************)
THEOREM InOrderHolds == FewPages => (Spec => []InOrder)
  <1> SUFFICES ASSUME FewPages
               PROVE  Spec => []InOrder
    OBVIOUS
  <1>1. Spec => []IInv
    BY Invariance
  <1>2. IInv => InOrder
    BY DEF IInv, Order
  <1> QED BY <1>1, <1>2, PTL

(***************************************************************************)
(* FromTheTop, under the same conditions: the video data of a page reach   *)
(* the printer from the first block on and in order, and no page is ended  *)
(* early, however often it is sent and from wherever it comes.             *)
(***************************************************************************)
THEOREM FromTheTopHolds == FewPages => (Spec => []FromTheTop)
  <1> SUFFICES ASSUME FewPages
               PROVE  Spec => []FromTheTop
    OBVIOUS
  <1>1. Spec => []IInv
    BY Invariance
  <1> QED BY <1>1, FromTop, PTL
-----------------------------------------------------------------------------
(***************************************************************************)
(* What can go missing in a print job: the invariant behind MissingOnlyIf. *)
(*                                                                         *)
(* At any moment the program is concerned with two pages at most: the one  *)
(* it is writing and the one before it, which may still be in the paper    *)
(* path.  Every page before these is accounted for.  If the printer loses  *)
(* the page before while the program watches, the print is rejected, and   *)
(* it stays so until writePage has compared the registers.                 *)
(***************************************************************************)

(* Page k was lost in one of the two ways of MissingOnlyIf.                *)
Flagged(ls, k) == \E l \in ls : l.page = k /\ (l.unwatched \/ l.again)

(* Page k is accounted for: it is out or so lost ...                       *)
Had(o, ls, k) == (\E i \in 1 .. Len(o) : o[i] = k) \/ Flagged(ls, k)

(* ... or about to come out.                                               *)
Reaches(o, w, ls, k) == Had(o, ls, k) \/ w = k

(* Nothing more is asked of the printer before END_PAGE.                   *)
AllSent == \/ pc = "data" /\ pos = Readable
           \/ pc = "send" /\ pos + 1 = Readable

(* What Printed says before any page is out.                               *)
Registered == out = <<>> => printed = MaxNumber

(* Where the program has come to the end of the file.                      *)
Finished == pc \in {"last", "offline", "release", "done"} \/ caller = "last" => page = NumPages

(* All pages but the one being written and the one before it.              *)
Before == \A k \in 0 .. page - 2 : Had(out, losses, k)

(* Between two pages, and at the end.                                      *)
Waiting ==
  /\ pc = "header" /\ page > 0 => Reaches(out, path, losses, page - 1)
  /\ pc = "last" => Reaches(out, path, losses, page - 1) \/ Rejected
  /\ pc \in {"offline", "release", "done"} => \A k \in 0 .. NumPages - 1 : Had(out, losses, k)
  /\ pc = "written" =>
       IF caller = "main"
       THEN (page > 0 => Had(out, losses, page - 1)) /\ Reaches(out, path, losses, page)
       ELSE Reaches(out, path, losses, page - 1)

(* The page before, while main's next page is being written.               *)
Carried ==
  caller = "main" /\ page > 0 /\ pc \in Chosen \union {"write"} =>
    /\ reprint # "Prev" =>
         \/ Reaches(out, path, losses, page - 1)
         \/ pc \in {"begin", "data", "send", "printEnd"} /\ Rejected /\ rx = NoRx
    /\ reprint = "Prev" /\ pc = "printEnd" => Flagged(losses, page - 1)

(* A page that is lost while it is sent leaves a rejection behind.         *)
Noticed ==
  /\ pc \in {"data", "send"} /\ rx = NoRx =>
       Rejected /\ (caller = "main" /\ p # page => Flagged(losses, p))
  /\ pc = "printEnd" => Rejected

(* When the last block is under way, the page before is out.               *)
Arrived ==
  AllSent => /\ path = NoPage
             /\ rx = NoRx => Flagged(losses, p)
             /\ caller = "main" /\ p = page /\ page > 0 => Had(out, losses, page - 1)

Account == ~stop => /\ Finished /\ Before /\ Waiting /\ Carried /\ Noticed /\ Arrived

(* The invariant.                                                          *)
LInv == IInv /\ Registered /\ Account
-----------------------------------------------------------------------------
(* What was lost stays lost.                                               *)
LEMMA FlaggedMore ==
  \A ls, ms, k : Flagged(ls, k) /\ ls \subseteq ms => Flagged(ms, k)
  BY DEF Flagged

(* What is accounted for stays so when more is lost ...                    *)
LEMMA HadMore ==
  \A o, ls, ms, k : Had(o, ls, k) /\ ls \subseteq ms => Had(o, ms, k)
  BY FlaggedMore DEF Had

(* ... and when more comes out.                                            *)
LEMMA HadOut ==
  \A ls, k : \A o \in Seq(Int), w \in Int :
    Had(o, ls, k) \/ k = w => Had(Append(o, w), ls, k)
  BY DEF Had

(* The three notions imply each other from left to right.                  *)
LEMMA FlaggedHad == \A o, w, ls, k : /\ Flagged(ls, k) => Had(o, ls, k)
                                     /\ Had(o, ls, k) => Reaches(o, w, ls, k)
  BY DEF Had, Reaches

USE DEF Clearing, Sending, Chosen, NoPage, NoRx, HasPrev, ThisPage, Target
-----------------------------------------------------------------------------
(* Steps that leave the pages in the printer and its errors alone.         *)
LEMMA QuietLoss ==
  ASSUME LInv, UNCHANGED losses,
         ReserveUnit \/ FirstStatus \/ NoMorePages \/ WriteLoop \/ StopWriting \/ WaitReady
         \/ CheckOnline \/ GoOffline \/ ReleaseUnit \/ Throws
  PROVE  Registered' /\ Account'
  <1> USE DEF ReserveUnit, FirstStatus, NoMorePages, WriteLoop, StopWriting, WaitReady,
              CheckOnline, GoOffline, ReleaseUnit, Throws, Goto, deviceVars
  <1>1. UNCHANGED <<errors, printed, rx, path, out, stop, page, caller, reprint, held>>
    OBVIOUS
  <1>2. Registered'
    BY <1>1 DEF LInv, Registered
  <1> SUFFICES ASSUME ~stop
               PROVE  Finished' /\ Before' /\ Waiting' /\ Carried' /\ Noticed' /\ Arrived'
    BY <1>1, <1>2 DEF Account
  <1>3. Finished /\ Before /\ Waiting /\ Carried /\ Noticed /\ Arrived
    BY DEF LInv, Account
  <1>4. Finished' /\ Before'
    BY <1>1, <1>3, Sizes DEF LInv, IInv, ProgramTypes, Finished, Before
  <1>5. Waiting'
    BY <1>1, <1>3, Sizes
       DEF LInv, IInv, ProgramTypes, Starting, Finished, Before, Waiting, Rejected, Reaches
  <1>6. Carried'
    <2>1. pc' \in Chosen \union {"write"} /\ caller = "main" =>
             pc \in (Chosen \union {"write"}) \ {"data", "send", "printEnd"}
      BY DEF LInv, IInv, Starting
    <2>2. pc' # "printEnd"
      BY DEF LInv, IInv, Starting
    <2> QED BY <1>1, <1>3, <2>1, <2>2 DEF Carried, Rejected
  <1>7. Noticed' /\ Arrived'
    BY <1>1, <1>3, Sizes
       DEF LInv, IInv, Starting, Noticed, Rejected, Arrived, AllSent, Readable, IsPrev
  <1> QED BY <1>4, <1>5, <1>6, <1>7

(* Clearing errors and GO_ONLINE come between pages.                       *)
LEMMA ClearErrorLoss ==
  ASSUME LInv, UNCHANGED losses, ClearError \/ GoOnline
  PROVE  Registered' /\ Account'
  <1> USE DEF ClearError, CLEAR_ERROR, DISCARD_DATA, CLEAR_MISPRINT, RESET_ENGINE, GoOnline,
              GO_ONLINE, Goto
  <1>1. UNCHANGED <<printed, path, out, stop, page, p, caller, reprint, held>>
    OBVIOUS
  <1>2. Registered'
    BY <1>1 DEF LInv, Registered
  <1> SUFFICES ASSUME ~stop
               PROVE  Finished' /\ Before' /\ Waiting' /\ Carried' /\ Noticed' /\ Arrived'
    BY <1>1, <1>2 DEF Account
  <1>3. Finished /\ Before /\ Waiting /\ Carried /\ Noticed /\ Arrived
    BY DEF LInv, Account
  <1>4. /\ pc \in Clearing \union {"goOnline"}
        /\ \/ pc' \in Clearing \union {"ready", "checkOnline"}
           \/ pc' = "header" /\ caller = "start"
    BY DEF Cleared, AfterMisprint, AfterDiscard
  <1>5. Finished' /\ Before' /\ Waiting'
    BY <1>1, <1>3, <1>4, Sizes DEF LInv, IInv, ProgramTypes, Starting, Finished, Before, Waiting
  <1>6. Carried'
    BY <1>1, <1>3, <1>4 DEF Carried
  <1>7. Noticed' /\ Arrived'
    BY <1>4 DEF Noticed, Arrived, AllSent
  <1> QED BY <1>5, <1>6, <1>7

(* The page that was written becomes the page before.                      *)
LEMMA ReadHeaderLoss ==
  ASSUME LInv, UNCHANGED losses, ReadHeader
  PROVE  Registered' /\ Account'
  <1> USE DEF ReadHeader, deviceVars
  <1>1. Registered'
    BY DEF LInv, Registered
  <1>2. Finished /\ Before /\ Waiting
    BY DEF LInv, Account
  <1>3. Finished' /\ Before' /\ Waiting' /\ Noticed' /\ Arrived'
    BY <1>2 DEF Finished, Before, Waiting, Noticed, Arrived, AllSent
  <1>4. Carried'
    BY <1>2 DEF Waiting, Carried
  <1> QED BY <1>1, <1>3, <1>4 DEF Account

(* The last block is sent only if the page before is out.                  *)
LEMMA PollDataLoss ==
  ASSUME LInv, UNCHANGED losses, PollData
  PROVE  Registered' /\ Account'
  <1> USE DEF PollData, deviceVars
  <1>1. Registered'
    BY DEF LInv, Registered
  <1> SUFFICES ASSUME ~stop
               PROVE  Finished' /\ Before' /\ Waiting' /\ Carried' /\ Noticed' /\ Arrived'
    BY <1>1 DEF Account
  <1>2. Finished /\ Before /\ Waiting /\ Carried /\ Noticed /\ Arrived
    BY DEF LInv, Account
  <1>3. Finished' /\ Before' /\ Waiting'
    BY <1>2 DEF Finished, Before, Waiting
  <1>4. /\ pc = "data" /\ caller # "start" /\ pos < Readable /\ pos \in Nat
        /\ ~Ready => rx = NoRx
        /\ Ready => rx # NoRx /\ ~Rejected
    <2>1. rx = NoRx => Rejected
      BY <1>2 DEF Noticed
    <2>2. Rejected => ~Ready
      BY DEF Rejected, Ready, IsReady
    <2> QED BY <2>1, <2>2, Sizes DEF LInv, IInv, Receiving, Ready, Starting, ProgramTypes
  <1>5. CASE Ready
    <2>1. Carried' /\ Noticed'
      BY <1>2, <1>4, <1>5 DEF Carried, Noticed
    <2>2. ASSUME AllSent'
          PROVE  path = NoPage
      <3>1. pos + 1 = Blocks
        <4>1. IsPrev /\ caller # "start" => held.prev = Blocks
          BY <1>4, Sizes DEF LInv, IInv, Kept, IsPrev, ProgramTypes
        <4> QED BY <1>4, <1>5, <2>2, <4>1 DEF AllSent, Readable, IsPrev, Buffered
      <3>2. Len(rx.blocks) = pos
        BY <1>4, <1>5 DEF LInv, IInv, Receiving
      <3> QED BY <1>5, <3>1, <3>2, Sizes, <1>4 DEF DataBusy
    <2>3. path = NoPage /\ caller = "main" /\ p = page /\ page > 0 => Had(out, losses, page - 1)
      <3> SUFFICES ASSUME path = NoPage, caller = "main", p = page, page > 0
                   PROVE  Had(out, losses, page - 1)
        OBVIOUS
      <3>1. reprint # "Prev"
        BY <1>4 DEF LInv, IInv, Choice, ProgramTypes
      <3>2. Reaches(out, path, losses, page - 1)
        BY <1>2, <1>4, <1>5, <3>1 DEF Carried
      <3> QED BY <3>2 DEF Reaches, LInv, IInv, ProgramTypes
    <2>4. Arrived'
      BY <1>4, <1>5, <2>2, <2>3 DEF Arrived
    <2> QED BY <1>3, <2>1, <2>4
  <1>6. CASE ~Ready
    <2>1. Rejected
      BY <1>2, <1>4, <1>6 DEF Noticed
    <2>2. Noticed' /\ Arrived'
      BY <1>6, <2>1 DEF Noticed, Arrived, AllSent, Rejected
    <2>3. Carried'
      BY <1>2, <1>4, <1>6, <2>1 DEF Carried, Noticed, Rejected, LInv, IInv, Choice, ProgramTypes
    <2> QED BY <1>3, <2>2, <2>3
  <1> QED BY <1>5, <1>6

(* A block arrives, or goes nowhere.                                       *)
LEMMA SendDataLoss ==
  ASSUME LInv, UNCHANGED losses, SendData
  PROVE  Registered' /\ Account'
  <1> USE DEF SendData, IC_VIDEO_DATA
  <1>1. Registered'
    BY DEF LInv, Registered
  <1> SUFFICES ASSUME ~stop
               PROVE  Finished' /\ Before' /\ Waiting' /\ Carried' /\ Noticed' /\ Arrived'
    BY <1>1 DEF Account
  <1>2. Finished /\ Before /\ Waiting /\ Carried /\ Noticed /\ Arrived
    BY DEF LInv, Account
  <1>3. Finished' /\ Before' /\ Waiting'
    BY <1>2 DEF Finished, Before, Waiting
  <1>4. rx' = NoRx <=> rx = NoRx
    <2>1. CASE rx # NoRx
      <3>1. /\ rx' = [rx EXCEPT !.blocks = Append(@, pos + 1)]
            /\ rx \in [page : -1 .. NumPages - 1, blocks : Seq(Nat)]
        BY <2>1 DEF LInv, IInv, PrinterTypes
      <3>2. rx'.page = rx.page /\ rx.page = p
        BY <2>1, <3>1 DEF LInv, IInv, Receiving
      <3>3. rx'.page # -1
        BY <3>2, Sizes DEF LInv, IInv, ProgramTypes
      <3> QED BY <2>1, <3>3
    <2> QED BY <2>1
  <1>5. Carried' /\ Noticed'
    BY <1>2, <1>4 DEF Carried, Noticed, Rejected
  <1>6. AllSent' <=> AllSent
    BY Sizes DEF AllSent, Readable, IsPrev, LInv, IInv, ProgramTypes
  <1>7. Arrived'
    BY <1>2, <1>4, <1>6 DEF Arrived
  <1> QED BY <1>3, <1>5, <1>7

(* Current is said only if the page before is out.                         *)
LEMMA PrintEndLoss ==
  ASSUME LInv, FewPages, UNCHANGED losses, PrintEnd
  PROVE  Registered' /\ Account'
  <1> USE DEF PrintEnd, deviceVars
  <1>1. Registered'
    BY DEF LInv, Registered
  <1> SUFFICES ASSUME ~stop
               PROVE  Finished' /\ Before' /\ Waiting' /\ Carried' /\ Noticed' /\ Arrived'
    BY <1>1 DEF Account
  <1>2. Finished /\ Before /\ Waiting /\ Carried /\ Noticed /\ Arrived
    BY DEF LInv, Account
  <1>3. Finished' /\ Before' /\ Waiting' /\ Noticed' /\ Arrived'
    BY <1>2 DEF Finished, Before, Waiting, Noticed, Arrived, AllSent
  <1>4. Carried'
    <2> SUFFICES ASSUME caller = "main", page > 0, pc' = "write", reprint' # "Prev"
                 PROVE  Reaches(out, path, losses, page - 1)
      BY DEF Carried
    <2>1. path = NoPage /\ start = p /\ p = Target /\ Rejected /\ reprint' = GetReprintStatus
      BY <1>2 DEF LInv, IInv, Choice, IsPrinting, Noticed
    <2>2. printed + 1 = p
      BY <2>1 DEF GetReprintStatus
    <2>3. CASE reprint = "Prev"
      BY <1>2, <2>3, FlaggedHad DEF Carried
    <2>4. CASE reprint # "Prev"
      <3>1. p = page /\ page \in Nat /\ page < NumPages /\ printed = page - 1
        BY <2>1, <2>2, <2>4, RegistersAre DEF LInv, IInv, ProgramTypes, Counted, PrinterTypes
      <3>2. printed # MaxNumber
        BY <3>1, RegistersAre, Sizes DEF FewPages
      <3>3. out # <<>> /\ out[Len(out)] = page - 1 /\ Len(out) \in 1 .. Len(out)
        BY <3>1, <3>2 DEF LInv, Registered, IInv, Order, PrinterTypes
      <3> QED BY <3>3 DEF Reaches, Had
    <2> QED BY <2>3, <2>4
  <1> QED BY <1>3, <1>4

(* One more page is accounted for.                                         *)
LEMMA WrittenLoss ==
  ASSUME LInv, UNCHANGED losses, Written
  PROVE  Registered' /\ Account'
  <1> USE DEF Written, deviceVars
  <1>1. Registered'
    BY DEF LInv, Registered
  <1> SUFFICES ASSUME ~stop
               PROVE  Finished' /\ Before' /\ Waiting' /\ Carried' /\ Noticed' /\ Arrived'
    BY <1>1 DEF Account
  <1>2. Finished /\ Before /\ Waiting
    BY DEF LInv, Account
  <1>3. page \in Nat
    BY DEF LInv, IInv, ProgramTypes
  <1>4. Carried' /\ Noticed' /\ Arrived'
    BY DEF Carried, Noticed, Arrived, AllSent
  <1>5. CASE caller = "main"
    BY <1>2, <1>3, <1>4, <1>5 DEF Finished, Before, Waiting
  <1>6. CASE caller # "main"
    BY <1>2, <1>3, <1>4, <1>6 DEF Finished, Before, Waiting, LInv, IInv, Starting, ProgramTypes
  <1> QED BY <1>5, <1>6

(* The job ends when the last page has come out.                           *)
LEMMA WaitLastLoss ==
  ASSUME LInv, UNCHANGED losses, WaitLast
  PROVE  Registered' /\ Account'
  <1> USE DEF WaitLast, deviceVars, Goto
  <1>1. Registered'
    BY DEF LInv, Registered
  <1> SUFFICES ASSUME ~stop
               PROVE  Finished' /\ Before' /\ Waiting' /\ Carried' /\ Noticed' /\ Arrived'
    BY <1>1 DEF Account
  <1>2. Finished /\ Before /\ Waiting /\ page \in Nat /\ page > 0
    BY DEF LInv, Account, IInv, ProgramTypes, Counted
  <1>3. Finished' /\ Before' /\ Carried' /\ Noticed' /\ Arrived'
    BY <1>2 DEF Finished, Before, Carried, Noticed, Arrived, AllSent
  <1>4. Waiting'
    <2>1. CASE pc' = "offline"
      <3>1. path = NoPage /\ ~Rejected
        BY <2>1 DEF IsPrinting
      <3>2. Had(out, losses, page - 1) /\ page = NumPages
        BY <1>2, <3>1 DEF Waiting, Reaches, Finished
      <3>3. \A k \in 0 .. NumPages - 1 : k = page - 1 \/ k \in 0 .. page - 2
        BY <1>2, <3>2
      <3>4. \A k \in 0 .. NumPages - 1 : Had(out, losses, k)
        BY <1>2, <3>2, <3>3 DEF Before
      <3> QED BY <2>1, <3>4 DEF Waiting
    <2>2. CASE pc' \in {"failed", "write"}
      BY <2>2 DEF Waiting
    <2> QED BY <2>1, <2>2
  <1> QED BY <1>3, <1>4

(* The page arrives, or was lost after the last poll.                      *)
LEMMA EndPageLoss ==
  ASSUME LInv, UNCHANGED losses, EndPage
  PROVE  Registered' /\ Account'
  <1> USE DEF EndPage, IC_END_PAGE
  <1>1. Registered'
    BY DEF LInv, Registered
  <1> SUFFICES ASSUME ~stop
               PROVE  Finished' /\ Before' /\ Waiting' /\ Carried' /\ Noticed' /\ Arrived'
    BY <1>1 DEF Account
  <1>2. Finished /\ Before /\ Waiting /\ Carried /\ Noticed /\ Arrived
    BY DEF LInv, Account
  <1>3. Finished' /\ Before' /\ Noticed' /\ Arrived'
    BY <1>2 DEF Finished, Before, Noticed, Arrived, AllSent
  <1>4. caller # "start" /\ p = Target /\ page \in Nat
    BY DEF LInv, IInv, Starting, Choice, ProgramTypes
  <1>5. Reaches(out, path', losses, p)
    <2>1. CASE rx = NoRx
      BY <1>2, <2>1, FlaggedHad DEF Arrived, AllSent
    <2>2. CASE rx # NoRx
      <3>1. pos = Blocks
        BY <1>4, Sizes DEF LInv, IInv, Kept, Place, Readable, IsPrev, ProgramTypes
      <3>2. path' = p
        BY <2>2, <3>1 DEF LInv, IInv, Receiving, Whole
      <3> QED BY <3>2 DEF Reaches
    <2> QED BY <2>1, <2>2
  <1>6. CASE HasPrev /\ reprint = "Prev"
    BY <1>3, <1>4, <1>5, <1>6 DEF Waiting, Carried
  <1>7. CASE ~(HasPrev /\ reprint = "Prev")
    <2>1. caller = "main" /\ page > 0 => Had(out, losses, page - 1)
      BY <1>2, <1>4, <1>7 DEF Arrived, AllSent
    <2> QED BY <1>3, <1>4, <1>5, <1>7, <2>1 DEF Waiting, Carried, LInv, IInv, ProgramTypes
  <1> QED BY <1>3, <1>6, <1>7

(* A page that is refused leaves a rejection behind.                       *)
LEMMA BeginPageLoss ==
  ASSUME LInv, BeginPage
  PROVE  Registered' /\ Account'
  <1> USE DEF BeginPage, IC_BEGIN_PAGE, Goto
  <1>1. Registered'
    BY DEF LInv, Registered
  <1> SUFFICES ASSUME ~stop
               PROVE  Finished' /\ Before' /\ Waiting' /\ Carried' /\ Noticed' /\ Arrived'
    BY <1>1 DEF Account
  <1>2. Finished /\ Before /\ Waiting /\ Carried /\ Noticed /\ Arrived
    BY DEF LInv, Account
  <1>3. losses \subseteq losses'
    OBVIOUS
  <1>4. \A k : /\ Had(out, losses, k) => Had(out, losses', k)
               /\ Reaches(out, path, losses, k) => Reaches(out, path, losses', k)
    BY <1>3, HadMore DEF Reaches
  <1>5. Finished' /\ Before' /\ Waiting'
    BY <1>2, <1>4 DEF Finished, Before, Waiting
  <1>6. rx = NoRx /\ caller # "start" /\ pos' = 0 /\ p = Target
    BY DEF LInv, IInv, Receiving, Starting, Place, Choice
  <1>7. \/ rx' # NoRx /\ errors' = errors /\ ~Rejected'
        \/ rx' = NoRx /\ Rejected' /\ Loss(p) \in losses'
    <2>1. CASE IsReady /\ online
      <3>1. p # -1
        BY Sizes DEF LInv, IInv, ProgramTypes
      <3> QED BY <2>1, <3>1 DEF IsReady, Rejected
    <2>2. CASE ~(IsReady /\ online)
      BY <1>6, <2>2 DEF Rejected
    <2> QED BY <2>1, <2>2
  <1>8. rx' = NoRx /\ caller = "main" /\ p # page => Flagged(losses', p)
    <2> SUFFICES ASSUME rx' = NoRx, caller = "main", p # page
                 PROVE  Flagged(losses', p)
      OBVIOUS
    <2>1. Loss(p).page = p /\ Loss(p).again
      BY DEF Loss, SendingPrev, IsPrev
    <2> QED BY <1>7, <2>1 DEF Flagged
  <1>9. Noticed'
    BY <1>7, <1>8 DEF Noticed
  <1>10. Carried'
    <2>1. Rejected => Rejected' /\ rx' = NoRx
      BY <1>6, <1>7 DEF Rejected, IsReady
    <2> QED BY <1>2, <1>4, <2>1 DEF Carried
  <1>11. ~AllSent'
    <2>1. caller # "start" /\ p # page => held.prev = Blocks
      BY Sizes DEF LInv, IInv, Kept, ProgramTypes
    <2> QED BY <1>6, <2>1, Sizes DEF AllSent, Readable, IsPrev
  <1> QED BY <1>5, <1>9, <1>10, <1>11 DEF Arrived

(* After SIGINT nothing is claimed.                                        *)
LEMMA SIGINTLoss ==
  ASSUME LInv, SIGINT
  PROVE  Registered' /\ Account'
  BY DEF SIGINT, LInv, Registered, Account, deviceVars

(* A page comes out.                                                       *)
LEMMA EjectLoss ==
  ASSUME LInv, Eject, UNCHANGED <<hostVars, losses>>
  PROVE  Registered' /\ Account'
  <1> USE DEF Eject, hostVars
  <1>1. out \in Seq(Int) /\ path \in Int /\ page \in Nat
    BY Sizes DEF LInv, IInv, PrinterTypes, ProgramTypes
  <1>2. out' # <<>>
    BY <1>1
  <1>3. \A k : /\ Had(out, losses, k) => Had(out', losses', k)
               /\ Reaches(out, path, losses, k) => Reaches(out', path', losses', k)
    BY <1>1, HadOut DEF Reaches
  <1> SUFFICES ASSUME ~stop
               PROVE  Finished' /\ Before' /\ Waiting' /\ Carried' /\ Noticed' /\ Arrived'
    BY <1>2 DEF Account, Registered
  <1>4. Finished /\ Before /\ Waiting /\ Carried /\ Noticed /\ Arrived
    BY DEF LInv, Account
  <1>5. Finished' /\ Before' /\ Waiting'
    BY <1>3, <1>4 DEF Finished, Before, Waiting, Rejected
  <1>6. Carried' /\ Noticed'
    BY <1>3, <1>4 DEF Carried, Noticed, Rejected
  <1>7. Arrived'
    BY <1>3, <1>4 DEF Arrived, AllSent, Readable, IsPrev
  <1> QED BY <1>5, <1>6, <1>7

(* The operator and the engine lose nothing.                               *)
LEMMA AttendLoss ==
  ASSUME LInv, Attend \/ EngineRestarted, UNCHANGED <<hostVars, losses>>
  PROVE  Registered' /\ Account'
  <1> USE DEF Attend, EngineRestarted, hostVars
  <1> SUFFICES ASSUME ~stop
               PROVE  Finished' /\ Before' /\ Waiting' /\ Carried' /\ Noticed' /\ Arrived'
    BY DEF Account, Registered, LInv
  <1>1. Finished /\ Before /\ Waiting /\ Carried /\ Noticed /\ Arrived
    BY DEF LInv, Account
  <1> QED BY <1>1 DEF Finished, Before, Waiting, Carried, Noticed, Rejected, Arrived, AllSent,
                      Readable, IsPrev

(* A page that is lost is lost unwatched, or noticed.                      *)
LEMMA AccidentLoss ==
  ASSUME LInv, Accident
  PROVE  Registered' /\ Account'
  <1>1. PICK f \in Faults : /\ Fault(f)
                            /\ losses' = losses \union {Loss(k) : k \in Lost(f)}
                            /\ UNCHANGED hostVars
    BY DEF Accident
  <1> USE DEF hostVars
  <1>2. /\ rx' = NoRx /\ path' \in {path, NoPage}
        /\ UNCHANGED <<out, start, printing, printed>>
    BY <1>1 DEF Fault
  <1>3. Registered'
    BY <1>2 DEF LInv, Registered
  <1> SUFFICES ASSUME ~stop
               PROVE  Finished' /\ Before' /\ Waiting' /\ Carried' /\ Noticed' /\ Arrived'
    BY <1>1, <1>3 DEF Account
  <1>4. Finished /\ Before /\ Waiting /\ Carried /\ Noticed /\ Arrived
    BY DEF LInv, Account
  <1>5. \A k : Flagged(losses, k) => Flagged(losses', k)
    BY <1>1, FlaggedMore
  <1>6. \A k : Had(out, losses, k) => Had(out', losses', k)
    BY <1>1, <1>2, HadMore
  <1>7. \A k : k \in Lost(f) /\ (Unwatched \/ SendingPrev) => Flagged(losses', k)
    <2> SUFFICES ASSUME NEW k \in Lost(f), Unwatched \/ SendingPrev
                 PROVE  Flagged(losses', k)
      OBVIOUS
    <2>1. Loss(k) \in losses' /\ Loss(k).page = k /\ (Loss(k).unwatched \/ Loss(k).again)
      BY <1>1 DEF Loss
    <2> QED BY <2>1 DEF Flagged
  <1>8. path # NoPage /\ path' # path => path \in Lost(f) /\ Rejected'
    BY <1>1 DEF Fault, Lost, Rejected
  <1>9. rx # NoRx => p \in Lost(f) /\ Rejected'
    <2>1. rx # NoRx => rx.page = p /\ p # -1
      BY Sizes DEF LInv, IInv, Receiving, ProgramTypes
    <2> QED BY <1>1, <2>1 DEF Fault, Lost, Rejected
  <1>10. Rejected => Rejected'
    BY <1>1 DEF Fault, Rejected
  <1>11. \A k \in Int : Reaches(out, path, losses, k) /\ 0 <= k =>
           /\ Reaches(out', path', losses', k) \/ Rejected'
           /\ Unwatched => Reaches(out', path', losses', k)
    BY <1>6, <1>7, <1>8, FlaggedHad DEF Reaches
  <1>12. page \in Nat
    BY DEF LInv, IInv, ProgramTypes
  <1>13. Finished' /\ Before'
    BY <1>1, <1>4, <1>6 DEF Finished, Before
  <1>14. Waiting'
    <2>1. pc \in {"header", "written"} => Unwatched
      BY DEF Unwatched
    <2> QED
      BY <1>1, <1>4, <1>6, <1>10, <1>11, <1>12, <2>1
         DEF Waiting, LInv, IInv, Counted, Starting, ProgramTypes
  <1>15. Noticed'
    <2>1. pc \in {"data", "send"} => Rejected'
      BY <1>4, <1>9, <1>10 DEF Noticed
    <2>2. pc \in {"data", "send"} /\ caller = "main" /\ p # page => Flagged(losses', p)
      <3>1. pc \in {"data", "send"} /\ caller = "main" /\ p # page => SendingPrev
        BY DEF SendingPrev, IsPrev
      <3> QED BY <1>4, <1>5, <1>7, <1>9, <3>1 DEF Noticed
    <2> QED BY <1>1, <1>4, <1>10, <2>1, <2>2 DEF Noticed
  <1>16. Arrived'
    <2>1. AllSent => Unwatched
      BY DEF AllSent, Unwatched
    <2>2. AllSent' => AllSent
      BY <1>1 DEF AllSent, Readable, IsPrev
    <2>3. AllSent => Flagged(losses', p)
      BY <1>4, <1>5, <1>7, <1>9, <2>1 DEF Arrived
    <2> QED BY <1>1, <1>2, <1>4, <1>6, <2>2, <2>3 DEF Arrived
  <1>17. Carried'
    <2>1. CASE pc \in {"begin", "data", "send", "printEnd"}
      BY <1>1, <1>2, <1>4, <1>5, <1>10, <1>11, <1>12, <2>1 DEF Carried
    <2>2. CASE pc \notin {"begin", "data", "send", "printEnd"}
      <3>1. pc \in Chosen \union {"write"} => Unwatched
        BY <2>2 DEF Unwatched
      <3> QED BY <1>1, <1>4, <1>11, <1>12, <2>2, <3>1 DEF Carried
    <2> QED BY <2>1, <2>2
  <1> QED BY <1>13, <1>14, <1>15, <1>16, <1>17

(* At the start.                                                           *)
LEMMA InitLoss == Init => Registered /\ Account
  <1> SUFFICES ASSUME Init
               PROVE  Registered /\ Account
    OBVIOUS
  <1>1. Registered
    BY DEF Init, DeviceInit, Registered
  <1>2. pc = "reserve" /\ caller = "start" /\ page = 0
    BY DEF Init
  <1>3. Finished /\ Before /\ Waiting /\ Carried /\ Noticed /\ Arrived
    BY <1>2 DEF Finished, Before, Waiting, Carried, Noticed, Arrived, AllSent
  <1> QED BY <1>1, <1>3 DEF Account

(* Nothing changes.                                                        *)
LEMMA StutterLoss == LInv /\ UNCHANGED vars => Registered' /\ Account'
  <1> SUFFICES ASSUME LInv, UNCHANGED vars
               PROVE  Registered' /\ Account'
    OBVIOUS
  <1> USE DEF vars, hostVars, deviceVars
  <1>1. Registered'
    BY DEF LInv, Registered
  <1>2. (Finished /\ Before /\ Waiting)' = (Finished /\ Before /\ Waiting)
    BY DEF Finished, Before, Waiting, Rejected
  <1>3. (Carried /\ Noticed /\ Arrived)' = (Carried /\ Noticed /\ Arrived)
    BY DEF Carried, Noticed, Arrived, AllSent, Readable, IsPrev, Rejected
  <1> QED BY <1>1, <1>2, <1>3 DEF LInv, Account

(* All steps.                                                              *)
LEMMA NextLoss ==
  ASSUME LInv, FewPages, [Next]_vars
  PROVE  Registered' /\ Account'
  <1>1. CASE BeginPage
    BY <1>1, BeginPageLoss
  <1>2. CASE UNCHANGED losses /\ (ReserveUnit \/ FirstStatus \/ NoMorePages \/ WriteLoop
                                \/ StopWriting \/ WaitReady \/ CheckOnline \/ GoOffline
                                \/ ReleaseUnit \/ Throws)
    BY <1>2, QuietLoss
  <1>3. CASE UNCHANGED losses /\ (ClearError \/ GoOnline)
    BY <1>3, ClearErrorLoss
  <1>4. CASE UNCHANGED losses /\ ReadHeader
    BY <1>4, ReadHeaderLoss
  <1>5. CASE UNCHANGED losses /\ PollData
    BY <1>5, PollDataLoss
  <1>6. CASE UNCHANGED losses /\ SendData
    BY <1>6, SendDataLoss
  <1>7. CASE UNCHANGED losses /\ EndPage
    BY <1>7, EndPageLoss
  <1>8. CASE UNCHANGED losses /\ PrintEnd
    BY <1>8, PrintEndLoss
  <1>9. CASE UNCHANGED losses /\ Written
    BY <1>9, WrittenLoss
  <1>10. CASE UNCHANGED losses /\ WaitLast
    BY <1>10, WaitLastLoss
  <1>11. CASE Printer
    BY <1>11, EjectLoss, AttendLoss DEF Printer
  <1>12. CASE Operator
    BY <1>12, AttendLoss DEF Operator
  <1>13. CASE Accident
    BY <1>13, AccidentLoss
  <1>14. CASE SIGINT
    BY <1>14, SIGINTLoss
  <1>15. CASE UNCHANGED vars
    BY <1>15, StutterLoss
  <1> QED
    BY <1>1, <1>2, <1>3, <1>4, <1>5, <1>6, <1>7, <1>8, <1>9, <1>10, <1>11, <1>12, <1>13,
       <1>14, <1>15 DEF Next, Program, Failure
-----------------------------------------------------------------------------
(***************************************************************************)
(* LInv is inductive: at every moment each page of the file that was       *)
(* written is out, in the path, lost in one of the two ways of             *)
(* MissingOnlyIf, or going to be sent again.                               *)
(***************************************************************************)
THEOREM LossInvariance == FewPages => (Spec => []LInv)
  <1> SUFFICES ASSUME FewPages
               PROVE  Spec => []LInv
    OBVIOUS
  <1>1. Init => LInv
    BY InitHolds, InitLoss DEF LInv
  <1>2. LInv /\ [Next]_vars => LInv'
    BY NextStep, NextLoss DEF LInv
  <1> QED BY <1>1, <1>2, PTL DEF Spec

(***************************************************************************)
(* MissingOnlyIf, for jobs of up to 65536 pages, pages of every size and   *)
(* any number of faults of every kind at any time: the two ways in which a *)
(* page can go missing unreported are the only ones.                       *)
(***************************************************************************)
THEOREM MissingOnlyIfHolds == FewPages => (Spec => []MissingOnlyIf)
  <1> SUFFICES ASSUME FewPages
               PROVE  Spec => []MissingOnlyIf
    OBVIOUS
  <1>1. Spec => []LInv
    BY LossInvariance
  <1>2. LInv => MissingOnlyIf
    BY DEF LInv, Account, Waiting, Had, Flagged, MissingOnlyIf
  <1> QED BY <1>1, <1>2, PTL
-----------------------------------------------------------------------------
(***************************************************************************)
(* The assertions of printpbm.cpp, for jobs of any length.                 *)
(*                                                                         *)
(* While a page is being received the printer is ready: what makes it not  *)
(* ready loses the page and rejects the print, and nothing but ClearError  *)
(* takes the rejection back.  So a page that has failed finds the printer  *)
(* not ready.  The other assertion fails only while the engine restarts,   *)
(* and ClearError restarts it only for a communication error of the        *)
(* engine.                                                                 *)
(***************************************************************************)
EngineUp ==
  /\ "comm" \notin errors /\ "comm" \notin known
  /\ cond \in {"ok", "attend", "service"}
  /\ pc # "resetEngine"

Received ==
  rx # NoRx => /\ rx.page \in Nat /\ rx.blocks \in Seq(Nat)
               /\ IsReady
               /\ pc \in {"data", "send", "threw"}

Refused ==
  /\ pc \in {"data", "send"} => rx # NoRx \/ Rejected
  /\ pc = "printEnd" => Rejected

Numbers ==
  /\ page \in Nat /\ p \in Nat /\ pos \in Nat
  /\ pc = "last" \/ caller = "last" => page > 0
  /\ caller \in {"start", "main", "last"}
  /\ caller = "start" =>
       /\ page = 0
       /\ pc \in {"reserve", "start", "header", "offline", "release", "done", "threw"}
                 \union Clearing

AInv == EngineUp /\ Received /\ Refused /\ Numbers /\ AssertsHold

LEMMA AssertsInit == "comm" \notin Faults /\ Init => AInv
  BY JobAssumption
     DEF Init, DeviceInit, AInv, EngineUp, Received, Refused, Numbers, Clearing,
         AssertsHold

(* The steps of the program that leave the printer as it is.               *)
LEMMA AssertsLocal ==
  ASSUME AInv, UNCHANGED deviceVars,
         \/ FirstStatus \/ ReadHeader \/ NoMorePages \/ WriteLoop \/ StopWriting
         \/ WaitReady \/ CheckOnline \/ PollData \/ PrintEnd \/ Written \/ WaitLast
         \/ Throws
  PROVE  AInv'
<1>1. UNCHANGED <<errors, cond, rx>>
  BY DEF deviceVars
<1>2. /\ Rejected' = Rejected /\ Ready' = Ready /\ Ready = IsReady
      /\ rx # NoRx => IsReady' /\ IsReady
  BY <1>1 DEF AInv, Received, IsReady, Rejected, Ready
<1>3. CASE FirstStatus \/ ReadHeader
  BY <1>1, <1>2, <1>3
     DEF FirstStatus, ReadHeader, AInv, EngineUp, Received, Refused, Numbers, Clearing,
         AssertsHold
<1>4. CASE NoMorePages \/ Throws
  BY <1>1, <1>2, <1>4
     DEF NoMorePages, Throws, Goto, AInv, EngineUp, Received, Refused, Numbers,
         Clearing, AssertsHold
<1>5. CASE Written
  <2>1. /\ pc = "written" /\ UNCHANGED <<caller, p, pos, known>>
        /\ \/ pc' = "header" /\ caller = "main" /\ page' = page + 1
           \/ pc' = "last" /\ caller # "main" /\ page' = page
    BY <1>5, Zenon DEF Written
  <2>2. caller # "start"
    BY <2>1 DEF AInv, Numbers, Clearing
  <2> QED
    BY <1>1, <1>2, <2>1, <2>2
       DEF AInv, EngineUp, Received, Refused, Numbers, Clearing, AssertsHold
<1>6. CASE WriteLoop
  BY <1>1, <1>2, <1>6
     DEF WriteLoop, HasPrev, ThisPage, AInv, EngineUp, Received, Refused, Numbers,
         Clearing, AssertsHold
<1>7. CASE StopWriting \/ CheckOnline \/ WaitLast
  BY <1>1, <1>2, <1>7
     DEF StopWriting, CheckOnline, WaitLast, Goto, AInv, EngineUp, Received, Refused,
         Numbers, Clearing, AssertsHold
<1>8. CASE WaitReady
  <2>1. ~(~Ready /\ cond \in {"ok", "reset"} /\ ~ClearErrorNeeded)
    BY DEF AInv, EngineUp, Ready, IsReady, ClearErrorNeeded
  <2> QED
    BY <1>1, <1>2, <1>8, <2>1
       DEF WaitReady, Goto, AInv, EngineUp, Received, Refused, Numbers, Clearing,
           AssertsHold
<1>9. CASE PollData
  <2>1. (Ready \/ Rejected) /\ (rx # NoRx => Ready)
    BY <1>2, <1>9 DEF PollData, AInv, Received, Refused
  <2> QED
    BY <1>1, <1>2, <1>9, <2>1
       DEF PollData, AInv, EngineUp, Received, Refused, Numbers, Clearing, AssertsHold
<1>10. CASE PrintEnd
  <2>1. ~Ready
    BY <1>10 DEF PrintEnd, AInv, Refused, Rejected, Ready, IsReady
  <2> QED
    BY <1>1, <1>2, <1>10, <2>1
       DEF PrintEnd, AInv, EngineUp, Received, Refused, Numbers, Clearing, AssertsHold
<1> QED
  BY <1>3, <1>4, <1>5, <1>6, <1>7, <1>8, <1>9, <1>10

(* Its commands.                                                           *)
LEMMA AssertsCommand ==
  ASSUME AInv,
         \/ ReserveUnit \/ ClearError \/ GoOnline \/ BeginPage \/ SendData \/ EndPage
         \/ GoOffline \/ ReleaseUnit
  PROVE  AInv'
<1>1. CASE ReserveUnit \/ GoOffline \/ ReleaseUnit
  BY <1>1
     DEF ReserveUnit, GoOffline, ReleaseUnit, Goto, AInv, EngineUp, Received, IsReady,
         Refused, Rejected, Numbers, Clearing, AssertsHold
<1>2. CASE ClearError
  <2>1. CASE pc = "clear" /\ CLEAR_ERROR /\ Goto("discard")
    BY <2>1
       DEF CLEAR_ERROR, Goto, AInv, EngineUp, Received, IsReady, Refused, Numbers,
           Clearing, AssertsHold
  <2>2. CASE pc = "discard" /\ DISCARD_DATA /\ Goto(AfterDiscard)
    BY <2>2
       DEF DISCARD_DATA, Goto, AfterDiscard, AfterMisprint, Cleared, AInv, EngineUp,
           Received, Refused, Numbers, Clearing, AssertsHold
  <2>3. CASE pc = "clearMisprint" /\ CLEAR_MISPRINT /\ Goto(AfterMisprint)
    BY <2>3
       DEF CLEAR_MISPRINT, Goto, AfterMisprint, Cleared, AInv, EngineUp, Received,
           IsReady, Refused, Numbers, Clearing, AssertsHold
  <2> QED
    BY <1>2, <2>1, <2>2, <2>3 DEF ClearError, AInv, EngineUp
<1>3. CASE GoOnline
  BY <1>3
     DEF GoOnline, GO_ONLINE, Goto, AInv, EngineUp, Received, IsReady, Refused, Numbers,
         Clearing, AssertsHold
<1>4. CASE BeginPage
  <2>1. /\ pc' = "data" /\ UNCHANGED <<cond, caller, page, p, pos, known>>
        /\ pc = "begin" /\ p \in Nat
        /\ \/ IsReady /\ rx' = [page |-> p, blocks |-> <<>>] /\ errors' = errors
           \/ errors' = errors \union {"rejected"} /\ rx' = rx
    BY <1>4 DEF BeginPage, IC_BEGIN_PAGE, Goto, AInv, Numbers
  <2>2. EngineUp' /\ Numbers' /\ AssertsHold'
    BY <2>1 DEF AInv, EngineUp, Numbers, Clearing, AssertsHold
  <2>3. CASE IsReady /\ rx' = [page |-> p, blocks |-> <<>>] /\ errors' = errors
    <3>1. rx' # NoRx /\ rx'.page \in Nat /\ rx'.blocks \in Seq(Nat)
      BY <2>1, <2>3 DEF NoRx, NoPage
    <3> QED
      BY <2>1, <2>2, <2>3, <3>1 DEF AInv, Received, IsReady, Refused
  <2>4. CASE errors' = errors \union {"rejected"} /\ rx' = rx
    <3>1. rx = NoRx
      BY <1>4 DEF BeginPage, AInv, Received
    <3> QED
      BY <2>1, <2>2, <2>4, <3>1 DEF AInv, Received, Refused, Rejected
  <2> QED
    BY <2>1, <2>3, <2>4
<1>5. CASE SendData
  BY <1>5
     DEF SendData, IC_VIDEO_DATA, AInv, EngineUp, Received, IsReady, Refused, Rejected,
         Numbers, Clearing, AssertsHold, NoRx, NoPage
<1>6. CASE EndPage
  BY <1>6
     DEF EndPage, IC_END_PAGE, AInv, EngineUp, Received, Refused, Numbers, Clearing,
         AssertsHold
<1> QED
  BY <1>1, <1>2, <1>3, <1>4, <1>5, <1>6

(* What happens to the printer: a fault loses the page being received.     *)
LEMMA AssertsPrinter ==
  ASSUME AInv, "comm" \notin Faults,
         Printer \/ Operator \/ Accident \/ SIGINT \/ UNCHANGED vars
  PROVE  AInv'
<1>1. CASE Printer \/ Operator \/ SIGINT \/ UNCHANGED vars
  BY <1>1
     DEF Printer, Eject, EngineRestarted, Operator, Attend, SIGINT, vars, deviceVars,
         hostVars, AInv, EngineUp, Received, IsReady, Refused, Rejected, Numbers,
         Clearing, AssertsHold
<1>2. CASE Accident
  <2>1. PICK f \in Faults : Fault(f) /\ UNCHANGED hostVars
    BY <1>2 DEF Accident
  <2>2. rx' = NoRx /\ (Rejected => Rejected')
    BY <2>1 DEF Fault, Rejected
  <2>3. ASSUME rx # NoRx PROVE Rejected'
    <3>1. rx.page \in Lost(f)
      BY <2>3 DEF Lost, AInv, Received, NoPage
    <3> QED
      BY <2>1, <3>1 DEF Fault, Rejected
  <2>4. EngineUp'
    BY <2>1, DeviceAssumption DEF Fault, Kinds, hostVars, AInv, EngineUp
  <2> QED
    BY <2>1, <2>2, <2>3, <2>4
       DEF hostVars, AInv, Received, Refused, Numbers, Clearing, AssertsHold
<1> QED
  BY <1>1, <1>2

(***************************************************************************)
(* AssertsHold, for jobs of every length and faults of every kind but a    *)
(* communication error of the engine, as many as there may be, at any      *)
(* time: writePage never finds the printer ready after a page has failed,  *)
(* and prepareBeforePrint never finds it neither ready nor in error.       *)
(***************************************************************************)
THEOREM AssertsHoldHolds == "comm" \notin Faults => (Spec => []AssertsHold)
<1> SUFFICES ASSUME "comm" \notin Faults
             PROVE  Spec => []AssertsHold
  OBVIOUS
<1>1. Init => AInv
  BY AssertsInit
<1>2. AInv /\ [Next]_vars => AInv'
  <2> SUFFICES ASSUME AInv, [Next]_vars PROVE AInv'
    OBVIOUS
  <2>1. CASE Failure
    BY <2>1, AssertsLocal DEF Failure, Throws
  <2>2. CASE Program
    BY <2>2, AssertsLocal, AssertsCommand
       DEF Program, FirstStatus, ReadHeader, NoMorePages, WriteLoop, StopWriting,
           WaitReady, CheckOnline, PollData, PrintEnd, Written, WaitLast
  <2> QED
    BY <2>1, <2>2, AssertsPrinter DEF Next
<1>3. AInv => AssertsHold
  BY DEF AInv
<1> QED
  BY <1>1, <1>2, <1>3, PTL DEF Spec
-----------------------------------------------------------------------------
(***************************************************************************)
(* A job with one fault, at a point where the program watches.             *)
(*                                                                         *)
(* LInv accounts for every page before the one that is begun; when no page *)
(* is lost in one of the two known ways, these are out or in the path, and *)
(* the printer takes the pages in turn.                                    *)
(***************************************************************************)

(* How many pages the printer has taken, if it lost none.                  *)
Taken == Len(out) + (IF path = NoPage THEN 0 ELSE 1)

(* No page is skipped: what is out, in the path and being received are the *)
(* first pages of the file.                                                *)
InTurn ==
  /\ \A i \in 1 .. Len(out) : out[i] = i - 1
  /\ path # NoPage => path = Len(out)
  /\ rx # NoRx => rx.page = Taken
  /\ AllSent /\ rx # NoRx => path = NoPage

(* Before the fault the printer takes all that is sent; after it the page  *)
(* before is sent again to a printer that no fault will stop.              *)
OneFault ==
  /\ faults \in 0 .. MaxFaults
  /\ \A l \in losses : l.unwatched = FALSE /\ l.again = FALSE
  /\ pc \in {"goOnline", "checkOnline"} => IsReady
  /\ pc = "begin" /\ (faults = 0 \/ reprint = "Prev") => IsReady /\ online
  /\ faults = 0 => /\ pc \in {"data", "send"} => IsReady
                   /\ pc # "printEnd"
                   /\ reprint # "Prev"

-----------------------------------------------------------------------------
(* Nothing has been sent yet.                                              *)
LEMMA OneFaultInit == Init => OneFault /\ InTurn
  <1> SUFFICES ASSUME Init
               PROVE  OneFault /\ InTurn
    OBVIOUS
  <1>1. 0 \in 0 .. MaxFaults
    BY DeviceAssumption
  <1>2. OneFault
    BY <1>1 DEF Init, DeviceInit, OneFault
  <1>3. InTurn
    BY DEF Init, DeviceInit, InTurn
  <1> QED BY <1>2, <1>3

(* The steps of the program other than BeginPage.                          *)
LEMMA OneFaultLocal ==
  ASSUME LInv, OneFault, UNCHANGED losses,
         \/ ReserveUnit \/ FirstStatus \/ ClearError \/ ReadHeader \/ NoMorePages
         \/ WriteLoop \/ StopWriting \/ WaitReady \/ GoOnline \/ CheckOnline
         \/ PollData \/ SendData \/ EndPage \/ PrintEnd \/ Written \/ WaitLast
         \/ GoOffline \/ ReleaseUnit \/ Throws
  PROVE  OneFault'
  <1>1. /\ faults' = faults
        /\ faults' \in 0 .. MaxFaults
        /\ \A l \in losses' : l.unwatched = FALSE /\ l.again = FALSE
    BY DEF OneFault, ReserveUnit, FirstStatus, ClearError, CLEAR_ERROR, DISCARD_DATA,
           CLEAR_MISPRINT, RESET_ENGINE, ReadHeader, NoMorePages, WriteLoop, StopWriting,
           WaitReady, GoOnline, GO_ONLINE, CheckOnline, PollData, SendData, IC_VIDEO_DATA,
           EndPage, IC_END_PAGE, PrintEnd, Written, WaitLast, GoOffline, ReleaseUnit,
           Throws, deviceVars
  <1>2. CASE pc' \notin {"goOnline", "checkOnline", "begin", "data", "send", "printEnd"}
    <2>1. faults = 0 => reprint' # "Prev"
      BY DEF OneFault, ReserveUnit, FirstStatus, ClearError, ReadHeader, NoMorePages,
             WriteLoop, StopWriting, WaitReady, GoOnline, CheckOnline, PollData, SendData,
             EndPage, PrintEnd, Written, WaitLast, GoOffline, ReleaseUnit, Throws, Goto
    <2> QED BY <1>1, <1>2, <2>1 DEF OneFault
  <1>3. CASE pc' \in {"goOnline", "checkOnline", "begin", "data", "send", "printEnd"}
    <2>1. WaitReady \/ GoOnline \/ CheckOnline \/ PollData \/ SendData
      BY <1>3
         DEF ReserveUnit, FirstStatus, ClearError, Cleared, AfterMisprint, AfterDiscard,
             ReadHeader, NoMorePages, WriteLoop, StopWriting, EndPage, PrintEnd, Written,
             WaitLast, GoOffline, ReleaseUnit, Throws, Goto
    <2>2. CASE WaitReady \/ CheckOnline
      BY <1>1, <2>2
         DEF OneFault, WaitReady, NeedsGoOnline, CheckOnline, Goto, deviceVars, Ready, Online,
             IsReady
    <2>3. CASE GoOnline
      BY <1>1, <2>3 DEF OneFault, GoOnline, GO_ONLINE, Goto, IsReady
    <2>4. CASE PollData
      BY <1>1, <2>4 DEF OneFault, PollData, deviceVars, Ready, IsReady
    <2>5. CASE SendData
      BY <1>1, <2>5 DEF OneFault, SendData, IC_VIDEO_DATA, IsReady
    <2> QED BY <2>1, <2>2, <2>3, <2>4, <2>5
  <1> QED BY <1>2, <1>3

(* The page that is begun is main's page, unless there was a fault.        *)
LEMMA SendsPrev ==
  ASSUME LInv, SendingPrev
  PROVE  reprint = "Prev"
  BY DEF LInv, IInv, Choice, SendingPrev, IsPrev, Starting

(* A page that is refused was not refused for the second time.             *)
LEMMA OneFaultBegin ==
  ASSUME LInv, OneFault, BeginPage
  PROVE  OneFault'
  <1> USE DEF BeginPage, IC_BEGIN_PAGE, Goto
  <1>1. faults' = faults /\ pc = "begin" /\ pc' = "data" /\ reprint' = reprint
    OBVIOUS
  <1>2. \A l \in losses' : l.unwatched = FALSE /\ l.again = FALSE
    <2>1. IsReady /\ online => losses' = losses
      <3>1. p # -1 /\ rx = NoRx
        BY Sizes DEF LInv, IInv, Receiving, ProgramTypes
      <3> QED BY <3>1
    <2>2. ~(IsReady /\ online) => ~SendingPrev
      BY <1>1, SendsPrev DEF OneFault
    <2>3. ~Unwatched
      BY <1>1 DEF Unwatched
    <2>4. ~(IsReady /\ online) => Loss(p).unwatched = FALSE /\ Loss(p).again = FALSE
      BY <2>2, <2>3 DEF Loss
    <2> QED BY <2>1, <2>4 DEF OneFault
  <1>3. faults = 0 => IsReady' /\ reprint # "Prev"
    BY <1>1 DEF OneFault, IsReady
  <1> QED BY <1>1, <1>2, <1>3 DEF OneFault

(* The fault, while the program watches and nothing is sent again.         *)
LEMMA OneFaultAccident ==
  ASSUME LInv, OneFault, Watched, MaxFaults <= 1, Accident
  PROVE  OneFault'
  <1>1. PICK f \in Faults : /\ Fault(f)
                            /\ losses' = losses \union {Loss(k) : k \in Lost(f)}
                            /\ UNCHANGED hostVars
                            /\ ~Unwatched
    BY DEF Accident
  <1>2. faults = 0 /\ faults' = 1 /\ faults' \in 0 .. MaxFaults
    BY <1>1, DeviceAssumption DEF Fault, OneFault
  <1>3. reprint # "Prev" /\ ~SendingPrev
    BY <1>2, SendsPrev DEF OneFault
  <1>4. \A l \in losses' : l.unwatched = FALSE /\ l.again = FALSE
    <2>1. \A k : Loss(k).unwatched = FALSE /\ Loss(k).again = FALSE
      BY <1>1, <1>3 DEF Loss
    <2> QED BY <1>1, <2>1 DEF OneFault
  <1>5. UNCHANGED <<pc, reprint>> /\ pc \notin {"goOnline", "checkOnline"}
    BY <1>1 DEF hostVars, Unwatched
  <1> QED BY <1>2, <1>3, <1>4, <1>5 DEF OneFault

(* What the printer does otherwise, and SIGINT, can only make it readier.  *)
LEMMA OneFaultOther ==
  ASSUME OneFault, Printer \/ Operator \/ SIGINT \/ UNCHANGED vars
  PROVE  OneFault'
  <1>1. UNCHANGED <<faults, losses, pc, reprint, online>> /\ (IsReady => IsReady')
    BY DEF Printer, Eject, EngineRestarted, Operator, Attend, SIGINT, vars, deviceVars,
           hostVars, IsReady
  <1> QED BY <1>1 DEF OneFault
-----------------------------------------------------------------------------
(* A page that the printer takes is the first that it has not taken yet.   *)
LEMMA NextInTurn ==
  ASSUME LInv, OneFault, InTurn, pc = "begin", ~stop, IsReady
  PROVE  p = Taken
  <1>1. /\ caller # "start" /\ page \in Nat /\ p \in Nat
        /\ p = Target /\ Passed(out, path, p)
        /\ Len(out) \in Nat /\ path \in Int
    BY Sizes DEF LInv, IInv, Starting, Choice, ProgramTypes, PrinterTypes
  <1>2. \A k : Had(out, losses, k) => k < Len(out)
    <2>1. \A k : ~Flagged(losses, k)
      BY DEF Flagged, OneFault
    <2> QED BY <1>1, <2>1 DEF Had, InTurn
  <1>3. \A k \in 0 .. page - 2 : k < Len(out)
    BY <1>2 DEF LInv, Account, Before
  <1>4. Len(out) <= p /\ (path # NoPage => Len(out) < p)
    <2>1. Len(out) # 0 => out[Len(out)] < p /\ out[Len(out)] = Len(out) - 1
      BY <1>1 DEF Passed, Below, InTurn
    <2> QED BY <1>1, <2>1 DEF Passed, InTurn
  <1>5. CASE p = page - 1
    <2>1. Len(out) >= p
      BY <1>1, <1>3, <1>5
    <2> QED BY <1>1, <1>4, <2>1 DEF Taken
  <1>6. CASE p = page
    <2>1. CASE page = 0
      BY <1>1, <1>4, <1>6, <2>1 DEF Taken
    <2>2. CASE page > 0
      <3>1. caller = "main" /\ reprint # "Prev"
        BY <1>1, <1>6, <2>2 DEF LInv, IInv, ProgramTypes
      <3>2. Reaches(out, path, losses, page - 1)
        BY <2>2, <3>1 DEF LInv, Account, Carried, Rejected, IsReady
      <3>3. Len(out) >= page \/ path = page - 1
        BY <1>1, <1>2, <3>2 DEF Reaches
      <3>4. CASE path = page - 1
        BY <1>1, <1>6, <2>2, <3>4 DEF Taken, InTurn
      <3>5. CASE Len(out) >= page
        BY <1>1, <1>4, <1>6, <3>5 DEF Taken
      <3> QED BY <3>3, <3>4, <3>5
    <2> QED BY <1>1, <2>1, <2>2
  <1> QED BY <1>1, <1>5, <1>6

LEMMA InTurnBegin ==
  ASSUME LInv, OneFault, InTurn, BeginPage
  PROVE  InTurn'
  <1> USE DEF BeginPage, IC_BEGIN_PAGE, Goto
  <1>1. UNCHANGED <<out, path, pos, p, page, held>> /\ pc' = "data"
    OBVIOUS
  <1>2. rx' # NoRx => rx'.page = Taken
    BY NextInTurn DEF LInv, IInv, Receiving
  <1>3. ~AllSent'
    <2>1. pos = 0 /\ (p # page => held.prev = Blocks)
      BY Sizes DEF LInv, IInv, Kept, Place, Starting, ProgramTypes
    <2> QED BY <1>1, <2>1, Sizes DEF AllSent, Readable, IsPrev
  <1> QED BY <1>1, <1>2, <1>3 DEF InTurn, Taken

(* The last block is sent only when the page before is out.                *)
LEMMA InTurnPoll ==
  ASSUME LInv, InTurn, PollData
  PROVE  InTurn'
  <1> USE DEF PollData, deviceVars
  <1>1. UNCHANGED <<out, path, rx>> /\ pos \in Nat /\ pos < Readable /\ caller # "start"
    BY DEF LInv, IInv, ProgramTypes, Starting
  <1>2. ASSUME AllSent', rx # NoRx
        PROVE  path = NoPage
    <2>1. Ready
      BY <1>2 DEF AllSent
    <2>2. pos + 1 = Blocks
      <3>1. p # page => held.prev = Blocks
        BY <1>1, Sizes DEF LInv, IInv, Kept, ProgramTypes
      <3> QED BY <1>1, <1>2, <2>1, <3>1 DEF AllSent, Readable, IsPrev, Buffered
    <2>3. Len(rx.blocks) = pos
      BY <1>1, <1>2 DEF LInv, IInv, Receiving
    <2> QED BY <2>1, <2>2, <2>3, Sizes, <1>1 DEF DataBusy
  <1> QED BY <1>1, <1>2 DEF InTurn, Taken

LEMMA InTurnSend ==
  ASSUME LInv, InTurn, SendData
  PROVE  InTurn'
  <1> USE DEF SendData, IC_VIDEO_DATA
  <1>1. UNCHANGED <<out, path, p, page, held>> /\ pos \in Nat
    BY DEF LInv, IInv, ProgramTypes
  <1>2. /\ rx' # NoRx => rx # NoRx
        /\ rx # NoRx => rx'.page = rx.page
    BY DEF LInv, IInv, PrinterTypes
  <1>3. AllSent' => AllSent
    BY <1>1, Sizes DEF AllSent, Readable, IsPrev, LInv, IInv, ProgramTypes
  <1> QED BY <1>1, <1>2, <1>3 DEF InTurn, Taken

(* A page that arrived whole is the only one in the path.                  *)
LEMMA InTurnEnd ==
  ASSUME LInv, InTurn, EndPage
  PROVE  InTurn'
  <1> USE DEF EndPage, IC_END_PAGE
  <1>1. rx' = NoRx /\ UNCHANGED out
    OBVIOUS
  <1>2. rx # NoRx => path = NoPage /\ rx.page = Len(out)
    <2>1. AllSent
      BY DEF AllSent
    <2> QED BY <2>1 DEF InTurn, Taken, LInv, IInv, PrinterTypes
  <1>3. path' # path => path' = rx.page /\ rx # NoRx
    OBVIOUS
  <1> QED BY <1>1, <1>2, <1>3 DEF InTurn

LEMMA InTurnEject ==
  ASSUME LInv, InTurn, Eject, UNCHANGED hostVars
  PROVE  InTurn'
  <1> USE DEF Eject
  <1>1. out \in Seq(Int) /\ path \in Int /\ path = Len(out) /\ out' = Append(out, path)
    BY Sizes DEF LInv, IInv, PrinterTypes, InTurn
  <1>2. Len(out') = Len(out) + 1 /\ Taken' = Taken
    BY <1>1 DEF Taken
  <1>3. \A i \in 1 .. Len(out') : out'[i] = i - 1
    BY <1>1, <1>2 DEF InTurn
  <1> QED BY <1>2, <1>3 DEF InTurn

(* Whatever else happens takes pages away at most.                         *)
LEMMA InTurnOther ==
  ASSUME InTurn, UNCHANGED out, \/ rx' = rx /\ (AllSent' => AllSent) /\ path' = path
                                \/ rx' = NoRx /\ path' \in {path, NoPage}
  PROVE  InTurn'
  BY DEF InTurn, Taken

LEMMA InTurnStep ==
  ASSUME LInv, OneFault, InTurn, [Next]_vars
  PROVE  InTurn'
  <1>1. CASE BeginPage
    BY <1>1, InTurnBegin
  <1>2. CASE PollData
    BY <1>2, InTurnPoll
  <1>3. CASE SendData
    BY <1>3, InTurnSend
  <1>4. CASE EndPage
    BY <1>4, InTurnEnd
  <1>5. CASE ReserveUnit \/ FirstStatus \/ ReadHeader \/ NoMorePages \/ WriteLoop
             \/ StopWriting \/ WaitReady \/ GoOnline \/ CheckOnline \/ PrintEnd \/ Written
             \/ WaitLast \/ GoOffline \/ ReleaseUnit \/ Throws
    <2>1. UNCHANGED <<out, rx, path>> /\ pc' \notin {"data", "send"}
      BY <1>5
         DEF ReserveUnit, FirstStatus, ReadHeader, NoMorePages, WriteLoop, StopWriting,
             WaitReady, GoOnline, GO_ONLINE, CheckOnline, PrintEnd, Written, WaitLast,
             GoOffline, ReleaseUnit, Throws, Goto, deviceVars
    <2>2. ~AllSent'
      BY <2>1 DEF AllSent
    <2> QED BY <2>1, <2>2, InTurnOther
  <1>6. CASE ClearError
    <2>1. UNCHANGED <<out, path>> /\ (rx' = rx \/ rx' = NoRx) /\ pc' \notin {"data", "send"}
      BY <1>6
         DEF ClearError, CLEAR_ERROR, DISCARD_DATA, CLEAR_MISPRINT, RESET_ENGINE, Goto,
             AfterDiscard, AfterMisprint, Cleared
    <2>2. ~AllSent'
      BY <2>1 DEF AllSent
    <2> QED BY <2>1, <2>2, InTurnOther
  <1>7. CASE Printer
    <2>1. CASE Eject /\ UNCHANGED hostVars
      BY <2>1, InTurnEject
    <2>2. CASE EngineRestarted /\ UNCHANGED hostVars
      <3>1. UNCHANGED <<out, rx, path>> /\ (AllSent' => AllSent)
        BY <2>2 DEF EngineRestarted, hostVars, AllSent, Readable, IsPrev
      <3> QED BY <3>1, InTurnOther
    <2> QED BY <1>7, <2>1, <2>2 DEF Printer
  <1>8. CASE Operator \/ SIGINT \/ UNCHANGED vars
    <2>1. UNCHANGED <<out, rx, path>> /\ (AllSent' => AllSent)
      BY <1>8
         DEF Operator, Attend, SIGINT, vars, deviceVars, hostVars, AllSent, Readable, IsPrev
    <2> QED BY <2>1, InTurnOther
  <1>9. CASE Accident
    <2>1. UNCHANGED out /\ rx' = NoRx /\ path' \in {path, NoPage}
      BY <1>9 DEF Accident, Fault
    <2> QED BY <2>1, InTurnOther
  <1> QED
    BY <1>1, <1>2, <1>3, <1>4, <1>5, <1>6, <1>7, <1>8, <1>9 DEF Next, Program, Failure

LEMMA OneFaultStep ==
  ASSUME LInv, OneFault, Watched, MaxFaults <= 1, [Next]_vars
  PROVE  OneFault'
  <1>1. CASE BeginPage
    BY <1>1, OneFaultBegin
  <1>2. CASE Accident
    BY <1>2, OneFaultAccident
  <1>3. CASE Printer \/ Operator \/ SIGINT \/ UNCHANGED vars
    BY <1>3, OneFaultOther
  <1>4. CASE UNCHANGED losses /\ ~BeginPage /\ (Program \/ Throws)
    BY <1>4, OneFaultLocal DEF Program
  <1> QED BY <1>1, <1>2, <1>3, <1>4 DEF Next, Program, Failure
-----------------------------------------------------------------------------
(***************************************************************************)
(* The pages of a job come out without a gap: 0, 1, 2, ... as PrintQueue   *)
(* says, if faults occur only where the program watches for them, and not  *)
(* a second one while it makes good for the first.  This is what AllOut    *)
(* says of every step; that all pages come out in the end is liveness.     *)
(***************************************************************************)
THEOREM InTurnHolds ==
  FewPages /\ Watched /\ MaxFaults <= 1 =>
    (Spec => Queue!Init /\ [][Queue!Next]_(Queue!queueVars))
  <1> SUFFICES ASSUME FewPages, Watched, MaxFaults <= 1
               PROVE  Spec => Queue!Init /\ [][Queue!Next]_(Queue!queueVars)
    OBVIOUS
  <1>1. Init => LInv /\ OneFault /\ InTurn
    BY InitHolds, InitLoss, OneFaultInit DEF LInv
  <1>2. LInv /\ OneFault /\ InTurn /\ [Next]_vars => (LInv /\ OneFault /\ InTurn)'
    BY NextStep, NextLoss, OneFaultStep, InTurnStep DEF LInv
  <1>3. Init => Queue!Init
    BY DEF Init, DeviceInit, Queue!Init, Halted
  <1>4. LInv /\ InTurn /\ [Next]_vars => [Queue!Next]_(Queue!queueVars)
    <2> SUFFICES ASSUME LInv, InTurn, [Next]_vars
                 PROVE  [Queue!Next]_(Queue!queueVars)
      OBVIOUS
    <2>1. CASE Eject /\ UNCHANGED hostVars
      <3>1. Len(out) < NumPages /\ out' = Append(out, Len(out))
        BY <2>1, Sizes DEF Eject, InTurn, LInv, IInv, PrinterTypes
      <3>2. UNCHANGED Halted
        BY <2>1 DEF hostVars, Halted
      <3> QED BY <3>1, <3>2 DEF Queue!Next, Queue!PrintPage
    <2>2. CASE ~(Eject /\ UNCHANGED hostVars)
      <3>1. out' = out
        BY <2>2
           DEF Next, Program, Printer, Operator, Accident, Fault, Failure, BeginPage,
               IC_BEGIN_PAGE, ReserveUnit, FirstStatus, ClearError, CLEAR_ERROR,
               DISCARD_DATA, CLEAR_MISPRINT, RESET_ENGINE, ReadHeader, NoMorePages,
               WriteLoop, StopWriting, WaitReady, GoOnline, GO_ONLINE, CheckOnline,
               PollData, SendData, IC_VIDEO_DATA, EndPage, IC_END_PAGE, PrintEnd, Written,
               WaitLast, GoOffline, ReleaseUnit, Throws, SIGINT, EngineRestarted, Attend,
               vars, deviceVars
      <3>2. Halted => Halted'
        BY DEF Next, Program, Printer, Operator, Accident, Failure, BeginPage,
               ReserveUnit, FirstStatus, ClearError, ReadHeader, NoMorePages, WriteLoop,
               StopWriting, WaitReady, GoOnline, CheckOnline, PollData, SendData, EndPage,
               PrintEnd, Written, WaitLast, GoOffline, ReleaseUnit, Throws, SIGINT, Goto,
               vars, hostVars, Halted
      <3>3. Halted \in BOOLEAN /\ Halted' \in BOOLEAN
        BY DEF Halted
      <3> QED BY <3>1, <3>2, <3>3 DEF Queue!Next, Queue!Halt, Queue!queueVars
    <2> QED BY <2>1, <2>2
  <1> QED BY <1>1, <1>2, <1>3, <1>4, PTL DEF Spec
=============================================================================
