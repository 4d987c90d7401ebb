------------------------------ MODULE PrintJob ------------------------------
(***************************************************************************)
(* A print job: examples/printpbm.cpp driving a printer through            *)
(* BasicCaptPrinter, with a BufferedPage for the page being written and    *)
(* one for the page before it.                                             *)
(*                                                                         *)
(* The program is sequential: pc says where it is.  One action is one      *)
(* command to the printer with the local steps around it; between two      *)
(* commands the printer goes on by itself, and anything may happen to it   *)
(* (CaptDevice).  The program polls: a poll after which it only sleeps and *)
(* polls again changes nothing and is no action.                           *)
(***************************************************************************)
EXTENDS CaptDevice, FiniteSets, SequencesExt

CONSTANTS NumPages,   \* the pages in the PBM file
          Watched     \* do faults occur only while the program watches for them?

ASSUME JobAssumption == NumPages \in Nat /\ Watched \in BOOLEAN

VARIABLES
  pc,        \* where the program is
  caller,    \* on whose behalf: "start" ClearError by main, "main" and "last" writePage
  page,      \* main's counter: currPage's number
  p,         \* writePage's p: the number of the page being written
  reprint,   \* writePage's reprint: a ReprintStatus
  pos,       \* p's get pointer, in blocks
  held,      \* the blocks in currPage's and prevPage's buffer
  known,     \* the errors in the status given to ClearError
  stop,      \* has SIGINT been received?
  losses     \* history: the pages the printer lost, and when

hostVars == <<pc, caller, page, p, reprint, pos, held, known, stop>>
vars == <<deviceVars, hostVars, losses>>

Terminated == pc \in {"done", "failed", "threw", "aborted"}
-----------------------------------------------------------------------------
(* An ExtendedStatus read now.                                             *)
Ready == IsReady
Online == online
VideoDataError == "video" \in errors
Rejected == "rejected" \in errors

(* Slip: the registers are compared also when the printer is offline.      *)
IsPrintingOffline == path # NoPage \/ start # printing

IsPrinting == path # NoPage \/ (Online /\ start # printing)

(* Slip: a rejected print is not taken for an error.                       *)
ClearErrorNeededNotRejected == errors \ {"rejected"} # {}

ClearErrorNeeded == errors # {}

(* Slip: Printed is taken for the page that is being printed.              *)
GetReprintStatusOff ==
  IF ~Rejected THEN "None" ELSE IF printed # start THEN "Prev" ELSE "Current"

(* Printed + 1 is an int: it does not wrap.                                *)
GetReprintStatus ==
  IF ~Rejected THEN "None" ELSE IF printed + 1 # start THEN "Prev" ELSE "Current"
-----------------------------------------------------------------------------
(* BufferedPage: a page buffers what is read from its stream; a page that  *)
(* was moved has no stream any more, only its buffer.                      *)
IsPrev == p # page

Readable == IF IsPrev THEN held.prev ELSE Blocks

Buffered(n) ==
  IF IsPrev \/ n <= held.cur THEN held ELSE [held EXCEPT !.cur = n]

(* The page writePage is called for, and whether it was given a prev.      *)
ThisPage == IF caller = "last" THEN page - 1 ELSE page

(* Slip: off by one.                                                       *)
HasPrevLate == caller = "main" /\ page > 1

HasPrev == caller = "main" /\ page > 0

Goto(l) == pc' = l /\ UNCHANGED <<caller, page, p, reprint, pos, held, known, stop>>
-----------------------------------------------------------------------------
(* From the last look at the printer while a page is written to the        *)
(* BEGIN_PAGE of the next, the program does not watch for a page that is   *)
(* lost: EndPage and waitReady do not ask for it.                          *)
Unwatched ==
  \/ pc \in {"written", "header", "write", "ready", "clear", "discard", "clearMisprint",
             "resetEngine", "goOnline", "checkOnline"}
  \/ pc = "send" /\ pos + 1 = Readable
  \/ pc = "data" /\ pos = Readable

SendingPrev == caller = "main" /\ IsPrev /\ pc \in {"begin", "data", "send", "printEnd"}

(* A page that the printer loses or does not take.                         *)
Loss(k) == [page |-> k, unwatched |-> Unwatched, again |-> SendingPrev]
-----------------------------------------------------------------------------
Init ==
  /\ DeviceInit
  /\ pc = "reserve"
  /\ caller = "start"
  /\ page = 0 /\ p = 0
  /\ reprint = "None"
  /\ pos = 0
  /\ held = [cur |-> 0, prev |-> 0]
  /\ known = {}
  /\ stop = FALSE
  /\ losses = {}

ReserveUnit ==
  /\ pc = "reserve"
  /\ reserved' = TRUE
  /\ Goto("start")
  /\ UNCHANGED <<online, cond, errors, start, printing, printed, rx, path, out, faults>>

(* ClearError: its own GetStatus or its caller's status says which errors. *)
FirstStatus ==
  /\ pc = "start"
  /\ pc' = "clear"
  /\ known' = errors
  /\ UNCHANGED <<deviceVars, caller, page, p, reprint, pos, held, stop>>

Cleared == IF caller = "start" THEN "header" ELSE "ready"

AfterMisprint == IF "comm" \in known THEN "resetEngine" ELSE Cleared
AfterDiscard  == IF "misprint" \in known THEN "clearMisprint" ELSE AfterMisprint

ClearError ==
  \/ pc = "clear"         /\ CLEAR_ERROR    /\ Goto("discard")
  \/ pc = "discard"       /\ DISCARD_DATA   /\ Goto(AfterDiscard)
  \/ pc = "clearMisprint" /\ CLEAR_MISPRINT /\ Goto(AfterMisprint)
  \/ pc = "resetEngine"   /\ RESET_ENGINE   /\ Goto(Cleared)

(* main's loop head: the next page of the file, if there is one.           *)
ReadHeader ==
  /\ pc = "header"
  /\ ~stop /\ page < NumPages
  /\ pc' = "write"
  /\ caller' = "main"
  /\ reprint' = "None"
  /\ held' = [held EXCEPT !.cur = 0]
  /\ UNCHANGED <<deviceVars, page, p, pos, known, stop>>

NoMorePages ==
  /\ pc = "header"
  /\ stop \/ page = NumPages
  /\ Goto(IF page # 0 THEN "last" ELSE "offline")
  /\ UNCHANGED deviceVars

(* Slip: the page is not rewound.                                          *)
WriteLoopNoSeek ==
  /\ pc = "write"
  /\ ~stop
  /\ p' = (IF HasPrev /\ reprint = "Prev" THEN page - 1 ELSE ThisPage)
  /\ pos' = (IF p' = p THEN pos ELSE 0)
  /\ pc' = "ready"
  /\ UNCHANGED <<deviceVars, caller, page, reprint, held, known, stop>>

(* writePage's loop head: which page, from its first byte.                 *)
WriteLoop ==
  /\ pc = "write"
  /\ ~stop
  /\ p' = (IF HasPrev /\ reprint = "Prev" THEN page - 1 ELSE ThisPage)
  /\ pos' = 0
  /\ pc' = "ready"
  /\ UNCHANGED <<deviceVars, caller, page, reprint, held, known, stop>>

(* Slip: waitReady is not given the token.                                 *)
StopWritingNotReady ==
  /\ pc \in {"write", "begin", "printEnd"}
  /\ stop
  /\ Goto("written")
  /\ UNCHANGED deviceVars

(* A stop request makes writePage return TRUE: at its loop head, after     *)
(* prepareBeforePrint and in WaitPrintEnd.                                 *)
StopWriting ==
  /\ pc \in {"write", "ready", "begin", "printEnd"}
  /\ stop
  /\ Goto("written")
  /\ UNCHANGED deviceVars

NeedsGoOnline == ~Online \/ start # p

(* prepareBeforePrint and waitReady.                                       *)
WaitReady ==
  /\ pc = "ready"
  /\ ~stop
  /\ \/ /\ Ready
        /\ Goto(IF NeedsGoOnline THEN "goOnline" ELSE "begin")
     \/ /\ ~Ready
        /\ cond = "service"
        /\ Goto("threw")
     \/ /\ ~Ready
        /\ cond \in {"ok", "reset"}
        /\ ClearErrorNeeded
        /\ pc' = "clear"
        /\ known' = errors
        /\ UNCHANGED <<caller, page, p, reprint, pos, held, stop>>
     \/ /\ ~Ready
        /\ cond \in {"ok", "reset"}     \* "Not ready: unknown error":
        /\ ~ClearErrorNeeded            \* assert(status.Ready()) fails
        /\ Goto("aborted")
  /\ UNCHANGED deviceVars

GoOnline ==
  /\ pc = "goOnline"
  /\ GO_ONLINE(p)
  /\ Goto("checkOnline")

CheckOnline ==
  /\ pc = "checkOnline"
  /\ Goto(IF Online THEN "begin" ELSE "ready")
  /\ UNCHANGED deviceVars

(* WriteVideoData, called without a stop token.                            *)
BeginPage ==
  /\ pc = "begin"
  /\ ~stop
  /\ IC_BEGIN_PAGE(p)
  /\ Goto("data")
  /\ losses' = IF rx' = rx THEN losses \union {Loss(p)} ELSE losses

(* A block is read before the printer is asked whether it can take it.     *)
PollData ==
  /\ pc = "data"
  /\ pos < Readable
  /\ ~Ready \/ ~DataBusy
  /\ pc' = IF Ready THEN "send" ELSE "printEnd"
  /\ held' = Buffered(pos + 1)
  /\ UNCHANGED <<deviceVars, caller, page, p, reprint, pos, known, stop>>

SendData ==
  /\ pc = "send"
  /\ IC_VIDEO_DATA(pos + 1)
  /\ pos' = pos + 1
  /\ pc' = "data"
  /\ UNCHANGED <<caller, page, p, reprint, held, known, stop>>

(* Slip: the page is forgotten when the page before is written.            *)
EndPageForgets ==
  /\ pc = "data"
  /\ pos = Readable
  /\ IC_END_PAGE
  /\ pc' = "written"
  /\ UNCHANGED <<caller, page, p, reprint, pos, held, known, stop>>

(* ... and writePage after it: the page before is followed by the page.    *)
EndPage ==
  /\ pc = "data"
  /\ pos = Readable
  /\ IC_END_PAGE
  /\ LET prevDone == HasPrev /\ reprint = "Prev"
     IN  /\ pc' = IF prevDone THEN "write" ELSE "written"
         /\ reprint' = IF prevDone THEN "None" ELSE reprint
  /\ UNCHANGED <<caller, page, p, pos, held, known, stop>>

(* WaitPrintEnd after a page that could not be written.                    *)
PrintEnd ==
  /\ pc = "printEnd"
  /\ ~stop /\ ~IsPrinting
  /\ pc' = IF VideoDataError THEN "failed"
           ELSE IF Ready THEN "aborted"        \* assert(!status->Ready())
           ELSE "write"
  /\ reprint' = IF VideoDataError THEN reprint ELSE GetReprintStatus
  /\ UNCHANGED <<deviceVars, caller, page, p, pos, held, known, stop>>

(* Slip: the last page counts each time it is written.                     *)
WrittenCounts ==
  /\ pc = "written"
  /\ held' = [held EXCEPT !.prev = held.cur]
  /\ page' = page + 1
  /\ pc' = IF caller = "main" THEN "header" ELSE "last"
  /\ UNCHANGED <<deviceVars, caller, p, reprint, pos, known, stop>>

(* writePage has returned TRUE.                                            *)
Written ==
  /\ pc = "written"
  /\ IF caller = "main"
     THEN /\ held' = [held EXCEPT !.prev = held.cur]
          /\ page' = page + 1
          /\ pc' = "header"
     ELSE /\ pc' = "last"
          /\ UNCHANGED <<held, page>>
  /\ UNCHANGED <<deviceVars, caller, p, reprint, pos, known, stop>>

(* waitLastPage.                                                           *)
WaitLast ==
  /\ pc = "last"
  /\ \/ stop /\ Goto("offline")
     \/ ~stop /\ ~IsPrinting /\ VideoDataError /\ Goto("failed")
     \/ ~stop /\ ~IsPrinting /\ ~VideoDataError /\ ~Rejected /\ Goto("offline")
     \/ /\ ~stop /\ ~IsPrinting /\ ~VideoDataError /\ Rejected
        /\ pc' = "write"
        /\ caller' = "last"
        /\ reprint' = "None"
        /\ UNCHANGED <<page, p, pos, held, known, stop>>
  /\ UNCHANGED deviceVars

GoOffline ==
  /\ pc = "offline"
  /\ online' = FALSE
  /\ Goto("release")
  /\ UNCHANGED <<reserved, cond, errors, start, printing, printed, rx, path, out, faults>>

ReleaseUnit ==
  /\ pc = "release"
  /\ reserved' = FALSE
  /\ Goto("done")
  /\ UNCHANGED <<online, cond, errors, start, printing, printed, rx, path, out, faults>>

(* A return code that is not 0, ERROR_BIT, an answer to another command, a *)
(* broken PBM file: an exception that nobody catches.                      *)
Throws ==
  /\ pc \in {"reserve", "start", "clear", "discard", "clearMisprint", "resetEngine",
             "header", "ready", "goOnline", "checkOnline", "data", "printEnd", "last",
             "offline", "release"}
  /\ Goto("threw")
  /\ UNCHANGED deviceVars

SIGINT ==
  /\ ~stop /\ ~Terminated
  /\ stop' = TRUE
  /\ UNCHANGED <<deviceVars, pc, caller, page, p, reprint, pos, held, known, losses>>
-----------------------------------------------------------------------------
Program ==
  \/ BeginPage
  \/ /\ \/ ReserveUnit \/ FirstStatus \/ ClearError \/ ReadHeader \/ NoMorePages
        \/ WriteLoop \/ StopWriting \/ WaitReady \/ GoOnline \/ CheckOnline
        \/ PollData \/ SendData \/ EndPage \/ PrintEnd \/ Written \/ WaitLast
        \/ GoOffline \/ ReleaseUnit
     /\ UNCHANGED losses

Printer == (Eject \/ EngineRestarted) /\ UNCHANGED <<hostVars, losses>>

Operator == Attend /\ UNCHANGED <<hostVars, losses>>

Accident ==
  \E f \in Faults :
    /\ Watched => ~Unwatched
    /\ Fault(f)
    /\ losses' = losses \union {Loss(k) : k \in Lost(f)}
    /\ UNCHANGED hostVars

Failure == Throws /\ UNCHANGED losses

Next == Program \/ Printer \/ Operator \/ Accident \/ Failure \/ SIGINT

Spec == Init /\ [][Next]_vars

(* The program never waits without polling and the printer finishes what   *)
(* it has begun.  Nobody needs to stop the job, and nothing needs to go    *)
(* wrong.                                                                  *)
FairSpec == Spec /\ WF_vars(Program) /\ WF_vars(Printer)

(* ... and when the printer wants attention it gets it.                    *)
AttendedSpec == FairSpec /\ WF_vars(Operator)
-----------------------------------------------------------------------------
Points == {"reserve", "start", "clear", "discard", "clearMisprint", "resetEngine",
           "header", "write", "ready", "goOnline", "checkOnline", "begin", "data", "send",
           "printEnd", "written", "last", "offline", "release",
           "done", "failed", "threw", "aborted"}

TypeOK ==
  /\ reserved \in BOOLEAN /\ online \in BOOLEAN /\ stop \in BOOLEAN
  /\ cond \in {"ok", "attend", "service", "reset"}
  /\ errors \subseteq Errors /\ known \subseteq Errors
  /\ {start, printing, printed} \subseteq Registers
  /\ rx.page \in -1 .. NumPages - 1 /\ path \in -1 .. NumPages - 1
  /\ Len(rx.blocks) <= Blocks
  /\ pc \in Points
  /\ caller \in {"start", "main", "last"}
  /\ page \in 0 .. NumPages
  /\ p \in 0 .. page
  /\ reprint \in {"None", "Prev", "Current"}
  /\ pos \in 0 .. Blocks
  /\ held \in [cur : 0 .. Blocks, prev : 0 .. Blocks]

(***************************************************************************)
(* No page comes out twice or out of order, whatever goes wrong and        *)
(* whenever: a page is sent again only if the printer has lost it.         *)
(***************************************************************************)
InOrder == \A i, j \in 1 .. Len(out) : i < j => out[i] < out[j]

(***************************************************************************)
(* The video data of a page reach the printer from the first block on and  *)
(* in order, also when the page is sent again and comes partly from        *)
(* BufferedPage's buffer, partly from the compressor, or is the page       *)
(* before, which has only its buffer; and a page is not ended early.       *)
(***************************************************************************)
FromTheTop == /\ \A k \in 1 .. Len(rx.blocks) : rx.blocks[k] = k
              /\ "video" \notin Faults => ~VideoDataError

(***************************************************************************)
(* When a job ends normally, a page that is missing was lost in one of two *)
(* ways: while the program was not watching, so that waitReady cleared the *)
(* rejection without looking at it (printpbm.cpp:147), or while it was     *)
(* sent for the second time, when Current is taken for the page after it   *)
(* (printpbm.cpp:182).  All other pages have come out.                     *)
(***************************************************************************)
MissingOnlyIf ==
  (pc = "done" /\ ~stop) =>
    \A k \in 0 .. NumPages - 1 :
      \/ \E i \in 1 .. Len(out) : out[i] = k
      \/ \E l \in losses : l.page = k /\ (l.unwatched \/ l.again)

(***************************************************************************)
(* The assertions of prepareBeforePrint and writePage (printpbm.cpp:166,   *)
(* 208): the printer is ready when a page is begun, and it is not when a   *)
(* page has failed.                                                        *)
(***************************************************************************)
AssertsHold == pc # "aborted"

(* SIGINT ends the program, even if nobody attends to the printer.         *)
Stops == stop ~> Terminated

(* A job ends, if the printer is attended to.                              *)
Ends == <>Terminated

Halted == stop \/ pc \in {"failed", "threw", "aborted"}

(***************************************************************************)
(* A job whose faults occur while a page is being sent keeps the promise   *)
(* of PrintQueue.                                                          *)
(***************************************************************************)
Queue == INSTANCE PrintQueue WITH halted <- Halted

AllOut == Queue!Spec
=============================================================================
