----------------------------- MODULE CaptDevice -----------------------------
(***************************************************************************)
(* A CAPT printer as its host sees it.  The printer is not part of the     *)
(* repository: this module is what the code relies on.                     *)
(*                                                                         *)
(*  - A page that has arrived whole goes into the paper path and out.  The *)
(*    last block of a page is taken (no IM_DATA_BUSY) only when the page   *)
(*    before it is out: GetReprintStatus knows no third page.              *)
(*  - A fault loses the page being received, and with it, as the case may  *)
(*    be, the page in the path.  If anything is lost the print is          *)
(*    rejected, and the printer is not ready until CLEAR_ERROR.  It goes   *)
(*    offline: WaitPrintEnd would wait for ever for Printing to reach      *)
(*    Start otherwise.                                                     *)
(*  - A page begun while the printer is not ready or offline is rejected.  *)
(*  - Printed is the number of the last page that came out.                *)
(***************************************************************************)
EXTENDS Integers, Sequences

CONSTANTS Blocks,    \* the blocks of a page's video data
          Faults,    \* the kinds of fault that occur
          MaxFaults  \* how many occur

Kinds == {"jam", "paper", "video", "misprint", "comm", "service"}

ASSUME DeviceAssumption ==
  /\ Blocks \in Nat \ {0}
  /\ Faults \subseteq Kinds
  /\ MaxFaults \in Nat

VARIABLES
  reserved, online,  \* UNIT_FREE and OFFLINE, both negated
  cond,              \* what the engine wants: "ok", "attend" (to open doors, paper, ...),
                     \* "service" or "reset" (ENGINE_RESET_IN_PROGRESS)
  errors,            \* what CLEAR_ERROR, CLEAR_MISPRINT and RESET_ENGINE are for
  start, printing, printed,   \* the registers
  rx,                \* the page being received and the blocks of it that are in
  path,              \* the page in the paper path
  out,               \* history: the pages that came out
  faults             \* history: how many faults there were

deviceVars == <<reserved, online, cond, errors, start, printing, printed, rx, path, out,
                faults>>

NoPage == -1
NoRx == [page |-> NoPage, blocks |-> <<>>]
Errors == {"rejected", "video", "misprint", "comm"}
MaxNumber == 65535
Registers == 0 .. MaxNumber
Number(p) == p % (MaxNumber + 1)

(* No NOT_READY.                                                           *)
IsReady == cond = "ok" /\ errors = {}

DeviceInit ==
  /\ reserved = FALSE
  /\ online = FALSE
  /\ cond \in {"ok", "attend"}
  /\ errors \in SUBSET ((Faults \intersect {"misprint", "comm"}) \union {"rejected"})
                       \* left by another job
  /\ start = 0
  /\ printing = 0
  /\ printed = MaxNumber
  /\ rx = NoRx
  /\ path = NoPage
  /\ out = <<>>
  /\ faults = 0
-----------------------------------------------------------------------------
(* What the printer does of its own accord.                                *)
Eject ==
  /\ path # NoPage
  /\ out' = Append(out, path)
  /\ printed' = Number(path)
  /\ path' = NoPage
  /\ UNCHANGED <<reserved, online, cond, errors, start, printing, rx, faults>>

(* The operator closes the door, loads paper, takes out the jam.           *)
Attend ==
  /\ cond = "attend"
  /\ cond' = "ok"
  /\ UNCHANGED <<reserved, online, errors, start, printing, printed, rx, path, out, faults>>

EngineRestarted ==
  /\ cond = "reset"
  /\ cond' = "ok"
  /\ UNCHANGED <<reserved, online, errors, start, printing, printed, rx, path, out, faults>>

LosesPath(f) == f \in {"jam", "misprint", "comm", "service"}

Lost(f) == ({rx.page} \union (IF LosesPath(f) THEN {path} ELSE {})) \ {NoPage}

Fault(f) ==
  /\ faults < MaxFaults
  /\ f = "video" => rx # NoRx
  /\ f = "misprint" => path # NoPage
  /\ faults' = faults + 1
  /\ rx' = NoRx
  /\ path' = IF LosesPath(f) THEN NoPage ELSE path
  /\ errors' = errors \union ({f} \intersect Errors)
                      \union (IF Lost(f) # {} THEN {"rejected"} ELSE {})
  /\ cond' = CASE cond = "service" \/ f = "service" -> "service"
               [] cond # "service" /\ f \in {"jam", "paper"} -> "attend"
               [] cond # "service" /\ f \in {"video", "misprint", "comm"} -> cond
  /\ online' = FALSE
  /\ UNCHANGED <<reserved, start, printing, printed, out>>
-----------------------------------------------------------------------------
(* What it does on a command.                                              *)
GO_ONLINE(p) ==
  /\ start' = Number(p)
  /\ online' = IsReady
  /\ UNCHANGED <<reserved, cond, errors, printing, printed, rx, path, out, faults>>

IC_BEGIN_PAGE(p) ==
  /\ IF IsReady /\ online
     THEN rx' = [page |-> p, blocks |-> <<>>] /\ UNCHANGED errors
     ELSE errors' = errors \union {"rejected"} /\ UNCHANGED rx
  /\ UNCHANGED <<reserved, online, cond, start, printing, printed, path, out, faults>>

DataBusy == Len(rx.blocks) = Blocks - 1 /\ path # NoPage

(* Data that no page was begun for, or that was under way when its page    *)
(* was lost, go nowhere.                                                   *)
IC_VIDEO_DATA(block) ==
  /\ rx' = IF rx = NoRx THEN rx ELSE [rx EXCEPT !.blocks = Append(@, block)]
  /\ UNCHANGED <<reserved, online, cond, errors, start, printing, printed, path, out, faults>>

Whole(blocks) == blocks = [k \in 1 .. Blocks |-> k]

IC_END_PAGE ==
  /\ rx' = NoRx
  /\ IF rx # NoRx /\ Whole(rx.blocks)
     THEN path' = rx.page /\ printing' = start /\ UNCHANGED errors
     ELSE /\ errors' = errors \union (IF rx # NoRx THEN {"video"} ELSE {})
          /\ UNCHANGED <<path, printing>>
  /\ UNCHANGED <<reserved, online, cond, start, printed, out, faults>>

CLEAR_ERROR ==
  /\ errors' = errors \ {"rejected", "video"}
  /\ UNCHANGED <<reserved, online, cond, start, printing, printed, rx, path, out, faults>>

DISCARD_DATA ==
  /\ rx' = NoRx
  /\ UNCHANGED <<reserved, online, cond, errors, start, printing, printed, path, out, faults>>

CLEAR_MISPRINT ==
  /\ errors' = errors \ {"misprint"}
  /\ UNCHANGED <<reserved, online, cond, start, printing, printed, rx, path, out, faults>>

RESET_ENGINE ==
  /\ errors' = errors \ {"comm"}
  /\ cond' = IF cond = "ok" THEN "reset" ELSE cond
  /\ UNCHANGED <<reserved, online, start, printing, printed, rx, path, out, faults>>
=============================================================================
