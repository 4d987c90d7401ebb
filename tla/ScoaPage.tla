------------------------------ MODULE ScoaPage ------------------------------
(***************************************************************************)
(* Pages on their way through ScoaStreambuf, over the wire and through a   *)
(* DecoderStreambuf, as the programs under tests/Compression do it.  The   *)
(* wire is the IC_VIDEO_DATA packets between them: it keeps the bytes and  *)
(* their order and nothing else, so the decoder may be as far behind as    *)
(* it likes.                                                               *)
(***************************************************************************)
EXTENDS ScoaStreambuf, ScoaDecoder

CONSTANTS Pages,   \* the pages that may be sent
          MaxPages \* how many are sent

ASSUME PageAssumption ==
  \A p \in Pages : /\ p.lines \in Nat \ {0}
                   /\ p.raster \in Seq([0 .. LineSize - 1 -> Byte])

(* The line size travels in the page's header (decoder.cpp:107).           *)
ASSUME LineSizeAgreed == DecoderLineSize = LineSize

(* ScoaState asserts against a line of no bytes (ScoaState.hpp:48).        *)
ASSUME LineSizeAssumption == LineSize \in Nat \ {0}

ASSUME ByteAssumption == Byte # {} /\ Byte \subseteq 0 .. 255

VARIABLES page,   \* the page being sent
          pageNo, \* its number
          sent    \* history: how many bytes of it have been handed out

vars == <<scoaVars, decoderVars, page, pageNo, sent>>

Init ==
  /\ page \in Pages
  /\ pageNo = 1
  /\ sent = 0
  /\ ScoaInit(page.raster, page.lines)
  /\ DecoderInit

(* underflow(): one step of the compressor.                                *)
Compress ==
  /\ Underflow
  /\ UNCHANGED <<decoderVars, page, pageNo, sent>>

(* The reader takes the get area and puts it into packets ...              *)
Deliver ==
  /\ ready # <<>>
  /\ wire' = wire \o ready
  /\ sent' = sent + Len(ready)
  /\ ready' = <<>>
  /\ UNCHANGED <<raster, currLine, prevLine, linesRemain, videoSize, buffer, running,
                 got, above, index, last, curr, inNext, taken, chunkVars,
                 closed, decoded, start, decodedVideoSize, printed, outcome,
                 page, pageNo>>

(* ... until it reads end of file and ends the page.                       *)
Close ==
  /\ AtEnd /\ ~closed
  /\ closed' = TRUE
  /\ UNCHANGED <<scoaVars, wire, decoded, start, decodedVideoSize, printed, outcome,
                 page, pageNo, sent>>

DecodeStep ==
  /\ Decode
  /\ UNCHANGED <<scoaVars, page, pageNo, sent>>

(* The next page: the same compressor after Reset (compressor.cpp:75), a   *)
(* decoder of its own (decoder.cpp:107).                                   *)
NextPage ==
  /\ pageNo < MaxPages
  /\ closed /\ outcome # "decoding"
  /\ page' \in Pages
  /\ pageNo' = pageNo + 1
  /\ sent' = 0
  /\ Reset(page'.raster, page'.lines)
  /\ FreshDecoder
  /\ UNCHANGED <<prevLine, ready, running, got, stateVars, chunkVars>>

Next == Compress \/ Deliver \/ Close \/ DecodeStep \/ NextPage

Spec == Init /\ [][Next]_vars

(* Both programs are loops that block only on their input.                 *)
FairSpec == Spec /\ WF_vars(Compress) /\ WF_vars(Deliver) /\ WF_vars(Close)
                 /\ WF_vars(DecodeStep)
-----------------------------------------------------------------------------
LineAsSeq(ln) == [k \in 1 .. LineSize |-> ln[k - 1]]

(***************************************************************************)
(* The system implements PageTransfer: lines come out in order, unchanged  *)
(* and complete, an error is reported only for a raster that ended early   *)
(* and then after its last whole line, and every page ends.                *)
(***************************************************************************)
Transfer == INSTANCE PageTransfer WITH LineBytes <- LineAsSeq

Transferred == Transfer!Spec

(***************************************************************************)
(* nextCmd keeps to what the cmd_* functions are proved correct for: every *)
(* call it makes is one of ScoaChunk's calls, and the next is made when    *)
(* the last has returned.                                                  *)
(***************************************************************************)
CallsAsAssumed == Chunk!Spec

(***************************************************************************)
(* A whole page has an even number of bytes, EOP included: underflow pads  *)
(* it with a NOP (ScoaStreambuf.cpp:240) and decodeLine rejects it         *)
(* otherwise (DecoderStreambuf.cpp:193).  The compressor does not count    *)
(* the bytes it appends: it adds up what thirteen functions return.        *)
(***************************************************************************)
EvenPage == (AtEnd /\ linesRemain = 0) => sent % 2 = 0

(***************************************************************************)
(* videoSize = 0 stands for `this is the first line of the page`           *)
(* (ScoaStreambuf.cpp:230): a line is coded without a line above it        *)
(* exactly when it is the first, also on the page after a Reset, when      *)
(* prevLine still holds the last line of another page.                     *)
(***************************************************************************)
FirstLineAlone == running => (above = NoLine <=> linesRemain = page.lines)
=============================================================================
