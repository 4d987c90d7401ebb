----------------------------- MODULE ScoaChunk ------------------------------
(***************************************************************************)
(* The loops that cut one or two runs into commands: the cmd_* functions   *)
(* of libcapt/Compression/ScoaStreambuf.cpp.                               *)
(*                                                                         *)
(* A job is a call of one of them: what is left of its arguments.  The     *)
(* functions call each other with what is left, so kind names the function *)
(* that is running; one action emits one command.  cmd_WriteRaw is         *)
(* cmd_CopyThenRaw with nothing to copy, cmd_Repeat is one of cmd_RepeatX  *)
(* and cmd_CopyThenRepeat (RepeatJob).                                     *)
(***************************************************************************)
EXTENDS ScoaCmd

VARIABLES job, \* the call in progress, NoJob between calls
          cmd  \* the command emitted last

chunkVars == <<job, cmd>>

Job(kind, copy, rep, byte, raw) ==
  [kind |-> kind, copy |-> copy, rep |-> rep, byte |-> byte, raw |-> raw]

NoJob == Job("None", 0, 0, 0, <<>>)

CopyThenRawJob(copy, raw)          == Job("CopyThenRaw", copy, 0, 0, raw)
WriteRawJob(raw)                   == CopyThenRawJob(0, raw)
CopyThenRepeatJob(copy, rep, byte) == Job("CopyThenRepeat", copy, rep, byte, <<>>)
RepeatThenRawJob(rep, byte, raw)   == Job("RepeatThenRaw", 0, rep, byte, raw)
RepeatJob(rep, byte) ==
  IF byte = RepeatXByte THEN Job("RepeatX", 0, rep, byte, <<>>)
                        ELSE CopyThenRepeatJob(0, rep, byte)

(* Slip: a piece of copies is not made a multiple of 8.                    *)
CopyPieceUneven(n) == IF n <= 248 THEN n ELSE 248

(* The sizes of the pieces: std::min, and for copies a multiple of 8.      *)
Piece(n)     == IF n <= 255 THEN n ELSE 255
CopyPiece(n) == IF n <= 248 THEN n - (n % 8) ELSE 248

First(n, raw) == SubSeq(raw, 1, n)
Rest(n, raw)  == SubSeq(raw, n + 1, Len(raw))

(* Slip: a call goes on with nothing left to do.                           *)
LeftOver(j) == j

(* A call is over when nothing is left of its arguments.                   *)
Left(j) == IF j.copy = 0 /\ j.rep = 0 /\ j.raw = <<>> THEN NoJob ELSE j

Emit(c, j) == cmd' = c /\ job' = Left(j)

Running(kind) == job.kind = kind /\ job.copy <= 7

(* Slip: the copies sent are not subtracted.                               *)
CopyLoopForever ==
  /\ job.copy >= 8
  /\ Emit(CopyLong(CopyPiece(job.copy)), job)

(* The loop over the copies, in every function that copies.                *)
CopyLoop ==
  /\ job.copy >= 8
  /\ LET n == CopyPiece(job.copy)
     IN  Emit(CopyLong(n), Job(job.kind, job.copy - n, job.rep, job.byte, job.raw))

(* Slip: the copies before the first piece are sent with each.             *)
RawLoopCopiesAgain ==
  /\ Running("CopyThenRaw")
  /\ Len(job.raw) >= 8
  /\ LET n == Piece(Len(job.raw))
     IN  Emit(CopyThenRawLong(job.copy, First(n, job.raw)),
              CopyThenRawJob(job.copy, Rest(n, job.raw)))

(* cmd_CopyThenRaw and cmd_WriteRaw.                                       *)
RawLoop ==
  /\ Running("CopyThenRaw")
  /\ Len(job.raw) >= 8
  /\ LET n == Piece(Len(job.raw))
     IN  Emit(CopyThenRawLong(job.copy, First(n, job.raw)),
              CopyThenRawJob(0, Rest(n, job.raw)))

RawTail ==
  /\ Running("CopyThenRaw")
  /\ Len(job.raw) <= 7
  /\ Emit(CopyThenRaw(job.copy, job.raw), NoJob)

(* cmd_CopyThenRepeat.                                                     *)
RepeatLoop ==
  /\ Running("CopyThenRepeat")
  /\ job.rep >= 8
  /\ LET n == Piece(job.rep)
     IN  Emit(CopyThenRepeatLong(job.copy, n, job.byte),
              CopyThenRepeatJob(0, job.rep - n, job.byte))

RepeatTail ==
  /\ Running("CopyThenRepeat")
  /\ job.rep <= 7
  /\ \/ job.rep >= 2 /\ Emit(CopyThenRepeat(job.copy, job.rep, job.byte), NoJob)
     \/ job.rep = 1  /\ Emit(CopyThenRaw(job.copy, <<job.byte>>), NoJob)

(* cmd_RepeatX.                                                            *)
RepeatXLoop ==
  /\ Running("RepeatX")
  /\ LET n == Piece(job.rep)
     IN  Emit(IF n >= 8 THEN RepeatXLong(n) ELSE RepeatX(n),
              RepeatJob(job.rep - n, job.byte))

(* cmd_RepeatThenRaw: the long repeats, ...                                *)
LongRepeat ==
  /\ Running("RepeatThenRaw")
  /\ job.rep >= 8
  /\ LET n == Piece(job.rep)
     IN  Emit(CopyThenRepeatLong(0, n, job.byte),
              RepeatThenRawJob(job.rep - n, job.byte, job.raw))

(* ... what is left of them with the first raw bytes, ...                  *)
RepeatWithRaw ==
  /\ Running("RepeatThenRaw")
  /\ job.rep \in 2 .. 7
  /\ LET n == Piece(Len(job.raw))
     IN  Emit(IF n >= 8 THEN RepeatThenRawLong(job.rep, job.byte, First(n, job.raw))
                        ELSE RepeatThenRaw(job.rep, job.byte, job.raw),
              WriteRawJob(Rest(n, job.raw)))

(* ... a single byte left over, which no repeat can carry, ...             *)
RepeatLeftover ==
  /\ Running("RepeatThenRaw")
  /\ job.rep = 1
  /\ Emit(CopyThenRaw(0, <<job.byte>>), WriteRawJob(job.raw))

(* ... and raw bytes alone when the repeats came out even.                 *)
RawAfterRepeat ==
  /\ Running("RepeatThenRaw")
  /\ job.rep = 0
  /\ LET n == Piece(Len(job.raw))
     IN  Emit(IF n >= 8 THEN CopyThenRawLong(0, First(n, job.raw))
                        ELSE CopyThenRaw(0, job.raw),
              WriteRawJob(Rest(n, job.raw)))

Chunk == \/ CopyLoop \/ RawLoop \/ RawTail \/ RepeatLoop \/ RepeatTail \/ RepeatXLoop
         \/ LongRepeat \/ RepeatWithRaw \/ RepeatLeftover \/ RawAfterRepeat
-----------------------------------------------------------------------------
(***************************************************************************)
(* On its own, the component is given one call after another with the      *)
(* arguments nextCmd can have for them: runs of at least one byte, repeats *)
(* of at least two.                                                        *)
(***************************************************************************)
CONSTANTS CopyLens,    \* the lengths of the Copy runs
          RepeatLens,  \* the lengths of the Repeat runs
          Raws,        \* the payloads of the Raw runs
          Bytes        \* the bytes that are repeated

ASSUME ChunkAssumption ==
  /\ CopyLens \subseteq Nat \ {0}
  /\ RepeatLens \subseteq Nat \ {0, 1}
  /\ Bytes \subseteq 0 .. 255
  /\ \A raw \in Raws : raw \in Seq(0 .. 255) /\ raw # <<>>

NoCmd == NOP

Call ==
  /\ job = NoJob
  /\ \/ \E c \in CopyLens, raw \in Raws : job' = CopyThenRawJob(c, raw)
     \/ \E raw \in Raws : job' = WriteRawJob(raw)
     \/ \E c \in CopyLens, r \in RepeatLens, b \in Bytes :
          job' = CopyThenRepeatJob(c, r, b)
     \/ \E r \in RepeatLens, b \in Bytes : job' = RepeatJob(r, b)
     \/ \E r \in RepeatLens, b \in Bytes, raw \in Raws :
          job' = RepeatThenRawJob(r, b, raw)
  /\ cmd' = NoCmd

Init == job = NoJob /\ cmd = NoCmd

Next == Call \/ Chunk

Spec == Init /\ [][Next]_chunkVars

(* The functions are loops without a wait: they run on.                    *)
FairSpec == Spec /\ WF_chunkVars(Chunk)
-----------------------------------------------------------------------------
Kinds == {"CopyThenRaw", "CopyThenRepeat", "RepeatX", "RepeatThenRaw"}

(***************************************************************************)
(* Type invariant, with the assertions the functions make of their         *)
(* arguments at every call, the recursive ones included                    *)
(* (ScoaStreambuf.cpp:47, 72, 90, 119, 133, 141): a call is never made     *)
(* with nothing to do.                                                     *)
(***************************************************************************)
TypeOK ==
  \/ job = NoJob
  \/ /\ job \in [kind : Kinds, copy : Nat, rep : Nat, byte : 0 .. 255,
                 raw : Seq(0 .. 255)]
     /\ job.kind = "CopyThenRaw" => job.rep = 0 /\ job.raw # <<>>
     /\ job.kind \in {"CopyThenRepeat", "RepeatX"} => job.rep > 0 /\ job.raw = <<>>
     /\ job.kind = "RepeatThenRaw" => job.raw # <<>>
     /\ job.kind \in {"RepeatX", "RepeatThenRaw"} => job.copy = 0
     /\ job.kind = "RepeatX" => job.byte = RepeatXByte

(***************************************************************************)
(* Whatever is left of the counts after a piece, the next command is one   *)
(* the printer accepts: the counts the loops compute are within the bounds *)
(* ScoaCmd.cpp asserts.  1, 248, 249, 255, 256, 263 are the places to go   *)
(* wrong.                                                                  *)
(***************************************************************************)
WithinBounds == InBounds(cmd)

(***************************************************************************)
(* The meaning of a command or a call: what it makes a decoder append, a   *)
(* byte or, for a copy, Above.                                             *)
(***************************************************************************)
Above == -1

Meaning(c) ==
  [k \in 1 .. c.copy + c.rep + Len(c.raw) |->
     IF k <= c.copy THEN Above
     ELSE IF k <= c.copy + c.rep THEN c.byte
     ELSE c.raw[k - c.copy - c.rep]]

(* Nothing is lost, repeated or moved when a call is cut up: a command and *)
(* what is left of the call mean what the call meant.                      *)
MeaningKept == [][job # NoJob => Meaning(job) = Meaning(cmd') \o Meaning(job')]_chunkVars

(* The loops end: every call returns.                                      *)
Finishes == []<>(job = NoJob)
=============================================================================
