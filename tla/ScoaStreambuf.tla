--------------------------- MODULE ScoaStreambuf ----------------------------
(***************************************************************************)
(* ScoaStreambuf (libcapt/Compression/ScoaStreambuf.cpp): the stream       *)
(* buffer that reads a raster line by line and hands out the compressed    *)
(* page.                                                                   *)
(*                                                                         *)
(* One call of underflow() compresses one line: it builds a ScoaState over *)
(* it, and until the scanner is Empty() nextCmd takes one run or two from  *)
(* it and has a cmd_* function cut them into commands.  The two components *)
(* are instances of their own modules; what is modelled here is the glue:  *)
(* which runs are combined, when a line is coded against the one above it, *)
(* and how the page ends.                                                  *)
(***************************************************************************)
EXTENDS ScoaFunc, FiniteSets

CONSTANTS Byte, LineSize

VARIABLES
  raster,      \* the lines rasterStream still has; a last, shorter one is not shown
  currLine, prevLine, linesRemain, videoSize, buffer,   \* the members
  ready,       \* the get area: bytes the reader has not taken
  running,     \* is underflow() running?
  got,         \* nextCmd's local curr, NoFunc between its calls
  above, index, last, curr, inNext, taken,              \* its ScoaState
  job, cmd                                              \* its cmd_* call

State == INSTANCE ScoaState WITH line <- currLine, prevLine <- above

Chunk == INSTANCE ScoaChunk
           WITH CopyLens <- 1 .. LineSize, RepeatLens <- 2 .. LineSize, Bytes <- Byte,
                Raws <- UNION {[1 .. n -> Byte] : n \in 1 .. LineSize}

stateVars == <<currLine, above, index, last, curr, inNext, taken>>
chunkVars == <<job, cmd>>
pageVars  == <<raster, prevLine, linesRemain, videoSize, buffer, ready, running, got>>
scoaVars  == <<pageVars, stateVars, chunkVars>>

Idle == job = Chunk!NoJob

(* Slip: the page before it is still counted.                              *)
ResetKeepsSize(r, lines) ==
  /\ raster' = r
  /\ buffer' = <<>>
  /\ linesRemain' = lines
  /\ UNCHANGED videoSize

(* Reset, and equally the constructor: a page of `lines` lines from r.     *)
(* prevLine and currLine keep what they hold; videoSize alone says that    *)
(* the page has not begun.                                                 *)
Reset(r, lines) ==
  /\ raster' = r
  /\ buffer' = <<>>
  /\ linesRemain' = lines
  /\ videoSize' = 0

ScoaInit(r, lines) ==
  /\ raster = r
  /\ linesRemain = lines
  /\ videoSize = 0
  /\ buffer = <<>>
  /\ ready = <<>>
  /\ running = FALSE
  /\ got = NoFunc
  /\ currLine = [i \in 0 .. LineSize - 1 |-> CHOOSE b \in Byte : TRUE]
  /\ prevLine = NoLine
  /\ above = NoLine
  /\ index = LineSize + 2
  /\ last = NoFunc
  /\ curr = NoFunc
  /\ inNext = FALSE
  /\ taken = <<>>
  /\ job = Chunk!NoJob
  /\ cmd = Chunk!NoCmd

(* underflow() has nothing (more) to read: the reader sees end of file.    *)
AtEnd == ~running /\ ready = <<>> /\ (linesRemain = 0 \/ raster = <<>>)

(* underflow(), called when the get area is used up, up to its loop.       *)
ReadLine ==
  /\ ~running
  /\ ready = <<>>
  /\ linesRemain > 0
  /\ raster # <<>>
  /\ raster' = Tail(raster)
  /\ buffer' = <<>>
  /\ running' = TRUE
  /\ State!Constructed(Head(raster), IF videoSize = 0 THEN NoLine ELSE prevLine)
  /\ UNCHANGED <<prevLine, linesRemain, videoSize, ready, got, job, cmd>>

(* ScoaState::Next() runs on, in the constructor and in Get.               *)
ScanLine ==
  /\ State!Scan
  /\ UNCHANGED <<pageVars, chunkVars>>

(* nextCmd takes its first run.                                            *)
TakeRun ==
  /\ running
  /\ Idle /\ got = NoFunc
  /\ State!Get
  /\ got' = curr
  /\ UNCHANGED <<raster, prevLine, linesRemain, videoSize, buffer, ready, running,
                 chunkVars>>

Deciding == running /\ got # NoFunc /\ ~inNext

Cut(j) == job' = j /\ got' = NoFunc

(* A Copy up to the end of the line is an EOL.                             *)
CopyToEnd ==
  /\ Deciding
  /\ got.Type = "Copy"
  /\ End(got) = LineSize
  /\ got' = NoFunc
  /\ buffer' = buffer \o Chunk!EOL.bytes
  /\ videoSize' = videoSize + Chunk!EOL.vsize
  /\ UNCHANGED <<raster, prevLine, linesRemain, ready, running, stateVars, chunkVars>>

(* Two runs go into one call: a Copy and what follows it, or a Repeat and  *)
(* a Raw that follows it.                                                  *)
Pairs(f, g) == \/ f.Type = "Copy" /\ End(f) # LineSize
               \/ f.Type = "Repeat" /\ g.Type = "Raw"

TakeSecondRun ==
  /\ Deciding
  /\ ~State!Empty
  /\ Pairs(got, curr)
  /\ State!Get
  /\ LET raw  == Payload(curr, currLine)
         byte == currLine[IF got.Type = "Repeat" THEN got.Index ELSE curr.Index]
     IN  CASE got.Type = "Repeat" -> Cut(Chunk!RepeatThenRawJob(got.Count, byte, raw))
           [] got.Type = "Copy" /\ curr.Type = "Repeat"
                -> Cut(Chunk!CopyThenRepeatJob(got.Count, curr.Count, byte))
           [] got.Type = "Copy" /\ curr.Type # "Repeat"
                -> Cut(Chunk!CopyThenRawJob(got.Count, raw))
  /\ cmd' = Chunk!NoCmd
  /\ UNCHANGED <<raster, prevLine, linesRemain, videoSize, buffer, ready, running>>

(* One run by itself.                                                      *)
SingleRun ==
  /\ Deciding
  /\ got.Type # "Copy"
  /\ State!Empty \/ ~Pairs(got, curr)
  /\ Cut(IF got.Type = "Raw" THEN Chunk!WriteRawJob(Payload(got, currLine))
         ELSE Chunk!RepeatJob(got.Count, currLine[got.Index]))
  /\ cmd' = Chunk!NoCmd
  /\ UNCHANGED <<raster, prevLine, linesRemain, videoSize, buffer, ready, running,
                 stateVars>>

(* The cmd_* function appends a command and adds up its size.              *)
EmitCommand ==
  /\ ~inNext
  /\ Chunk!Chunk
  /\ buffer' = buffer \o cmd'.bytes
  /\ videoSize' = videoSize + cmd'.vsize
  /\ UNCHANGED <<raster, prevLine, linesRemain, ready, running, got, stateVars>>

(* Slip: the parity without EOP itself.                                    *)
PageEndOdd ==
  IF linesRemain # 1 THEN <<>>
  ELSE (IF videoSize % 2 # 0 THEN Chunk!NOP.bytes ELSE <<>>) \o Chunk!EOP.bytes

(* The end of underflow(): the line becomes the line above, and the last   *)
(* line of the page is followed by EOP, after a NOP if the page would have *)
(* an odd number of bytes.  What the swap leaves in currLine is read over  *)
(* before it is used.                                                      *)
PageEnd ==
  IF linesRemain # 1 THEN <<>>
  ELSE (IF (videoSize + 1) % 2 # 0 THEN Chunk!NOP.bytes ELSE <<>>) \o Chunk!EOP.bytes

EndLine ==
  /\ running
  /\ Idle /\ got = NoFunc
  /\ ~inNext
  /\ State!Empty
  /\ prevLine' = currLine
  /\ linesRemain' = linesRemain - 1
  /\ buffer' = buffer \o PageEnd
  /\ ready' = buffer'
  /\ running' = FALSE
  /\ UNCHANGED <<raster, videoSize, got, stateVars, chunkVars>>

Underflow == ReadLine \/ ScanLine \/ TakeRun \/ CopyToEnd \/ TakeSecondRun \/ SingleRun
             \/ EmitCommand \/ EndLine
-----------------------------------------------------------------------------
TypeOK ==
  /\ \A k \in 1 .. Len(raster) : raster[k] \in State!Line
  /\ prevLine \in State!Line \union {NoLine}
  /\ linesRemain \in Nat
  /\ videoSize \in Nat
  /\ \A k \in 1 .. Len(buffer) : buffer[k] \in 0 .. 255
  /\ running \in BOOLEAN
  /\ got \in State!Funcs \union {NoFunc}
  /\ State!TypeOK
  /\ Chunk!TypeOK

(***************************************************************************)
(* The assertions of nextCmd (ScoaStreambuf.cpp:195-204), and what makes   *)
(* its `return cmd_Copy` dead code: a Copy that does not reach the end of  *)
(* the line is followed by a Repeat or a Raw, and a Repeat is at least two *)
(* bytes long.                                                             *)
(***************************************************************************)
NextCmdAsserts ==
  Deciding =>
    /\ (got.Type = "Copy" /\ End(got) # LineSize) =>
         ~State!Empty /\ curr.Type \in {"Repeat", "Raw"}
    /\ \A f \in {got, curr} : f.Type = "Repeat" => f.Count >= 2
=============================================================================
