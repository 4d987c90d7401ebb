--------------------------- MODULE ScoaPageProofs ---------------------------
(***************************************************************************)
(* The compressor at work, for lines of every length, bytes of every       *)
(* alphabet and pages of any number of lines, as many as there may be:     *)
(* nextCmd's assertions hold, it calls the cmd_* functions as they want to *)
(* be called, a whole page has an even number of bytes, and exactly the    *)
(* first line of a page is coded without a line above it.                  *)
(*                                                                         *)
(* What ScoaStateProofs and ScoaChunkProofs prove of the two components is *)
(* used here of the instances inside the compressor.  The invariant joins  *)
(* them: the run nextCmd holds is the last one the scanner handed out, the *)
(* bytes in the buffers are those that videoSize counts, and videoSize is  *)
(* 0 only where the page begins.                                           *)
(***************************************************************************)
EXTENDS ScoaPage, SequenceTheorems, TLAPS

StateP == INSTANCE ScoaStateProofs WITH line <- currLine, prevLine <- above

ChunkP == INSTANCE ScoaChunkProofs
            WITH CopyLens <- 1 .. LineSize, RepeatLens <- 2 .. LineSize, Bytes <- Byte,
                 Raws <- UNION {[1 .. n -> Byte] : n \in 1 .. LineSize}

ByteSeq == Seq(0 .. 255)

(* No ScoaState was built yet, or the one there is is as it should be.     *)
Fresh ==
  /\ ~running /\ inNext = FALSE
  /\ index = LineSize + 2
  /\ currLine \in State!Line /\ above = NoLine
  /\ last = NoFunc /\ curr = NoFunc /\ taken = <<>>

Scanner == Fresh \/ StateP!IInv

(* A run that is no longer needed by the scanner still describes a run.    *)
LongRepeats == \A f \in {last, curr} : f.Type = "Repeat" => f.Count >= 2

Members ==
  /\ page \in Pages
  /\ raster \in Seq(State!Line)
  /\ prevLine \in State!Line \union {NoLine}
  /\ linesRemain \in 0 .. page.lines
  /\ videoSize \in Nat
  /\ buffer \in ByteSeq /\ ready \in ByteSeq
  /\ running \in BOOLEAN
  /\ sent \in Nat

(* The run nextCmd holds, and the call it has made.                        *)
Held ==
  /\ got # NoFunc => /\ running /\ Idle
                     /\ taken # <<>> /\ got = taken[Len(taken)]
  /\ ~Idle => running /\ ChunkP!ValidCall(job)

(* Between two calls of underflow nothing runs; in one there is a line     *)
(* left, a scanner for it, and nothing the reader could take.              *)
Turns ==
  /\ ~running => ~inNext
  /\ running => linesRemain > 0 /\ ready = <<>> /\ StateP!IInv
  /\ closed => AtEnd

(* videoSize counts what was handed out and what lies in the buffers, up   *)
(* to the end of the last line, which it does not count.                   *)
Counting ==
  /\ linesRemain > 0 => videoSize = sent + Len(IF running THEN buffer ELSE ready)
  /\ linesRemain = 0 => (sent + Len(ready)) % 2 = 0

(* videoSize = 0 as the mark of the first line: during the line it stays 0 *)
(* no longer than until the first call has returned.                       *)
Marked ==
  /\ ~running => (videoSize = 0 <=> linesRemain = page.lines)
  /\ running /\ videoSize = 0 => taken = <<>> \/ got # NoFunc \/ ~Idle
  /\ linesRemain # page.lines => prevLine \in State!Line

IInv == /\ Members /\ Scanner /\ LongRepeats /\ Held /\ Turns /\ Counting /\ Marked
        /\ FirstLineAlone
-----------------------------------------------------------------------------
(* The instances inside the compressor are those that the proofs are about.*)
LEMMA SameNextFunc ==
  \A p, ln, i, f : State!NextFunc(p, ln, i, f) = StateP!NextFunc(p, ln, i, f)
  BY DEF State!NextFunc, State!Repeats, State!Copies, State!TakenBack, State!Resized,
         State!NoFunc, State!Func, State!NoLine,
         StateP!NextFunc, StateP!Repeats, StateP!Copies, StateP!TakenBack, StateP!Resized,
         StateP!NoFunc, StateP!Func, StateP!NoLine

LEMMA SameScanner ==
  /\ State!Scan <=> StateP!Scan
  /\ State!Get <=> StateP!Get
  /\ State!Empty <=> StateP!Empty
  /\ State!Line = StateP!Line
  /\ State!Funcs = StateP!Funcs
  /\ State!NoFunc = NoFunc /\ State!NoLine = NoLine
  /\ NoFunc = StateP!NoFunc /\ NoLine = StateP!NoLine
<1>1. /\ State!NoFunc = StateP!NoFunc /\ NoFunc = StateP!NoFunc
      /\ State!NoLine = StateP!NoLine /\ NoLine = StateP!NoLine
  BY DEF State!NoFunc, State!NoLine, StateP!NoFunc, State!Func, StateP!Func, NoFunc, Func, NoLine,
         StateP!NoLine
<1>2. State!ScanByte <=> StateP!ScanByte
  BY <1>1, SameNextFunc, Zenon DEF State!ScanByte, StateP!ScanByte
<1>3. State!FlushLast <=> StateP!FlushLast
  BY Zenon DEF State!FlushLast, StateP!FlushLast
<1>4. State!Scan <=> StateP!Scan
  BY <1>2, <1>3, Zenon DEF State!Scan, StateP!Scan
<1>5. State!Get <=> StateP!Get
  BY Zenon DEF State!Get, StateP!Get, State!Empty, StateP!Empty
<1> QED
  BY <1>1, <1>4, <1>5, Zenon
     DEF State!Empty, StateP!Empty, State!Line, StateP!Line, State!Column, StateP!Column,
         State!Funcs, StateP!Funcs, State!FuncTypes, StateP!FuncTypes

LEMMA SameChunk == Chunk!Chunk <=> ChunkP!Chunk
  BY DEF Chunk!CopyLoop, ChunkP!CopyLoop, Chunk!RawLoop, ChunkP!RawLoop,
         Chunk!RawTail, ChunkP!RawTail, Chunk!RepeatLoop, ChunkP!RepeatLoop,
         Chunk!RepeatTail, ChunkP!RepeatTail, Chunk!RepeatXLoop,
         ChunkP!RepeatXLoop, Chunk!LongRepeat, ChunkP!LongRepeat,
         Chunk!RepeatWithRaw, ChunkP!RepeatWithRaw, Chunk!RepeatLeftover,
         ChunkP!RepeatLeftover, Chunk!RawAfterRepeat, ChunkP!RawAfterRepeat,
         Chunk!Chunk, ChunkP!Chunk, Chunk!Command, ChunkP!Command,
         Chunk!Head8, ChunkP!Head8, Chunk!Extend, ChunkP!Extend,
         Chunk!CopyLong, ChunkP!CopyLong, Chunk!CopyThenRaw,
         ChunkP!CopyThenRaw, Chunk!CopyThenRawLong, ChunkP!CopyThenRawLong,
         Chunk!CopyThenRepeat, ChunkP!CopyThenRepeat,
         Chunk!CopyThenRepeatLong, ChunkP!CopyThenRepeatLong,
         Chunk!RepeatThenRaw, ChunkP!RepeatThenRaw, Chunk!RepeatThenRawLong,
         ChunkP!RepeatThenRawLong, Chunk!RepeatX, ChunkP!RepeatX,
         Chunk!RepeatXLong, ChunkP!RepeatXLong, Chunk!RepeatXByte,
         ChunkP!RepeatXByte, Chunk!Job, ChunkP!Job, Chunk!NoJob, ChunkP!NoJob,
         Chunk!CopyThenRawJob, ChunkP!CopyThenRawJob, Chunk!WriteRawJob,
         ChunkP!WriteRawJob, Chunk!CopyThenRepeatJob,
         ChunkP!CopyThenRepeatJob, Chunk!RepeatThenRawJob,
         ChunkP!RepeatThenRawJob, Chunk!RepeatJob, ChunkP!RepeatJob,
         Chunk!Piece, ChunkP!Piece, Chunk!CopyPiece, ChunkP!CopyPiece,
         Chunk!First, ChunkP!First, Chunk!Rest, ChunkP!Rest, Chunk!Left,
         ChunkP!Left, Chunk!Emit, ChunkP!Emit, Chunk!Running, ChunkP!Running

LEMMA SameCall == Chunk!Call <=> ChunkP!Call
  BY DEF Chunk!Call, ChunkP!Call, Chunk!NoCmd, ChunkP!NoCmd, Chunk!NOP,
         ChunkP!NOP, Chunk!Command, ChunkP!Command, Chunk!RepeatXByte,
         ChunkP!RepeatXByte, Chunk!Job, ChunkP!Job, Chunk!NoJob, ChunkP!NoJob,
         Chunk!CopyThenRawJob, ChunkP!CopyThenRawJob, Chunk!WriteRawJob,
         ChunkP!WriteRawJob, Chunk!CopyThenRepeatJob,
         ChunkP!CopyThenRepeatJob, Chunk!RepeatThenRawJob,
         ChunkP!RepeatThenRawJob, Chunk!RepeatJob, ChunkP!RepeatJob

LEMMA SameNoJob == Chunk!NoJob = ChunkP!NoJob
  BY DEF Chunk!NoJob, ChunkP!NoJob, Chunk!Job, ChunkP!Job

(* The scanner inside the compressor, built over a line ...                *)
LEMMA ScannerBuilt ==
  ASSUME NEW ln \in State!Line, NEW ab \in State!Line \union {NoLine},
         State!Constructed(ln, ab)
  PROVE  StateP!IInv' /\ ~Fresh'
<1>1. /\ currLine' = ln /\ above' = ab /\ index' = 0 /\ last' = NoFunc
      /\ curr' = NoFunc /\ inNext' = TRUE /\ taken' = <<>>
  BY SameScanner DEF State!Constructed
<1>2. ln \in StateP!Line /\ ab \in StateP!Line \union {StateP!NoLine}
      /\ NoFunc = StateP!NoFunc
  BY SameScanner
<1> QED
  BY <1>1, <1>2, EmptySeq
     DEF StateP!IInv, StateP!Starting, StateP!Chained, Fresh, StateP!Line, StateP!Column

(* ... and at work.                                                        *)
LEMMA ScannerScans == StateP!IInv /\ State!Scan => StateP!IInv'
  BY SameScanner, LineSizeAssumption, StateP!ScanByteInv, StateP!FlushLastInv
     DEF StateP!Scan

LEMMA ScannerGets == StateP!IInv /\ State!Get => StateP!IInv'
  BY SameScanner, LineSizeAssumption, StateP!GetInv

LEMMA ScannerWaits ==
  ASSUME StateP!IInv, UNCHANGED stateVars
  PROVE  StateP!IInv'
  BY DEF stateVars, StateP!IInv, StateP!Starting, StateP!Scanning, StateP!Ahead,
         StateP!LastReady, StateP!LastTaken, StateP!Finished, StateP!Growing,
         StateP!AfterTaken, StateP!Chained, StateP!TrueOfLine, StateP!RawPart,
         StateP!Incompressible

(* What the invariant of the scanner says between two of its steps: the    *)
(* run to be taken follows the last one taken, or all of the line is taken.*)
LEMMA BetweenScans ==
  ASSUME StateP!IInv, ~inNext
  PROVE  \/ /\ ~State!Empty
            /\ curr \in State!Funcs /\ End(curr) <= LineSize
            /\ curr.Type = "Repeat" => curr.Count >= 2
            /\ \A f : taken # <<>> /\ f = taken[Len(taken)] =>
                 /\ curr.Index = End(f)
                 /\ curr.Type \in {"Copy", "Raw"} => f.Type # curr.Type
         \/ /\ State!Empty
            /\ taken # <<>> /\ End(taken[Len(taken)]) = LineSize
<1>0. /\ State!Empty <=> StateP!Empty
      /\ State!Funcs = StateP!Funcs
      /\ \A f : StateP!End(f) = End(f)
  BY SameScanner DEF End, StateP!End
<1>1. CASE StateP!Ahead
  <2>1. /\ index \in 1 .. LineSize
        /\ curr \in StateP!Funcs /\ StateP!TrueOfLine(curr) /\ StateP!AfterTaken(curr)
        /\ last \in StateP!Funcs /\ StateP!Follows(curr, last)
    BY <1>1 DEF StateP!Ahead, StateP!Finished, StateP!Growing
  <2> QED
    BY <1>0, <2>1, LineSizeAssumption
       DEF StateP!Empty, StateP!TrueOfLine, StateP!AfterTaken, StateP!Follows,
           StateP!Funcs, StateP!Column
<1>2. CASE StateP!LastReady
  <2>1. /\ index = LineSize + 1
        /\ curr \in StateP!Funcs /\ StateP!TrueOfLine(curr) /\ StateP!AfterTaken(curr)
        /\ StateP!End(curr) = LineSize
    BY <1>2 DEF StateP!LastReady, StateP!Finished
  <2> QED
    BY <1>0, <2>1, LineSizeAssumption
       DEF StateP!Empty, StateP!TrueOfLine, StateP!AfterTaken, StateP!Follows
<1>3. CASE StateP!LastTaken
  BY <1>0, <1>3, LineSizeAssumption DEF StateP!LastTaken, StateP!Empty
<1> QED
  BY <1>1, <1>2, <1>3 DEF StateP!IInv, StateP!Starting, StateP!Scanning

(* Every run taken lies within the line.                                   *)
LEMMA TakenRuns ==
  ASSUME StateP!IInv, taken # <<>>, NEW f, f = taken[Len(taken)]
  PROVE  /\ f \in State!Funcs
         /\ f.Type = "Repeat" => f.Count >= 2
         /\ ~inNext => End(f) <= LineSize
<1>1. f \in StateP!Funcs /\ StateP!TrueOfLine(f)
  <2>1. Len(taken) \in 1 .. Len(taken)
    BY EmptySeq DEF StateP!IInv
  <2> QED
    BY <2>1 DEF StateP!IInv, StateP!Finished
<1>2. f.Type = "Repeat" => f.Count >= 2
  BY <1>1, SameScanner DEF StateP!TrueOfLine
<1>3. ASSUME ~inNext PROVE End(f) <= LineSize
  <2>1. CASE ~State!Empty
    <3>1. curr.Index = End(f) /\ curr \in State!Funcs
      BY <1>3, <2>1, BetweenScans
    <3> QED
      BY <3>1, LineSizeAssumption DEF State!Funcs, State!Column
  <2>2. CASE State!Empty
    <3>1. End(f) = LineSize
      BY <1>3, <2>2, BetweenScans
    <3> QED
      BY <3>1, LineSizeAssumption
  <2> QED
    BY <2>1, <2>2
<1> QED
  BY <1>1, <1>2, <1>3, SameScanner
-----------------------------------------------------------------------------
(* What ScoaChunk assumes of its constants holds of the compressor's.      *)
LEMMA ChunkConstants ==
  /\ 1 .. LineSize \subseteq Nat \ {0}
  /\ 2 .. LineSize \subseteq Nat \ {0, 1}
  /\ Byte \subseteq 0 .. 255
  /\ \A raw \in UNION {[1 .. n -> Byte] : n \in 1 .. LineSize} :
       raw \in Seq(0 .. 255) /\ raw # <<>>
<1>1. ASSUME NEW n \in 1 .. LineSize, NEW raw \in [1 .. n -> Byte]
      PROVE  raw \in Seq(0 .. 255) /\ raw # <<>>
  <2>1. n \in Nat /\ n >= 1
    BY LineSizeAssumption
  <2> DEFINE B == 0 .. 255
  <2>2. raw \in [1 .. n -> B]
    BY ByteAssumption
  <2> HIDE DEF B
  <2>3. raw \in Seq(B)
    BY <2>1, <2>2, SeqDef
  <2>4. DOMAIN raw = 1 .. n
    OBVIOUS
  <2>5. Len(raw) = n
    BY <2>1, <2>3, <2>4, LenProperties
  <2> QED
    BY <2>1, <2>3, <2>5 DEF B
<1> QED
  BY <1>1, LineSizeAssumption, ByteAssumption

LEMMA CallMade ==
  ASSUME Chunk!Call
  PROVE  ChunkP!ValidCall(job') /\ job' # Chunk!NoJob
<1>1. ChunkP!ValidCall(job')
  BY SameCall, ChunkConstants, ChunkP!CallIsValid
<1> QED
  BY <1>1 DEF ChunkP!ValidCall, ChunkP!Calls, ChunkP!Kinds, Chunk!NoJob, Chunk!Job

LEMMA CommandMade ==
  ASSUME ChunkP!ValidCall(job), Chunk!Chunk
  PROVE  /\ job' = Chunk!NoJob \/ ChunkP!ValidCall(job')
         /\ cmd'.bytes \in ByteSeq
         /\ cmd'.vsize = Len(cmd'.bytes)
         /\ cmd'.vsize \in Nat \ {0}
<1>1. ChunkP!Good(job, cmd', job')
  BY SameChunk, ChunkConstants, ChunkP!ChunkGood
<1>2. ChunkP!Counted(cmd')
  BY SameChunk, ChunkConstants, ChunkP!ChunkCounted
<1> QED
  BY <1>1, <1>2, SameNoJob DEF ChunkP!Good, ChunkP!Counted, ByteSeq

LEMMA ChunkNeedsCall == Chunk!Chunk => ~Idle
  BY SameChunk, SameNoJob, ChunkConstants, ChunkP!ChunkNeedsCall DEF Idle
-----------------------------------------------------------------------------
LEMMA LineIsNotNoLine == \A ln \in State!Line : ln # NoLine
<1>1. 0 \in State!Column /\ 0 \notin DOMAIN NoLine
  BY LineSizeAssumption DEF State!Column, NoLine
<1> QED
  BY <1>1 DEF State!Line

(* A repeat in the scanner is one of two bytes or more from its beginning. *)
LEMMA RepeatsStayLong ==
  ASSUME StateP!IInv, State!Scan, LongRepeats
  PROVE  LongRepeats'
<1>1. StateP!IInv'
  BY ScannerScans
<1>2. CASE StateP!FlushLast
  BY <1>2 DEF StateP!FlushLast, LongRepeats
<1>3. CASE StateP!ScanByte
  <2>0. /\ index < LineSize /\ index' = index + 1
        /\ curr' = curr \/ inNext' = FALSE
    BY <1>3, Zenon DEF StateP!ScanByte
  <2>1. index' \in 1 .. LineSize /\ (curr' = curr \/ ~inNext')
    BY <2>0, LineSizeAssumption
       DEF StateP!IInv, StateP!Starting, StateP!Scanning, StateP!Ahead,
           StateP!LastReady, StateP!LastTaken
  <2>2. StateP!Scanning' \/ StateP!Ahead'
    BY <1>1, <2>1, LineSizeAssumption
       DEF StateP!IInv, StateP!Starting, StateP!LastReady, StateP!LastTaken
  <2>3. last'.Type = "Repeat" => last'.Count >= 2
    BY <2>2 DEF StateP!Scanning, StateP!Ahead, StateP!Growing, StateP!TrueOfLine
  <2>4. ~inNext' => (curr'.Type = "Repeat" => curr'.Count >= 2)
    BY <2>2 DEF StateP!Scanning, StateP!Ahead, StateP!Finished, StateP!TrueOfLine
  <2> QED
    BY <2>1, <2>3, <2>4 DEF LongRepeats
<1> QED
  BY <1>2, <1>3, SameScanner DEF StateP!Scan

LEMMA InitInv == Init => IInv
<1> SUFFICES ASSUME Init PROVE IInv
  OBVIOUS
<1>1. /\ page \in Pages /\ raster = page.raster /\ linesRemain = page.lines
      /\ videoSize = 0 /\ sent = 0 /\ buffer = <<>> /\ ready = <<>> /\ ~running
      /\ got = NoFunc /\ prevLine = NoLine /\ above = NoLine /\ index = LineSize + 2
      /\ last = NoFunc /\ curr = NoFunc /\ inNext = FALSE /\ taken = <<>>
      /\ job = Chunk!NoJob /\ closed = FALSE /\ running \in BOOLEAN
      /\ currLine = [i \in 0 .. LineSize - 1 |-> CHOOSE b \in Byte : TRUE]
  BY DEF Init, ScoaInit, DecoderInit
<1>2. raster \in Seq(State!Line) /\ linesRemain \in Nat \ {0}
  BY <1>1, PageAssumption DEF State!Line, State!Column
<1>3. Members
  BY <1>1, <1>2, EmptySeq DEF Members, ByteSeq
<1>4. Scanner
  <2>1. (CHOOSE b \in Byte : TRUE) \in Byte
    BY ByteAssumption
  <2>2. currLine \in State!Line
    BY <1>1, <2>1 DEF State!Line, State!Column
  <2> QED
    BY <1>1, <2>2 DEF Scanner, Fresh
<1>5. LongRepeats
  BY <1>1 DEF LongRepeats, NoFunc, Func
<1> QED
  BY <1>1, <1>2, <1>3, <1>4, <1>5
     DEF IInv, Held, Idle, Turns, Counting, Marked, FirstLineAlone

(* A line begins: the first is the only one that has no line above it.     *)
LEMMA ReadLineInv == IInv /\ ReadLine /\ UNCHANGED <<decoderVars, page, sent>> => IInv'
<1> SUFFICES ASSUME IInv, ReadLine, UNCHANGED <<decoderVars, page, sent>> PROVE IInv'
  OBVIOUS
<1> DEFINE ab == IF videoSize = 0 THEN NoLine ELSE prevLine
<1>1. /\ ~running /\ ready = <<>> /\ linesRemain > 0 /\ raster # <<>>
      /\ raster' = Tail(raster) /\ buffer' = <<>> /\ running' = TRUE
      /\ State!Constructed(Head(raster), ab)
      /\ UNCHANGED <<prevLine, linesRemain, videoSize, ready, got, job, cmd, page, sent,
                     closed>>
  BY DEF ReadLine, decoderVars
<1>2. Head(raster) \in State!Line /\ Tail(raster) \in Seq(State!Line)
  BY <1>1 DEF IInv, Members
<1>3. /\ ab \in State!Line \union {NoLine}
      /\ ab = NoLine <=> linesRemain = page.lines
  BY <1>1, LineIsNotNoLine DEF IInv, Members, Marked
<1>4. StateP!IInv' /\ above' = ab /\ taken' = <<>> /\ last' = NoFunc /\ curr' = NoFunc
  BY <1>1, <1>2, <1>3, ScannerBuilt, SameScanner DEF State!Constructed
<1> HIDE DEF ab
<1>5. Members'
  BY <1>1, <1>2, EmptySeq DEF IInv, Members, ByteSeq
<1>6. LongRepeats'
  BY <1>4 DEF LongRepeats, NoFunc, Func
<1>7. Held' /\ Scanner'
  BY <1>1, <1>4 DEF IInv, Held, Idle, Scanner
<1>8. Turns'
  BY <1>1, <1>4 DEF IInv, Turns, AtEnd
<1>9. Counting' /\ Marked' /\ FirstLineAlone'
  BY <1>1, <1>3, <1>4 DEF IInv, Counting, Marked, FirstLineAlone
<1> QED
  BY <1>5, <1>6, <1>7, <1>8, <1>9 DEF IInv

(* The scanner moves on, the rest of the compressor waits.                 *)
LEMMA ScanLineInv == IInv /\ ScanLine /\ UNCHANGED <<decoderVars, page, sent>> => IInv'
<1> SUFFICES ASSUME IInv, ScanLine, UNCHANGED <<decoderVars, page, sent>> PROVE IInv'
  OBVIOUS
<1>1. /\ State!Scan
      /\ UNCHANGED <<raster, prevLine, linesRemain, videoSize, buffer, ready, running,
                     got, job, cmd, page, sent, closed>>
  BY DEF ScanLine, pageVars, chunkVars, decoderVars
<1>2. inNext /\ UNCHANGED <<currLine, above, taken>>
  BY <1>1 DEF State!Scan, State!ScanByte, State!FlushLast
<1>3. running /\ StateP!IInv
  BY <1>2 DEF IInv, Turns
<1>4. StateP!IInv' /\ LongRepeats'
  BY <1>1, <1>3, ScannerScans, RepeatsStayLong DEF IInv
<1>5. Members' /\ Scanner' /\ Held'
  BY <1>1, <1>2, <1>3, <1>4 DEF IInv, Members, Scanner, Held, Idle
<1>6. Turns' /\ Counting' /\ Marked' /\ FirstLineAlone'
  BY <1>1, <1>2, <1>3, <1>4 DEF IInv, Turns, AtEnd, Counting, Marked, FirstLineAlone, Idle
<1> QED
  BY <1>4, <1>5, <1>6 DEF IInv

(* nextCmd takes its first run.                                            *)
LEMMA TakeRunInv == IInv /\ TakeRun /\ UNCHANGED <<decoderVars, page, sent>> => IInv'
<1> SUFFICES ASSUME IInv, TakeRun, UNCHANGED <<decoderVars, page, sent>> PROVE IInv'
  OBVIOUS
<1>1. /\ State!Get /\ running /\ Idle /\ got' = curr
      /\ UNCHANGED <<raster, prevLine, linesRemain, videoSize, buffer, ready, running,
                     job, cmd, page, sent, closed>>
  BY DEF TakeRun, chunkVars, decoderVars
<1>2. /\ ~inNext /\ ~State!Empty /\ taken' = Append(taken, curr)
      /\ UNCHANGED <<currLine, above, index, last, curr>>
  BY <1>1 DEF State!Get
<1>3. StateP!IInv /\ StateP!IInv'
  BY <1>1, ScannerGets DEF IInv, Turns
<1>4. curr \in State!Funcs /\ curr # NoFunc
  BY <1>2, <1>3, BetweenScans DEF State!Funcs, State!FuncTypes, NoFunc, Func
<1>5. taken' # <<>> /\ got' = taken'[Len(taken')]
  <2>1. taken \in Seq(State!Funcs)
    BY <1>3, SameScanner DEF StateP!IInv
  <2> QED
    BY <1>1, <1>2, <1>4, <2>1, AppendProperties, EmptySeq
<1>6. Members' /\ Scanner' /\ LongRepeats' /\ Held'
  BY <1>1, <1>2, <1>3, <1>5 DEF IInv, Members, Scanner, LongRepeats, Held, Idle
<1>7. Turns' /\ Counting' /\ Marked' /\ FirstLineAlone'
  BY <1>1, <1>2, <1>3, <1>4 DEF IInv, Turns, AtEnd, Counting, Marked, FirstLineAlone
<1> QED
  BY <1>6, <1>7 DEF IInv

(* What the commands add to the buffer, videoSize counts.                  *)
LEMMA BufferGrows ==
  ASSUME IInv, running, running', NEW bytes \in ByteSeq,
         buffer' = buffer \o bytes, videoSize' = videoSize + Len(bytes),
         UNCHANGED <<linesRemain, ready, sent>>
  PROVE  /\ buffer' \in ByteSeq /\ videoSize' \in Nat
         /\ bytes # <<>> => videoSize' > 0
         /\ Counting'
<1>1. buffer \in ByteSeq /\ videoSize \in Nat /\ sent \in Nat
  BY DEF IInv, Members
<1>2. /\ buffer' \in ByteSeq /\ Len(buffer') = Len(buffer) + Len(bytes)
      /\ Len(buffer) \in Nat /\ Len(bytes) \in Nat
      /\ bytes # <<>> => Len(bytes) > 0
  BY <1>1, EmptySeq, ConcatProperties DEF ByteSeq
<1>3. videoSize = sent + Len(buffer) /\ linesRemain > 0
  BY DEF IInv, Counting, Turns
<1>4. videoSize' = sent' + Len(buffer') /\ linesRemain' > 0
  BY <1>1, <1>2, <1>3
<1>5. Counting'
  BY <1>3, <1>4 DEF Counting
<1>6. videoSize' \in Nat /\ (bytes # <<>> => videoSize' > 0)
  BY <1>1, <1>2
<1> QED
  BY <1>2, <1>5, <1>6

LEMMA CopyToEndInv == IInv /\ CopyToEnd /\ UNCHANGED <<decoderVars, page, sent>> => IInv'
<1> SUFFICES ASSUME IInv, CopyToEnd, UNCHANGED <<decoderVars, page, sent>> PROVE IInv'
  OBVIOUS
<1> DEFINE bytes == Chunk!EOL.bytes
<1>1. /\ running /\ got' = NoFunc /\ got # NoFunc
      /\ buffer' = buffer \o bytes /\ videoSize' = videoSize + 1
      /\ UNCHANGED <<raster, prevLine, linesRemain, ready, running, job, cmd, page, sent,
                     closed, currLine, above, index, last, curr, inNext, taken>>
  BY DEF CopyToEnd, Deciding, chunkVars, stateVars, decoderVars, Chunk!EOL, Chunk!Command
<1>0. StateP!IInv /\ StateP!IInv'
  BY <1>1, ScannerWaits DEF IInv, Turns, stateVars
<1>2. bytes \in ByteSeq /\ Len(bytes) = 1 /\ bytes # <<>>
  BY DEF Chunk!EOL, Chunk!Command, ByteSeq
<1> HIDE DEF bytes
<1>3. buffer' \in ByteSeq /\ videoSize' \in Nat /\ videoSize' > 0 /\ Counting'
  BY <1>1, <1>2, BufferGrows
<1>4. Members' /\ Scanner' /\ LongRepeats' /\ Held'
  BY <1>0, <1>1, <1>3 DEF IInv, Members, Scanner, LongRepeats, Held, Idle
<1>5. Turns' /\ Marked' /\ FirstLineAlone'
  BY <1>0, <1>1, <1>3 DEF IInv, Turns, AtEnd, Marked, FirstLineAlone
<1> QED
  BY <1>3, <1>4, <1>5 DEF IInv

(* The cmd_* function emits a command.                                     *)
LEMMA EmitCommandInv ==
  IInv /\ EmitCommand /\ UNCHANGED <<decoderVars, page, sent>> => IInv'
<1> SUFFICES ASSUME IInv, EmitCommand, UNCHANGED <<decoderVars, page, sent>> PROVE IInv'
  OBVIOUS
<1> DEFINE bytes == cmd'.bytes
<1>1. /\ Chunk!Chunk
      /\ buffer' = buffer \o bytes /\ videoSize' = videoSize + cmd'.vsize
      /\ UNCHANGED <<raster, prevLine, linesRemain, ready, running, got, page, sent,
                     closed, currLine, above, index, last, curr, inNext, taken>>
  BY DEF EmitCommand, stateVars, decoderVars
<1>2. ~Idle /\ running /\ got = NoFunc /\ ChunkP!ValidCall(job)
  BY <1>1, ChunkNeedsCall DEF IInv, Held
<1>3. StateP!IInv /\ StateP!IInv'
  BY <1>1, <1>2, ScannerWaits DEF IInv, Turns, stateVars
<1>4. /\ job' = Chunk!NoJob \/ ChunkP!ValidCall(job')
      /\ bytes \in ByteSeq /\ cmd'.vsize = Len(bytes) /\ Len(bytes) \in Nat \ {0}
  BY <1>1, <1>2, CommandMade
<1> HIDE DEF bytes
<1>5. buffer' \in ByteSeq /\ videoSize' \in Nat /\ videoSize' > 0 /\ Counting'
  BY <1>1, <1>2, <1>4, BufferGrows DEF ByteSeq
<1>6. Members' /\ Scanner' /\ LongRepeats' /\ Held'
  BY <1>1, <1>2, <1>3, <1>4, <1>5 DEF IInv, Members, Scanner, LongRepeats, Held, Idle
<1>7. Turns' /\ Marked' /\ FirstLineAlone'
  BY <1>1, <1>2, <1>3, <1>5 DEF IInv, Turns, AtEnd, Marked, FirstLineAlone
<1> QED
  BY <1>5, <1>6, <1>7 DEF IInv

(* The page's last line is followed by what makes its size even.           *)
LEMMA EvenEnd ==
  ASSUME linesRemain = 1, videoSize \in Nat
  PROVE  PageEnd \in ByteSeq /\ (videoSize + Len(PageEnd)) % 2 = 0
<1>1. CASE (videoSize + 1) % 2 # 0
  <2>1. PageEnd = <<64>> \o <<66>>
    BY <1>1 DEF PageEnd, Chunk!NOP, Chunk!EOP, Chunk!Command
  <2>2. /\ <<64>> \in ByteSeq /\ Len(<<64>>) = 1
        /\ <<66>> \in ByteSeq /\ Len(<<66>>) = 1
    BY DEF ByteSeq
  <2>3. PageEnd \in ByteSeq /\ Len(PageEnd) = 2
    BY <2>1, <2>2, ConcatProperties DEF ByteSeq
  <2> QED
    BY <1>1, <2>3
<1>2. CASE (videoSize + 1) % 2 = 0
  <2>1. PageEnd = <<66>>
    BY <1>2 DEF PageEnd, Chunk!NOP, Chunk!EOP, Chunk!Command
  <2> QED
    BY <1>2, <2>1 DEF ByteSeq
<1> QED
  BY <1>1, <1>2

LEMMA EndLineInv == IInv /\ EndLine /\ UNCHANGED <<decoderVars, page, sent>> => IInv'
<1> SUFFICES ASSUME IInv, EndLine, UNCHANGED <<decoderVars, page, sent>> PROVE IInv'
  OBVIOUS
<1>1. /\ running /\ Idle /\ got = NoFunc /\ ~inNext /\ State!Empty
      /\ prevLine' = currLine /\ linesRemain' = linesRemain - 1
      /\ buffer' = buffer \o PageEnd /\ ready' = buffer' /\ ~running' /\ running' \in BOOLEAN
      /\ UNCHANGED <<raster, videoSize, got, job, cmd, page, sent,
                     closed, currLine, above, index, last, curr, inNext, taken>>
  BY DEF EndLine, stateVars, chunkVars, decoderVars
<1>2. StateP!IInv /\ StateP!IInv'
  BY <1>1, ScannerWaits DEF IInv, Turns, stateVars
<1>3. taken # <<>> /\ currLine \in State!Line
  BY <1>1, <1>2, BetweenScans, SameScanner DEF StateP!IInv
<1>4. /\ linesRemain \in Nat /\ linesRemain > 0 /\ linesRemain <= page.lines /\ page.lines \in Nat
      /\ videoSize \in Nat /\ sent \in Nat /\ buffer \in ByteSeq
      /\ videoSize > 0 /\ videoSize = sent + Len(buffer)
  BY <1>1, <1>3, PageAssumption DEF IInv, Members, Turns, Marked, Counting
<1>5. PageEnd \in ByteSeq /\ (linesRemain # 1 => PageEnd = <<>>)
  BY <1>4, EvenEnd, EmptySeq DEF PageEnd, ByteSeq
<1>6. ready' \in ByteSeq /\ buffer' \in ByteSeq /\ Len(ready') = Len(buffer) + Len(PageEnd)
      /\ Len(buffer) \in Nat /\ Len(PageEnd) \in Nat
  BY <1>1, <1>4, <1>5, ConcatProperties DEF ByteSeq
<1>7. Members' /\ Scanner' /\ LongRepeats' /\ Held'
  BY <1>1, <1>2, <1>3, <1>4, <1>6 DEF IInv, Members, Scanner, LongRepeats, Held, Idle
<1>8. Turns' /\ Marked' /\ FirstLineAlone'
  BY <1>1, <1>3, <1>4 DEF IInv, Turns, AtEnd, Marked, FirstLineAlone
<1>9. Counting'
  <2>1. CASE linesRemain = 1
    BY <1>1, <1>4, <1>6, <2>1, EvenEnd DEF Counting
  <2>2. CASE linesRemain # 1
    <3>1. Len(ready') = Len(buffer)
      BY <1>4, <1>5, <1>6, <2>2, EmptySeq
    <3> QED
      BY <1>1, <1>4, <2>2, <3>1 DEF Counting
  <2> QED
    BY <2>1, <2>2
<1> QED
  BY <1>7, <1>8, <1>9 DEF IInv

(* nextCmd calls a cmd_* function as ScoaChunk lets itself be called: a    *)
(* run is at least one byte long, a repeat at least two, and a payload is  *)
(* bytes of the line.                                                      *)
LEMMA PayloadOfRun ==
  ASSUME NEW f \in State!Funcs, End(f) <= LineSize, currLine \in State!Line
  PROVE  /\ Payload(f, currLine) \in UNION {[1 .. n -> Byte] : n \in 1 .. LineSize}
         /\ currLine[f.Index] \in Byte
         /\ f.Count \in 1 .. LineSize
<1>1. f.Index \in State!Column /\ f.Count \in 1 .. LineSize /\ f.Index + f.Count <= LineSize
  BY DEF State!Funcs, End
<1>2. \A k \in 1 .. f.Count : currLine[f.Index + k - 1] \in Byte
  BY <1>1, LineSizeAssumption DEF State!Line, State!Column
<1>3. Payload(f, currLine) \in [1 .. f.Count -> Byte]
  BY <1>2 DEF Payload
<1> QED
  BY <1>1, <1>3 DEF State!Line

LEMMA TakeSecondRunIsCall ==
  ASSUME IInv, TakeSecondRun
  PROVE  Chunk!Call
<1>1. /\ running /\ got # NoFunc /\ ~inNext /\ ~State!Empty /\ Pairs(got, curr)
      /\ cmd' = Chunk!NoCmd
  BY DEF TakeSecondRun, Deciding
<1>2. StateP!IInv /\ Idle /\ taken # <<>> /\ got = taken[Len(taken)]
  BY <1>1 DEF IInv, Turns, Held
<1>3. currLine \in State!Line
  BY <1>2, SameScanner DEF StateP!IInv
<1>4. /\ got \in State!Funcs /\ End(got) <= LineSize
      /\ got.Type = "Repeat" => got.Count >= 2
  BY <1>1, <1>2, TakenRuns
<1>5. /\ curr \in State!Funcs /\ End(curr) <= LineSize
      /\ curr.Type = "Repeat" => curr.Count >= 2
  BY <1>1, <1>2, BetweenScans
<1> DEFINE Raws == UNION {[1 .. n -> Byte] : n \in 1 .. LineSize}
           raw  == Payload(curr, currLine)
<1>6. /\ raw \in Raws /\ got.Count \in 1 .. LineSize /\ curr.Count \in 1 .. LineSize
      /\ currLine[got.Index] \in Byte /\ currLine[curr.Index] \in Byte
  BY <1>3, <1>4, <1>5, PayloadOfRun
<1>7. /\ got.Type = "Repeat" => got.Count \in 2 .. LineSize
      /\ curr.Type = "Repeat" => curr.Count \in 2 .. LineSize
  BY <1>4, <1>5, <1>6
<1>8. got.Type \in {"Copy", "Repeat"}
  BY <1>1 DEF Pairs
<1> HIDE DEF Raws, raw
<1>9. CASE got.Type = "Repeat"
  <2>1. job' = Chunk!RepeatThenRawJob(got.Count, currLine[got.Index], raw)
    BY <1>9 DEF TakeSecondRun, Cut, raw
  <2> QED
    BY <1>1, <1>2, <1>6, <1>7, <1>9, <2>1 DEF Chunk!Call, Idle, Raws
<1>10. CASE got.Type = "Copy" /\ curr.Type = "Repeat"
  <2>1. job' = Chunk!CopyThenRepeatJob(got.Count, curr.Count, currLine[curr.Index])
    BY <1>10 DEF TakeSecondRun, Cut
  <2> QED
    BY <1>1, <1>2, <1>6, <1>7, <1>10, <2>1 DEF Chunk!Call, Idle
<1>11. CASE got.Type = "Copy" /\ curr.Type # "Repeat"
  <2>1. job' = Chunk!CopyThenRawJob(got.Count, raw)
    BY <1>11 DEF TakeSecondRun, Cut, raw
  <2> QED
    BY <1>1, <1>2, <1>6, <1>11, <2>1 DEF Chunk!Call, Idle, Raws
<1> QED
  BY <1>8, <1>9, <1>10, <1>11

LEMMA SingleRunIsCall ==
  ASSUME IInv, SingleRun
  PROVE  Chunk!Call
<1>1. running /\ got # NoFunc /\ ~inNext /\ got.Type # "Copy" /\ cmd' = Chunk!NoCmd
  BY DEF SingleRun, Deciding
<1>2. StateP!IInv /\ Idle /\ taken # <<>> /\ got = taken[Len(taken)]
  BY <1>1 DEF IInv, Turns, Held
<1>3. currLine \in State!Line
  BY <1>2, SameScanner DEF StateP!IInv
<1>4. /\ got \in State!Funcs /\ End(got) <= LineSize
      /\ got.Type = "Repeat" => got.Count >= 2
  BY <1>1, <1>2, TakenRuns
<1> DEFINE Raws == UNION {[1 .. n -> Byte] : n \in 1 .. LineSize}
           raw  == Payload(got, currLine)
<1>5. raw \in Raws /\ got.Count \in 1 .. LineSize /\ currLine[got.Index] \in Byte
  BY <1>3, <1>4, PayloadOfRun
<1> HIDE DEF Raws, raw
<1>6. CASE got.Type = "Raw"
  <2>1. job' = Chunk!WriteRawJob(raw)
    BY <1>6 DEF SingleRun, Cut, raw
  <2> QED
    BY <1>1, <1>2, <1>5, <2>1 DEF Chunk!Call, Idle, Raws
<1>7. CASE got.Type = "Repeat"
  <2>1. job' = Chunk!RepeatJob(got.Count, currLine[got.Index])
    BY <1>7 DEF SingleRun, Cut
  <2>2. got.Count \in 2 .. LineSize
    BY <1>4, <1>5, <1>7
  <2> QED
    BY <1>1, <1>2, <1>5, <2>1, <2>2 DEF Chunk!Call, Idle
<1> QED
  BY <1>1, <1>4, <1>6, <1>7 DEF State!Funcs, State!FuncTypes

(* Making the call: the run that was held is part of it.                   *)
LEMMA CallInv ==
  ASSUME IInv, Chunk!Call, got # NoFunc, got' = NoFunc, StateP!IInv', LongRepeats',
         UNCHANGED <<raster, prevLine, linesRemain, videoSize, buffer, ready, running,
                     above, closed, page, sent>>
  PROVE  IInv'
<1>1. ChunkP!ValidCall(job') /\ job' # Chunk!NoJob
  BY CallMade
<1>2. running
  BY DEF IInv, Held
<1>3. Members' /\ Scanner' /\ Held'
  BY <1>1, <1>2 DEF IInv, Members, Scanner, Held, Idle
<1>4. Turns' /\ Counting' /\ Marked' /\ FirstLineAlone'
  BY <1>1, <1>2 DEF IInv, Turns, AtEnd, Counting, Marked, FirstLineAlone, Idle
<1> QED
  BY <1>3, <1>4 DEF IInv

LEMMA TakeSecondRunInv ==
  IInv /\ TakeSecondRun /\ UNCHANGED <<decoderVars, page, sent>> => IInv'
<1> SUFFICES ASSUME IInv, TakeSecondRun, UNCHANGED <<decoderVars, page, sent>>
             PROVE  IInv'
  OBVIOUS
<1>1. /\ got # NoFunc /\ got' = NoFunc /\ State!Get
      /\ UNCHANGED <<raster, prevLine, linesRemain, videoSize, buffer, ready, running,
                     closed, page, sent>>
  <2>1. Pairs(got, curr)
    BY DEF TakeSecondRun
  <2>2. got' = NoFunc
    BY <2>1, Zenon DEF TakeSecondRun, Cut, Pairs
  <2> QED
    BY <2>2, Zenon DEF TakeSecondRun, Deciding, decoderVars
<1>2. UNCHANGED <<above, last, curr>>
  BY <1>1 DEF State!Get
<1>3. StateP!IInv' /\ LongRepeats'
  BY <1>1, <1>2, ScannerGets DEF IInv, Turns, Held, LongRepeats
<1> QED
  BY <1>1, <1>2, <1>3, TakeSecondRunIsCall, CallInv

LEMMA SingleRunInv == IInv /\ SingleRun /\ UNCHANGED <<decoderVars, page, sent>> => IInv'
<1> SUFFICES ASSUME IInv, SingleRun, UNCHANGED <<decoderVars, page, sent>> PROVE IInv'
  OBVIOUS
<1>1. /\ running /\ got # NoFunc /\ got' = NoFunc
      /\ UNCHANGED <<raster, prevLine, linesRemain, videoSize, buffer, ready, running,
                     closed, page, sent>>
      /\ UNCHANGED stateVars
  BY DEF SingleRun, Deciding, Cut, decoderVars
<1>2. StateP!IInv' /\ LongRepeats' /\ above' = above
  BY <1>1, ScannerWaits DEF IInv, Turns, LongRepeats, stateVars
<1> QED
  BY <1>1, <1>2, SingleRunIsCall, CallInv
-----------------------------------------------------------------------------
(* The reader, the decoder and the next page.                              *)
LEMMA DeliverInv == IInv /\ Deliver => IInv'
<1> SUFFICES ASSUME IInv, Deliver PROVE IInv'
  OBVIOUS
<1>1. /\ ready # <<>> /\ ready' = <<>> /\ sent' = sent + Len(ready)
      /\ UNCHANGED <<raster, prevLine, linesRemain, videoSize, buffer, running, got,
                     job, cmd, closed, page>>
      /\ UNCHANGED stateVars
  BY DEF Deliver, stateVars, chunkVars
<1>2. ~running /\ ~closed
  BY <1>1 DEF IInv, Turns, AtEnd
<1>3. Scanner' /\ LongRepeats' /\ (StateP!IInv => StateP!IInv')
  BY <1>1, <1>2, ScannerWaits DEF IInv, Scanner, Fresh, LongRepeats, stateVars, State!Line
<1>4. Len(ready) \in Nat /\ sent \in Nat /\ ready' \in ByteSeq
  BY <1>1, EmptySeq DEF IInv, Members, ByteSeq
<1>5. Members' /\ Held'
  BY <1>1, <1>4 DEF IInv, Members, Held, Idle, stateVars
<1>6. Turns' /\ Marked' /\ FirstLineAlone'
  BY <1>1, <1>2 DEF IInv, Turns, AtEnd, Marked, FirstLineAlone, stateVars
<1>7. Counting'
  BY <1>1, <1>2, <1>4 DEF IInv, Counting
<1> QED
  BY <1>3, <1>5, <1>6, <1>7 DEF IInv

LEMMA CloseInv == IInv /\ Close => IInv'
<1> SUFFICES ASSUME IInv, Close PROVE IInv'
  OBVIOUS
<1>1. AtEnd /\ UNCHANGED <<scoaVars, page, sent>>
  BY DEF Close
<1>2. UNCHANGED stateVars /\ UNCHANGED pageVars /\ UNCHANGED chunkVars
  BY <1>1 DEF scoaVars
<1>3. ~running /\ Scanner' /\ LongRepeats' /\ AtEnd'
  BY <1>1, <1>2, ScannerWaits
     DEF IInv, Scanner, Fresh, LongRepeats, stateVars, pageVars, State!Line, AtEnd
<1> QED
  BY <1>1, <1>2, <1>3
     DEF IInv, Members, Held, Idle, Turns, Counting, Marked, FirstLineAlone,
         stateVars, pageVars, chunkVars

LEMMA DecodeInv == IInv /\ DecodeStep => IInv'
<1> SUFFICES ASSUME IInv, DecodeStep PROVE IInv'
  OBVIOUS
<1>1. closed' = closed /\ UNCHANGED <<scoaVars, page, sent>>
  BY DEF DecodeStep, Decode, DecodeData, DecodeEOP, DecodeError
<1>2. UNCHANGED stateVars /\ UNCHANGED pageVars /\ UNCHANGED chunkVars
  BY <1>1 DEF scoaVars
<1>3. Scanner' /\ LongRepeats' /\ (StateP!IInv => StateP!IInv') /\ (AtEnd => AtEnd')
  BY <1>1, <1>2, ScannerWaits
     DEF IInv, Scanner, Fresh, LongRepeats, stateVars, pageVars, State!Line, AtEnd
<1> QED
  BY <1>1, <1>2, <1>3
     DEF IInv, Members, Held, Idle, Turns, Counting, Marked, FirstLineAlone,
         stateVars, pageVars, chunkVars

(* Reset forgets the page before, prevLine and the scanner it leaves alone.*)
LEMMA NextPageInv == IInv /\ NextPage => IInv'
<1> SUFFICES ASSUME IInv, NextPage PROVE IInv'
  OBVIOUS
<1>1. /\ closed /\ closed' = FALSE /\ page' \in Pages /\ sent' = 0
      /\ raster' = page'.raster /\ linesRemain' = page'.lines
      /\ buffer' = <<>> /\ videoSize' = 0
      /\ UNCHANGED <<prevLine, ready, running, got, job>> /\ UNCHANGED stateVars
  BY DEF NextPage, Reset, FreshDecoder, chunkVars
<1>2. ~running /\ ready = <<>>
  BY <1>1 DEF IInv, Turns, AtEnd
<1>3. raster' \in Seq(State!Line) /\ linesRemain' \in Nat \ {0}
  BY <1>1, PageAssumption DEF State!Line, State!Column
<1>4. Scanner' /\ LongRepeats'
  BY <1>1, ScannerWaits DEF IInv, Scanner, Fresh, LongRepeats, stateVars, State!Line
<1>5. Members'
  BY <1>1, <1>2, <1>3, EmptySeq DEF IInv, Members, ByteSeq, State!Line
<1>6. Held' /\ Turns'
  BY <1>1, <1>2 DEF IInv, Held, Idle, Turns, stateVars
<1>7. Counting' /\ Marked' /\ FirstLineAlone'
  BY <1>1, <1>2, <1>3 DEF IInv, Counting, Marked, FirstLineAlone
<1> QED
  BY <1>4, <1>5, <1>6, <1>7 DEF IInv
-----------------------------------------------------------------------------
(* The compressor keeps the invariant, whatever it is given to read and    *)
(* whenever its output is taken.                                           *)
LEMMA StepInv == IInv /\ [Next]_vars => IInv'
<1>1. CASE Compress
  <2>1. Compress => Underflow /\ UNCHANGED <<decoderVars, page, sent>>
    BY DEF Compress
  <2> QED
    BY <1>1, <2>1, ReadLineInv, ScanLineInv, TakeRunInv, CopyToEndInv, TakeSecondRunInv,
       SingleRunInv, EmitCommandInv, EndLineInv DEF Underflow
<1>2. CASE UNCHANGED vars
  <2>1. UNCHANGED stateVars /\ UNCHANGED pageVars /\ UNCHANGED chunkVars
        /\ UNCHANGED <<closed, page, sent>>
    BY <1>2 DEF vars, scoaVars, decoderVars
  <2> QED
    BY <2>1, ScannerWaits
       DEF IInv, Members, Scanner, Fresh, LongRepeats, Held, Idle, Turns, AtEnd, Counting,
           Marked, FirstLineAlone, stateVars, pageVars, chunkVars, State!Line
<1> QED
  BY <1>1, <1>2, DeliverInv, CloseInv, DecodeInv, NextPageInv DEF Next

THEOREM Invariance == Spec => []IInv
  BY InitInv, StepInv, PTL DEF Spec

(* Every variable of the compressor keeps its type, its scanner and its    *)
(* cmd_* call included.                                                    *)
THEOREM TypeCorrect == Spec => []TypeOK
<1>1. IInv => TypeOK
  <2> SUFFICES ASSUME IInv PROVE TypeOK
    OBVIOUS
  <2>1. State!TypeOK
    <3>1. CASE Fresh
      <4>1. index \in 0 .. LineSize + 2
        BY <3>1, LineSizeAssumption DEF Fresh
      <4>2. taken \in Seq(State!Funcs)
        BY <3>1, EmptySeq DEF Fresh
      <4> QED
        BY <3>1, <4>1, <4>2, SameScanner DEF Fresh, State!TypeOK
    <3>2. CASE StateP!IInv
      <4>1. StateP!TypeOK
        BY <3>2, LineSizeAssumption
           DEF StateP!IInv, StateP!TypeOK, StateP!Starting, StateP!Scanning, StateP!Ahead,
               StateP!LastReady, StateP!LastTaken, StateP!Growing, StateP!Finished
      <4> QED
        BY <4>1, SameScanner DEF State!TypeOK, StateP!TypeOK
    <3> QED
      BY <3>1, <3>2 DEF IInv, Scanner
  <2>2. Chunk!TypeOK
    BY SameNoJob DEF IInv, Held, Idle, Chunk!TypeOK, Chunk!Kinds, Chunk!RepeatXByte,
       ChunkP!ValidCall, ChunkP!Calls, ChunkP!Kinds, ChunkP!RepeatXByte
  <2>3. got \in State!Funcs \union {NoFunc}
    BY TakenRuns DEF IInv, Held, Turns
  <2>4. /\ \A k \in 1 .. Len(raster) : raster[k] \in State!Line
        /\ \A k \in 1 .. Len(buffer) : buffer[k] \in 0 .. 255
    <3> DEFINE B == 0 .. 255
    <3>1. raster \in Seq(State!Line) /\ buffer \in Seq(B)
      BY DEF IInv, Members, ByteSeq
    <3> HIDE DEF B
    <3> QED
      BY <3>1, ElementOfSeq DEF B
  <2>5. linesRemain \in Nat
    BY PageAssumption DEF IInv, Members
  <2> QED
    BY <2>1, <2>2, <2>3, <2>4, <2>5 DEF IInv, Members, TypeOK
<1> QED
  BY <1>1, Invariance, PTL

(* The assertions of nextCmd hold, and its `return cmd_Copy` is dead code. *)
THEOREM NextCmdAssertsHolds == Spec => []NextCmdAsserts
<1>1. IInv => NextCmdAsserts
  <2> SUFFICES ASSUME IInv, Deciding
               PROVE  /\ (got.Type = "Copy" /\ End(got) # LineSize) =>
                           ~State!Empty /\ curr.Type \in {"Repeat", "Raw"}
                      /\ \A f \in {got, curr} : f.Type = "Repeat" => f.Count >= 2
    BY DEF NextCmdAsserts
  <2>1. /\ StateP!IInv /\ ~inNext /\ taken # <<>> /\ got = taken[Len(taken)]
    BY DEF IInv, Held, Turns, Deciding
  <2>2. ASSUME got.Type = "Copy", End(got) # LineSize
        PROVE  ~State!Empty /\ curr.Type \in {"Repeat", "Raw"}
    <3>1. ~State!Empty /\ curr \in State!Funcs /\ curr.Type # "Copy"
      BY <2>1, <2>2, BetweenScans
    <3> QED
      BY <3>1 DEF State!Funcs, State!FuncTypes
  <2>3. got.Type = "Repeat" => got.Count >= 2
    BY <2>1, TakenRuns
  <2> QED
    BY <2>2, <2>3 DEF IInv, LongRepeats
<1> QED
  BY <1>1, Invariance, PTL

(* A whole page has an even number of bytes, although nobody counts what   *)
(* is in the buffer.                                                       *)
THEOREM EvenPageHolds == Spec => []EvenPage
<1>1. IInv => EvenPage
  <2> SUFFICES ASSUME IInv, ready = <<>>, linesRemain = 0 PROVE sent % 2 = 0
    BY DEF EvenPage, AtEnd
  <2>1. Len(ready) = 0 /\ sent \in Nat /\ (sent + Len(ready)) % 2 = 0
    BY EmptySeq DEF IInv, Members, Counting
  <2> QED
    BY <2>1
<1> QED
  BY <1>1, Invariance, PTL

(* A line is coded without a line above it exactly when it is the first of *)
(* its page, whatever pages went before.                                   *)
THEOREM FirstLineAloneHolds == Spec => []FirstLineAlone
<1>1. IInv => FirstLineAlone
  BY DEF IInv
<1> QED
  BY <1>1, Invariance, PTL

(* nextCmd keeps to what the cmd_* functions are proved correct for, so    *)
(* what ScoaChunkProofs proves of them holds of every call it makes.       *)
THEOREM CallsAsAssumedHolds == Spec => CallsAsAssumed
<1>1. Init => Chunk!Init
  BY DEF Init, ScoaInit, Chunk!Init
<1>2. IInv /\ [Next]_vars => [Chunk!Next]_(Chunk!chunkVars)
  <2> SUFFICES ASSUME IInv, Next PROVE Chunk!Next \/ UNCHANGED chunkVars
    BY DEF vars, scoaVars, chunkVars, Chunk!chunkVars
  <2>1. CASE Compress
    <3>1. ReadLine \/ ScanLine \/ TakeRun \/ CopyToEnd \/ EndLine => UNCHANGED chunkVars
      BY DEF ReadLine, ScanLine, TakeRun, CopyToEnd, EndLine, chunkVars
    <3>2. TakeSecondRun \/ SingleRun => Chunk!Next
      BY TakeSecondRunIsCall, SingleRunIsCall DEF Chunk!Next
    <3>3. EmitCommand => Chunk!Next
      BY DEF EmitCommand, Chunk!Next
    <3> QED
      BY <2>1, <3>1, <3>2, <3>3 DEF Compress, Underflow
  <2>2. CASE Deliver \/ Close \/ DecodeStep \/ NextPage
    BY <2>2 DEF Deliver, Close, DecodeStep, NextPage, scoaVars
  <2> QED
    BY <2>1, <2>2 DEF Next
<1> QED
  BY <1>1, <1>2, Invariance, PTL DEF Spec, CallsAsAssumed, Chunk!Spec
=============================================================================
