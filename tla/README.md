# A TLA+ model of libcapt

libcapt speaks the Canon CAPT v1 protocol and implements its SCoA video compression.
This directory holds TLA+ modules for the parts of it that have logic of their own, TLC
configurations that check them on small instances, and proofs for TLAPS that lift the most
important results to every size: lines, alphabets, runs, payloads and pages in the compressor, pages and blocks in
`BufferedPage`, pages and crops in `CropStreambuf`, answers in the packet layer, pages, blocks and numbers of faults in the
print job. Every safety property that the runs check as an invariant is also proved.

## 1. The system

| Part | State | Operations | Talks to |
|---|---|---|---|
| `ScoaState` (Compression/ScoaState.hpp) | line, line above, index, `last`, `curr` | constructor, `Next`, `Get`, `Peek`, `Empty` | called by `nextCmd` |
| `ScoaCmd` (ScoaCmd.cpp) | none: appends to a buffer | fourteen encoders, each returns the size it wrote | called by the `cmd_*` functions |
| `cmd_*` (ScoaStreambuf.cpp 31-183) | their arguments | cut one or two runs into commands | called by `nextCmd`, call each other |
| `ScoaStreambuf` (ScoaStreambuf.cpp) | lines, buffer, get area, `linesRemain`, `videoSize` | `underflow`, `nextCmd`, `Reset` | pulls the raster, is pulled by the page's reader |
| `DecoderStreambuf` (Decoder/) | all bytes decoded, `videoSize` | `decodeNext`, `decodeLine`, `underflow` | the mirror image, used to test the compressor |
| `tests/Compression` | one compressor, a decoder per page | compress and decode pages | connect the two |
| `PacketHeader`, `StreamPacket`, `PacketReader`, `PacketBuilder` (Core/) | payload left of the packet in progress | read, discard, write packets | every `Protocol` function |
| `Protocol` (Protocol/) | none | one function per CAPT command | the printer |
| `ExtendedStatus` (Protocol/) | a snapshot of the printer | predicates on it | the print loop |
| `BasicCaptPrinter` | the stream, cached `PrinterInfo` | `ReserveUnit`, `ClearError`, `GoOnline`, `WriteVideoData`, `WaitPrintEnd`, ... | `Protocol` |
| `BufferedPage` (Utility/) | what was read of a page, get pointer | read, rewind, move | between compressor and `WriteVideoData` |
| `CropStreambuf` (Utility/) | position in line and page | read, skip margins | between raster and compressor |
| `printpbm` (examples/) | page counter, two pages, a stop flag | the print job | everything above |

Everything is sequential C++ driven by pulls; what runs concurrently is the printer, the
person next to it, and the user who may send SIGINT. Accordingly there are two kinds of
difficulty. In the compressor it is arithmetic at boundaries and state that spans calls: a
look-ahead that revises what it has already decided, counts cut at 7, 8, 248 and 255,
opcodes that share bits, a byte count kept twice, a size that doubles as the flag for "first
line". In the print job it is the printer, which changes between any two commands:
a fault between a status and the command that relies on it, a page that fails half-way, two
pages lost at once, a fault while a page is being repeated, a stop request that nobody polls.

What makes each part correct:

* scanner: the runs tile the line, each is true, none is wasteful, the line ends;
* commands: the decoder understands each of them, and the size reported is the size written;
* chunking: every command is within the bounds of the format, nothing is lost, the loops end;
* compressor and decoder together: lines come out in order, unchanged, complete; a page cut
  short ends in an error after its last whole line; a whole page has an even size;
* packets: requests and answers stay in step, whatever the answers are, and no call waits for
  bytes that do not belong to its answer;
* cropping: the reader gets the corners of the pages, all of them and nothing else;
* print job: pages come out in order, at most once, in full; what is lost is lost only in known
  ways; it ends, and SIGINT ends it.

PROJECT.json lists every part with its status, and the hazards with the lines where they bite
and the properties that watch them.

## 2. Modules

```
ScoaFunc                     runs and the rule that finds them
  ScoaState                  the scanner                       ScoaStateProofs
ScoaCmd                      the encoders
  ScoaChunk                  the cmd_* loops                   ScoaChunkProofs
ScoaDecode                   decodeNext
  ScoaCodec   = ScoaCmd + ScoaDecode: one command over the wire   ScoaCodecProofs
  ScoaDecoder                DecoderStreambuf
ScoaStreambuf                underflow and nextCmd; instances of ScoaState and ScoaChunk
  ScoaPage    = ScoaStreambuf + ScoaDecoder; implements PageTransfer   ScoaPageProofs
PageTransfer                 abstract: what compression promises
PacketStream                 requests and answers over one byte stream   PacketStreamProofs
CropStream                   CropStreambuf                     CropStreamProofs
PageView                     abstract: a cursor over a page that can be put back
  BufferedPage               BufferedPage; implements PageView  BufferedPageProofs
CaptDevice                   the printer, external
  PrintJob                   printpbm over BasicCaptPrinter; implements PrintQueue
    PrintJobProofs           order, contents of pages, what can be missing, assertions
PrintQueue                   abstract: what a print job promises
MC*                          instances for TLC
```

**ScoaState.** One action per turn of the loop in `Next` (`ScanByte`), one for the flush after
the loop (`FlushLast`), `Get`, and `Construct` for the next line. `inNext` says that the
function is running. `taken` is a history variable: the runs handed out. A line is a function
on `0 .. LineSize - 1`, `NoLine` the empty span that stands above the first line of a page.

**ScoaCmd, ScoaDecode, ScoaCodec.** A command is a record of what it means (copy count, repeat
count, raw bytes) with the bytes and the size its C++ function produces. The decoder's
header parsing is written independently, from the bytes, in the order of the branches of the code.

**ScoaChunk.** `job` holds the arguments left of the `cmd_*` call in progress. Since those
functions hand their remaining arguments to each other, the call chain is a single `job` whose
`kind` changes. One action emits one command. The `CopyShort` tails of the `cmd_*` functions and `cmd_Copy` are
not actions: `nextCmd` cannot reach them (`NextCmdAsserts`, `CallsAsAssumed`); `CopyShort`
itself is in ScoaCmd and checked with the other encoders.

**ScoaStreambuf.** `underflow` is `ReadLine` (up to the loop), `TakeRun`, `TakeSecondRun`,
`CopyToEnd`, `SingleRun` (the cases of `nextCmd`), `EmitCommand` (the `cmd_*` functions) and
`EndLine` (after the loop: swap, count, NOP and EOP, new get area). The scanner and the chunking
loops are the modules above, instantiated on this module's variables; that the loops are called
only as ScoaChunk assumes is itself checked (`CallsAsAssumed == Chunk!Spec`).

**ScoaPage.** The programs of tests/Compression: bytes go from the get area to the
wire and from there into a decoder that may be arbitrarily far behind; `NextPage` reuses the
compressor through `Reset`, with a fresh decoder.

**CaptDevice.** The printer is not in the repository, so the module states what the code relies
on and is marked external in the map. It receives one page while at most one other is in the paper path
(`GetReprintStatus` distinguishes two); a fault loses the page being received, some faults
lose the page in the path too; after a loss it is offline, rejects, and is not ready until
CLEAR_ERROR; `Printed` is the last page that came out and names no page of the job before. Faults are: jam
and paper or door (somebody must attend), misprint, lost contact with the engine, video data error, service call.

**PrintJob.** `pc` is the position in printpbm and the BasicCaptPrinter function it is in.
One action is one command to the printer with the local steps around it; between any two
the printer, the operator, a fault or SIGINT may step in. Polls that lead to another poll are
stuttering. `held` counts the blocks in the two `BufferedPage`s; `losses` is a history variable.
A failed assertion ends the program (`aborted`), as in the default build, which does not define NDEBUG.
Any command may also throw (`Throws`): a return code, an answer to another command.

**PacketStream.** A call of `Protocol` is `Begin` (write the request), `ReadOpcode`, `ReadSize`, `CheckOpcode`, one
`ReadField` for each integer, and `Discard`, the destructor that runs when the call returns or throws. The printer
(`Answer`) sends one packet for each request it got, of any opcode and size, and may hang up after any byte.
A byte is the packet it is of and its place in it, so a header that is read from the wrong place can say anything. The
length of a payload is what its header declares.

**BufferedPage.** An object is its buffer, its get pointer (counted from `eback`) and its stream; a byte is its page and its
position there. `Underflow` is the part of underflow after its first return, `Take` what the base class does with bytes that are in
the get area, `Seek` seekpos and the three directions of seekoff, `Move` move construction and assignment. `Sgetn` lets the stream come
back short at any time. `PageView` knows nothing of blocks, buffers and streams: a cursor per variable, reads that give
what follows the cursor, end of file only at the end, and moves that take along at least what was ever read. Left to the caller, as the code
checks neither: a seek stays within the buffer, and a page that is assigned to has no stream of its own.

**CropStream.** A byte is its position in the raster. `Call` is sgetn or sbumpc, `GetSome` one read of at most a line
with `endLine` and `discardLines`; `sgetc` changes nothing and is what `PeekIsNext` speaks of.

**Slips.** Definitions preceded by a comment that starts with "Slip:" are plausible mistakes in
the definition below them: a dropped guard, an off-by-one, a missing reset. No module uses them.
For each property of each run PROJECT.json names the slip that breaks it, so that every property is known to be sensitive to the code.

## 3. What TLC checks

| Run | Instance | Question | Properties |
|---|---|---|---|
| `state` | every line of 5 bytes over 2 byte values, under every line or none | does the scanner cut lines correctly? | `Tiling`, `Faithful`, `NotLazy`, `Exhausted` |
| `codec` | all counts the encoders' assertions admit; payloads that look like opcodes | do encoder and decoder agree? | `Understood`, `SizeReported` |
| `chunk` | run lengths around 7, 8, 16, 248, 255, 256, 263, 496, 504, 510, alone and combined | are long runs cut correctly? | `WithinBounds`, `MeaningKept`, `Finishes` |
| `page` | all pages of 2 lines of 3 bytes over 3 values, also cut short | does a page survive? | `NextCmdAsserts`, `EvenPage`, `Transferred`, `CallsAsAssumed` |
| `pages` | two pages of 3 lines of 2 bytes, whole and cut short, or 1 line of a longer raster | does `Reset` start afresh? | `FirstLineAlone`, `Transferred` |
| `long` | 2 lines of 265 bytes with runs at the bounds of the commands | do the long forms survive? | `Transferred` |
| `job` | 3 pages of 2 blocks, one fault at a point where the program watches | are all pages printed? | `AllOut`, `AssertsHold`, `Ends` |
| `faults` | 3 pages of 2 blocks, two faults of any kind at any time | what can go wrong at worst? | `InOrder`, `FromTheTop`, `MissingOnlyIf`, `Stops` |
| `buffer` | 2 pages of 0, 1 or 4 bytes, blocks of 2, two variables | can a page be put back and handed on? | `NothingDropped`, `Rewindable` |
| `packets` | 3 calls of any kind; 8 sizes of answer, whole, or broken off after any byte | do requests and answers stay in step? | `InStep`, `Drained`, `CallsEnd` |
| `crop` | 3 by 2 out of 5 by 4, rasters of 0 to 3 pages cut short in many places, reads of 1 to 9 bytes | does a reader get the corners? | `Cropped`, `NoShortLines`, `PeekIsNext`, `Returns` |
| `reset` | 1 page, contact with the engine lost | `assert(status.Ready())` | `AssertsHold`, violated |

Each module with a state of some size has one type invariant, `TypeOK`, checked where it is cheapest.

**Why the bounds are enough.** The scanner looks at a byte, its predecessor and the byte above,
and holds two runs: five bytes allow every combination of three runs and of a byte taken back
from each kind of run, at the start, middle and end of the line. Two values suffice as bytes are only compared for
equality; `page` adds 0x43, which `RepeatX` treats specially, and 0x42, which is also EOP. The
chunking loops depend on lengths only through the bounds 8, 248 and 255, and `Boundaries`
has the neighbours of each and of twice each. Compressor and decoder carry nothing from line to line except the line above
and a size; two lines and, over Reset, three cover first, middle and last. In the print job two pages are
in the printer at most, so three pages show a page before, at and after a fault; two
blocks distinguish a page that failed before its first, between and after its blocks. A third fault adds
nothing new (checked once, 582 500 states).

In `buffer` a page is empty, shorter than a block, or two blocks, each of which may come short; with two pages and two variables a
page is moved to a variable that was used before, and to and fro.

In `packets` the sizes are those around
what each call reads (1, 10 and 16 bytes with a header of 4) and below the header; a third call shows that one that
failed has left nothing behind to the second or the third. In `crop` a line has a margin, a page has lines below the corner,
and a read reaches over one, two and three lines and over the end of a page.

**Fairness.** Scanner, loops, compressor and decoder are loops that block on nothing but
their input: weak fairness of their steps. In the print job the program polls and never waits for anything
else (`WF(Program)`), the printer finishes what it has begun (`WF(Printer)`: a page in the path comes out, an
engine restart ends). `Stops` needs no more. `Ends` and `AllOut` also need that somebody attends to the printer
(`WF(Operator)`): a job whose printer stays open waits for ever. In `packets` the program reads (`WF(Call)`)
and the printer answers or hangs up (`WF(Answer)`). Faults, exceptions and SIGINT are never forced.

**Deadlock** is checked in `state` and `chunk`, which go on for ever. The other runs model something that ends.

### What the print job shows

No page ever comes out twice, out of order or in part, whatever goes wrong. But a page can be
missing, even though nothing was reported; `MissingOnlyIf` says when, and that there is no other way:

1. The printer loses a page while the program is not watching for it: after the last poll in `WriteVideoData`, which
   reports success without looking at the printer after the last block, and up to the
   BEGIN_PAGE of the next page. The rejection is then first seen by `waitReady`, which clears it
   (printpbm.cpp:147) without asking for `GetReprintStatus`. The last page is safe: `waitLastPage` does ask.
2. The page before is being sent again and fails again, or is refused. The printer now means that
   page by `Current`, since its number is in `Start`; `writePage` takes `Current` for its
   own page (printpbm.cpp:182) and goes on without the page before.

Neither contradicts anything the repository says, so they are recorded as hazards, not as findings. `job` is the
complement: a single fault anywhere else, and `PrintQueue` is implemented: all pages, in order, once.

The finding is the assertion at printpbm.cpp:166. `waitReady` breaks out of its loop when it knows no
reason for the printer not being ready, and `prepareBeforePrint` then asserts that it is. The way there in the model:
a communication error, `ClearError` sends PCR_RESET_ENGINE, and the next status says
ENGINE_RESET_IN_PROGRESS, which is no reason `waitReady` knows.

## 4. What TLAPS proves

* **ScoaStateProofs**, for every alphabet and every `LineSize >= 1`: `TypeOK`, `Tiling`, `Faithful`, `NotLazy` are invariants of the scanner. None of them is
  inductive: they speak of the runs handed out, while the border between the two runs in flight still moves. The inductive
  invariant `IInv` therefore says what holds of `last` (`Growing`: all that will hold of
  it, except that a Copy may get longer) and of `curr` (`Finished`) in each of five phases of the scan
  (`Starting`, `Scanning`, `Ahead`, `LastReady`, `LastTaken`). The heart is `NextByte`: what `NextFunc` does to
  the growing run, by cases on its rules, in particular that the run a Repeat takes its
  first byte from is still there afterwards. `ChainGrows` extends the tiling by a run. One lemma per action, put together in `Invariance`.
* **ScoaChunkProofs**, for runs of every length: `TypeOK`, `WithinBounds`, `MeaningKept`. The invariant is `TypeOK` with `WithinBounds`: a
  command is within bounds because the call it was cut from has the arguments its function asserts. Lemmas
  `Pieces` and `Subspans` say what std::min and subspan leave; `Cutting` and its instances (`CutCopy`,
  `CutRepeat`, `CutRaw`, ...) that a command and the rest mean what the call meant;
  one lemma per loop; `ChunkGood` collects them. `ChunkCounted` adds that each command's size is the number of its bytes.
* **ScoaCodecProofs**, for payloads of every content, any bytes repeated and any byte that follows: `Understood`, `SizeReported`. A payload
  is opaque to the encoder but not to the decoder, which tells commands apart by bits of their first bytes: each of the fourteen
  functions has a lemma (`CopyShortCarried`, ...) that says which fields its first bytes have (`FieldsOf`, `ExtendOf`), by which way through
  `decodeNext` these go (`HeaderHeard`, `PlainHeard`, `NamedHeard`), and that the same counts and bytes come out.
* **ScoaPageProofs**, for lines of every length, every alphabet, pages of any number of lines, and as many as there are: `TypeOK`,
  `NextCmdAsserts`, `EvenPage`, `FirstLineAlone`, and that `ScoaStreambuf` calls the `cmd_*` functions as `ScoaChunk` assumes (`CallsAsAssumed`, a refinement).
  The scanner and the loops in the compressor are instances of `ScoaState` and `ScoaChunk`, and what is proved of these is used of the
  instances. The invariant joins them. `Held`: the run that nextCmd holds is the last one the scanner handed out. `LongRepeats`: a run that
  `Peek` shows is a real one, which the scanner's own invariant no longer says of `curr` once the last run was taken.
  `Counting`: `videoSize` is what was handed out and what lies in the buffers; without it `EvenPage`, which speaks of the bytes handed out, does
  not follow from the padding, which looks at `videoSize`. `Marked`: `videoSize = 0` marks the first line of a page and nothing else, because
  every line has a run, every run a command and every command at least one byte.
* **CropStreamProofs**, for pages and crops of every size and reads of every length: `TypeOK`, `Cropped`, `NoShortLines`, `PeekIsNext`. Inductive is
  that the position in the raster, `lineRead`, `currentLine` and the number of bytes delivered are those of one and the same byte of a page (`Where`),
  through `CornerOfShown`, which finds the byte of the raster from its place among the bytes shown, and `NextLine`.
* **BufferedPageProofs**: `TypeOK`, `NothingDropped`, and the refinement `Rewindable`, for pages and blocks of every size and any
  number of pages. `IInv` says of each object (`Sound`) that its buffer is the beginning of its page, that the
  stream goes on where the buffer ends, and that neither the get pointer nor anything that was ever read lies beyond that end; each action maps to one of the cursor, and
  `Underflow` with bytes to a stutter.
* **PacketStreamProofs**: `TypeOK`, `InStep`, `Drained`, for answers of every size. `InStep` speaks of what was read and `Drained` of
  the moment between calls; inductive is what the stream holds in between: the rest of the answer to the call in progress, from where the
  header was read to (`GoesOn`), and after the header no more than `remain` says (`Rest`); that at most one request is open (`OneRequest`); and
  that a stream which is not good is empty for good (`Ended`). One lemma per action; `ReadStep` is what all reads have in common.
* **PrintJobProofs**: `TypeOK`, `InOrder`, `FromTheTop`, for any number of blocks, of faults and of exceptions, at any time,
  and for jobs of up to 65536 pages (`FewPages`, which the theorems name as their condition). `InOrder` speaks of what came out; inductive
  is that what is out, in the path and being received is in order (`Order`), and that a page which the program is about to send (`Target`) is
  not out and not in the path, nor is any page after it (`Choice`). Where that knowledge
  comes from differs: for its own page the program has it from the printer having failed before END_PAGE; for the page
  before only from the comparison of `Printed + 1` with `Start` in `GetReprintStatus`, taken after printing has stopped; for
  the page that `waitLastPage` sends again from the rejection (`Sure`, `Between`). The registers hold page numbers modulo 65536, hence
  `FewPages`: with the page 65536 the comparison would repeat a page that is out.
  `MissingOnlyIf` holds under the same condition. The invariant `LInv` accounts for every page that was written: it is
  out, in the path, lost in one of the two ways of `MissingOnlyIf`, or there is a rejection standing that will make the program send it again. The program
  deals with two pages at a time, so all pages before these are settled (`Before`), and each point of the program says what
  is known of the two (`Waiting`, `Carried`, `Noticed`, `Arrived`).
  `AssertsHold` needs no bound on the pages, but the condition that no communication error of the engine occurs, and `reset` shows that it is
  needed. While a page is being received the printer is ready (`Received`); a fault that makes it unready loses the page and rejects the print, and
  only `ClearError` takes that back (`Refused`), so a page that failed finds the printer not ready; and only that one error
  makes `ClearError` restart the engine (`EngineUp`).
  `InTurnHolds` is the step half of `AllOut`: with one fault of any kind while the program watches (`Watched`, `MaxFaults <= 1`, as in
  `job`), every step is one of `PrintQueue`. By `OneFault` no page is lost in a way of `MissingOnlyIf`, because a page is sent again only after
  the fault; then by `LInv` all pages before the one that is begun are out or in the path, so that the printer takes them in turn (`InTurn`).

Assumptions: `LineSizeAssumption` (at least one byte a line), `LineSizeAgreed` (compressor and decoder have the same), `ByteAssumption`,
`CodecAssumption` (bytes are 0 to 255), `PageAssumption` (a page has at least one line; its raster may be shorter), `ChunkAssumption`
(the arguments are bytes and positive counts; `CallsAsAssumed` proves that nextCmd's are), `CropAssumption` (a crop is not empty and no larger
than the page), `BufferedPageAssumption` (blocks are not empty), `PacketAssumption` (a size is a uint16_t), `DeviceAssumption` and
`JobAssumption` (pages have at least one block, the kinds of faults are those of CaptDevice). TLC evaluates them all. What is proved of the print job is
proved over the printer of CaptDevice: it is only as good as that description of a device which is not in the repository.

Only model-checked: liveness (`Exhausted`, `Finishes`, `Ends`, `Stops`, `CallsEnd`, `Returns`, and that all pages come out in `AllOut`), which the
prover does not do, and the refinement `Transferred`. The safety half of `Transferred` is the round trip through the decoder; what is proved of it is
each link of the chain: the runs are true of the line (`Faithful`, `Tiling`), the commands mean what the runs mean
(`MeaningKept`, `CallsAsAssumed`), and the decoder hears the commands (`Understood`). That the links make a page again is TLC's to say.

## 5. What is not modelled

Each of these was left out for a reason:

* *Compression.* Lines of no bytes, whose first `Peek` fails its assertion (listed as a hazard). A raster whose last line is incomplete, beyond its
  being no line. `Reset` before the page was read to its end: no caller does it, and nothing says what a reader may expect. The decoder's
  command log. Copying a vector's elements into itself (DecoderStreambuf.cpp:58), outside the contract of
  `vector::insert`, is modelled by what the common libraries do.
* *Print job.* The PBM header, beyond its being an exception that may come. `Cleaning` and the stop token of `WriteVideoData`, which printpbm does not use. A printer that pauses in
  the middle of a page without losing it, and what a printer does with the reservation of a job that ended without `ReleaseUnit`: both
  are up to its firmware, and nothing in the repository says. Jobs of more than 65536 pages (`Printed + 1 != Start` compares an int with a uint16_t
  there), pages without data, a printer whose block size is 0.
* *Packets.* The contents of payloads. Moving a packet, `ReadBytes` and `PacketReader`, which nothing in the library or the examples uses. The print job is not composed with the packets: `InStep` and `Drained` say that an answer
  is to the request that was sent or the call throws, and that is what PrintJob assumes of a command.
* *Cropping.* A crop larger than the page. The compressor over a cropped raster: by `Cropped` it sees a raster that is just smaller.
* *FileStreambuf* depends on the C library's buffering (and on its leniency: a write follows a read on the same FILE without a positioning call). The tools
  getstatus and printerinfo, scripts and build files have no state worth a model.
