---------------------------- MODULE ScoaDecoder -----------------------------
(***************************************************************************)
(* DecoderStreambuf (Compression/Decoder/DecoderStreambuf.cpp): the reader *)
(* of a compressed page, one decoder per page.  One action is one turn of  *)
(* the loop in decodeLine; the line it completes is the next get area and  *)
(* is taken whole by the reader (decoder.cpp:113-121).                     *)
(***************************************************************************)
EXTENDS ScoaDecode

CONSTANT DecoderLineSize

VARIABLES
  wire,      \* the bytes of `stream` not consumed yet
  closed,    \* will no more bytes follow them?
  decoded,   \* the decoder's buffer: all it has decoded of the page
  start,     \* decodeLine's local: the size of buffer when the line began
  decodedVideoSize,
  printed,   \* what the reader was given
  outcome    \* "decoding", "page" after EOP, "error" after a DecoderError

decoderVars == <<wire, closed, decoded, start, decodedVideoSize, printed, outcome>>

FreshDecoder ==
  /\ wire' = <<>>
  /\ closed' = FALSE
  /\ decoded' = <<>>
  /\ start' = 0
  /\ decodedVideoSize' = 0
  /\ printed' = <<>>
  /\ outcome' = "decoding"

DecoderInit ==
  /\ wire = <<>>
  /\ closed = FALSE
  /\ decoded = <<>>
  /\ start = 0
  /\ decodedVideoSize = 0
  /\ printed = <<>>
  /\ outcome = "decoding"

(* copy(count): the bytes from one line back, none of them copied by this  *)
(* same call.  Inserting a vector's own elements is outside the contract   *)
(* of vector::insert; libstdc++, libc++ and MSVC read the old elements.    *)
Copied(buf, count) ==
  LET from == Len(buf) - DecoderLineSize
  IN  IF count = 0 THEN buf ELSE buf \o SubSeq(buf, from + 1, from + count)

CopyFails(buf, count) == count > 0 /\ Len(buf) < DecoderLineSize

Repeated(n, byte) == [k \in 1 .. n |-> byte]

(* Slip: the whole line above, whatever is already there.                  *)
WholeLine == DecoderLineSize

(* endLine(): how much of the line above is left to copy.                  *)
RestOfLine == DecoderLineSize - (Len(decoded) % DecoderLineSize)

Command == decodeNext(wire)

CopyCount == IF Command.kind = "EOL" THEN RestOfLine ELSE Command.copy

(* A command that adds bytes, or NOP, which adds none.                     *)
DecodeData ==
  /\ outcome = "decoding"
  /\ Command.kind \in {"Data", "EOL", "NOP"}
  /\ ~CopyFails(decoded, CopyCount)
  /\ wire' = SubSeq(wire, Command.size + 1, Len(wire))
  /\ decodedVideoSize' = decodedVideoSize + Command.size
  /\ decoded' = Copied(decoded, CopyCount) \o Repeated(Command.rep, Command.byte)
                                           \o Command.raw
  /\ IF Len(decoded') < start + DecoderLineSize
     THEN UNCHANGED <<start, printed>>
     ELSE /\ start' = Len(decoded')
          /\ printed' = printed \o SubSeq(decoded', Len(decoded') - DecoderLineSize + 1,
                                          Len(decoded'))
  /\ UNCHANGED <<closed, outcome>>

(* EOP ends the page if the page has an even number of bytes.              *)
DecodeEOP ==
  /\ outcome = "decoding"
  /\ Command.kind = "EOP"
  /\ (decodedVideoSize + 1) % 2 = 0
  /\ outcome' = "page"
  /\ wire' = Tail(wire)
  /\ decodedVideoSize' = 0
  /\ UNCHANGED <<closed, decoded, start, printed>>

(* The DecoderErrors.  An end of file is one only when no byte will come.  *)
Throws == \/ Command.kind = "EOF" /\ closed
          \/ Command.kind = "Illegal"
          \/ Command.kind = "EOP" /\ (decodedVideoSize + 1) % 2 # 0
          \/ Command.kind \in {"Data", "EOL"} /\ CopyFails(decoded, CopyCount)

DecodeError ==
  /\ outcome = "decoding"
  /\ Throws
  /\ outcome' = "error"
  /\ UNCHANGED <<wire, closed, decoded, start, decodedVideoSize, printed>>

Decode == DecodeData \/ DecodeEOP \/ DecodeError
=============================================================================
