------------------------------ MODULE ScoaCmd -------------------------------
(***************************************************************************)
(* The commands of the SCoA stream: the functions of namespace ScoaCmd     *)
(* (libcapt/Compression/ScoaCmd.cpp).                                      *)
(*                                                                         *)
(* Each function appends bytes to the buffer and returns how many it says  *)
(* it appended; the compressor adds up what they return and never looks at *)
(* the buffer's size.  A command is the record of both, of the function    *)
(* called (op) and of its arguments.                                       *)
(***************************************************************************)
EXTENDS Integers, Sequences

Command(op, copy, rep, byte, raw, bytes, vsize) ==
  [op |-> op, copy |-> copy, rep |-> rep, byte |-> byte, raw |-> raw,
   bytes |-> bytes, vsize |-> vsize]

(* One header byte: two bits of opcode, two counts of three bits.          *)
Head8(opcode, high, low) == 64 * opcode + 8 * (high % 8) + (low % 8)

(* Slip: the count is not shifted.                                         *)
ExtendUnshifted(count) == 160 + (count % 32)

(* Extend's byte: the upper five bits of a count of eight bits.            *)
Extend(count) == 160 + ((count \div 8) % 32)

CopyLong(copy) ==
  Command("CopyLong", copy, 0, 0, <<>>, <<128 + ((copy \div 8) % 32)>>, 1)

CopyShort(copy) ==
  Command("CopyShort", copy, 0, 0, <<>>, <<Head8(3, 0, copy)>>, 1)

CopyThenRaw(copy, raw) ==
  Command("CopyThenRaw", copy, 0, 0, raw,
          <<Head8(0, Len(raw), copy)>> \o raw, 1 + Len(raw))

(* Slip: Extend's own byte is not counted.                                 *)
CopyThenRawLongMiscounted(copy, raw) ==
  Command("CopyThenRawLong", copy, 0, 0, raw,
          <<Extend(Len(raw)), Head8(3, Len(raw), copy)>> \o raw, 1 + Len(raw))

CopyThenRawLong(copy, raw) ==
  Command("CopyThenRawLong", copy, 0, 0, raw,
          <<Extend(Len(raw)), Head8(3, Len(raw), copy)>> \o raw, 2 + Len(raw))

CopyThenRepeat(copy, rep, byte) ==
  Command("CopyThenRepeat", copy, rep, byte, <<>>,
          <<Head8(1, rep, copy), byte>>, 2)

CopyThenRepeatLong(copy, rep, byte) ==
  Command("CopyThenRepeatLong", copy, rep, byte, <<>>,
          <<Extend(rep), Head8(2, rep, copy), byte>>, 3)

RepeatThenRaw(rep, byte, raw) ==
  Command("RepeatThenRaw", 0, rep, byte, raw,
          <<Head8(3, rep, Len(raw)), byte>> \o raw, 2 + Len(raw))

(* Slip: the wrong count is extended.                                      *)
RepeatThenRawLongSwapped(rep, byte, raw) ==
  Command("RepeatThenRawLong", 0, rep, byte, raw,
          <<Extend(rep), Head8(1, rep, Len(raw)), byte>> \o raw, 3 + Len(raw))

RepeatThenRawLong(rep, byte, raw) ==
  Command("RepeatThenRawLong", 0, rep, byte, raw,
          <<Extend(Len(raw)), Head8(1, rep, Len(raw)), byte>> \o raw, 3 + Len(raw))

RepeatXByte == 67  \* 0x43: the byte RepeatX repeats without naming it

RepeatX(rep) ==
  Command("RepeatX", 0, rep, RepeatXByte, <<>>, <<Head8(3, rep, 0)>>, 1)

RepeatXLong(rep) ==
  Command("RepeatXLong", 0, rep, RepeatXByte, <<>>,
          <<Extend(rep), Head8(0, rep, 0)>>, 2)

NOP == Command("NOP", 0, 0, 0, <<>>, <<64>>, 1)
EOL == Command("EOL", 0, 0, 0, <<>>, <<65>>, 1)
EOP == Command("EOP", 0, 0, 0, <<>>, <<66>>, 1)

(* The assertions at the head of each function.                            *)
InBounds(c) ==
  LET n == Len(c.raw)
  IN  \/ c.op = "CopyLong"           /\ c.copy \in 8 .. 248 /\ c.copy % 8 = 0
      \/ c.op = "CopyShort"          /\ c.copy \in 1 .. 7
      \/ c.op = "CopyThenRaw"        /\ c.copy \in 0 .. 7   /\ n \in 1 .. 7
      \/ c.op = "CopyThenRawLong"    /\ c.copy \in 0 .. 7   /\ n \in 8 .. 255
      \/ c.op = "CopyThenRepeat"     /\ c.copy \in 0 .. 7   /\ c.rep \in 2 .. 7
      \/ c.op = "CopyThenRepeatLong" /\ c.copy \in 0 .. 7   /\ c.rep \in 8 .. 255
      \/ c.op = "RepeatThenRaw"      /\ c.rep \in 2 .. 7    /\ n \in 1 .. 7
      \/ c.op = "RepeatThenRawLong"  /\ c.rep \in 2 .. 7    /\ n \in 8 .. 255
      \/ c.op = "RepeatX"            /\ c.rep \in 1 .. 7
      \/ c.op = "RepeatXLong"        /\ c.rep \in 8 .. 255
      \/ c.op \in {"NOP", "EOL", "EOP"}
=============================================================================
