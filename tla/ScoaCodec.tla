----------------------------- MODULE ScoaCodec ------------------------------
(***************************************************************************)
(* The wire format: one command encoded by ScoaCmd, followed by the first  *)
(* byte of whatever comes next, and read back by decodeNext.               *)
(*                                                                         *)
(* Encoder and decoder were written apart, with magic numbers that overlap *)
(* (0x40 is NOP, CopyThenRepeat and the second byte of RepeatThenRawLong): *)
(* that they agree on every count the assertions admit is what this module *)
(* is about.                                                               *)
(***************************************************************************)
EXTENDS ScoaCmd, ScoaDecode

CONSTANTS Payload,  \* the raw payloads that are sent
          Repeated, \* the bytes that are repeated
          Following \* the bytes that may follow a command

ASSUME CodecAssumption ==
  /\ \A raw \in Payload : raw \in Seq(0 .. 255)
  /\ Repeated \subseteq 0 .. 255
  /\ Following \subseteq 0 .. 255

VARIABLES cmd,    \* the command sent
          after,  \* the byte after it
          heard   \* the decoder's reading, Nothing before it reads

codecVars == <<cmd, after, heard>>

Nothing == Marker("Nothing", 0)

Init ==
  /\ \/ \E c \in 8 .. 248 : c % 8 = 0 /\ cmd = CopyLong(c)
     \/ \E c \in 1 .. 7 : cmd = CopyShort(c)
     \/ \E c \in 0 .. 7, raw \in Payload :
          \/ Len(raw) \in 1 .. 7   /\ cmd = CopyThenRaw(c, raw)
          \/ Len(raw) \in 8 .. 255 /\ cmd = CopyThenRawLong(c, raw)
     \/ \E c \in 0 .. 7, r \in 2 .. 255, b \in Repeated :
          \/ r <= 7 /\ cmd = CopyThenRepeat(c, r, b)
          \/ r >= 8 /\ cmd = CopyThenRepeatLong(c, r, b)
     \/ \E r \in 2 .. 7, b \in Repeated, raw \in Payload :
          \/ Len(raw) \in 1 .. 7   /\ cmd = RepeatThenRaw(r, b, raw)
          \/ Len(raw) \in 8 .. 255 /\ cmd = RepeatThenRawLong(r, b, raw)
     \/ \E r \in 1 .. 255 :
          \/ r <= 7 /\ cmd = RepeatX(r)
          \/ r >= 8 /\ cmd = RepeatXLong(r)
     \/ cmd \in {NOP, EOL, EOP}
  /\ after \in Following
  /\ heard = Nothing

Hear ==
  /\ heard = Nothing
  /\ heard' = decodeNext(Append(cmd.bytes, after))
  /\ UNCHANGED <<cmd, after>>

Next == Hear

Spec == Init /\ [][Next]_codecVars
-----------------------------------------------------------------------------
(***************************************************************************)
(* The decoder hears the command that was sent: same counts, same bytes,   *)
(* and it stops exactly where the command stops (EOP consumes its byte but *)
(* decodeNext reports 0 for it).                                           *)
(***************************************************************************)
Heard(d, c) ==
  /\ d.copy = c.copy
  /\ d.rep = c.rep
  /\ d.rep > 0 => d.byte = c.byte
  /\ d.raw = c.raw
  /\ d.size = IF c.op = "EOP" THEN 0 ELSE Len(c.bytes)
  /\ d.kind = IF c.op \in {"NOP", "EOL", "EOP"} THEN c.op ELSE "Data"

Understood == heard # Nothing => Heard(heard, cmd)

(* What a function of ScoaCmd returns is what it appended, and everything  *)
(* it appended is a byte: no count spills into another field.              *)
SizeReported ==
  /\ cmd.vsize = Len(cmd.bytes)
  /\ \A k \in 1 .. Len(cmd.bytes) : cmd.bytes[k] \in 0 .. 255
=============================================================================
