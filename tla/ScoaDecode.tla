---------------------------- MODULE ScoaDecode ------------------------------
(***************************************************************************)
(* DecoderStreambuf::decodeNext (Compression/Decoder/DecoderStreambuf.cpp, *)
(* 73-185) without its effect on the buffer: which command the bytes at    *)
(* the front of the stream are.                                            *)
(***************************************************************************)
EXTENDS Integers, Sequences

(* What a header asks for: hdr bytes of opcode, copy and repeat counts,    *)
(* named when the repeated byte follows the header, n raw bytes, legal     *)
(* when the CHECK_BOUNDS of its branch accept the counts.                  *)
Header(hdr, copy, rep, named, n, legal) ==
  [hdr |-> hdr, copy |-> copy, rep |-> rep, named |-> named, n |-> n,
   legal |-> legal]

High(cmd) == (cmd \div 8) % 8
Low(cmd)  == cmd % 8

(* The four commands behind an Extend of e, told apart by the top bits.    *)
LongHeader(e, cmd) ==
  LET h == e + High(cmd)
      l == e + Low(cmd)
  IN  IF cmd \div 64 = 0 THEN Header(2, 0, h, FALSE, 0, h >= 8)
      ELSE IF cmd \div 64 = 2 THEN Header(2, Low(cmd), h, TRUE, 0, h >= 8)
      ELSE IF cmd \div 64 = 1
           THEN Header(2, 0, High(cmd), TRUE, l, High(cmd) >= 2 /\ l >= 8)
      ELSE Header(2, Low(cmd), 0, FALSE, h, h >= 8)

(* The commands of one header byte.  Low counts raw bytes or copies.       *)
ShortHeader(cmd) ==
  LET h == High(cmd)
      l == Low(cmd)
  IN  IF cmd \div 32 = 4
      THEN Header(1, 8 * (cmd % 32), 0, FALSE, 0, cmd % 32 >= 1)
      ELSE IF cmd \div 64 = 1 THEN Header(1, l, h, TRUE, 0, h >= 2)
      ELSE IF cmd \div 64 = 0 THEN Header(1, l, 0, FALSE, h, h >= 1)
      ELSE IF h = 0 THEN Header(1, l, 0, FALSE, 0, l >= 1)
      ELSE IF l = 0 THEN Header(1, 0, h, FALSE, 0, TRUE)
      ELSE Header(1, 0, h, TRUE, l, h >= 2)

(***************************************************************************)
(* The outcome of decodeNext on stream s.  kind is the branch taken, and   *)
(* size the number of bytes it consumed and returned.  EOF and Illegal are *)
(* the two DecoderErrors: the stream ends inside a command, and a count    *)
(* out of bounds or an unknown byte.                                       *)
(***************************************************************************)
Decoded(kind, size, copy, rep, byte, raw) ==
  [kind |-> kind, size |-> size, copy |-> copy, rep |-> rep, byte |-> byte,
   raw |-> raw]

Marker(kind, size) == Decoded(kind, size, 0, 0, 0, <<>>)

Data(s, h) ==
  LET args == h.hdr + IF h.named THEN 1 ELSE 0
      size == args + h.n
  IN  IF Len(s) < size THEN Marker("EOF", 0)
      ELSE IF ~h.legal THEN Marker("Illegal", 0)
      ELSE Decoded("Data", size, h.copy, h.rep,
                   IF h.named THEN s[args] ELSE 67,
                   SubSeq(s, args + 1, size))

decodeNext(s) ==
  IF s = <<>> THEN Marker("EOF", 0)
  ELSE IF s[1] = 66 THEN Marker("EOP", 0)
  ELSE IF s[1] = 65 THEN Marker("EOL", 1)
  ELSE IF s[1] = 64 THEN Marker("NOP", 1)
  ELSE IF s[1] \div 32 # 5 THEN Data(s, ShortHeader(s[1]))
  ELSE IF Len(s) < 2 THEN Marker("EOF", 0)
  ELSE Data(s, LongHeader(8 * (s[1] % 32), s[2]))
=============================================================================
