-------------------------- MODULE ScoaChunkProofs ---------------------------
(***************************************************************************)
(* Proofs about ScoaChunk: for runs of any length, every command emitted   *)
(* is within the bounds of the format, and cutting a call up keeps its     *)
(* meaning.                                                                *)
(***************************************************************************)
EXTENDS ScoaChunk, SequenceTheorems, TLAPS

Calls == [kind : Kinds, copy : Nat, rep : Nat, byte : 0 .. 255, raw : Seq(0 .. 255)]

(* TypeOK of a job in progress, by the function that is running.           *)
ValidCall(j) ==
  /\ j \in Calls
  /\ j.kind = "CopyThenRaw" => j.rep = 0 /\ j.raw # <<>>
  /\ j.kind \in {"CopyThenRepeat", "RepeatX"} => j.rep > 0 /\ j.raw = <<>>
  /\ j.kind = "RepeatThenRaw" => j.raw # <<>>
  /\ j.kind \in {"RepeatX", "RepeatThenRaw"} => j.copy = 0
  /\ j.kind = "RepeatX" => j.byte = RepeatXByte

LEMMA TypeOKIsValidCall == TypeOK <=> job = NoJob \/ ValidCall(job)
BY DEF TypeOK, ValidCall, Calls

(* std::min(n, 255) and the largest multiple of 8 in std::min(n, 248).     *)
LEMMA Pieces ==
  ASSUME NEW n \in Nat
  PROVE  /\ Piece(n) \in Nat /\ Piece(n) <= n /\ Piece(n) <= 255
         /\ n >= 8 => Piece(n) >= 8
         /\ n >= 1 => Piece(n) >= 1
         /\ n >= 8 => /\ CopyPiece(n) \in 8 .. 248
                      /\ CopyPiece(n) <= n
                      /\ CopyPiece(n) % 8 = 0
BY DEF Piece, CopyPiece

LEMMA LongPiece ==
  ASSUME NEW n \in Nat, n >= 8
  PROVE  Piece(n) \in Nat /\ Piece(n) \in 8 .. 255 /\ Piece(n) <= n
BY DEF Piece

LEMMA SomePiece ==
  ASSUME NEW n \in Nat, n >= 1
  PROVE  /\ Piece(n) \in Nat /\ Piece(n) \in 1 .. 255 /\ Piece(n) <= n
         /\ Piece(n) < 8 => Piece(n) = n
BY DEF Piece

(* What subspan makes of a payload.                                        *)
LEMMA Subspans ==
  ASSUME NEW raw \in Seq(0 .. 255), NEW n \in 0 .. Len(raw)
  PROVE  /\ First(n, raw) \in Seq(0 .. 255) /\ Len(First(n, raw)) = n
         /\ Rest(n, raw) \in Seq(0 .. 255) /\ Len(Rest(n, raw)) = Len(raw) - n
         /\ \A k \in 1 .. n : First(n, raw)[k] = raw[k]
         /\ \A k \in 1 .. Len(raw) - n : Rest(n, raw)[k] = raw[n + k]
         /\ n = Len(raw) => Rest(n, raw) = <<>>
         /\ n < Len(raw) => Rest(n, raw) # <<>>
<1> DEFINE B == 0 .. 255
<1>0. raw \in Seq(B)
  OBVIOUS
<1> HIDE DEF B
<1>1. /\ First(n, raw) \in Seq(B) /\ Len(First(n, raw)) = n
      /\ \A k \in 1 .. n : First(n, raw)[k] = raw[k]
  <2>1. \A i \in 1 .. n : raw[i] \in B
    BY <1>0, ElementOfSeq
  <2> QED
    BY <2>1, SubSeqProperties DEF First
<1>2. /\ Rest(n, raw) \in Seq(B) /\ Len(Rest(n, raw)) = Len(raw) - n
      /\ \A k \in 1 .. Len(raw) - n : Rest(n, raw)[k] = raw[n + k]
  <2>1. \A i \in n + 1 .. Len(raw) : raw[i] \in B
    BY <1>0, ElementOfSeq
  <2> QED
    BY <2>1, SubSeqProperties DEF Rest
<1>3. n = Len(raw) => Rest(n, raw) = <<>>
  BY <1>0, <1>2, EmptySeq
<1>4. n < Len(raw) => Rest(n, raw) # <<>>
  BY <1>0, <1>2
<1> QED
  BY <1>1, <1>2, <1>3, <1>4 DEF B
-----------------------------------------------------------------------------
(* The meaning of a command or a call, a position at a time.               *)
Size(c) == c.copy + c.rep + Len(c.raw)

Token(c, k) == IF k <= c.copy THEN Above
               ELSE IF k <= c.copy + c.rep THEN c.byte
               ELSE c.raw[k - c.copy - c.rep]

Parts(c) == c.copy \in Nat /\ c.rep \in Nat /\ c.byte \in 0 .. 255 /\ c.raw \in Seq(0 .. 255)

LEMMA MeaningIsSeq ==
  ASSUME NEW c, Parts(c)
  PROVE  /\ Meaning(c) \in Seq(-1 .. 255)
         /\ Len(Meaning(c)) = Size(c)
         /\ Size(c) \in Nat
         /\ \A k \in 1 .. Size(c) : Meaning(c)[k] = Token(c, k)
<1>1. Size(c) \in Nat
  BY DEF Parts, Size
<1>2. Meaning(c) = [k \in 1 .. Size(c) |-> Token(c, k)]
  BY DEF Meaning, Size, Token
<1>3. ASSUME NEW k \in 1 .. Size(c) PROVE Token(c, k) \in -1 .. 255
  <2>1. CASE k > c.copy + c.rep
    <3>1. k - c.copy - c.rep \in 1 .. Len(c.raw)
      BY <2>1 DEF Parts, Size
    <3>2. c.raw[k - c.copy - c.rep] \in 0 .. 255
      BY <3>1, ElementOfSeq DEF Parts
    <3>3. Token(c, k) = c.raw[k - c.copy - c.rep]
      BY <2>1 DEF Token, Parts
    <3> QED
      BY <3>2, <3>3
  <2>2. CASE ~(k > c.copy + c.rep)
    BY <1>1, <2>2 DEF Token, Parts, Above
  <2> QED
    BY <2>1, <2>2
<1>4. Meaning(c) \in [1 .. Size(c) -> -1 .. 255]
  BY <1>2, <1>3
<1>5. Meaning(c) \in Seq(-1 .. 255)
  <2> DEFINE f == Meaning(c)
             s == Size(c)
             B == -1 .. 255
  <2>1. s \in Nat /\ f \in [1 .. s -> B]
    BY <1>1, <1>4
  <2> HIDE DEF f, s, B
  <2>2. f \in Seq(B)
    BY <2>1, SeqDef
  <2> QED
    BY <2>2 DEF f, B
<1>6. Len(Meaning(c)) = Size(c)
  <2>1. DOMAIN Meaning(c) = 1 .. Len(Meaning(c)) /\ Len(Meaning(c)) \in Nat
    BY <1>5, LenProperties
  <2>2. DOMAIN Meaning(c) = 1 .. Size(c)
    BY <1>2
  <2> QED
    BY <1>1, <2>1, <2>2
<1> QED
  BY <1>1, <1>2, <1>5, <1>6

LEMMA Cutting ==
  ASSUME NEW j, NEW c, NEW r, Parts(j), Parts(c), Parts(r),
         Size(j) = Size(c) + Size(r),
         \A k \in 1 .. Size(c) : Token(j, k) = Token(c, k),
         \A k \in 1 .. Size(r) : Token(j, Size(c) + k) = Token(r, k)
  PROVE  Meaning(j) = Meaning(c) \o Meaning(r)
<1>1. /\ Meaning(j) \in Seq(-1 .. 255) /\ Meaning(c) \in Seq(-1 .. 255)
      /\ Meaning(r) \in Seq(-1 .. 255)
      /\ Len(Meaning(j)) = Size(j) /\ Len(Meaning(c)) = Size(c) /\ Len(Meaning(r)) = Size(r)
      /\ Size(j) \in Nat /\ Size(c) \in Nat /\ Size(r) \in Nat
  BY MeaningIsSeq
<1>2. /\ Meaning(c) \o Meaning(r) \in Seq(-1 .. 255)
      /\ Len(Meaning(c) \o Meaning(r)) = Size(j)
      /\ \A k \in 1 .. Size(j) : (Meaning(c) \o Meaning(r))[k] =
           IF k <= Size(c) THEN Meaning(c)[k] ELSE Meaning(r)[k - Size(c)]
  BY <1>1, ConcatProperties
<1>3. ASSUME NEW k \in 1 .. Size(j)
      PROVE  Meaning(j)[k] = (Meaning(c) \o Meaning(r))[k]
  <2>1. Meaning(j)[k] = Token(j, k)
    BY MeaningIsSeq
  <2>2. CASE k <= Size(c)
    <3>1. k \in 1 .. Size(c)
      BY <1>1, <2>2
    <3>2. Meaning(c)[k] = Token(c, k)
      BY <3>1, MeaningIsSeq
    <3> QED
      BY <1>2, <2>1, <2>2, <3>1, <3>2
  <2>3. CASE ~(k <= Size(c))
    <3>1. k - Size(c) \in 1 .. Size(r) /\ k = Size(c) + (k - Size(c))
      BY <1>1, <2>3
    <3>2. Meaning(r)[k - Size(c)] = Token(r, k - Size(c))
      BY <3>1, MeaningIsSeq
    <3>3. Token(j, k) = Token(r, k - Size(c))
      BY <3>1
    <3> QED
      BY <1>2, <2>1, <2>3, <3>2, <3>3
  <2> QED
    BY <2>2, <2>3
<1> QED
  BY <1>1, <1>2, <1>3, SeqEqual

(* A call with nothing left means nothing, so forgetting it loses nothing. *)
LEMMA LeftKeepsMeaning ==
  ASSUME NEW j, Parts(j)
  PROVE  Parts(Left(j)) /\ Size(Left(j)) = Size(j)
         /\ \A k \in 1 .. Size(j) : Token(Left(j), k) = Token(j, k)
BY DEF Left, Parts, Size, NoJob, Job
LEMMA CuttingLeft ==
  ASSUME NEW j, NEW c, NEW r, Parts(j), Parts(c), Parts(r),
         Size(j) = Size(c) + Size(r),
         \A k \in 1 .. Size(c) : Token(j, k) = Token(c, k),
         \A k \in 1 .. Size(r) : Token(j, Size(c) + k) = Token(r, k)
  PROVE  Meaning(j) = Meaning(c) \o Meaning(Left(r))
BY Cutting, LeftKeepsMeaning
-----------------------------------------------------------------------------
(* The four ways to cut a call: inside its copies, inside its repeats, a   *)
(* single repeat sent as a raw byte, and inside its raw bytes.             *)
LEMMA CutCopy ==
  ASSUME NEW j, NEW c, NEW r, NEW n \in Nat, n <= j.copy,
         Parts(j), c.byte \in 0 .. 255,
         c.copy = n, c.rep = 0, c.raw = <<>>,
         r.copy = j.copy - n, r.rep = j.rep, r.byte = j.byte, r.raw = j.raw
  PROVE  Meaning(j) = Meaning(c) \o Meaning(Left(r))
<1>1. Parts(c) /\ Parts(r)
  BY EmptySeq DEF Parts
<1>2. Size(c) = n /\ Size(j) = Size(c) + Size(r)
  <2>1. Len(c.raw) = 0 /\ Len(j.raw) \in Nat /\ j.copy \in Nat /\ j.rep \in Nat
    BY DEF Parts
  <2>2. Size(c) = n
    BY <2>1 DEF Size
  <2>3. Size(j) = j.copy + j.rep + Len(j.raw)
    BY DEF Size
  <2>4. Size(r) = (j.copy - n) + j.rep + Len(j.raw)
    BY DEF Size
  <2> QED
    BY <2>1, <2>2, <2>3, <2>4, SMTT(30)
<1>3. \A k \in 1 .. Size(c) : Token(j, k) = Token(c, k)
  BY <1>2 DEF Parts, Token
<1>4. \A k \in 1 .. Size(r) : Token(j, Size(c) + k) = Token(r, k)
  <2> SUFFICES ASSUME NEW k \in 1 .. Size(r) PROVE Token(j, n + k) = Token(r, k)
    BY <1>2
  <2>1. Len(j.raw) \in Nat /\ k \in Nat /\ (n + k) - j.copy - j.rep = k - r.copy - r.rep
    BY <1>1 DEF Parts, Size
  <2> QED
    BY <2>1 DEF Parts, Token
<1> QED
  BY <1>1, <1>2, <1>3, <1>4, CuttingLeft

LEMMA CutRepeat ==
  ASSUME NEW j, NEW c, NEW r, NEW n \in Nat, n <= j.rep,
         Parts(j), r.byte \in 0 .. 255, n < j.rep => r.byte = j.byte,
         c.copy = j.copy, c.rep = n, c.byte = j.byte, c.raw = <<>>,
         r.copy = 0, r.rep = j.rep - n, r.raw = j.raw
  PROVE  Meaning(j) = Meaning(c) \o Meaning(Left(r))
<1>1. Parts(c) /\ Parts(r)
  BY EmptySeq DEF Parts
<1>2. Size(c) = j.copy + n /\ Size(j) = Size(c) + Size(r)
  <2>1. Len(c.raw) = 0 /\ Len(j.raw) \in Nat /\ j.copy \in Nat /\ j.rep \in Nat
    BY DEF Parts
  <2>2. Size(c) = j.copy + n
    BY <2>1 DEF Size
  <2>3. Size(j) = j.copy + j.rep + Len(j.raw)
    BY DEF Size
  <2>4. Size(r) = 0 + (j.rep - n) + Len(j.raw)
    BY DEF Size
  <2> QED
    BY <2>1, <2>2, <2>3, <2>4, SMTT(30)
<1>3. \A k \in 1 .. Size(c) : Token(j, k) = Token(c, k)
  BY <1>2 DEF Parts, Token
<1>4. \A k \in 1 .. Size(r) : Token(j, Size(c) + k) = Token(r, k)
  <2> SUFFICES ASSUME NEW k \in 1 .. Size(r)
               PROVE  Token(j, j.copy + n + k) = Token(r, k)
    BY <1>2
  <2>1. /\ Len(r.raw) \in Nat /\ Size(r) = (j.rep - n) + Len(r.raw) /\ k \in Nat
        /\ j.copy \in Nat /\ j.rep \in Nat /\ k >= 1
    BY <1>1 DEF Parts, Size
  <2>2. CASE k <= j.rep - n
    BY <2>1, <2>2, SMTT(30) DEF Token
  <2>3. CASE ~(k <= j.rep - n)
    <3>1. (j.copy + n + k) - j.copy - j.rep = k - 0 - (j.rep - n)
      BY <2>1, SMTT(30)
    <3>2. Token(r, k) = r.raw[k - 0 - (j.rep - n)]
      BY <2>1, <2>3 DEF Token
    <3>3. Token(j, j.copy + n + k) = j.raw[(j.copy + n + k) - j.copy - j.rep]
      <4>1. n \in Nat /\ k \in Nat /\ k >= 1 /\ k > j.rep - n
            /\ j.copy \in Nat /\ j.rep \in Nat
        BY <2>1, <2>3
      <4>2. j.copy + n + k > j.copy /\ j.copy + n + k > j.copy + j.rep
        BY <4>1, SMTT(30)
      <4>3. ~(j.copy + n + k <= j.copy) /\ ~(j.copy + n + k <= j.copy + j.rep)
        BY <4>1, <4>2, SMTT(30)
      <4> QED
        BY <4>3, Zenon DEF Token
    <3> QED
      BY <3>1, <3>2, <3>3
  <2> QED
    BY <2>2, <2>3
<1> QED
  BY <1>1, <1>2, <1>3, <1>4, CuttingLeft

LEMMA CutSingleRepeat ==
  ASSUME NEW j, NEW c, NEW r,
         Parts(j), j.rep = 1, c.byte \in 0 .. 255, r.byte \in 0 .. 255,
         c.copy = j.copy, c.rep = 0, c.raw = <<j.byte>>,
         r.copy = 0, r.rep = 0, r.raw = j.raw
  PROVE  Meaning(j) = Meaning(c) \o Meaning(Left(r))
<1>1. Parts(c) /\ Parts(r)
  BY DEF Parts
<1>2. Size(c) = j.copy + 1 /\ Size(j) = Size(c) + Size(r)
  BY DEF Parts, Size
<1>3. \A k \in 1 .. Size(c) : Token(j, k) = Token(c, k)
  <2> SUFFICES ASSUME NEW k \in 1 .. j.copy + 1 PROVE Token(j, k) = Token(c, k)
    BY <1>2
  <2>1. CASE k <= j.copy
    BY <2>1 DEF Parts, Token
  <2>2. CASE k = j.copy + 1
    BY <2>2 DEF Parts, Token
  <2> QED
    BY <2>1, <2>2 DEF Parts
<1>4. \A k \in 1 .. Size(r) : Token(j, Size(c) + k) = Token(r, k)
  <2> SUFFICES ASSUME NEW k \in 1 .. Size(r)
               PROVE  Token(j, j.copy + 1 + k) = Token(r, k)
    BY <1>2
  <2>1. /\ Len(j.raw) \in Nat /\ k \in Nat
        /\ (j.copy + 1 + k) - j.copy - j.rep = k - r.copy - r.rep
    BY <1>1 DEF Parts, Size
  <2> QED
    BY <2>1 DEF Parts, Token
<1> QED
  BY <1>1, <1>2, <1>3, <1>4, CuttingLeft

LEMMA CutRaw ==
  ASSUME NEW j, NEW c, NEW r, NEW n \in Nat, n <= Len(j.raw),
         Parts(j), c.byte \in 0 .. 255, r.byte \in 0 .. 255,
         c.copy = j.copy, c.rep = j.rep, j.rep > 0 => c.byte = j.byte,
         c.raw = First(n, j.raw),
         r.copy = 0, r.rep = 0, r.raw = Rest(n, j.raw)
  PROVE  Meaning(j) = Meaning(c) \o Meaning(Left(r))
<1>0. /\ c.raw \in Seq(0 .. 255) /\ Len(c.raw) = n
      /\ r.raw \in Seq(0 .. 255) /\ Len(r.raw) = Len(j.raw) - n
      /\ \A k \in 1 .. n : c.raw[k] = j.raw[k]
      /\ \A k \in 1 .. Len(j.raw) - n : r.raw[k] = j.raw[n + k]
  <2>1. n \in 0 .. Len(j.raw) /\ j.raw \in Seq(0 .. 255)
    BY DEF Parts
  <2>2. /\ First(n, j.raw) \in Seq(0 .. 255) /\ Len(First(n, j.raw)) = n
        /\ Rest(n, j.raw) \in Seq(0 .. 255) /\ Len(Rest(n, j.raw)) = Len(j.raw) - n
        /\ \A k \in 1 .. n : First(n, j.raw)[k] = j.raw[k]
        /\ \A k \in 1 .. Len(j.raw) - n : Rest(n, j.raw)[k] = j.raw[n + k]
    <3> DEFINE raw == j.raw
    <3>1. raw \in Seq(0 .. 255) /\ n \in 0 .. Len(raw)
      BY <2>1
    <3> HIDE DEF raw
    <3>2. /\ First(n, raw) \in Seq(0 .. 255) /\ Len(First(n, raw)) = n
          /\ Rest(n, raw) \in Seq(0 .. 255) /\ Len(Rest(n, raw)) = Len(raw) - n
      BY <3>1, Subspans
    <3>3. \A k \in 1 .. n : First(n, raw)[k] = raw[k]
      BY <3>1, Subspans
    <3>4. \A k \in 1 .. Len(raw) - n : Rest(n, raw)[k] = raw[n + k]
      BY <3>1, Subspans
    <3> QED
      BY <3>2, <3>3, <3>4 DEF raw
  <2> QED
    BY <2>2
<1>1. Parts(c) /\ Parts(r) /\ Len(j.raw) \in Nat
  BY <1>0 DEF Parts
<1>2. Size(c) = j.copy + j.rep + n /\ Size(j) = Size(c) + Size(r)
  <2>1. j.copy \in Nat /\ j.rep \in Nat /\ Len(j.raw) \in Nat
    BY <1>1 DEF Parts
  <2>2. Size(c) = j.copy + j.rep + n
    BY <1>0 DEF Size
  <2>3. Size(j) = j.copy + j.rep + Len(j.raw)
    BY DEF Size
  <2>4. Size(r) = 0 + 0 + (Len(j.raw) - n)
    BY <1>0 DEF Size
  <2> QED
    BY <2>1, <2>2, <2>3, <2>4
<1>3. \A k \in 1 .. Size(c) : Token(j, k) = Token(c, k)
  <2> SUFFICES ASSUME NEW k \in 1 .. j.copy + j.rep + n PROVE Token(j, k) = Token(c, k)
    BY <1>2
  <2>1. CASE k <= j.copy + j.rep
    BY <2>1 DEF Parts, Token
  <2>2. CASE ~(k <= j.copy + j.rep)
    <3>1. k - j.copy - j.rep \in 1 .. n
      BY <2>2 DEF Parts
    <3>2. c.raw[k - j.copy - j.rep] = j.raw[k - j.copy - j.rep]
      BY <1>0, <3>1
    <3> QED
      BY <2>2, <3>2 DEF Parts, Token
  <2> QED
    BY <2>1, <2>2
<1>4. \A k \in 1 .. Size(r) : Token(j, Size(c) + k) = Token(r, k)
  <2> SUFFICES ASSUME NEW k \in 1 .. Size(r)
               PROVE  Token(j, j.copy + j.rep + n + k) = Token(r, k)
    BY <1>2
  <2>1. k \in 1 .. Len(j.raw) - n
    BY <1>0, <1>1 DEF Size
  <2>2. Token(r, k) = r.raw[k]
    BY <2>1 DEF Token
  <2>3. Token(j, j.copy + j.rep + n + k) = j.raw[n + k]
    <3>1. /\ j.copy \in Nat /\ j.rep \in Nat
          /\ ~(j.copy + j.rep + n + k <= j.copy)
          /\ ~(j.copy + j.rep + n + k <= j.copy + j.rep)
      BY <1>1, <2>1, SMTT(30) DEF Parts
    <3>2. (j.copy + j.rep + n + k) - j.copy - j.rep = n + k
      BY <2>1, <3>1
    <3>3. Token(j, j.copy + j.rep + n + k) = j.raw[(j.copy + j.rep + n + k) - j.copy - j.rep]
      BY <3>1 DEF Token
    <3> QED
      BY <3>2, <3>3
  <2> QED
    BY <1>0, <2>1, <2>2, <2>3
<1> QED
  BY <1>1, <1>2, <1>3, <1>4, CuttingLeft
-----------------------------------------------------------------------------
(* The arguments a command was made from, without its bytes.               *)
Fields(c, op, copy, rep, byte, raw) ==
  c.op = op /\ c.copy = copy /\ c.rep = rep /\ c.byte = byte /\ c.raw = raw

LEMMA CommandFields ==
  ASSUME NEW m, NEW n, NEW b, NEW raw
  PROVE  /\ Fields(CopyLong(n), "CopyLong", n, 0, 0, <<>>)
         /\ Fields(CopyThenRaw(m, raw), "CopyThenRaw", m, 0, 0, raw)
         /\ Fields(CopyThenRawLong(m, raw), "CopyThenRawLong", m, 0, 0, raw)
         /\ Fields(CopyThenRepeat(m, n, b), "CopyThenRepeat", m, n, b, <<>>)
         /\ Fields(CopyThenRepeatLong(m, n, b), "CopyThenRepeatLong", m, n, b, <<>>)
         /\ Fields(RepeatThenRaw(n, b, raw), "RepeatThenRaw", 0, n, b, raw)
         /\ Fields(RepeatThenRawLong(n, b, raw), "RepeatThenRawLong", 0, n, b, raw)
         /\ Fields(RepeatX(n), "RepeatX", 0, n, RepeatXByte, <<>>)
         /\ Fields(RepeatXLong(n), "RepeatXLong", 0, n, RepeatXByte, <<>>)
BY DEF Fields, Command, CopyLong, CopyThenRaw, CopyThenRawLong, CopyThenRepeat,
       CopyThenRepeatLong, RepeatThenRaw, RepeatThenRawLong, RepeatX, RepeatXLong

LEMMA JobFields ==
  ASSUME NEW kind, NEW copy, NEW rep, NEW byte, NEW raw
  PROVE  LET j == Job(kind, copy, rep, byte, raw)
         IN  j.kind = kind /\ j.copy = copy /\ j.rep = rep /\ j.byte = byte /\ j.raw = raw
BY DEF Job

LEMMA InBoundsByFields ==
  ASSUME NEW c, NEW op, NEW copy, NEW rep, NEW byte, NEW raw,
         Fields(c, op, copy, rep, byte, raw),
         \/ op = "CopyLong"           /\ copy \in 8 .. 248 /\ copy % 8 = 0
         \/ op = "CopyThenRaw"        /\ copy \in 0 .. 7   /\ Len(raw) \in 1 .. 7
         \/ op = "CopyThenRawLong"    /\ copy \in 0 .. 7   /\ Len(raw) \in 8 .. 255
         \/ op = "CopyThenRepeat"     /\ copy \in 0 .. 7   /\ rep \in 2 .. 7
         \/ op = "CopyThenRepeatLong" /\ copy \in 0 .. 7   /\ rep \in 8 .. 255
         \/ op = "RepeatThenRaw"      /\ rep \in 2 .. 7    /\ Len(raw) \in 1 .. 7
         \/ op = "RepeatThenRawLong"  /\ rep \in 2 .. 7    /\ Len(raw) \in 8 .. 255
         \/ op = "RepeatX"            /\ rep \in 1 .. 7
         \/ op = "RepeatXLong"        /\ rep \in 8 .. 255
  PROVE  InBounds(c)
BY DEF Fields, InBounds

(* The fields of the calls the loops continue with.                        *)
LEMMA CallFields ==
  ASSUME NEW copy, NEW rep, NEW byte, NEW raw
  PROVE  /\ CopyThenRawJob(copy, raw) = Job("CopyThenRaw", copy, 0, 0, raw)
         /\ WriteRawJob(raw) = Job("CopyThenRaw", 0, 0, 0, raw)
         /\ CopyThenRepeatJob(copy, rep, byte) = Job("CopyThenRepeat", copy, rep, byte, <<>>)
         /\ RepeatThenRawJob(rep, byte, raw) = Job("RepeatThenRaw", 0, rep, byte, raw)
BY DEF CopyThenRawJob, WriteRawJob, CopyThenRepeatJob, RepeatThenRawJob

(* One step of a call: the command is in bounds, what is left is a call    *)
(* again, and nothing of the meaning is lost.                              *)
Good(j, c, r) ==
  /\ InBounds(c)
  /\ r = NoJob \/ ValidCall(r)
  /\ Meaning(j) = Meaning(c) \o Meaning(r)

LEMMA ValidParts ==
  ASSUME NEW j, ValidCall(j)
  PROVE  Parts(j) /\ Len(j.raw) \in Nat /\ (j.raw # <<>> => Len(j.raw) >= 1)
BY EmptySeq DEF ValidCall, Calls, Parts

LEMMA LeftOfCall ==
  ASSUME NEW kind \in Kinds, NEW copy \in Nat, NEW rep \in Nat, NEW byte \in 0 .. 255,
         NEW raw \in Seq(0 .. 255),
         copy # 0 \/ rep # 0 \/ raw # <<>> => ValidCall(Job(kind, copy, rep, byte, raw))
  PROVE  LET r == Job(kind, copy, rep, byte, raw)
         IN  Left(r) = NoJob \/ ValidCall(Left(r))
BY DEF Left, Job

LEMMA JobIsCall ==
  ASSUME NEW kind \in Kinds, NEW copy \in Nat, NEW rep \in Nat, NEW byte \in 0 .. 255,
         NEW raw \in Seq(0 .. 255),
         kind = "CopyThenRaw" => rep = 0 /\ raw # <<>>,
         kind \in {"CopyThenRepeat", "RepeatX"} => rep > 0 /\ raw = <<>>,
         kind = "RepeatThenRaw" => raw # <<>>,
         kind \in {"RepeatX", "RepeatThenRaw"} => copy = 0,
         kind = "RepeatX" => byte = RepeatXByte
  PROVE  ValidCall(Job(kind, copy, rep, byte, raw))
BY DEF ValidCall, Calls, Job

LEMMA CopyLoopGood ==
  ASSUME ValidCall(job), CopyLoop
  PROVE  Good(job, cmd', job')
<1> DEFINE n == CopyPiece(job.copy)
           r == Job(job.kind, job.copy - n, job.rep, job.byte, job.raw)
<1>1. Parts(job) /\ job.copy \in Nat
  BY ValidParts DEF Parts
<1>2. cmd' = CopyLong(n) /\ job' = Left(r)
  BY DEF CopyLoop, Emit
<1>3. n \in 8 .. 248 /\ n <= job.copy /\ n % 8 = 0
  BY <1>1, Pieces DEF CopyLoop
<1> HIDE DEF n
<1>4. Fields(cmd', "CopyLong", n, 0, 0, <<>>)
  BY <1>2, CommandFields
<1>5. InBounds(cmd')
  BY <1>3, <1>4, InBoundsByFields
<1>6. ValidCall(r)
  <2>1. job.copy # 0
    BY DEF CopyLoop
  <2>2. job.copy - n \in Nat
    BY <1>1, <1>3
  <2>3. /\ job.kind \in Kinds /\ job.rep \in Nat /\ job.byte \in 0 .. 255
        /\ job.raw \in Seq(0 .. 255) /\ job.kind \notin {"RepeatX", "RepeatThenRaw"}
        /\ job.kind = "CopyThenRaw" => job.rep = 0 /\ job.raw # <<>>
        /\ job.kind = "CopyThenRepeat" => job.rep > 0 /\ job.raw = <<>>
    BY <2>1 DEF ValidCall, Calls
  <2> DEFINE copy == job.copy - n
             kind == job.kind
  <2>4. /\ copy \in Nat /\ kind \in Kinds /\ kind \notin {"RepeatX", "RepeatThenRaw"}
        /\ kind = "CopyThenRaw" => job.rep = 0 /\ job.raw # <<>>
        /\ kind = "CopyThenRepeat" => job.rep > 0 /\ job.raw = <<>>
    BY <2>2, <2>3
  <2> HIDE DEF copy, kind
  <2>5. ValidCall(Job(kind, copy, job.rep, job.byte, job.raw))
    BY <2>3, <2>4 DEF ValidCall, Calls, Job
  <2> QED
    BY <2>5 DEF copy, kind
<1>7. job' = NoJob \/ ValidCall(job')
  BY <1>2, <1>6 DEF Left
<1>8. Meaning(job) = Meaning(cmd') \o Meaning(Left(r))
  <2>1. /\ r.copy = job.copy - n /\ r.rep = job.rep
        /\ r.byte = job.byte /\ r.raw = job.raw
    BY JobFields
  <2> HIDE DEF r
  <2> QED
    BY <1>1, <1>3, <1>4, <2>1, CutCopy, SMTT(30) DEF Fields
<1> QED
  BY <1>2, <1>5, <1>7, <1>8 DEF Good

(* The whole payload as a piece: nothing is left after it.                 *)
LEMMA WholePayload ==
  ASSUME NEW raw \in Seq(0 .. 255)
  PROVE  First(Len(raw), raw) = raw /\ Rest(Len(raw), raw) = <<>>
<1> DEFINE B == 0 .. 255
           f == First(Len(raw), raw)
<1>1. /\ raw \in Seq(B) /\ f \in Seq(B) /\ Len(f) = Len(raw) /\ Len(raw) \in Nat
      /\ \A k \in 1 .. Len(raw) : f[k] = raw[k]
  BY Subspans
<1> HIDE DEF B, f
<1>2. f = raw
  BY <1>1, SeqEqual
<1> QED
  BY <1>2, Subspans DEF f

LEMMA NothingLeft == Left(NoJob) = NoJob /\ Parts(NoJob)
BY EmptySeq DEF Left, NoJob, Job, Parts

LEMMA NoJobFields ==
  NoJob.copy = 0 /\ NoJob.rep = 0 /\ NoJob.byte = 0 /\ NoJob.raw = <<>>
BY DEF NoJob, Job

LEMMA RawCall ==
  ASSUME NEW raw \in Seq(0 .. 255), raw # <<>>
  PROVE  ValidCall(WriteRawJob(raw))
BY DEF ValidCall, Calls, Job, Kinds, WriteRawJob, CopyThenRawJob

(* A payload cut after its first n bytes, whatever came before it.         *)
LEMMA RawStep ==
  ASSUME ValidCall(job), NEW n \in Nat, n <= Len(job.raw),
         NEW c, NEW op, NEW byte \in 0 .. 255, job.rep > 0 => byte = job.byte,
         Fields(c, op, job.copy, job.rep, byte, First(n, job.raw)), InBounds(c)
  PROVE  Good(job, c, Left(WriteRawJob(Rest(n, job.raw))))
<1> DEFINE r == WriteRawJob(Rest(n, job.raw))
<1>1. Parts(job) /\ job.raw \in Seq(0 .. 255)
  BY ValidParts DEF Parts
<1>2. Rest(n, job.raw) \in Seq(0 .. 255)
  BY <1>1, Subspans
<1>3. r = Job("CopyThenRaw", 0, 0, 0, Rest(n, job.raw))
  BY CallFields
<1>4. r.copy = 0 /\ r.rep = 0 /\ r.byte = 0 /\ r.raw = Rest(n, job.raw)
  BY <1>3, JobFields
<1>5. Rest(n, job.raw) # <<>> => ValidCall(r)
  BY <1>2, RawCall
<1> HIDE DEF r
<1>6. Left(r) = NoJob \/ ValidCall(Left(r))
  BY <1>4, <1>5 DEF Left
<1>7. /\ c.copy = job.copy /\ c.rep = job.rep /\ c.byte = byte
      /\ c.raw = First(n, job.raw) /\ c.byte \in 0 .. 255 /\ r.byte \in 0 .. 255
  BY <1>4 DEF Fields
<1>8. Meaning(job) = Meaning(c) \o Meaning(Left(r))
  BY <1>1, <1>4, <1>7, CutRaw
<1> QED
  BY <1>6, <1>8 DEF Good, r

(* Repeats cut after the first n of them.                                  *)
LEMMA RepeatStep ==
  ASSUME ValidCall(job), NEW n \in Nat, n <= job.rep,
         NEW c, NEW op, Fields(c, op, job.copy, n, job.byte, <<>>), InBounds(c),
         NEW r, r.copy = 0, r.rep = job.rep - n, r.byte \in 0 .. 255, r.raw = job.raw,
         n < job.rep => r.byte = job.byte,
         n < job.rep \/ job.raw # <<>> => ValidCall(r)
  PROVE  Good(job, c, Left(r))
<1>1. Parts(job) /\ job.rep \in Nat
  BY ValidParts DEF Parts
<1>2. Left(r) = NoJob \/ ValidCall(Left(r))
  <2>1. CASE n < job.rep \/ job.raw # <<>>
    BY <2>1 DEF Left
  <2>2. CASE ~(n < job.rep) /\ job.raw = <<>>
    BY <1>1, <2>2 DEF Left
  <2> QED
    BY <2>1, <2>2
<1>3. Meaning(job) = Meaning(c) \o Meaning(Left(r))
  BY <1>1, CutRepeat DEF Fields
<1> QED
  BY <1>2, <1>3 DEF Good

(* A single byte left of the repeats, sent as a raw byte.                  *)
LEMMA SingleStep ==
  ASSUME ValidCall(job), job.rep = 1, NEW c, InBounds(c),
         c.copy = job.copy, c.rep = 0, c.byte = 0, c.raw = <<job.byte>>,
         NEW r, r.copy = 0, r.rep = 0, r.byte = 0, r.raw = job.raw,
         job.raw # <<>> => ValidCall(r)
  PROVE  Good(job, c, Left(r))
<1>1. Parts(job)
  BY ValidParts
<1>2. Left(r) = NoJob \/ ValidCall(Left(r))
  BY DEF Left
<1>3. c.byte \in 0 .. 255 /\ r.byte \in 0 .. 255
  OBVIOUS
<1>4. Meaning(job) = Meaning(c) \o Meaning(Left(r))
  BY <1>1, <1>3, CutSingleRepeat
<1> QED
  BY <1>2, <1>4 DEF Good
-----------------------------------------------------------------------------
(* One lemma per action.                                                   *)
CallOf(j, kind) ==
  /\ j.kind = kind
  /\ j.copy \in Nat /\ j.rep \in Nat /\ j.byte \in 0 .. 255 /\ j.raw \in Seq(0 .. 255)
  /\ Len(j.raw) \in Nat

LEMMA CallParts ==
  ASSUME NEW kind, ValidCall(job), Running(kind)
  PROVE  CallOf(job, kind) /\ job.copy \in 0 .. 7
BY ValidParts DEF Running, Parts, CallOf

LEMMA RawLoopGood ==
  ASSUME ValidCall(job), RawLoop
  PROVE  Good(job, cmd', job')
<1> DEFINE n == Piece(Len(job.raw))
           c == CopyThenRawLong(job.copy, First(n, job.raw))
<1>1. CallOf(job, "CopyThenRaw") /\ job.copy \in 0 .. 7 /\ job.rep = 0 /\ Len(job.raw) >= 8
  <2>1. Running("CopyThenRaw")
    BY DEF RawLoop
  <2> QED
    BY <2>1, CallParts DEF CallOf, ValidCall, RawLoop
<1>2. cmd' = c /\ job' = Left(WriteRawJob(Rest(n, job.raw)))
  BY DEF RawLoop, Emit, WriteRawJob
<1>3. n \in Nat /\ n \in 8 .. 255 /\ n <= Len(job.raw)
  <2>1. Len(job.raw) \in Nat
    BY <1>1 DEF CallOf
  <2> QED
    BY <1>1, <2>1, LongPiece
<1> HIDE DEF n
<1>4. Len(First(n, job.raw)) = n
  <2>1. job.raw \in Seq(0 .. 255) /\ Len(job.raw) \in Nat
    BY <1>1 DEF CallOf
  <2>2. n \in 0 .. Len(job.raw)
    BY <1>3, <2>1
  <2> QED
    BY <2>1, <2>2, Subspans
<1>5. Fields(c, "CopyThenRawLong", job.copy, 0, 0, First(n, job.raw))
  BY CommandFields
<1> HIDE DEF c
<1>6. InBounds(c)
  <2>1. c.op = "CopyThenRawLong" /\ c.copy = job.copy /\ c.raw = First(n, job.raw)
    BY <1>5 DEF Fields
  <2>2. c.copy \in 0 .. 7 /\ Len(c.raw) \in 8 .. 255
    BY <1>1, <1>3, <1>4, <2>1
  <2> QED
    BY <2>1, <2>2 DEF InBounds
<1>7. Good(job, c, Left(WriteRawJob(Rest(n, job.raw))))
  BY <1>1, <1>3, <1>5, <1>6, RawStep
<1> QED
  BY <1>2, <1>7

LEMMA RawTailGood ==
  ASSUME ValidCall(job), RawTail
  PROVE  Good(job, cmd', job')
<1> DEFINE n == Len(job.raw)
           c == CopyThenRaw(job.copy, job.raw)
<1>1. /\ CallOf(job, "CopyThenRaw") /\ job.copy \in 0 .. 7 /\ job.rep = 0
      /\ n \in 1 .. 7
  <2>1. Running("CopyThenRaw")
    BY DEF RawTail
  <2>2. job.raw # <<>> /\ job.rep = 0
    BY <2>1 DEF ValidCall, Running
  <2>3. CallOf(job, "CopyThenRaw") /\ job.copy \in 0 .. 7
    BY <2>1, CallParts
  <2>4. n \in Nat /\ n >= 1
    BY <2>2, ValidParts
  <2>5. n <= 7
    BY DEF RawTail
  <2> HIDE DEF n
  <2> QED
    BY <2>2, <2>3, <2>4, <2>5
<1>2. cmd' = c /\ job' = Left(NoJob)
  BY DEF RawTail, Emit
<1>3. First(n, job.raw) = job.raw /\ Rest(n, job.raw) = <<>>
  BY <1>1, WholePayload DEF CallOf
<1>4. Fields(c, "CopyThenRaw", job.copy, 0, 0, job.raw)
  BY CommandFields
<1> HIDE DEF c
<1>5. InBounds(c)
  <2>1. c.op = "CopyThenRaw" /\ c.copy = job.copy /\ c.raw = job.raw
    BY <1>4 DEF Fields
  <2>2. c.copy \in 0 .. 7 /\ Len(c.raw) \in 1 .. 7
    BY <1>1, <2>1
  <2> QED
    BY <2>1, <2>2 DEF InBounds
<1>6. Good(job, c, Left(WriteRawJob(Rest(n, job.raw))))
  BY <1>1, <1>3, <1>4, <1>5, RawStep DEF CallOf
<1>7. Left(WriteRawJob(<<>>)) = NoJob
  BY DEF Left, WriteRawJob, CopyThenRawJob, Job
<1> QED
  BY <1>2, <1>3, <1>6, <1>7, NothingLeft

LEMMA RepeatLoopGood ==
  ASSUME ValidCall(job), RepeatLoop
  PROVE  Good(job, cmd', job')
<1> DEFINE n == Piece(job.rep)
           c == CopyThenRepeatLong(job.copy, n, job.byte)
           r == Job("CopyThenRepeat", 0, job.rep - n, job.byte, <<>>)
<1>1. /\ CallOf(job, "CopyThenRepeat") /\ job.copy \in 0 .. 7
      /\ job.rep >= 8 /\ job.raw = <<>>
  <2>1. Running("CopyThenRepeat")
    BY DEF RepeatLoop
  <2>2. CallOf(job, "CopyThenRepeat") /\ job.copy \in 0 .. 7
    BY <2>1, CallParts
  <2>3. job.rep >= 8
    BY DEF RepeatLoop
  <2>4. job.raw = <<>>
    BY <2>1 DEF ValidCall, Running
  <2> QED
    BY <2>2, <2>3, <2>4
<1>2. cmd' = c /\ job' = Left(r)
  BY DEF RepeatLoop, Emit, CopyThenRepeatJob
<1>3. n \in Nat /\ n \in 8 .. 255 /\ n <= job.rep
  <2>1. job.rep \in Nat
    BY <1>1 DEF CallOf
  <2> QED
    BY <1>1, <2>1, LongPiece
<1> HIDE DEF n
<1>4. Fields(c, "CopyThenRepeatLong", job.copy, n, job.byte, <<>>)
  BY CommandFields
<1>5. n < job.rep => ValidCall(r)
  BY <1>1, <1>3, EmptySeq DEF CallOf, ValidCall, Calls, Kinds, Job
<1>6. r.copy = 0 /\ r.rep = job.rep - n /\ r.byte = job.byte /\ r.raw = job.raw
  BY <1>1, JobFields
<1> HIDE DEF c, r
<1>7. InBounds(c)
  <2>1. c.op = "CopyThenRepeatLong" /\ c.copy = job.copy /\ c.rep = n
    BY <1>4 DEF Fields
  <2>2. c.copy \in 0 .. 7 /\ c.rep \in 8 .. 255
    BY <1>1, <1>3, <2>1
  <2> QED
    BY <2>1, <2>2 DEF InBounds
<1>8. job.byte \in 0 .. 255
  BY <1>1 DEF CallOf
<1>9. Good(job, c, Left(r))
  BY <1>1, <1>3, <1>4, <1>5, <1>6, <1>7, <1>8, RepeatStep
<1> QED
  BY <1>2, <1>9

LEMMA RepeatTailGood ==
  ASSUME ValidCall(job), RepeatTail
  PROVE  Good(job, cmd', job')
<1>1. /\ job.copy \in 0 .. 7 /\ job.rep \in 0 .. 7 /\ job.raw = <<>>
      /\ job.byte \in 0 .. 255
  <2>1. Running("CopyThenRepeat") /\ job.rep <= 7
    BY DEF RepeatTail
  <2>2. CallOf(job, "CopyThenRepeat") /\ job.copy \in 0 .. 7
    BY <2>1, CallParts
  <2>3. job.raw = <<>>
    BY <2>1 DEF ValidCall, Running
  <2> QED
    BY <2>1, <2>2, <2>3 DEF CallOf
<1>2. CASE job.rep >= 2 /\ Emit(CopyThenRepeat(job.copy, job.rep, job.byte), NoJob)
  <2> DEFINE c == CopyThenRepeat(job.copy, job.rep, job.byte)
  <2>1. Fields(c, "CopyThenRepeat", job.copy, job.rep, job.byte, <<>>)
    BY CommandFields
  <2>2. cmd' = c /\ job' = Left(NoJob)
    BY <1>2 DEF Emit
  <2> HIDE DEF c
  <2>3. job.rep \in 2 .. 7
    BY <1>1, <1>2
  <2>4. InBounds(c)
    <3>1. c.op = "CopyThenRepeat" /\ c.copy = job.copy /\ c.rep = job.rep
      BY <2>1 DEF Fields
    <3>2. c.copy \in 0 .. 7 /\ c.rep \in 2 .. 7
      BY <1>1, <2>3, <3>1
    <3> QED
      BY <3>1, <3>2 DEF InBounds
  <2>5. Good(job, c, Left(NoJob))
    <3>1. /\ NoJob.copy = 0 /\ NoJob.rep = job.rep - job.rep /\ NoJob.byte \in 0 .. 255
          /\ NoJob.raw = job.raw
      BY <1>1, NoJobFields
    <3> QED
      BY <1>1, <2>1, <2>4, <3>1, RepeatStep
  <2> QED
    BY <2>2, <2>5
<1>3. CASE job.rep = 1 /\ Emit(CopyThenRaw(job.copy, <<job.byte>>), NoJob)
  <2> DEFINE c == CopyThenRaw(job.copy, <<job.byte>>)
  <2>1. Fields(c, "CopyThenRaw", job.copy, 0, 0, <<job.byte>>)
    BY CommandFields
  <2>2. cmd' = c /\ job' = Left(NoJob)
    BY <1>3 DEF Emit
  <2> HIDE DEF c
  <2>3. InBounds(c)
    <3>1. c.op = "CopyThenRaw" /\ c.copy = job.copy /\ c.raw = <<job.byte>>
      BY <2>1 DEF Fields
    <3>2. c.copy \in 0 .. 7 /\ Len(c.raw) = 1
      BY <1>1, <3>1
    <3> QED
      BY <3>1, <3>2 DEF InBounds
  <2>4. c.copy = job.copy /\ c.rep = 0 /\ c.byte = 0 /\ c.raw = <<job.byte>>
    BY <2>1 DEF Fields
  <2>5. Good(job, c, Left(NoJob))
    <3>1. job.rep = 1 /\ job.raw = <<>>
      BY <1>1, <1>3
    <3> QED
      BY <2>3, <2>4, <3>1, NoJobFields, SingleStep
  <2> QED
    BY <2>2, <2>5
<1> QED
  BY <1>2, <1>3 DEF RepeatTail

LEMMA RepeatXLoopGood ==
  ASSUME ValidCall(job), RepeatXLoop
  PROVE  Good(job, cmd', job')
<1> DEFINE n == Piece(job.rep)
           c == IF n >= 8 THEN RepeatXLong(n) ELSE RepeatX(n)
           r == Job("RepeatX", 0, job.rep - n, job.byte, <<>>)
<1>1. /\ job.copy = 0 /\ job.rep \in Nat /\ job.rep >= 1 /\ job.raw = <<>>
      /\ job.byte = RepeatXByte
  <2>1. job.kind = "RepeatX"
    BY DEF RepeatXLoop, Running
  <2> QED
    BY <2>1 DEF ValidCall, Calls
<1>2. cmd' = c /\ job' = Left(r)
  BY <1>1 DEF RepeatXLoop, Emit, RepeatJob
<1>3. n \in Nat /\ n \in 1 .. 255 /\ n <= job.rep
  BY <1>1, SomePiece
<1> HIDE DEF n
<1>4. \/ n \in 8 .. 255 /\ Fields(c, "RepeatXLong", 0, n, RepeatXByte, <<>>)
      \/ n \in 1 .. 7   /\ Fields(c, "RepeatX", 0, n, RepeatXByte, <<>>)
  BY <1>3, CommandFields
<1>5. InBounds(c)
  <2> HIDE DEF c
  <2> QED
    BY <1>4, InBoundsByFields
<1>6. r.copy = 0 /\ r.rep = job.rep - n /\ r.byte = job.byte /\ r.raw = job.raw
  BY <1>1, JobFields
<1>7. job.byte \in 0 .. 255
  BY <1>1 DEF RepeatXByte
<1>8. n < job.rep => ValidCall(r)
  BY <1>1, <1>3, <1>7, EmptySeq DEF ValidCall, Calls, Kinds, Job
<1> HIDE DEF c, r
<1>9. Good(job, c, Left(r))
  <2>1. CASE Fields(c, "RepeatXLong", 0, n, RepeatXByte, <<>>)
    BY <1>1, <1>3, <1>5, <1>6, <1>7, <1>8, <2>1, RepeatStep
  <2>2. CASE Fields(c, "RepeatX", 0, n, RepeatXByte, <<>>)
    BY <1>1, <1>3, <1>5, <1>6, <1>7, <1>8, <2>2, RepeatStep
  <2> QED
    BY <1>4, <2>1, <2>2
<1> QED
  BY <1>2, <1>9

(* The arguments of a cmd_RepeatThenRaw call.                              *)
LEMMA RepeatThenRawParts ==
  ASSUME ValidCall(job), Running("RepeatThenRaw")
  PROVE  /\ job.copy = 0 /\ job.rep \in Nat /\ job.byte \in 0 .. 255
         /\ job.raw \in Seq(0 .. 255) /\ job.raw # <<>>
         /\ Len(job.raw) \in Nat /\ Len(job.raw) >= 1
<1>1. job.kind = "RepeatThenRaw"
  BY DEF Running
<1>2. job.raw # <<>> /\ job.copy = 0 /\ job.rep \in Nat /\ job.byte \in 0 .. 255
  BY <1>1 DEF ValidCall, Calls
<1>3. Len(job.raw) \in Nat /\ Len(job.raw) >= 1
  BY <1>2, ValidParts
<1>4. job.raw \in Seq(0 .. 255)
  BY DEF ValidCall, Calls
<1> QED
  BY <1>2, <1>3, <1>4

LEMMA LongRepeatGood ==
  ASSUME ValidCall(job), LongRepeat
  PROVE  Good(job, cmd', job')
<1> DEFINE n == Piece(job.rep)
           c == CopyThenRepeatLong(0, n, job.byte)
           r == Job("RepeatThenRaw", 0, job.rep - n, job.byte, job.raw)
<1>1. /\ job.copy = 0 /\ job.rep \in Nat /\ job.byte \in 0 .. 255
      /\ job.raw \in Seq(0 .. 255) /\ job.raw # <<>>
  <2>1. Running("RepeatThenRaw")
    BY DEF LongRepeat
  <2> QED
    BY <2>1, RepeatThenRawParts
<1>2. cmd' = c /\ job' = Left(r)
  BY DEF LongRepeat, Emit, RepeatThenRawJob
<1>3. n \in Nat /\ n \in 8 .. 255 /\ n <= job.rep
  BY <1>1, LongPiece DEF LongRepeat
<1> HIDE DEF n
<1>4. Fields(c, "CopyThenRepeatLong", 0, n, job.byte, <<>>)
  BY CommandFields
<1>5. ValidCall(r)
  BY <1>1, <1>3 DEF ValidCall, Calls, Kinds, Job
<1>6. r.copy = 0 /\ r.rep = job.rep - n /\ r.byte = job.byte /\ r.raw = job.raw
  BY JobFields
<1> HIDE DEF c, r
<1>7. InBounds(c)
  BY <1>3, <1>4 DEF Fields, InBounds
<1>8. Good(job, c, Left(r))
  BY <1>1, <1>3, <1>4, <1>5, <1>6, <1>7, RepeatStep
<1> QED
  BY <1>2, <1>8

(* A piece of the raw bytes, sent by the short or the long form of a       *)
(* command.                                                                *)
LEMMA RawPiece ==
  ASSUME NEW raw \in Seq(0 .. 255), raw # <<>>, Len(raw) \in Nat, Len(raw) >= 1
  PROVE  LET n == Piece(Len(raw))
         IN  /\ n \in Nat /\ n \in 1 .. 255 /\ n <= Len(raw)
             /\ First(n, raw) \in Seq(0 .. 255) /\ Len(First(n, raw)) = n
             /\ n < 8 => First(n, raw) = raw
<1> DEFINE n == Piece(Len(raw))
<1>1. n \in Nat /\ n \in 1 .. 255 /\ n <= Len(raw)
  BY SomePiece
<1>2. n < 8 => n = Len(raw)
  BY SomePiece
<1> HIDE DEF n
<1>3. First(n, raw) \in Seq(0 .. 255) /\ Len(First(n, raw)) = n
  BY <1>1, Subspans
<1>4. n < 8 => First(n, raw) = raw
  BY <1>2, WholePayload
<1> QED
  BY <1>1, <1>3, <1>4 DEF n

LEMMA RepeatWithRawGood ==
  ASSUME ValidCall(job), RepeatWithRaw
  PROVE  Good(job, cmd', job')
<1> DEFINE n == Piece(Len(job.raw))
           c == IF n >= 8 THEN RepeatThenRawLong(job.rep, job.byte, First(n, job.raw))
                          ELSE RepeatThenRaw(job.rep, job.byte, job.raw)
           p == First(n, job.raw)
<1>1. /\ job.copy = 0 /\ job.rep \in 2 .. 7 /\ job.byte \in 0 .. 255
      /\ job.raw \in Seq(0 .. 255) /\ job.raw # <<>>
      /\ Len(job.raw) \in Nat /\ Len(job.raw) >= 1
  <2>1. Running("RepeatThenRaw") /\ job.rep \in 2 .. 7
    BY DEF RepeatWithRaw
  <2> QED
    BY <2>1, RepeatThenRawParts
<1>2. cmd' = c /\ job' = Left(WriteRawJob(Rest(n, job.raw)))
  BY DEF RepeatWithRaw, Emit
<1>3. /\ n \in Nat /\ n \in 1 .. 255 /\ n <= Len(job.raw)
      /\ Len(p) = n /\ (n < 8 => p = job.raw)
  BY <1>1, RawPiece
<1> HIDE DEF n
<1>4. \/ /\ n \in 8 .. 255
         /\ Fields(c, "RepeatThenRawLong", 0, job.rep, job.byte, p)
      \/ /\ n \in 1 .. 7
         /\ Fields(c, "RepeatThenRaw", 0, job.rep, job.byte, p)
  <2>1. CASE n >= 8
    <3>1. c = RepeatThenRawLong(job.rep, job.byte, p)
      BY <2>1
    <3>2. n \in 8 .. 255
      BY <1>3, <2>1
    <3> QED
      BY <3>1, <3>2, CommandFields
  <2>2. CASE ~(n >= 8)
    <3>1. c = RepeatThenRaw(job.rep, job.byte, p)
      BY <1>3, <2>2
    <3>2. n \in 1 .. 7
      BY <1>3, <2>2
    <3> QED
      BY <3>1, <3>2, CommandFields
  <2> QED
    BY <2>1, <2>2
<1> HIDE DEF c, p
<1>5. InBounds(c)
  <2>1. CASE n \in 8 .. 255 /\ Fields(c, "RepeatThenRawLong", 0, job.rep, job.byte,
                                      p)
    <3>1. c.op = "RepeatThenRawLong" /\ c.rep = job.rep /\ c.raw = p
      BY <2>1 DEF Fields
    <3>2. c.rep \in 2 .. 7
      BY <1>1, <3>1
    <3>3. Len(c.raw) = n /\ n \in 8 .. 255
      BY <1>3, <2>1, <3>1
    <3> QED
      BY <3>1, <3>2, <3>3 DEF InBounds
  <2>2. CASE n \in 1 .. 7 /\ Fields(c, "RepeatThenRaw", 0, job.rep, job.byte,
                                    p)
    <3>1. c.op = "RepeatThenRaw" /\ c.rep = job.rep /\ c.raw = p
      BY <2>2 DEF Fields
    <3>2. c.rep \in 2 .. 7
      BY <1>1, <3>1
    <3>3. Len(c.raw) = n /\ n \in 1 .. 7
      BY <1>3, <2>2, <3>1
    <3> QED
      BY <3>1, <3>2, <3>3 DEF InBounds
  <2> QED
    BY <1>4, <2>1, <2>2
<1>6. PICK op : Fields(c, op, job.copy, job.rep, job.byte, p)
  BY <1>1, <1>4
<1>7. Good(job, c, Left(WriteRawJob(Rest(n, job.raw))))
  <2>1. n \in Nat /\ n <= Len(job.raw) /\ job.byte \in 0 .. 255
    BY <1>1, <1>3
  <2>2. Fields(c, op, job.copy, job.rep, job.byte, First(n, job.raw))
    BY <1>6 DEF p
  <2> QED
    BY <1>5, <2>1, <2>2, RawStep
<1> QED
  BY <1>2, <1>7

LEMMA RepeatLeftoverGood ==
  ASSUME ValidCall(job), RepeatLeftover
  PROVE  Good(job, cmd', job')
<1> DEFINE c == CopyThenRaw(0, <<job.byte>>)
           r == WriteRawJob(job.raw)
<1>1. /\ job.copy = 0 /\ job.rep = 1 /\ job.byte \in 0 .. 255
      /\ job.raw \in Seq(0 .. 255) /\ job.raw # <<>>
  <2>1. Running("RepeatThenRaw") /\ job.rep = 1
    BY DEF RepeatLeftover
  <2> QED
    BY <2>1, RepeatThenRawParts
<1>2. cmd' = c /\ job' = Left(r)
  BY DEF RepeatLeftover, Emit
<1>3. Fields(c, "CopyThenRaw", 0, 0, 0, <<job.byte>>)
  BY CommandFields
<1>4. r.copy = 0 /\ r.rep = 0 /\ r.byte = 0 /\ r.raw = job.raw
  BY CallFields, JobFields
<1>5. ValidCall(r)
  BY <1>1, RawCall
<1> HIDE DEF c, r
<1>6. InBounds(c)
  BY <1>3 DEF Fields, InBounds
<1>7. c.copy = job.copy /\ c.rep = 0 /\ c.byte = 0 /\ c.raw = <<job.byte>>
  BY <1>1, <1>3 DEF Fields
<1>8. Good(job, c, Left(r))
  BY <1>1, <1>4, <1>5, <1>6, <1>7, SingleStep
<1> QED
  BY <1>2, <1>8

LEMMA RawAfterRepeatGood ==
  ASSUME ValidCall(job), RawAfterRepeat
  PROVE  Good(job, cmd', job')
<1> DEFINE n == Piece(Len(job.raw))
           c == IF n >= 8 THEN CopyThenRawLong(0, First(n, job.raw))
                          ELSE CopyThenRaw(0, job.raw)
           p == First(n, job.raw)
<1>1. /\ job.copy = 0 /\ job.rep = 0
      /\ job.raw \in Seq(0 .. 255) /\ job.raw # <<>>
      /\ Len(job.raw) \in Nat /\ Len(job.raw) >= 1
  <2>1. Running("RepeatThenRaw") /\ job.rep = 0
    BY DEF RawAfterRepeat
  <2> QED
    BY <2>1, RepeatThenRawParts
<1>2. cmd' = c /\ job' = Left(WriteRawJob(Rest(n, job.raw)))
  BY DEF RawAfterRepeat, Emit
<1>3. /\ n \in Nat /\ n \in 1 .. 255 /\ n <= Len(job.raw)
      /\ Len(p) = n /\ (n < 8 => p = job.raw)
  BY <1>1, RawPiece
<1> HIDE DEF n
<1>4. \/ n \in 8 .. 255 /\ Fields(c, "CopyThenRawLong", 0, 0, 0, p)
      \/ n \in 1 .. 7 /\ Fields(c, "CopyThenRaw", 0, 0, 0, p)
  BY <1>3, CommandFields
<1> HIDE DEF c, p
<1>5. InBounds(c)
  <2>1. CASE n \in 8 .. 255 /\ Fields(c, "CopyThenRawLong", 0, 0, 0, p)
    <3>1. c.op = "CopyThenRawLong" /\ c.copy = 0 /\ c.raw = p
      BY <2>1 DEF Fields
    <3>2. Len(c.raw) \in 8 .. 255
      BY <1>3, <2>1, <3>1
    <3> QED
      BY <3>1, <3>2 DEF InBounds
  <2>2. CASE n \in 1 .. 7 /\ Fields(c, "CopyThenRaw", 0, 0, 0, p)
    <3>1. c.op = "CopyThenRaw" /\ c.copy = 0 /\ c.raw = p
      BY <2>2 DEF Fields
    <3>2. Len(c.raw) \in 1 .. 7
      BY <1>3, <2>2, <3>1
    <3> QED
      BY <3>1, <3>2 DEF InBounds
  <2> QED
    BY <1>4, <2>1, <2>2
<1>6. PICK op : Fields(c, op, job.copy, job.rep, 0, p)
  BY <1>1, <1>4
<1>7. Good(job, c, Left(WriteRawJob(Rest(n, job.raw))))
  <2>1. n \in Nat /\ n <= Len(job.raw) /\ 0 \in 0 .. 255 /\ ~(job.rep > 0)
    BY <1>1, <1>3
  <2>2. Fields(c, op, job.copy, job.rep, 0, First(n, job.raw))
    BY <1>6 DEF p
  <2> QED
    BY <1>5, <2>1, <2>2, RawStep
<1> QED
  BY <1>2, <1>7
-----------------------------------------------------------------------------
LEMMA ChunkGood ==
  ASSUME ValidCall(job), Chunk
  PROVE  Good(job, cmd', job')
BY CopyLoopGood, RawLoopGood, RawTailGood, RepeatLoopGood, RepeatTailGood, RepeatXLoopGood,
   LongRepeatGood, RepeatWithRawGood, RepeatLeftoverGood, RawAfterRepeatGood DEF Chunk

Octets == 0 .. 255

(* What a function returns is what it appended, at least one byte, and all *)
(* it appended are bytes.                                                  *)
Counted(c) ==
  /\ c.bytes \in Seq(0 .. 255)
  /\ c.vsize = Len(c.bytes)
  /\ c.vsize \in Nat \ {0}

LEMMA HeaderBytes ==
  /\ \A op \in 0 .. 3, h, l \in Nat : Head8(op, h, l) \in Octets
  /\ \A n \in Nat : Extend(n) \in Octets /\ 128 + ((n \div 8) % 32) \in Octets
<1>1. ASSUME NEW op \in 0 .. 3, NEW h \in Nat, NEW l \in Nat
      PROVE  Head8(op, h, l) \in Octets
  <2>1. h % 8 \in 0 .. 7 /\ l % 8 \in 0 .. 7
    OBVIOUS
  <2> QED
    BY <2>1 DEF Head8, Octets
<1>2. ASSUME NEW n \in Nat
      PROVE  Extend(n) \in Octets /\ 128 + ((n \div 8) % 32) \in Octets
  <2>1. (n \div 8) % 32 \in 0 .. 31
    OBVIOUS
  <2> QED
    BY <2>1 DEF Extend, Octets
<1> QED
  BY <1>1, <1>2

(* A head of one to three bytes, and a payload or none.                    *)
LEMMA CountedBytes ==
  ASSUME NEW op, NEW copy, NEW rep, NEW byte, NEW arg, NEW raw \in Seq(Octets),
         NEW hd \in Seq(Octets), hd # <<>>
  PROVE  Counted(Command(op, copy, rep, byte, arg, hd \o raw, Len(hd) + Len(raw)))
<1> DEFINE c == Command(op, copy, rep, byte, arg, hd \o raw, Len(hd) + Len(raw))
<1>1. hd \in Seq(Octets) /\ raw \in Seq(Octets)
  OBVIOUS
<1>2. c.bytes = hd \o raw /\ c.vsize = Len(hd) + Len(raw)
  BY DEF Command
<1> HIDE DEF c
<1>3. hd \o raw \in Seq(Octets) /\ Len(hd \o raw) = Len(hd) + Len(raw)
      /\ Len(hd) \in Nat \ {0} /\ Len(raw) \in Nat
  BY <1>1
<1>4. c.bytes \in Seq(Octets) /\ c.vsize = Len(c.bytes) /\ c.vsize \in Nat \ {0}
  BY <1>2, <1>3
<1> QED
  BY <1>4 DEF Counted, Octets, c

LEMMA CountedAlone ==
  ASSUME NEW op, NEW copy, NEW rep, NEW byte, NEW arg, NEW hd \in Seq(Octets), hd # <<>>
  PROVE  Counted(Command(op, copy, rep, byte, arg, hd, Len(hd)))
<1> DEFINE c == Command(op, copy, rep, byte, arg, hd, Len(hd))
<1>1. hd \in Seq(Octets)
  OBVIOUS
<1>2. c.bytes = hd /\ c.vsize = Len(hd)
  BY DEF Command
<1> HIDE DEF c
<1>3. Len(hd) \in Nat \ {0}
  BY <1>1
<1>4. c.bytes \in Seq(Octets) /\ c.vsize = Len(c.bytes) /\ c.vsize \in Nat \ {0}
  BY <1>1, <1>2, <1>3
<1> QED
  BY <1>4 DEF Counted, Octets, c

LEMMA CommandsCounted ==
  /\ \A n \in Nat : Counted(CopyLong(n)) /\ Counted(RepeatX(n)) /\ Counted(RepeatXLong(n))
  /\ \A m \in Nat, raw \in Seq(Octets) :
       Counted(CopyThenRaw(m, raw)) /\ Counted(CopyThenRawLong(m, raw))
  /\ \A m, n \in Nat, b \in Octets :
       Counted(CopyThenRepeat(m, n, b)) /\ Counted(CopyThenRepeatLong(m, n, b))
  /\ \A n \in Nat, b \in Octets, raw \in Seq(Octets) :
       Counted(RepeatThenRaw(n, b, raw)) /\ Counted(RepeatThenRawLong(n, b, raw))
<1>1. ASSUME NEW hd \in Seq(Octets), NEW size \in Nat, Len(hd) = size, hd # <<>>,
             NEW op, NEW copy, NEW rep, NEW byte
      PROVE  /\ Counted(Command(op, copy, rep, byte, <<>>, hd, size))
             /\ \A raw \in Seq(Octets) :
                  Counted(Command(op, copy, rep, byte, raw, hd \o raw, size + Len(raw)))
  <2>1. Counted(Command(op, copy, rep, byte, <<>>, hd, Len(hd)))
    BY <1>1, CountedAlone, Zenon
  <2>2. ASSUME NEW raw \in Seq(Octets)
        PROVE  Counted(Command(op, copy, rep, byte, raw, hd \o raw, Len(hd) + Len(raw)))
    BY <1>1, CountedBytes, Zenon
  <2> QED
    BY <1>1, <2>1, <2>2, Zenon
<1>2. ASSUME NEW x \in Octets, NEW y \in Octets, NEW z \in Octets
      PROVE  /\ <<x>> \in Seq(Octets) /\ Len(<<x>>) = 1 /\ <<x>> # <<>>
             /\ <<x, y>> \in Seq(Octets) /\ Len(<<x, y>>) = 2 /\ <<x, y>> # <<>>
             /\ <<x, y, z>> \in Seq(Octets) /\ Len(<<x, y, z>>) = 3 /\ <<x, y, z>> # <<>>
  OBVIOUS
<1>3. /\ 1 \in Nat /\ 2 \in Nat /\ 3 \in Nat /\ 0 \in Nat
      /\ 0 \in 0 .. 3 /\ 1 \in 0 .. 3 /\ 2 \in 0 .. 3 /\ 3 \in 0 .. 3
  OBVIOUS
<1>4. ASSUME NEW n \in Nat
      PROVE  Counted(CopyLong(n)) /\ Counted(RepeatX(n)) /\ Counted(RepeatXLong(n))
  <2>1. /\ 128 + ((n \div 8) % 32) \in Octets /\ Extend(n) \in Octets
        /\ Head8(3, n, 0) \in Octets /\ Head8(0, n, 0) \in Octets
    BY <1>3, HeaderBytes, Zenon
  <2> QED
    BY <1>1, <1>2, <1>3, <2>1, Zenon DEF CopyLong, RepeatX, RepeatXLong
<1>5. ASSUME NEW m \in Nat, NEW raw \in Seq(Octets)
      PROVE  Counted(CopyThenRaw(m, raw)) /\ Counted(CopyThenRawLong(m, raw))
  <2>0. Len(raw) \in Nat
    OBVIOUS
  <2>1. Head8(0, Len(raw), m) \in Octets /\ Head8(3, Len(raw), m) \in Octets /\ Extend(Len(raw)) \in Octets
    BY <1>3, <2>0, HeaderBytes, Zenon
  <2> QED
    BY <1>1, <1>2, <1>3, <2>1, Zenon DEF CopyThenRaw, CopyThenRawLong
<1>6. ASSUME NEW m \in Nat, NEW n \in Nat, NEW b \in Octets
      PROVE  Counted(CopyThenRepeat(m, n, b)) /\ Counted(CopyThenRepeatLong(m, n, b))
  <2>1. Head8(1, n, m) \in Octets /\ Head8(2, n, m) \in Octets /\ Extend(n) \in Octets
    BY <1>3, HeaderBytes, Zenon
  <2> QED
    BY <1>1, <1>2, <1>3, <2>1, Zenon DEF CopyThenRepeat, CopyThenRepeatLong
<1>7. ASSUME NEW n \in Nat, NEW b \in Octets, NEW raw \in Seq(Octets)
      PROVE  Counted(RepeatThenRaw(n, b, raw)) /\ Counted(RepeatThenRawLong(n, b, raw))
  <2>0. Len(raw) \in Nat
    OBVIOUS
  <2>1. Head8(3, n, Len(raw)) \in Octets /\ Head8(1, n, Len(raw)) \in Octets /\ Extend(Len(raw)) \in Octets
    BY <1>3, <2>0, HeaderBytes, Zenon
  <2> QED
    BY <1>1, <1>2, <1>3, <2>1, Zenon DEF RepeatThenRaw, RepeatThenRawLong
<1> QED
  BY <1>4, <1>5, <1>6, <1>7

LEMMA ChunkCounted ==
  ASSUME ValidCall(job), Chunk
  PROVE  Counted(cmd')
<1>1. job.copy \in Nat /\ job.rep \in Nat /\ job.byte \in Octets /\ job.raw \in Seq(Octets)
  BY ValidParts DEF Parts, Octets
<1>0. 0 \in Octets /\ 0 \in Nat
  BY DEF Octets
<1> DEFINE one == <<job.byte>>
<1>2. one \in Seq(Octets) /\ 0 \in Nat /\ 0 \in Octets
  BY <1>0, <1>1
<1> HIDE DEF one
<1>3. ASSUME job.raw # <<>>
      PROVE  First(Piece(Len(job.raw)), job.raw) \in Seq(Octets)
  <2>1. Len(job.raw) \in Nat /\ Len(job.raw) >= 1
    BY <1>3, ValidParts
  <2>2. Piece(Len(job.raw)) \in 0 .. Len(job.raw)
    BY <2>1, Pieces
  <2> QED
    BY <1>1, <2>2, Subspans DEF Octets
<1>4. Piece(job.rep) \in Nat
  BY <1>1, Pieces
<1>5. CASE CopyLoop
  <2>1. job.copy >= 8 /\ cmd' = CopyLong(CopyPiece(job.copy))
    BY <1>5 DEF CopyLoop, Emit
  <2>2. CopyPiece(job.copy) \in Nat
    BY <1>1, <2>1 DEF CopyPiece
  <2> QED
    BY <1>2, <2>1, <2>2, CommandsCounted
<1>6. CASE RawLoop
  <2>1. cmd' = CopyThenRawLong(job.copy, First(Piece(Len(job.raw)), job.raw))
    BY <1>6 DEF RawLoop, Emit
  <2>2. job.raw # <<>>
    BY <1>6 DEF RawLoop
  <2> QED
    BY <1>1, <1>2, <1>3, <2>1, <2>2, CommandsCounted
<1>7. CASE RawTail
  <2>1. cmd' = CopyThenRaw(job.copy, job.raw)
    BY <1>7 DEF RawTail, Emit
  <2> QED
    BY <1>1, <1>2, <2>1, CommandsCounted
<1>8. CASE RepeatLoop
  <2>1. cmd' = CopyThenRepeatLong(job.copy, Piece(job.rep), job.byte)
    BY <1>8 DEF RepeatLoop, Emit
  <2> QED
    BY <1>1, <1>4, <2>1, CommandsCounted
<1>9. CASE RepeatTail
  <2>1. \/ cmd' = CopyThenRepeat(job.copy, job.rep, job.byte)
        \/ cmd' = CopyThenRaw(job.copy, one)
    BY <1>9 DEF RepeatTail, Emit, one
  <2> QED
    BY <1>1, <1>2, <2>1, CommandsCounted
<1>10. CASE RepeatXLoop
  <2>1. cmd' = RepeatXLong(Piece(job.rep)) \/ cmd' = RepeatX(Piece(job.rep))
    BY <1>10 DEF RepeatXLoop, Emit
  <2> QED
    BY <1>1, <1>4, <2>1, CommandsCounted
<1>11. CASE LongRepeat
  <2>1. cmd' = CopyThenRepeatLong(0, Piece(job.rep), job.byte)
    BY <1>11 DEF LongRepeat, Emit
  <2> QED
    BY <1>1, <1>2, <1>4, <2>1, CommandsCounted
<1>12. CASE RepeatWithRaw
  <2>1. /\ job.raw # <<>>
        /\ \/ cmd' = RepeatThenRawLong(job.rep, job.byte, First(Piece(Len(job.raw)), job.raw))
           \/ cmd' = RepeatThenRaw(job.rep, job.byte, job.raw)
    BY <1>12 DEF RepeatWithRaw, Emit, Running, ValidCall
  <2> QED
    BY <1>1, <1>3, <2>1, CommandsCounted
<1>13. CASE RepeatLeftover
  <2>1. cmd' = CopyThenRaw(0, one)
    BY <1>13 DEF RepeatLeftover, Emit, one
  <2> QED
    BY <1>2, <2>1, CommandsCounted
<1>14. CASE RawAfterRepeat
  <2>1. /\ job.raw # <<>>
        /\ \/ cmd' = CopyThenRawLong(0, First(Piece(Len(job.raw)), job.raw))
           \/ cmd' = CopyThenRaw(0, job.raw)
    BY <1>14 DEF RawAfterRepeat, Emit, Running, ValidCall
  <2> QED
    BY <1>1, <1>2, <1>3, <2>1, CommandsCounted
<1> QED
  BY <1>5, <1>6, <1>7, <1>8, <1>9, <1>10, <1>11, <1>12, <1>13, <1>14 DEF Chunk

LEMMA Arguments ==
  /\ \A c \in CopyLens : c \in Nat
  /\ \A r \in RepeatLens : r \in Nat /\ r > 0
  /\ \A b \in Bytes : b \in 0 .. 255
  /\ \A raw \in Raws : raw \in Seq(0 .. 255) /\ raw # <<>>
BY ChunkAssumption

LEMMA CallIsValid ==
  ASSUME Call
  PROVE  ValidCall(job') /\ InBounds(cmd')
<1>1. InBounds(cmd')
  BY DEF Call, NoCmd, NOP, Command, InBounds
<1>2. ASSUME NEW c \in CopyLens, NEW raw \in Raws
      PROVE  ValidCall(CopyThenRawJob(c, raw))
  <2>1. c \in Nat /\ raw \in Seq(0 .. 255) /\ raw # <<>>
    BY Arguments
  <2> QED
    BY <2>1 DEF CopyThenRawJob, Job, ValidCall, Calls, Kinds
<1>3. ASSUME NEW raw \in Raws PROVE ValidCall(WriteRawJob(raw))
  <2>1. raw \in Seq(0 .. 255) /\ raw # <<>>
    BY Arguments
  <2> QED
    BY <2>1, RawCall
<1>4. ASSUME NEW c \in Nat, NEW r \in RepeatLens, NEW b \in Bytes
      PROVE  ValidCall(CopyThenRepeatJob(c, r, b))
  <2>1. r \in Nat /\ r > 0 /\ b \in 0 .. 255
    BY Arguments
  <2> QED
    BY <2>1, EmptySeq DEF CopyThenRepeatJob, Job, ValidCall, Calls, Kinds
<1>5. ASSUME NEW r \in RepeatLens, NEW b \in Bytes PROVE ValidCall(RepeatJob(r, b))
  <2>1. CASE b # RepeatXByte
    BY <1>4, <2>1 DEF RepeatJob
  <2>2. CASE b = RepeatXByte
    <3>1. r \in Nat /\ r > 0 /\ b \in 0 .. 255
      BY Arguments
    <3> QED
      BY <2>2, <3>1, EmptySeq DEF RepeatJob, Job, ValidCall, Calls, Kinds
  <2> QED
    BY <2>1, <2>2
<1>6. ASSUME NEW r \in RepeatLens, NEW b \in Bytes, NEW raw \in Raws
      PROVE  ValidCall(RepeatThenRawJob(r, b, raw))
  <2>1. r \in Nat /\ b \in 0 .. 255 /\ raw \in Seq(0 .. 255) /\ raw # <<>>
    BY Arguments
  <2> QED
    BY <2>1 DEF RepeatThenRawJob, Job, ValidCall, Calls, Kinds
<1> QED
  BY <1>1, <1>2, <1>3, <1>4, <1>5, <1>6, Arguments DEF Call

LEMMA ChunkNeedsCall == Chunk => job # NoJob
BY DEF Chunk, CopyLoop, RawLoop, RawTail, RepeatLoop, RepeatTail, RepeatXLoop, LongRepeat,
       RepeatWithRaw, RepeatLeftover, RawAfterRepeat, Running, NoJob, Job

(* Both invariants, step by step.                                          *)
Inv == (job = NoJob \/ ValidCall(job)) /\ InBounds(cmd)

(* TypeOK and WithinBounds hold together: a piece is within the bounds     *)
(* because the call it is cut from has the arguments its function asserts. *)
THEOREM Invariance == Spec => []Inv
<1>1. Init => Inv
  BY DEF Init, Inv, NoCmd, NOP, Command, InBounds
<1>2. Inv /\ [Next]_chunkVars => Inv'
  <2> SUFFICES ASSUME Inv, [Next]_chunkVars PROVE Inv'
    OBVIOUS
  <2>1. CASE Call
    BY <2>1, CallIsValid DEF Inv
  <2>2. CASE Chunk
    BY <2>2, ChunkNeedsCall, ChunkGood DEF Inv, Good
  <2>3. CASE UNCHANGED chunkVars
    BY <2>3 DEF Inv, chunkVars
  <2> QED
    BY <2>1, <2>2, <2>3 DEF Next
<1> QED
  BY <1>1, <1>2, PTL DEF Spec

(* The cmd_* functions never call each other, or go round their loops,     *)
(* with arguments they assert against.                                     *)
THEOREM TypeCorrect == Spec => []TypeOK
<1>1. Inv => TypeOK
  BY TypeOKIsValidCall DEF Inv
<1> QED
  BY <1>1, Invariance, PTL

(* Whatever the lengths of the runs, no command outside the bounds of the  *)
(* format is emitted.                                                      *)
THEOREM WithinBoundsHolds == Spec => []WithinBounds
<1>1. Inv => WithinBounds
  BY DEF Inv, WithinBounds
<1> QED
  BY <1>1, Invariance, PTL

(* Whatever the lengths of the runs, cutting a call up loses, repeats and  *)
(* moves nothing.                                                          *)
THEOREM MeaningKeptHolds == Spec => MeaningKept
<1>1. Inv /\ [Next]_chunkVars
        => [job # NoJob => Meaning(job) = Meaning(cmd') \o Meaning(job')]_chunkVars
  <2> SUFFICES ASSUME Inv, Next, job # NoJob
               PROVE  Meaning(job) = Meaning(cmd') \o Meaning(job')
    OBVIOUS
  <2>1. Chunk
    BY DEF Next, Call
  <2> QED
    BY <2>1, ChunkGood DEF Inv, Good
<1> QED
  BY <1>1, Invariance, PTL DEF Spec, MeaningKept
=============================================================================
