-------------------------- MODULE ScoaCodecProofs ---------------------------
(***************************************************************************)
(* The wire format, for payloads of every content, all bytes that may be   *)
(* repeated and all that may follow: decodeNext understands what ScoaCmd   *)
(* writes.                                                                 *)
(*                                                                         *)
(* A command is a header, the repeated byte if it is named, and a payload. *)
(* FieldsOf and ExtendOf say that the fields of a header do not run into   *)
(* each other; HeaderHeard, PlainHeard and NamedHeard that the decoder gets *)
(* to the header, finds the payload and stops at its end, whatever the     *)
(* payload looks like; then there is one lemma for each function of        *)
(* ScoaCmd: the decoder takes the branch the command was written for.      *)
(***************************************************************************)
EXTENDS ScoaCodec, SequenceTheorems, TLAPS

Octet == 0 .. 255
Field == 0 .. 7

(* What the decoder sees: header and repeated byte (hd), payload, and the  *)
(* byte after the command.                                                 *)
Stream(hd, raw, b) == Append(hd \o raw, b)

(* The two headers, of counts that are in bounds.                          *)
PlainHeader(hdr, copy, rep, n) == Header(hdr, copy, rep, FALSE, n, TRUE)
NamedHeader(hdr, copy, rep, n) == Header(hdr, copy, rep, TRUE, n, TRUE)

(* What decodeNext makes of the header at the front of hd.                 *)
Reads(hd, h) ==
  /\ Len(hd) >= 1
  /\ hd[1] \notin {64, 65, 66}
  /\ \/ hd[1] \div 32 # 5 /\ h = ShortHeader(hd[1])
     \/ hd[1] \div 32 = 5 /\ Len(hd) >= 2 /\ h = LongHeader(8 * (hd[1] % 32), hd[2])

(* Everything that is claimed of a command.                                *)
Carried(c) ==
  /\ c.vsize = Len(c.bytes)
  /\ c.bytes \in Seq(Octet)
  /\ \A b \in Octet : Heard(decodeNext(Append(c.bytes, b)), c)
-----------------------------------------------------------------------------
(* A header byte is its three fields.                                      *)
LEMMA FieldsOf ==
  ASSUME NEW op \in 0 .. 3, NEW h \in Nat, NEW l \in Nat
  PROVE  /\ Head8(op, h, l) \in Octet
         /\ Head8(op, h, l) \div 64 = op
         /\ High(Head8(op, h, l)) = h % 8
         /\ Low(Head8(op, h, l)) = l % 8
         /\ Head8(op, h, l) \div 32 = 2 * op + ((h % 8) \div 4)
<1> DEFINE x == h % 8
           y == l % 8
<1>1. x \in Field /\ y \in Field
  BY DEF Field
<1> HIDE DEF x, y
<1> QED
  BY <1>1 DEF x, y, Head8, High, Low, Octet, Field

LEMMA Fields ==
  ASSUME NEW op \in 0 .. 3, NEW h \in Nat, NEW l \in Nat
  PROVE  /\ Head8(op, h, l) \div 64 = op
         /\ High(Head8(op, h, l)) = h % 8
         /\ Low(Head8(op, h, l)) = l % 8
  BY FieldsOf, Zenon

(* Extend has the upper five bits of a count, a field the lower three.     *)
LEMMA ExtendOf ==
  ASSUME NEW n \in 0 .. 255
  PROVE  /\ Extend(n) \in Octet
         /\ Extend(n) \div 32 = 5
         /\ Extend(n) \notin {64, 65, 66}
         /\ 8 * (Extend(n) % 32) + (n % 8) = n
<1> DEFINE u == n \div 8
           v == n % 8
<1>1. u \in 0 .. 31 /\ v \in 0 .. 7 /\ n = 8 * u + v
  OBVIOUS
<1> HIDE DEF u, v
<1>2. u % 32 = u
  BY <1>1
<1>3. Extend(n) = 160 + u
  BY <1>2 DEF Extend, u
<1>4. (160 + u) \div 32 = 5 /\ (160 + u) % 32 = u
  BY <1>1
<1>5. 160 + u \in Octet /\ 160 + u \notin {64, 65, 66}
  BY <1>1 DEF Octet
<1>6. 8 * ((160 + u) % 32) + (n % 8) = n
  BY <1>1, <1>4 DEF v
<1> QED
  BY <1>3, <1>4, <1>5, <1>6

(* Where the bytes are: a head of one to three bytes, a payload, and the   *)
(* byte after it.                                                          *)
LEMMA Places ==
  ASSUME NEW hd \in Seq(Octet), NEW raw \in Seq(Octet), NEW b \in Octet
  PROVE  /\ hd \o raw \in Seq(Octet)
         /\ Len(hd \o raw) = Len(hd) + Len(raw)
         /\ Len(Stream(hd, raw, b)) = Len(hd) + Len(raw) + 1
         /\ \A k \in 1 .. Len(hd) : Stream(hd, raw, b)[k] = hd[k]
         /\ SubSeq(Stream(hd, raw, b), Len(hd) + 1, Len(hd) + Len(raw)) = raw
<1> DEFINE t == hd \o raw
           s == Stream(hd, raw, b)
           m == Len(hd)
           n == Len(raw)
           sub == SubSeq(s, m + 1, m + n)
<1>1. m \in Nat /\ n \in Nat
  OBVIOUS
<1>2. t \in Seq(Octet) /\ Len(t) = m + n
  OBVIOUS
<1>3. /\ \A k \in 1 .. m : t[k] = hd[k]
      /\ \A k \in 1 .. n : t[m + k] = raw[k]
  <2>1. ASSUME NEW k \in 1 .. n PROVE t[m + k] = raw[k]
    <3>1. m + k \in m + 1 .. m + n
      BY <1>1
    <3> QED
      BY <3>1
  <2> QED
    BY <2>1
<1> HIDE DEF t
<1>4. s \in Seq(Octet) /\ Len(s) = m + n + 1 /\ \A k \in 1 .. m + n : s[k] = t[k]
  BY <1>1, <1>2 DEF Stream, t
<1> HIDE DEF s, m, n
<1>5. ASSUME NEW k \in 1 .. m PROVE s[k] = hd[k]
  BY <1>1, <1>3, <1>4
<1>6. sub \in Seq(Octet) /\ Len(sub) = n /\ \A k \in 1 .. n : sub[k] = s[m + k]
  <2>1. \A i \in m + 1 .. m + n : s[i] \in Octet
    BY <1>1, <1>4, ElementOfSeq
  <2>2. /\ SubSeq(s, m + 1, m + n) \in Seq(Octet)
        /\ Len(SubSeq(s, m + 1, m + n)) = IF m + 1 <= m + n THEN (m + n) - (m + 1) + 1 ELSE 0
        /\ \A i \in 1 .. (m + n) - (m + 1) + 1 : SubSeq(s, m + 1, m + n)[i] = s[(m + 1) + i - 1]
    BY <1>1, <2>1, SubSeqProperties
  <2> QED
    BY <1>1, <2>2
<1>7. ASSUME NEW k \in 1 .. n PROVE sub[k] = raw[k]
  <2>1. m + k \in 1 .. m + n
    BY <1>1
  <2> QED
    BY <2>1, <1>3, <1>4, <1>6
<1> HIDE DEF sub
<1>8. sub = raw
  BY <1>1, <1>6, <1>7 DEF n
<1> QED
  BY <1>2, <1>4, <1>5, <1>8 DEF s, t, m, n, sub

(* The decoder has read a header at the front of a command: it finds the   *)
(* repeated byte, if it is named, and the payload, and consumes no more.   *)
LEMMA NamedHeard ==
  ASSUME NEW hd \in Seq(Octet), NEW raw \in Seq(Octet), NEW b \in Octet,
         NEW copy \in Nat, NEW rep \in Nat, NEW byte \in Octet,
         Len(hd) >= 1, hd[Len(hd)] = byte
  PROVE  Data(Stream(hd, raw, b), NamedHeader(Len(hd) - 1, copy, rep, Len(raw)))
           = Decoded("Data", Len(hd) + Len(raw), copy, rep, byte, raw)
<1> DEFINE m == Len(hd)
           h == NamedHeader(Len(hd) - 1, copy, rep, Len(raw))
           s == Stream(hd, raw, b)
<1>1. Len(hd) \in Nat /\ Len(raw) \in Nat /\ m \in 1 .. m /\ m - 1 \in Nat
  OBVIOUS
<1>2. /\ Len(s) = Len(hd) + Len(raw) + 1
      /\ s[m] = byte
      /\ SubSeq(s, Len(hd) + 1, Len(hd) + Len(raw)) = raw
  BY <1>1, Places
<1>3. /\ h.hdr = m - 1 /\ h.copy = copy /\ h.rep = rep /\ h.named = TRUE
      /\ h.n = Len(raw) /\ h.legal = TRUE
  BY DEF Header, NamedHeader
<1> HIDE DEF h, s, m
<1>4. (h.hdr + IF h.named THEN 1 ELSE 0) = m
  BY <1>1, <1>3
<1>5. ~(Len(s) < m + Len(raw))
  BY <1>1, <1>2 DEF m
<1>6. Data(s, h) = Decoded("Data", m + Len(raw), h.copy, h.rep, s[m],
                           SubSeq(s, m + 1, m + Len(raw)))
  BY <1>3, <1>4, <1>5 DEF Data
<1> QED
  BY <1>1, <1>2, <1>3, <1>6 DEF h, s, m

LEMMA PlainHeard ==
  ASSUME NEW hd \in Seq(Octet), NEW raw \in Seq(Octet), NEW b \in Octet,
         NEW copy \in Nat, NEW rep \in Nat
  PROVE  Data(Stream(hd, raw, b), PlainHeader(Len(hd), copy, rep, Len(raw)))
           = Decoded("Data", Len(hd) + Len(raw), copy, rep, 67, raw)
<1> DEFINE h == PlainHeader(Len(hd), copy, rep, Len(raw))
           s == Stream(hd, raw, b)
<1>1. Len(hd) \in Nat /\ Len(raw) \in Nat
  OBVIOUS
<1>2. /\ Len(s) = Len(hd) + Len(raw) + 1
      /\ SubSeq(s, Len(hd) + 1, Len(hd) + Len(raw)) = raw
  BY <1>1, Places
<1>3. /\ h.hdr = Len(hd) /\ h.copy = copy /\ h.rep = rep /\ h.named = FALSE
      /\ h.n = Len(raw) /\ h.legal = TRUE
  BY DEF Header, PlainHeader
<1> HIDE DEF h, s
<1>4. (h.hdr + IF h.named THEN 1 ELSE 0) = Len(hd)
  BY <1>1, <1>3
<1>5. ~(Len(s) < Len(hd) + Len(raw))
  BY <1>1, <1>2
<1>6. Data(s, h) = Decoded("Data", Len(hd) + Len(raw), h.copy, h.rep, 67,
                           SubSeq(s, Len(hd) + 1, Len(hd) + Len(raw)))
  BY <1>3, <1>4, <1>5 DEF Data
<1> QED
  BY <1>1, <1>2, <1>3, <1>6 DEF h, s

(* The decoder gets to the header that it Reads.                           *)
LEMMA HeaderHeard ==
  ASSUME NEW hd \in Seq(Octet), NEW raw \in Seq(Octet), NEW b \in Octet,
         NEW h, Reads(hd, h)
  PROVE  decodeNext(Stream(hd, raw, b)) = Data(Stream(hd, raw, b), h)
<1> DEFINE s == Stream(hd, raw, b)
<1>1. Len(hd) \in Nat /\ Len(raw) \in Nat /\ 1 \in 1 .. Len(hd)
  BY DEF Reads
<1>2. s[1] = hd[1] /\ Len(s) = Len(hd) + Len(raw) + 1
  BY <1>1, Places
<1>3. s # <<>>
  BY <1>1, <1>2
<1> HIDE DEF s
<1>4. CASE hd[1] \div 32 # 5
  <2>1. h = ShortHeader(hd[1])
    BY <1>4 DEF Reads
  <2>2. decodeNext(s) = Data(s, ShortHeader(hd[1]))
    BY <1>2, <1>3, <1>4 DEF decodeNext, Reads
  <2> QED
    BY <2>1, <2>2 DEF s
<1>5. CASE hd[1] \div 32 = 5
  <2>1. Len(hd) >= 2 /\ h = LongHeader(8 * (hd[1] % 32), hd[2])
    BY <1>5 DEF Reads
  <2>2. 2 \in 1 .. Len(hd)
    BY <1>1, <2>1
  <2>3. s[2] = hd[2]
    BY <2>2, Places DEF s
  <2>4. ~(Len(s) < 2)
    BY <1>1, <1>2, <2>1
  <2>5. decodeNext(s) = Data(s, LongHeader(8 * (hd[1] % 32), hd[2]))
    BY <1>2, <1>3, <1>5, <2>3, <2>4 DEF decodeNext, Reads
  <2> QED
    BY <2>1, <2>5 DEF s
<1> QED
  BY <1>4, <1>5
-----------------------------------------------------------------------------
Markers == {"NOP", "EOL", "EOP"}

(* A command whose header the decoder reads as it was meant.               *)
LEMMA HeardIsCarried ==
  ASSUME NEW hd \in Seq(Octet), NEW raw \in Seq(Octet),
         NEW op, NEW copy \in Nat, NEW rep \in Nat, NEW byte \in Octet, NEW heardByte,
         op \notin Markers, rep > 0 => heardByte = byte,
         \A b \in Octet :
           decodeNext(Stream(hd, raw, b))
             = Decoded("Data", Len(hd) + Len(raw), copy, rep, heardByte, raw)
  PROVE  Carried(Command(op, copy, rep, byte, raw, hd \o raw, Len(hd) + Len(raw)))
<1> DEFINE c == Command(op, copy, rep, byte, raw, hd \o raw, Len(hd) + Len(raw))
<1>1. /\ c.op = op /\ c.copy = copy /\ c.rep = rep /\ c.byte = byte /\ c.raw = raw
      /\ c.bytes = hd \o raw /\ c.vsize = Len(hd) + Len(raw)
  BY DEF Command
<1> HIDE DEF c
<1>2. hd \o raw \in Seq(Octet) /\ Len(hd \o raw) = Len(hd) + Len(raw)
  OBVIOUS
<1>3. ASSUME NEW b \in Octet
      PROVE  Heard(decodeNext(Append(c.bytes, b)), c)
  <2> DEFINE d == decodeNext(Append(c.bytes, b))
  <2>1. Append(c.bytes, b) = Stream(hd, raw, b)
    BY <1>1 DEF Stream
  <2>2. d = Decoded("Data", Len(hd) + Len(raw), copy, rep, heardByte, raw)
    BY <2>1
  <2> HIDE DEF d
  <2>3. /\ d.copy = copy /\ d.rep = rep /\ d.byte = heardByte /\ d.raw = raw
        /\ d.size = Len(hd) + Len(raw) /\ d.kind = "Data"
    BY <2>2 DEF Decoded
  <2> QED
    BY <1>1, <1>2, <2>3 DEF Heard, Markers, d
<1>4. Carried(c)
  BY <1>1, <1>2, <1>3 DEF Carried
<1> QED
  BY <1>4 DEF c

(* ... one whose header names no byte, and one whose header names the last *)
(* byte of hd.                                                             *)
LEMMA PlainCarried ==
  ASSUME NEW hd \in Seq(Octet), NEW raw \in Seq(Octet),
         NEW op, NEW copy \in Nat, NEW rep \in Nat, NEW byte \in Octet,
         op \notin Markers, rep > 0 => byte = 67,
         Reads(hd, PlainHeader(Len(hd), copy, rep, Len(raw)))
  PROVE  Carried(Command(op, copy, rep, byte, raw, hd \o raw, Len(hd) + Len(raw)))
<1>1. ASSUME NEW b \in Octet
      PROVE  decodeNext(Stream(hd, raw, b))
               = Decoded("Data", Len(hd) + Len(raw), copy, rep, 67, raw)
  <2>1. decodeNext(Stream(hd, raw, b))
          = Data(Stream(hd, raw, b), PlainHeader(Len(hd), copy, rep, Len(raw)))
    BY HeaderHeard
  <2> QED
    BY <2>1, PlainHeard
<1> QED
  BY <1>1, HeardIsCarried

LEMMA NamedCarried ==
  ASSUME NEW hd \in Seq(Octet), NEW raw \in Seq(Octet),
         NEW op, NEW copy \in Nat, NEW rep \in Nat, NEW byte \in Octet,
         op \notin Markers, hd[Len(hd)] = byte,
         Reads(hd, NamedHeader(Len(hd) - 1, copy, rep, Len(raw)))
  PROVE  Carried(Command(op, copy, rep, byte, raw, hd \o raw, Len(hd) + Len(raw)))
<1>1. ASSUME NEW b \in Octet
      PROVE  decodeNext(Stream(hd, raw, b))
               = Decoded("Data", Len(hd) + Len(raw), copy, rep, byte, raw)
  <2>1. decodeNext(Stream(hd, raw, b))
          = Data(Stream(hd, raw, b), NamedHeader(Len(hd) - 1, copy, rep, Len(raw)))
    BY HeaderHeard
  <2>2. Data(Stream(hd, raw, b), NamedHeader(Len(hd) - 1, copy, rep, Len(raw)))
          = Decoded("Data", Len(hd) + Len(raw), copy, rep, byte, raw)
    BY NamedHeard DEF Reads
  <2> QED
    BY <2>1, <2>2, Zenon
<1> QED
  BY <1>1, HeardIsCarried

(* ... and the same without a payload.                                     *)
LEMMA NoPayload == <<>> \in Seq(Octet) /\ Len(<<>>) = 0 /\ \A hd \in Seq(Octet) : hd \o <<>> = hd
  BY ConcatEmptySeq

LEMMA PlainAlone ==
  ASSUME NEW hd \in Seq(Octet),
         NEW op, NEW copy \in Nat, NEW rep \in Nat, NEW byte \in Octet,
         op \notin Markers, rep > 0 => byte = 67,
         Reads(hd, PlainHeader(Len(hd), copy, rep, 0))
  PROVE  Carried(Command(op, copy, rep, byte, <<>>, hd, Len(hd)))
<1> DEFINE raw == <<>>
<1>1. raw \in Seq(Octet) /\ Len(raw) = 0 /\ hd \o raw = hd
  BY NoPayload
<1>2. Len(hd) + 0 = Len(hd)
  OBVIOUS
<1> HIDE DEF raw
<1>3. Reads(hd, PlainHeader(Len(hd), copy, rep, Len(raw)))
  BY <1>1, Zenon
<1>4. Carried(Command(op, copy, rep, byte, raw, hd \o raw, Len(hd) + Len(raw)))
  BY <1>1, <1>3, PlainCarried, Zenon
<1> QED
  BY <1>1, <1>2, <1>4, Zenon DEF raw

LEMMA NamedAlone ==
  ASSUME NEW hd \in Seq(Octet),
         NEW op, NEW copy \in Nat, NEW rep \in Nat, NEW byte \in Octet,
         op \notin Markers, hd[Len(hd)] = byte,
         Reads(hd, NamedHeader(Len(hd) - 1, copy, rep, 0))
  PROVE  Carried(Command(op, copy, rep, byte, <<>>, hd, Len(hd)))
<1> DEFINE raw == <<>>
<1>1. raw \in Seq(Octet) /\ Len(raw) = 0 /\ hd \o raw = hd
  BY NoPayload
<1>2. Len(hd) + 0 = Len(hd)
  OBVIOUS
<1> HIDE DEF raw
<1>3. Reads(hd, NamedHeader(Len(hd) - 1, copy, rep, Len(raw)))
  BY <1>1, Zenon
<1>4. Carried(Command(op, copy, rep, byte, raw, hd \o raw, Len(hd) + Len(raw)))
  BY <1>1, <1>3, NamedCarried, Zenon
<1> QED
  BY <1>1, <1>2, <1>4, Zenon DEF raw
-----------------------------------------------------------------------------
(* The headers of one byte, from their fields.                             *)
LEMMA ShortHeaders ==
  /\ \A k \in 1 .. 31 : ShortHeader(128 + k) = PlainHeader(1, 8 * k, 0, 0)
  /\ \A h \in 2 .. 7, l \in Field :
       ShortHeader(Head8(1, h, l)) = NamedHeader(1, l, h, 0)
  /\ \A h \in 1 .. 7, l \in Field :
       ShortHeader(Head8(0, h, l)) = PlainHeader(1, l, 0, h)
  /\ \A l \in 1 .. 7 : ShortHeader(Head8(3, 0, l)) = PlainHeader(1, l, 0, 0)
  /\ \A h \in 1 .. 7 : ShortHeader(Head8(3, h, 0)) = PlainHeader(1, 0, h, 0)
  /\ \A h \in 2 .. 7, l \in 1 .. 7 :
       ShortHeader(Head8(3, h, l)) = NamedHeader(1, 0, h, l)
<1>1. ASSUME NEW k \in 1 .. 31
      PROVE  ShortHeader(128 + k) = PlainHeader(1, 8 * k, 0, 0)
  <2> DEFINE x == 128 + k
  <2>1. x \div 32 = 4 /\ x % 32 = k /\ (k >= 1) = TRUE
    OBVIOUS
  <2> HIDE DEF x
  <2>2. ShortHeader(x) = PlainHeader(1, 8 * k, 0, 0)
    BY <2>1, Zenon DEF ShortHeader, PlainHeader
  <2> QED
    BY <2>2 DEF x
<1>2. ASSUME NEW op \in {0, 1, 3}, NEW h \in Field, NEW l \in Field
      PROVE  /\ Head8(op, h, l) \div 64 = op
             /\ Head8(op, h, l) \div 32 # 4
             /\ High(Head8(op, h, l)) = h
             /\ Low(Head8(op, h, l)) = l
  <2>1. /\ op \in 0 .. 3 /\ h \in Nat /\ l \in Nat /\ h % 8 = h /\ l % 8 = l
        /\ h \div 4 \in 0 .. 1
    BY DEF Field
  <2>2. /\ Head8(op, h, l) \div 64 = op
        /\ Head8(op, h, l) \div 32 = 2 * op + (h \div 4)
        /\ High(Head8(op, h, l)) = h /\ Low(Head8(op, h, l)) = l
    BY <2>1, FieldsOf
  <2> QED
    BY <2>1, <2>2
<1>3. ASSUME NEW h \in 2 .. 7, NEW l \in Field
      PROVE  ShortHeader(Head8(1, h, l)) = NamedHeader(1, l, h, 0)
  <2> DEFINE x == Head8(1, h, l)
  <2>1. x \div 32 # 4 /\ x \div 64 = 1 /\ High(x) = h /\ Low(x) = l /\ (h >= 2) = TRUE
    BY <1>2 DEF Field
  <2> HIDE DEF x
  <2>2. ShortHeader(x) = NamedHeader(1, l, h, 0)
    BY <2>1, Zenon DEF ShortHeader, NamedHeader
  <2> QED
    BY <2>2 DEF x
<1>4. ASSUME NEW h \in 1 .. 7, NEW l \in Field
      PROVE  ShortHeader(Head8(0, h, l)) = PlainHeader(1, l, 0, h)
  <2> DEFINE x == Head8(0, h, l)
  <2>1. /\ x \div 32 # 4 /\ x \div 64 # 1 /\ x \div 64 = 0 /\ High(x) = h /\ Low(x) = l
        /\ (h >= 1) = TRUE
    BY <1>2 DEF Field
  <2> HIDE DEF x
  <2>2. ShortHeader(x) = PlainHeader(1, l, 0, h)
    BY <2>1, Zenon DEF ShortHeader, PlainHeader
  <2> QED
    BY <2>2 DEF x
<1>5. ASSUME NEW h \in Field, NEW l \in Field
      PROVE  LET x == Head8(3, h, l)
             IN  x \div 32 # 4 /\ x \div 64 # 1 /\ x \div 64 # 0 /\ High(x) = h /\ Low(x) = l
  BY <1>2
<1>6. ASSUME NEW l \in 1 .. 7
      PROVE  ShortHeader(Head8(3, 0, l)) = PlainHeader(1, l, 0, 0)
  <2> DEFINE x == Head8(3, 0, l)
  <2>1. /\ x \div 32 # 4 /\ x \div 64 # 1 /\ x \div 64 # 0 /\ High(x) = 0 /\ Low(x) = l
        /\ (l >= 1) = TRUE
    BY <1>5 DEF Field
  <2> HIDE DEF x
  <2>2. ShortHeader(x) = PlainHeader(1, l, 0, 0)
    BY <2>1, Zenon DEF ShortHeader, PlainHeader
  <2> QED
    BY <2>2 DEF x
<1>7. ASSUME NEW h \in 1 .. 7
      PROVE  ShortHeader(Head8(3, h, 0)) = PlainHeader(1, 0, h, 0)
  <2> DEFINE x == Head8(3, h, 0)
  <2>1. /\ x \div 32 # 4 /\ x \div 64 # 1 /\ x \div 64 # 0 /\ High(x) = h /\ Low(x) = 0
        /\ h # 0
    BY <1>5 DEF Field
  <2> HIDE DEF x
  <2>2. ShortHeader(x) = PlainHeader(1, 0, h, 0)
    BY <2>1, Zenon DEF ShortHeader, PlainHeader
  <2> QED
    BY <2>2 DEF x
<1>8. ASSUME NEW h \in 2 .. 7, NEW l \in 1 .. 7
      PROVE  ShortHeader(Head8(3, h, l)) = NamedHeader(1, 0, h, l)
  <2> DEFINE x == Head8(3, h, l)
  <2>1. /\ x \div 32 # 4 /\ x \div 64 # 1 /\ x \div 64 # 0 /\ High(x) = h /\ Low(x) = l
        /\ h # 0 /\ l # 0 /\ (h >= 2) = TRUE
    BY <1>5 DEF Field
  <2> HIDE DEF x
  <2>2. ShortHeader(x) = NamedHeader(1, 0, h, l)
    BY <2>1, Zenon DEF ShortHeader, NamedHeader
  <2> QED
    BY <2>2 DEF x
<1> QED
  BY <1>1, <1>3, <1>4, <1>6, <1>7, <1>8

(* The headers of two bytes: the upper bits of the long count n are in the *)
(* first, f is the other count.                                            *)
LEMMA LongHeaders ==
  ASSUME NEW n \in 8 .. 255
  PROVE  /\ LongHeader(8 * (Extend(n) % 32), Head8(0, n, 0)) = PlainHeader(2, 0, n, 0)
         /\ \A f \in Field :
              LongHeader(8 * (Extend(n) % 32), Head8(2, n, f)) = NamedHeader(2, f, n, 0)
         /\ \A f \in 2 .. 7 :
              LongHeader(8 * (Extend(n) % 32), Head8(1, f, n)) = NamedHeader(2, 0, f, n)
         /\ \A f \in Field :
              LongHeader(8 * (Extend(n) % 32), Head8(3, n, f)) = PlainHeader(2, f, 0, n)
<1> DEFINE e == 8 * (Extend(n) % 32)
<1>1. n \in 0 .. 255 /\ n \in Nat /\ (n >= 8) = TRUE
  OBVIOUS
<1>2. e + (n % 8) = n
  BY <1>1, ExtendOf
<1>0. n \in Nat /\ 0 \in 0 .. 3 /\ 1 \in 0 .. 3 /\ 2 \in 0 .. 3 /\ 3 \in 0 .. 3
  OBVIOUS
<1> HIDE DEF e
<1>3. LongHeader(e, Head8(0, n, 0)) = PlainHeader(2, 0, n, 0)
  <2> DEFINE x == Head8(0, n, 0)
  <2>1. x \div 64 = 0 /\ High(x) = n % 8
    BY <1>0, Fields
  <2> HIDE DEF x
  <2>2. LongHeader(e, x) = PlainHeader(2, 0, n, 0)
    BY <1>1, <1>2, <2>1, Zenon DEF LongHeader, PlainHeader
  <2> QED
    BY <2>2 DEF x
<1>4. ASSUME NEW f \in Field
      PROVE  LongHeader(e, Head8(2, n, f)) = NamedHeader(2, f, n, 0)
  <2> DEFINE x == Head8(2, n, f)
  <2>1. f \in Nat /\ f % 8 = f
    BY DEF Field
  <2>2. x \div 64 = 2 /\ High(x) = n % 8 /\ Low(x) = f
    BY <1>0, <2>1, Fields
  <2>3. x \div 64 # 0
    BY <2>2
  <2> HIDE DEF x
  <2>4. LongHeader(e, x) = NamedHeader(2, f, n, 0)
    BY <1>1, <1>2, <2>2, <2>3, Zenon DEF LongHeader, NamedHeader
  <2> QED
    BY <2>4 DEF x
<1>5. ASSUME NEW f \in 2 .. 7
      PROVE  LongHeader(e, Head8(1, f, n)) = NamedHeader(2, 0, f, n)
  <2> DEFINE x == Head8(1, f, n)
  <2>1. f \in Nat /\ f % 8 = f
    OBVIOUS
  <2>2. x \div 64 = 1 /\ High(x) = f /\ Low(x) = n % 8
    BY <1>0, <2>1, Fields
  <2>3. x \div 64 # 0 /\ x \div 64 # 2 /\ (f >= 2 /\ n >= 8) = TRUE
    BY <2>2
  <2> HIDE DEF x
  <2>4. LongHeader(e, x) = NamedHeader(2, 0, f, n)
    BY <1>1, <1>2, <2>2, <2>3, Zenon DEF LongHeader, NamedHeader
  <2> QED
    BY <2>4 DEF x
<1>6. ASSUME NEW f \in Field
      PROVE  LongHeader(e, Head8(3, n, f)) = PlainHeader(2, f, 0, n)
  <2> DEFINE x == Head8(3, n, f)
  <2>1. f \in Nat /\ f % 8 = f
    BY DEF Field
  <2>2. x \div 64 = 3 /\ High(x) = n % 8 /\ Low(x) = f
    BY <1>0, <2>1, Fields
  <2>3. x \div 64 # 0 /\ x \div 64 # 1 /\ x \div 64 # 2
    BY <2>2
  <2> HIDE DEF x
  <2>4. LongHeader(e, x) = PlainHeader(2, f, 0, n)
    BY <1>1, <1>2, <2>2, <2>3, Zenon DEF LongHeader, PlainHeader
  <2> QED
    BY <2>4 DEF x
<1> QED
  BY <1>3, <1>4, <1>5, <1>6 DEF e
-----------------------------------------------------------------------------
(* A header of one byte is no marker, and not the first of two.            *)
LEMMA ShortByte ==
  ASSUME NEW op \in 0 .. 3, NEW h \in Field, NEW l \in Field, op # 2, op = 1 => h # 0
  PROVE  /\ Head8(op, h, l) \in Octet
         /\ Head8(op, h, l) \notin {64, 65, 66}
         /\ Head8(op, h, l) \div 32 # 5
<1> DEFINE x == Head8(op, h, l)
<1>1. /\ op \in 0 .. 3 /\ h \in Nat /\ l \in Nat /\ h % 8 = h /\ h \div 4 \in 0 .. 1
  BY DEF Field
<1>2. x \in Octet /\ x \div 64 = op /\ High(x) = h /\ x \div 32 = 2 * op + (h \div 4)
  BY <1>1, FieldsOf
<1> HIDE DEF x
<1>3. x \div 32 # 5
  BY <1>1, <1>2
<1>4. ASSUME x \in {64, 65, 66} PROVE FALSE
  <2>1. x \div 64 = 1 /\ High(x) = 0
    BY <1>4 DEF High
  <2> QED
    BY <1>2, <2>1
<1> QED
  BY <1>2, <1>3, <1>4 DEF x

(* The counts of the assertions are fields.                                *)
LEMMA Counts == /\ 0 \in Field
                /\ \A n \in 1 .. 7 : n \in Field /\ n # 0
                /\ \A n \in 2 .. 7 : n \in Field /\ n # 0
                /\ 0 \in 0 .. 3 /\ 1 \in 0 .. 3 /\ 3 \in 0 .. 3
  BY DEF Field

LEMMA CopyLongCarried ==
  ASSUME NEW c \in 8 .. 248, c % 8 = 0
  PROVE  Carried(CopyLong(c))
<1> DEFINE k == c \div 8
           hd == <<128 + k>>
<1>1. k \in 1 .. 31 /\ c = 8 * k
  OBVIOUS
<1> HIDE DEF k
<1>2. k % 32 = k /\ (128 + k) \div 32 = 4 /\ 8 * k \in Nat
  BY <1>1
<1>3. ShortHeader(128 + k) = PlainHeader(1, 8 * k, 0, 0)
  BY <1>1, ShortHeaders
<1>4. /\ hd \in Seq(Octet) /\ Len(hd) = 1 /\ hd[1] = 128 + k
      /\ hd[1] \notin {64, 65, 66} /\ hd[1] \div 32 # 5
  BY <1>1, <1>2 DEF Octet
<1> HIDE DEF hd
<1>5. Reads(hd, PlainHeader(Len(hd), 8 * k, 0, 0))
  BY <1>3, <1>4 DEF Reads
<1>6. Carried(Command("CopyLong", 8 * k, 0, 0, <<>>, hd, Len(hd)))
  <2>1. "CopyLong" \notin Markers /\ 0 \in Nat /\ 0 \in Octet /\ ~(0 > 0)
    BY DEF Markers, Field, Octet
  <2> QED
    BY <2>1, <1>2, <1>4, <1>5, PlainAlone
<1>7. CopyLong(c) = Command("CopyLong", 8 * k, 0, 0, <<>>, hd, 1)
  BY <1>1, <1>2 DEF CopyLong, hd, k
<1> QED
  BY <1>4, <1>6, <1>7

LEMMA CopyShortCarried ==
  ASSUME NEW c \in 1 .. 7
  PROVE  Carried(CopyShort(c))
<1> DEFINE x == Head8(3, 0, c)
           hd == <<x>>
<1>1. x \in Octet /\ x \notin {64, 65, 66} /\ x \div 32 # 5
  BY Counts, ShortByte
<1>2. ShortHeader(x) = PlainHeader(1, c, 0, 0)
  BY ShortHeaders
<1> HIDE DEF x
<1>3. hd \in Seq(Octet) /\ Len(hd) = 1 /\ hd[1] = x
  BY <1>1
<1> HIDE DEF hd
<1>4. Reads(hd, PlainHeader(Len(hd), c, 0, 0))
  BY <1>1, <1>2, <1>3 DEF Reads
<1>5. Carried(Command("CopyShort", c, 0, 0, <<>>, hd, Len(hd)))
  <2>1. "CopyShort" \notin Markers /\ c \in Nat /\ 0 \in Nat /\ 0 \in Octet /\ ~(0 > 0)
    BY DEF Markers, Field, Octet
  <2> QED
    BY <2>1, <1>3, <1>4, PlainAlone
<1> QED
  BY <1>3, <1>5 DEF CopyShort, hd, x

LEMMA CopyThenRawCarried ==
  ASSUME NEW c \in Field, NEW raw \in Seq(Octet), Len(raw) \in 1 .. 7
  PROVE  Carried(CopyThenRaw(c, raw))
<1> DEFINE n == Len(raw)
           x == Head8(0, n, c)
           hd == <<x>>
<1>0. n \in 1 .. 7
  OBVIOUS
<1> HIDE DEF n
<1>1. x \in Octet /\ x \notin {64, 65, 66} /\ x \div 32 # 5
  BY <1>0, Counts, ShortByte
<1>2. ShortHeader(x) = PlainHeader(1, c, 0, n)
  BY <1>0, ShortHeaders
<1> HIDE DEF x
<1>3. hd \in Seq(Octet) /\ Len(hd) = 1 /\ hd[1] = x
  BY <1>1
<1> HIDE DEF hd
<1>4. Reads(hd, PlainHeader(Len(hd), c, 0, Len(raw)))
  BY <1>1, <1>2, <1>3 DEF Reads, n
<1>5. Carried(Command("CopyThenRaw", c, 0, 0, raw, hd \o raw, Len(hd) + Len(raw)))
  <2>1. "CopyThenRaw" \notin Markers /\ c \in Nat /\ 0 \in Nat /\ 0 \in Octet /\ ~(0 > 0)
    BY DEF Markers, Field, Octet
  <2> QED
    BY <2>1, <1>3, <1>4, PlainCarried
<1> QED
  BY <1>3, <1>5 DEF CopyThenRaw, hd, x, n

LEMMA CopyThenRepeatCarried ==
  ASSUME NEW c \in Field, NEW r \in 2 .. 7, NEW byte \in Octet
  PROVE  Carried(CopyThenRepeat(c, r, byte))
<1> DEFINE x == Head8(1, r, c)
           hd == <<x, byte>>
<1>1. x \in Octet /\ x \notin {64, 65, 66} /\ x \div 32 # 5
  BY Counts, ShortByte
<1>2. ShortHeader(x) = NamedHeader(1, c, r, 0)
  BY ShortHeaders
<1> HIDE DEF x
<1>3. hd \in Seq(Octet) /\ Len(hd) = 2 /\ hd[1] = x /\ hd[2] = byte
  BY <1>1
<1> HIDE DEF hd
<1>4. Reads(hd, NamedHeader(Len(hd) - 1, c, r, 0))
  BY <1>1, <1>2, <1>3 DEF Reads
<1>5. Carried(Command("CopyThenRepeat", c, r, byte, <<>>, hd, Len(hd)))
  <2>1. "CopyThenRepeat" \notin Markers /\ c \in Nat /\ r \in Nat
    BY DEF Markers, Field
  <2> QED
    BY <2>1, <1>3, <1>4, NamedAlone
<1> QED
  BY <1>3, <1>5 DEF CopyThenRepeat, hd, x

LEMMA RepeatThenRawCarried ==
  ASSUME NEW r \in 2 .. 7, NEW byte \in Octet,
         NEW raw \in Seq(Octet), Len(raw) \in 1 .. 7
  PROVE  Carried(RepeatThenRaw(r, byte, raw))
<1> DEFINE n == Len(raw)
           x == Head8(3, r, n)
           hd == <<x, byte>>
<1>0. n \in 1 .. 7
  OBVIOUS
<1> HIDE DEF n
<1>1. x \in Octet /\ x \notin {64, 65, 66} /\ x \div 32 # 5
  BY <1>0, Counts, ShortByte
<1>2. ShortHeader(x) = NamedHeader(1, 0, r, n)
  BY <1>0, ShortHeaders
<1> HIDE DEF x
<1>3. hd \in Seq(Octet) /\ Len(hd) = 2 /\ hd[1] = x /\ hd[2] = byte
  BY <1>1
<1> HIDE DEF hd
<1>4. Reads(hd, NamedHeader(Len(hd) - 1, 0, r, Len(raw)))
  BY <1>1, <1>2, <1>3 DEF Reads, n
<1>5. Carried(Command("RepeatThenRaw", 0, r, byte, raw, hd \o raw, Len(hd) + Len(raw)))
  <2>1. "RepeatThenRaw" \notin Markers /\ 0 \in Nat /\ r \in Nat
    BY DEF Markers, Field
  <2> QED
    BY <2>1, <1>3, <1>4, NamedCarried
<1> QED
  BY <1>3, <1>5 DEF RepeatThenRaw, hd, x, n

LEMMA RepeatXCarried ==
  ASSUME NEW r \in 1 .. 7
  PROVE  Carried(RepeatX(r))
<1> DEFINE x == Head8(3, r, 0)
           hd == <<x>>
<1>1. x \in Octet /\ x \notin {64, 65, 66} /\ x \div 32 # 5
  BY Counts, ShortByte
<1>2. ShortHeader(x) = PlainHeader(1, 0, r, 0)
  BY ShortHeaders
<1> HIDE DEF x
<1>3. hd \in Seq(Octet) /\ Len(hd) = 1 /\ hd[1] = x
  BY <1>1
<1> HIDE DEF hd
<1>4. Reads(hd, PlainHeader(Len(hd), 0, r, 0))
  BY <1>1, <1>2, <1>3 DEF Reads
<1>5. Carried(Command("RepeatX", 0, r, 67, <<>>, hd, Len(hd)))
  <2>1. "RepeatX" \notin Markers /\ 0 \in Nat /\ r \in Nat /\ 67 \in Octet
    BY DEF Markers, Field, Octet
  <2> QED
    BY <2>1, <1>3, <1>4, PlainAlone
<1> QED
  BY <1>3, <1>5 DEF RepeatX, RepeatXByte, hd, x

LEMMA CopyThenRawLongCarried ==
  ASSUME NEW c \in Field, NEW raw \in Seq(Octet), Len(raw) \in 8 .. 255
  PROVE  Carried(CopyThenRawLong(c, raw))
<1> DEFINE n == Len(raw)
           y == Head8(3, n, c)
           hd == <<Extend(n), y>>
<1>0. n \in 8 .. 255
  OBVIOUS
<1> HIDE DEF n
<1>1. LongHeader(8 * (Extend(n) % 32), y) = PlainHeader(2, c, 0, n)
  BY <1>0, LongHeaders
<1>2. Extend(n) \in Octet /\ Extend(n) \notin {64, 65, 66} /\ Extend(n) \div 32 = 5
  <2>1. n \in 0 .. 255
    BY <1>0
  <2> QED
    BY <2>1, ExtendOf
<1>3. y \in Octet
  <2>1. 3 \in 0 .. 3 /\ n \in Nat /\ c \in Nat
    BY <1>0 DEF Field
  <2> QED
    BY <2>1, FieldsOf
<1> HIDE DEF y
<1>4. /\ hd \in Seq(Octet) /\ Len(hd) = 2 /\ hd[1] = Extend(n) /\ hd[2] = y
  BY <1>2, <1>3
<1> HIDE DEF hd
<1>5. Reads(hd, PlainHeader(Len(hd), c, 0, Len(raw)))
  BY <1>1, <1>2, <1>4 DEF Reads, n
<1>6. Carried(Command("CopyThenRawLong", c, 0, 0, raw, hd \o raw, Len(hd) + Len(raw)))
  <2>1. "CopyThenRawLong" \notin Markers /\ c \in Nat /\ 0 \in Nat /\ 0 \in Octet /\ ~(0 > 0)
    BY DEF Markers, Field, Octet
  <2> QED
    BY <2>1, <1>4, <1>5, PlainCarried
<1> QED
  BY <1>4, <1>6 DEF CopyThenRawLong, hd, y, n

LEMMA CopyThenRepeatLongCarried ==
  ASSUME NEW c \in Field, NEW r \in 8 .. 255, NEW byte \in Octet
  PROVE  Carried(CopyThenRepeatLong(c, r, byte))
<1> DEFINE y == Head8(2, r, c)
           hd == <<Extend(r), y, byte>>
<1>1. LongHeader(8 * (Extend(r) % 32), y) = NamedHeader(2, c, r, 0)
  BY LongHeaders
<1>2. Extend(r) \in Octet /\ Extend(r) \notin {64, 65, 66} /\ Extend(r) \div 32 = 5
  <2>1. r \in 0 .. 255
    OBVIOUS
  <2> QED
    BY <2>1, ExtendOf
<1>3. y \in Octet
  <2>1. 2 \in 0 .. 3 /\ r \in Nat /\ c \in Nat
    BY DEF Field
  <2> QED
    BY <2>1, FieldsOf
<1> HIDE DEF y
<1>4. /\ hd \in Seq(Octet) /\ Len(hd) = 3 /\ hd[1] = Extend(r) /\ hd[2] = y
      /\ hd[3] = byte
  BY <1>2, <1>3
<1> HIDE DEF hd
<1>5. Reads(hd, NamedHeader(Len(hd) - 1, c, r, 0))
  BY <1>1, <1>2, <1>4 DEF Reads
<1>6. Carried(Command("CopyThenRepeatLong", c, r, byte, <<>>, hd, Len(hd)))
  <2>1. "CopyThenRepeatLong" \notin Markers /\ c \in Nat /\ r \in Nat
    BY DEF Markers, Field, Octet
  <2> QED
    BY <2>1, <1>4, <1>5, NamedAlone
<1> QED
  BY <1>4, <1>6 DEF CopyThenRepeatLong, hd, y

LEMMA RepeatThenRawLongCarried ==
  ASSUME NEW r \in 2 .. 7, NEW byte \in Octet,
         NEW raw \in Seq(Octet), Len(raw) \in 8 .. 255
  PROVE  Carried(RepeatThenRawLong(r, byte, raw))
<1> DEFINE n == Len(raw)
           y == Head8(1, r, n)
           hd == <<Extend(n), y, byte>>
<1>0. n \in 8 .. 255
  OBVIOUS
<1> HIDE DEF n
<1>1. LongHeader(8 * (Extend(n) % 32), y) = NamedHeader(2, 0, r, n)
  BY <1>0, LongHeaders
<1>2. Extend(n) \in Octet /\ Extend(n) \notin {64, 65, 66} /\ Extend(n) \div 32 = 5
  <2>1. n \in 0 .. 255
    BY <1>0
  <2> QED
    BY <2>1, ExtendOf
<1>3. y \in Octet
  <2>1. 1 \in 0 .. 3 /\ n \in Nat /\ r \in Nat
    BY <1>0 DEF Field
  <2> QED
    BY <2>1, FieldsOf
<1> HIDE DEF y
<1>4. /\ hd \in Seq(Octet) /\ Len(hd) = 3 /\ hd[1] = Extend(n) /\ hd[2] = y
      /\ hd[3] = byte
  BY <1>2, <1>3
<1> HIDE DEF hd
<1>5. Reads(hd, NamedHeader(Len(hd) - 1, 0, r, Len(raw)))
  BY <1>1, <1>2, <1>4 DEF Reads, n
<1>6. Carried(Command("RepeatThenRawLong", 0, r, byte, raw, hd \o raw, Len(hd) + Len(raw)))
  <2>1. "RepeatThenRawLong" \notin Markers /\ 0 \in Nat /\ r \in Nat
    BY DEF Markers, Field, Octet
  <2> QED
    BY <2>1, <1>4, <1>5, NamedCarried
<1> QED
  BY <1>4, <1>6 DEF RepeatThenRawLong, hd, y, n

LEMMA RepeatXLongCarried ==
  ASSUME NEW r \in 8 .. 255
  PROVE  Carried(RepeatXLong(r))
<1> DEFINE y == Head8(0, r, 0)
           hd == <<Extend(r), y>>
<1>1. LongHeader(8 * (Extend(r) % 32), y) = PlainHeader(2, 0, r, 0)
  BY LongHeaders
<1>2. Extend(r) \in Octet /\ Extend(r) \notin {64, 65, 66} /\ Extend(r) \div 32 = 5
  <2>1. r \in 0 .. 255
    OBVIOUS
  <2> QED
    BY <2>1, ExtendOf
<1>3. y \in Octet
  <2>1. 0 \in 0 .. 3 /\ r \in Nat /\ 0 \in Nat
    BY DEF Field
  <2> QED
    BY <2>1, FieldsOf
<1> HIDE DEF y
<1>4. /\ hd \in Seq(Octet) /\ Len(hd) = 2 /\ hd[1] = Extend(r) /\ hd[2] = y
  BY <1>2, <1>3
<1> HIDE DEF hd
<1>5. Reads(hd, PlainHeader(Len(hd), 0, r, 0))
  BY <1>1, <1>2, <1>4 DEF Reads
<1>6. Carried(Command("RepeatXLong", 0, r, 67, <<>>, hd, Len(hd)))
  <2>1. "RepeatXLong" \notin Markers /\ 0 \in Nat /\ r \in Nat /\ 67 \in Octet
    BY DEF Markers, Field, Octet
  <2> QED
    BY <2>1, <1>4, <1>5, PlainAlone
<1> QED
  BY <1>4, <1>6 DEF RepeatXLong, RepeatXByte, hd, y

(* The markers have no header: they are one byte that stands for itself.   *)
LEMMA MarkersCarried ==
  Carried(NOP) /\ Carried(EOL) /\ Carried(EOP)
<1>1. ASSUME NEW op \in Markers, NEW x \in Octet, NEW size \in 0 .. 1,
             size = (IF op = "EOP" THEN 0 ELSE 1),
             \A b \in Octet : decodeNext(Append(<<x>>, b)) = Marker(op, size)
      PROVE  Carried(Command(op, 0, 0, 0, <<>>, <<x>>, 1))
  <2> DEFINE c == Command(op, 0, 0, 0, <<>>, <<x>>, 1)
  <2>1. /\ c.op = op /\ c.copy = 0 /\ c.rep = 0 /\ c.raw = <<>>
        /\ c.bytes = <<x>> /\ c.vsize = 1
    BY DEF Command
  <2> HIDE DEF c
  <2>2. <<x>> \in Seq(Octet) /\ Len(<<x>>) = 1
    OBVIOUS
  <2>3. ASSUME NEW b \in Octet
        PROVE  Heard(decodeNext(Append(c.bytes, b)), c)
    <3> DEFINE d == decodeNext(Append(c.bytes, b))
    <3>1. c.bytes = <<x>>
      BY <2>1
    <3>2. d = Marker(op, size)
      BY <1>1, <3>1, Zenon
    <3> HIDE DEF d
    <3>3. d.copy = 0 /\ d.rep = 0 /\ d.raw = <<>> /\ d.size = size /\ d.kind = op
      BY <3>2 DEF Marker, Decoded
    <3>4. d.size = (IF c.op = "EOP" THEN 0 ELSE Len(c.bytes))
      BY <1>1, <2>1, <2>2, <3>3
    <3> QED
      BY <1>1, <2>1, <3>3, <3>4 DEF Heard, Markers, d
  <2>4. Carried(c)
    BY <2>1, <2>2, <2>3 DEF Carried
  <2> QED
    BY <2>4 DEF c
<1>2. Carried(NOP)
  <2>1. \A b \in Octet : decodeNext(Append(<<64>>, b)) = Marker("NOP", 1)
    BY DEF decodeNext
  <2>2. "NOP" \in Markers /\ 64 \in Octet /\ 1 \in 0 .. 1 /\ 1 = (IF "NOP" = "EOP" THEN 0 ELSE 1)
    BY DEF Markers, Octet
  <2> QED
    BY <1>1, <2>1, <2>2 DEF NOP
<1>3. Carried(EOL)
  <2>1. \A b \in Octet : decodeNext(Append(<<65>>, b)) = Marker("EOL", 1)
    BY DEF decodeNext
  <2>2. "EOL" \in Markers /\ 65 \in Octet /\ 1 \in 0 .. 1 /\ 1 = (IF "EOL" = "EOP" THEN 0 ELSE 1)
    BY DEF Markers, Octet
  <2> QED
    BY <1>1, <2>1, <2>2 DEF EOL
<1>4. Carried(EOP)
  <2>1. \A b \in Octet : decodeNext(Append(<<66>>, b)) = Marker("EOP", 0)
    BY DEF decodeNext
  <2>2. "EOP" \in Markers /\ 66 \in Octet /\ 0 \in 0 .. 1 /\ 0 = (IF "EOP" = "EOP" THEN 0 ELSE 1)
    BY DEF Markers, Octet
  <2> QED
    BY <1>1, <2>1, <2>2 DEF EOP
<1> QED
  BY <1>2, <1>3, <1>4
-----------------------------------------------------------------------------
(* The strengthening: the command is one that is understood, and what was  *)
(* heard, if anything was, is the decoder's reading of it.                 *)
Faithful ==
  /\ Carried(cmd)
  /\ after \in Octet
  /\ heard \in {Nothing, decodeNext(Append(cmd.bytes, after))}

LEMMA FaithfulInit == Init => Faithful
<1> SUFFICES ASSUME Init PROVE Faithful
  OBVIOUS
<1>1. /\ \A raw \in Payload : raw \in Seq(Octet)
      /\ \A b \in Repeated : b \in Octet
      /\ after \in Octet
  BY CodecAssumption DEF Octet, Init
<1>2. heard = Nothing
  BY DEF Init
<1>3. Carried(cmd)
  <2>1. CASE \E c \in 8 .. 248 : c % 8 = 0 /\ cmd = CopyLong(c)
    BY <2>1, CopyLongCarried
  <2>2. CASE \E c \in 1 .. 7 : cmd = CopyShort(c)
    BY <2>2, CopyShortCarried
  <2>3. CASE \E c \in 0 .. 7, raw \in Payload :
               \/ Len(raw) \in 1 .. 7   /\ cmd = CopyThenRaw(c, raw)
               \/ Len(raw) \in 8 .. 255 /\ cmd = CopyThenRawLong(c, raw)
    BY <1>1, <2>3, CopyThenRawCarried, CopyThenRawLongCarried DEF Field
  <2>4. CASE \E c \in 0 .. 7, r \in 2 .. 255, b \in Repeated :
               \/ r <= 7 /\ cmd = CopyThenRepeat(c, r, b)
               \/ r >= 8 /\ cmd = CopyThenRepeatLong(c, r, b)
    <3>1. PICK c \in 0 .. 7, r \in 2 .. 255, b \in Repeated :
                 \/ r <= 7 /\ cmd = CopyThenRepeat(c, r, b)
                 \/ r >= 8 /\ cmd = CopyThenRepeatLong(c, r, b)
      BY <2>4, Zenon
    <3>2. c \in Field /\ b \in Octet
      BY <1>1 DEF Field
    <3>3. CASE r <= 7 /\ cmd = CopyThenRepeat(c, r, b)
      <4>1. r \in 2 .. 7
        BY <3>3
      <4> QED
        BY <3>2, <3>3, <4>1, CopyThenRepeatCarried, Zenon
    <3>4. CASE r >= 8 /\ cmd = CopyThenRepeatLong(c, r, b)
      <4>1. r \in 8 .. 255
        BY <3>4
      <4> QED
        BY <3>2, <3>4, <4>1, CopyThenRepeatLongCarried, Zenon
    <3> QED
      BY <3>1, <3>3, <3>4
  <2>5. CASE \E r \in 2 .. 7, b \in Repeated, raw \in Payload :
               \/ Len(raw) \in 1 .. 7   /\ cmd = RepeatThenRaw(r, b, raw)
               \/ Len(raw) \in 8 .. 255 /\ cmd = RepeatThenRawLong(r, b, raw)
    BY <1>1, <2>5, RepeatThenRawCarried, RepeatThenRawLongCarried
  <2>6. CASE \E r \in 1 .. 255 :
               \/ r <= 7 /\ cmd = RepeatX(r)
               \/ r >= 8 /\ cmd = RepeatXLong(r)
    BY <2>6, RepeatXCarried, RepeatXLongCarried
  <2>7. CASE cmd \in {NOP, EOL, EOP}
    BY <2>7, MarkersCarried
  <2> QED
    BY <2>1, <2>2, <2>3, <2>4, <2>5, <2>6, <2>7, Zenon DEF Init
<1> QED
  BY <1>1, <1>2, <1>3 DEF Faithful

LEMMA FaithfulStep == Faithful /\ [Next]_codecVars => Faithful'
<1> SUFFICES ASSUME Faithful, [Next]_codecVars PROVE Faithful'
  OBVIOUS
<1>1. CASE Hear
  BY <1>1, Zenon DEF Faithful, Hear, Carried
<1>2. CASE UNCHANGED codecVars
  BY <1>2, Zenon DEF Faithful, codecVars, Carried
<1> QED
  BY <1>1, <1>2 DEF Next

(* In every state, whatever the payload, the bytes repeated and the byte   *)
(* that follows, the command is one that decodeNext understands.           *)
THEOREM Invariance == Spec => []Faithful
<1>1. Init => Faithful
  BY FaithfulInit
<1>2. Faithful /\ [Next]_codecVars => Faithful'
  BY FaithfulStep
<1> QED
  BY <1>1, <1>2, PTL DEF Spec

(* DecoderStreambuf::decodeNext hears the command that the function of     *)
(* ScoaCmd sent, with its counts and its bytes, and stops where it ends.   *)
THEOREM UnderstoodHolds == Spec => []Understood
<1>1. Faithful => Understood
  BY Zenon DEF Faithful, Understood, Carried
<1> QED
  BY <1>1, Invariance, PTL

(* What a function of ScoaCmd returns, which the compressor adds up, is    *)
(* the number of bytes it appended, and they are bytes.                    *)
THEOREM SizeReportedHolds == Spec => []SizeReported
<1>1. ASSUME Faithful PROVE SizeReported
  <2>1. cmd.vsize = Len(cmd.bytes) /\ cmd.bytes \in Seq(Octet)
    BY <1>1, Zenon DEF Faithful, Carried
  <2>2. \A k \in 1 .. Len(cmd.bytes) : cmd.bytes[k] \in Octet
    BY <2>1, ElementOfSeq
  <2> QED
    BY <2>1, <2>2, Zenon DEF SizeReported, Octet
<1> QED
  BY <1>1, Invariance, PTL
=============================================================================
