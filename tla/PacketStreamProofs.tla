------------------------- MODULE PacketStreamProofs -------------------------
(***************************************************************************)
(* Proofs about PacketStream: for answers of every size and any number of  *)
(* calls, requests and answers stay in step.                               *)
(***************************************************************************)
EXTENDS PacketStream, SequenceTheorems, TLAPS

PacketByte == [no : 1 .. MaxCalls, op : Opcodes, size : Sizes, at : 1 .. MaxSize]
Request    == [no : 1 .. MaxCalls, kind : Kinds]

(* A packet is never shorter than its header.                              *)
Length(size) == IF size < 4 THEN 4 ELSE size

(* What is in the stream, if anything is, goes on where a packet was read  *)
(* to.                                                                     *)
Piece(at, op, size) ==
  /\ at + Len(inbox) <= Length(size)
  /\ \A k \in 1 .. Len(inbox) :
       inbox[k] = [no |-> calls, op |-> op, size |-> size, at |-> at + k]

GoesOn(at) ==
  inbox = << >> \/ \E op \in Opcodes, size \in Sizes : Piece(at, op, size)

StreamTypes ==
  /\ inbox \in Seq(PacketByte)
  /\ hungUp \in BOOLEAN /\ good \in BOOLEAN
  /\ requests = <<>> \/ \E r \in Request : requests = <<r>>

CallTypes ==
  /\ pc \in {"idle", "opcode", "size", "check", "fields", "leave"}
  /\ kind \in Kinds /\ opcode \in Opcodes \union {"none"}
  /\ remain \in 0 .. MaxSize - 4 /\ fields \in Seq({1, 2})
  /\ from \subseteq 0 .. MaxCalls /\ outcome \in {"none", "returned", "threw"}
  /\ calls \in 0 .. MaxCalls /\ (pc # "idle" => calls # 0)

(* Only the printer's hanging up ends the stream, and then it is empty.    *)
Ended == ~good => hungUp /\ inbox = <<>>

(* A request is answered before anything else happens in its call.         *)
OneRequest ==
  good => \/ requests = <<>>
          \/ /\ pc = "opcode" /\ inbox = <<>>
             /\ requests = <<[no |-> calls, kind |-> kind]>>

(* The stream holds what is left of the answer to this call.               *)
Rest ==
  /\ \A k \in 1 .. Len(inbox) : inbox[k].no = calls
  /\ pc = "idle" => inbox = <<>>
  /\ pc \in {"idle", "opcode", "size"} => remain = 0
  /\ pc = "opcode" => GoesOn(0)
  /\ pc = "size" => GoesOn(2)
  /\ pc \in {"check", "fields", "leave"} => Len(inbox) <= remain

IInv == StreamTypes /\ CallTypes /\ Ended /\ OneRequest /\ Rest /\ InStep
-----------------------------------------------------------------------------
LEMMA WidthsType == \A k \in Kinds : Widths[k] \in Seq({1, 2})
<1>1. <<1, 1, 1, 1, 1, 1, 2, 2, 2, 2, 2>> \in Seq({1, 2})
  OBVIOUS
<1>2. <<1, 1, 1, 1, 1, 1, 2, 2>> \in Seq({1, 2}) /\ <<1>> \in Seq({1, 2})
  OBVIOUS
<1>3. Kinds = {"PC_GET_EXTENDED_STATUS", "PC_GET_PRINTER_INFO", "PCR_GET_BASIC_STATUS",
               "execCmd"}
  BY DEF Kinds, Widths
<1>4. /\ Widths["PC_GET_EXTENDED_STATUS"] = <<1, 1, 1, 1, 1, 1, 2, 2, 2, 2, 2>>
      /\ Widths["PC_GET_PRINTER_INFO"] = <<1, 1, 1, 1, 1, 1, 2, 2>>
      /\ Widths["PCR_GET_BASIC_STATUS"] = <<1>> /\ Widths["execCmd"] = <<1>>
  BY DEF Widths
<1> QED
  BY <1>1, <1>2, <1>3, <1>4

(* What a read of n bytes leaves in the stream.                            *)
LEMMA Dropped ==
  ASSUME NEW S, NEW q \in Seq(S), NEW n \in Nat
  PROVE  LET d == SubSeq(q, n + 1, Len(q))
         IN  /\ d \in Seq(S)
             /\ Len(d) = IF n <= Len(q) THEN Len(q) - n ELSE 0
             /\ \A k \in 1 .. Len(d) : n + k \in 1 .. Len(q) /\ d[k] = q[n + k]
             /\ n >= Len(q) => d = << >>
<1> DEFINE d == SubSeq(q, n + 1, Len(q))
<1>1. Len(q) \in Nat /\ \A i \in 1 .. Len(q) : q[i] \in S
  BY LenProperties, ElementOfSeq
<1>2. \A i \in n + 1 .. Len(q) : q[i] \in S
  BY <1>1
<1>3. /\ d \in Seq(S)
      /\ Len(d) = IF n + 1 <= Len(q) THEN Len(q) - (n + 1) + 1 ELSE 0
      /\ \A k \in 1 .. Len(q) - (n + 1) + 1 : d[k] = q[n + 1 + k - 1]
  <2>1. n + 1 \in Int /\ Len(q) \in Int
    BY <1>1
  <2> QED
    BY <1>2, <2>1, SubSeqProperties
<1> HIDE DEF d
<1>4. Len(d) = IF n <= Len(q) THEN Len(q) - n ELSE 0
  BY <1>1, <1>3
<1>5. ASSUME NEW k \in 1 .. Len(d)
      PROVE  n + k \in 1 .. Len(q) /\ d[k] = q[n + k]
  <2>1. /\ k \in 1 .. Len(q) - (n + 1) + 1 /\ n + 1 + k - 1 = n + k
        /\ n + k \in 1 .. Len(q)
    BY <1>1, <1>4
  <2> QED
    BY <1>3, <2>1
<1>6. n >= Len(q) => d = << >>
  <2>1. n >= Len(q) => Len(d) = 0
    BY <1>1, <1>4
  <2> QED
    BY <1>3, <2>1, EmptySeq
<1> QED
  BY <1>3, <1>4, <1>5, <1>6 DEF d

(* What a read of n bytes gives.                                           *)
LEMMA FirstBytes ==
  ASSUME NEW n \in Nat, inbox \in Seq(PacketByte)
  PROVE  /\ DOMAIN FirstOf(n) = 1 .. Minimum(n, Len(inbox))
         /\ Len(FirstOf(n)) = Minimum(n, Len(inbox))
         /\ \A k \in DOMAIN FirstOf(n) : k \in 1 .. Len(inbox) /\ FirstOf(n)[k] = inbox[k]
<1> DEFINE m == Minimum(n, Len(inbox))
<1>1. /\ Len(inbox) \in Nat /\ \A i \in 1 .. Len(inbox) : inbox[i] \in PacketByte
  BY LenProperties, ElementOfSeq
<1>2. m \in Nat /\ m <= Len(inbox)
  BY <1>1 DEF Minimum
<1> HIDE DEF m
<1>3. \A i \in 1 .. m : inbox[i] \in PacketByte /\ i \in 1 .. Len(inbox)
  BY <1>1, <1>2
<1>4. /\ SubSeq(inbox, 1, m) \in Seq(PacketByte)
      /\ Len(SubSeq(inbox, 1, m)) = IF 1 <= m THEN m - 1 + 1 ELSE 0
      /\ \A i \in 1 .. m - 1 + 1 : SubSeq(inbox, 1, m)[i] = inbox[1 + i - 1]
  <2>1. 1 \in Int /\ m \in Int
    BY <1>2
  <2> QED
    BY <1>3, <2>1, SubSeqProperties
<1>5. Len(SubSeq(inbox, 1, m)) = m
  BY <1>2, <1>4
<1>6. DOMAIN SubSeq(inbox, 1, m) = 1 .. m
  BY <1>4, <1>5, LenProperties
<1>7. \A i \in 1 .. m : SubSeq(inbox, 1, m)[i] = inbox[i]
  <2>1. \A i \in 1 .. m : i \in 1 .. m - 1 + 1 /\ 1 + i - 1 = i
    BY <1>2
  <2> QED
    BY <1>4, <2>1
<1> QED
  BY <1>3, <1>5, <1>6, <1>7 DEF FirstOf, m

(* A read: the stream goes on n bytes later, or has ended.                 *)
LEMMA Reading ==
  ASSUME StreamTypes, Ended, NEW n \in Nat, Read(n)
  PROVE  /\ inbox' \in Seq(PacketByte)
         /\ Len(inbox') = IF n <= Len(inbox) THEN Len(inbox) - n ELSE 0
         /\ \A k \in 1 .. Len(inbox') : /\ n + k \in 1 .. Len(inbox)
                                        /\ inbox'[k] = inbox[n + k]
         /\ good /\ good' \in BOOLEAN
         /\ hungUp' = hungUp /\ requests' = requests
         /\ good' => Len(inbox) >= n
         /\ ~good' => hungUp /\ inbox' = << >>
<1>1. inbox \in Seq(PacketByte) /\ Len(inbox) \in Nat
  BY LenProperties DEF StreamTypes
<1>2. inbox' = SubSeq(inbox, n + 1, Len(inbox))
  BY DEF Read, Drop
<1>3. /\ inbox' \in Seq(PacketByte)
      /\ Len(inbox') = IF n <= Len(inbox) THEN Len(inbox) - n ELSE 0
      /\ \A k \in 1 .. Len(inbox') : n + k \in 1 .. Len(inbox) /\ inbox'[k] = inbox[n + k]
      /\ n >= Len(inbox) => inbox' = << >>
  BY <1>1, <1>2, Dropped
<1>4. /\ good /\ good' = (Len(inbox) >= n) /\ hungUp' = hungUp /\ requests' = requests
      /\ Len(inbox) >= n \/ hungUp
  BY DEF Read, Ready
<1>5. (Len(inbox) >= n) \in BOOLEAN /\ (~(Len(inbox) >= n) => n >= Len(inbox))
  BY <1>1
<1>6. good' \in BOOLEAN
  BY <1>4, <1>5, Zenon
<1>7. ~good' => hungUp /\ inbox' = << >>
  BY <1>3, <1>4, <1>5
<1> QED
  BY <1>3, <1>4, <1>6, <1>7, Zenon

(* A stream that has ended gives nothing.                                  *)
LEMMA NotReading ==
  ASSUME Ended, NoRead
  PROVE  /\ ~good /\ ~good' /\ good' = good /\ hungUp /\ hungUp' = hungUp
         /\ inbox = << >> /\ inbox' = inbox /\ requests' = requests
BY DEF Ended, NoRead, streamVars
-----------------------------------------------------------------------------
LEMMA MaxSizeType == MaxSize \in Nat /\ MaxSize >= 4
BY DEF MaxSize

LEMMA LengthType == \A s \in Sizes : Length(s) \in Nat /\ Length(s) \in 4 .. MaxSize
BY PacketAssumption, MaxSizeType DEF Length

(* The part of a packet that comes before the printer hangs up.            *)
LEMMA PacketPart ==
  ASSUME NEW no \in 1 .. MaxCalls, NEW op \in Opcodes, NEW size \in Sizes,
         NEW sent \in 0 .. Length(size)
  PROVE  LET q == SubSeq([k \in 1 .. Length(size) |->
                            [no |-> no, op |-> op, size |-> size, at |-> k]], 1, sent)
         IN  /\ q \in Seq(PacketByte)
             /\ Len(q) = sent
             /\ \A k \in 1 .. sent :
                  q[k] = [no |-> no, op |-> op, size |-> size, at |-> k]
<1>1. Length(size) \in Nat /\ Length(size) \in 4 .. MaxSize
  BY LengthType
<1>2. /\ 1 \in Int /\ sent \in Int /\ Length(size) \in Nat
      /\ \A i \in 1 .. sent : i \in 1 .. Length(size)
      /\ \A i \in 1 .. Length(size) : i \in 1 .. MaxSize
  BY <1>1, MaxSizeType
<1>3. (IF 1 <= sent THEN sent - 1 + 1 ELSE 0) = sent
  BY <1>2
<1>4. \A i \in 1 .. sent : i \in 1 .. sent - 1 + 1 /\ 1 + i - 1 = i
  BY <1>2
<1> DEFINE byte(k) == [no |-> no, op |-> op, size |-> size, at |-> k]
           packet == [k \in 1 .. Length(size) |-> byte(k)]
           q == SubSeq(packet, 1, sent)
<1>5. \A k \in 1 .. Length(size) : byte(k) \in PacketByte
  BY <1>2, Zenon DEF PacketByte
<1> HIDE DEF byte
<1>6. \A k \in 1 .. Length(size) : packet[k] = byte(k)
  OBVIOUS
<1> HIDE DEF packet
<1>7. \A k \in 1 .. sent : packet[k] \in PacketByte
  BY <1>2, <1>5, <1>6, Zenon
<1>8. /\ q \in Seq(PacketByte)
      /\ Len(q) = IF 1 <= sent THEN sent - 1 + 1 ELSE 0
      /\ \A i \in 1 .. sent - 1 + 1 : q[i] = packet[1 + i - 1]
  BY <1>2, <1>7, SubSeqProperties
<1> HIDE DEF q
<1>9. Len(q) = sent
  BY <1>3, <1>8
<1>10. \A k \in 1 .. sent : q[k] = byte(k)
  BY <1>2, <1>4, <1>6, <1>8, Zenon
<1> QED
  BY <1>8, <1>9, <1>10 DEF q, packet, byte

LEMMA SameCall ==
  ASSUME CallTypes, UNCHANGED <<pc, kind, opcode, remain, fields, from, outcome, calls>>
  PROVE  CallTypes'
BY Zenon DEF CallTypes

LEMMA AnswerStep ==
  ASSUME IInv, Answer
  PROVE  IInv'
<1>1. /\ requests # << >> /\ ~hungUp
      /\ \E size \in Sizes, op \in {Head(requests).kind, "other"} :
           \E sent \in 0 .. Length(size) :
             /\ inbox' = inbox \o
                  SubSeq([k \in 1 .. Length(size) |->
                            [no |-> Head(requests).no, op |-> op, size |-> size, at |-> k]],
                         1, sent)
             /\ hungUp' = (sent < Length(size))
      /\ requests' = Tail(requests) /\ UNCHANGED <<good, callVars>>
  BY Zenon DEF Answer, Length
<1>2. good /\ pc = "opcode" /\ inbox = << >> /\ requests = <<[no |-> calls, kind |-> kind]>>
  BY <1>1, Zenon DEF IInv, Ended, OneRequest
<1>3. Head(requests).no = calls /\ Head(requests).kind = kind /\ Tail(requests) = << >>
  BY <1>2
<1>4. calls \in 1 .. MaxCalls /\ kind \in Opcodes
  <2>1. calls \in 0 .. MaxCalls /\ calls # 0 /\ kind \in Kinds
    BY <1>2, Zenon DEF IInv, CallTypes
  <2> QED
    BY <2>1, PacketAssumption DEF Opcodes
<1>5. PICK size \in Sizes, op \in {kind, "other"} :
        \E sent \in 0 .. Length(size) :
          /\ inbox' = << >> \o
               SubSeq([k \in 1 .. Length(size) |->
                         [no |-> calls, op |-> op, size |-> size, at |-> k]], 1, sent)
          /\ hungUp' = (sent < Length(size))
  BY <1>1, <1>2, <1>3, Zenon
<1> DEFINE part(sent) == SubSeq([k \in 1 .. Length(size) |->
                                   [no |-> calls, op |-> op, size |-> size, at |-> k]], 1, sent)
<1>6. PICK sent \in 0 .. Length(size) :
        inbox' = << >> \o part(sent) /\ hungUp' = (sent < Length(size))
  BY <1>5, Zenon
<1>7. op \in Opcodes
  BY <1>4, Zenon DEF Opcodes
<1>8. /\ part(sent) \in Seq(PacketByte) /\ Len(part(sent)) = sent
      /\ \A k \in 1 .. sent :
           part(sent)[k] = [no |-> calls, op |-> op, size |-> size, at |-> k]
  BY <1>4, <1>7, PacketPart, ZenonT(60)
<1> HIDE DEF part
<1>9. inbox' = part(sent)
  BY <1>6, <1>8, ConcatEmptySeq
<1>10. /\ good' = good /\ requests' = << >>
       /\ UNCHANGED <<pc, kind, opcode, remain, fields, from, outcome, calls>>
  BY <1>1, <1>3, Zenon DEF callVars
<1>11. hungUp' \in BOOLEAN /\ 0 + sent <= Length(size) /\ \A k \in 1 .. sent : 0 + k = k
  <2>1. Length(size) \in Nat
    BY LengthType, Zenon
  <2>2. /\ (sent < Length(size)) \in BOOLEAN
        /\ 0 + sent <= Length(size) /\ \A k \in 1 .. sent : 0 + k = k
    BY <2>1
  <2> QED
    BY <1>6, <2>2, Zenon
<1>12. StreamTypes'
  BY <1>8, <1>9, <1>10, <1>11, Zenon DEF IInv, StreamTypes
<1>13. CallTypes'
  BY <1>10, SameCall, Zenon DEF IInv
<1>14. Ended' /\ OneRequest' /\ InStep'
  BY <1>2, <1>10, Zenon DEF IInv, Ended, OneRequest, InStep
<1>15. Rest'
  <2> DEFINE byte(k) == [no |-> calls, op |-> op, size |-> size, at |-> k]
  <2>1. \A k \in 1 .. Len(inbox') : inbox'[k] = byte(k)
    BY <1>8, <1>9, Zenon
  <2>2. \A k : byte(k).no = calls
    OBVIOUS
  <2>3. Piece(0, op, size)'
    BY <1>8, <1>9, <1>10, <1>11, <2>1, Zenon DEF Piece
  <2> HIDE DEF byte
  <2>4. GoesOn(0)'
    BY <1>7, <2>3, Zenon DEF GoesOn
  <2>5. \A k \in 1 .. Len(inbox') : inbox'[k].no = calls'
    BY <1>10, <2>1, <2>2, Zenon
  <2> QED
    BY <1>2, <1>10, <2>4, <2>5, Zenon DEF IInv, Rest
<1> QED
  BY <1>12, <1>13, <1>14, <1>15, Zenon DEF IInv

(* A request, or data that are not answered, are written between calls.    *)
LEMMA Writing ==
  ASSUME IInv, pc = "idle", NEW r, Write(r)
  PROVE  /\ inbox = << >> /\ inbox' = inbox /\ hungUp' = hungUp
         /\ good' \in BOOLEAN /\ (good' => good) /\ (~good' => hungUp)
         /\ good' => requests' = << >> \o r
         /\ requests' = requests \/ requests' = << >> \o r
<1>1. inbox = << >> /\ good \in BOOLEAN /\ (~good => hungUp) /\ (good => requests = << >>)
  BY Zenon DEF IInv, Rest, StreamTypes, Ended, OneRequest
<1>2. CASE good /\ requests' = requests \o r /\ UNCHANGED <<inbox, hungUp, good>>
  BY <1>1, <1>2, Zenon
<1>3. CASE good /\ hungUp /\ good' = FALSE /\ UNCHANGED <<inbox, hungUp, requests>>
  BY <1>1, <1>3, Zenon
<1>4. CASE ~good /\ UNCHANGED streamVars
  BY <1>1, <1>4, Zenon DEF streamVars
<1> QED
  BY <1>2, <1>3, <1>4, Zenon DEF Write

LEMMA SendStep ==
  ASSUME IInv, Send
  PROVE  IInv'
<1>1. pc = "idle" /\ Write(<< >>) /\ UNCHANGED callVars
  BY Zenon DEF Send
<1>2. /\ inbox = << >> /\ inbox' = inbox /\ hungUp' = hungUp
      /\ good' \in BOOLEAN /\ (good' => good) /\ (~good' => hungUp)
      /\ good' => requests' = << >>
      /\ requests' = requests \/ requests' = << >>
  <2>1. << >> \o << >> = << >>
    OBVIOUS
  <2> QED
    BY <1>1, <2>1, Writing, Zenon
<1>3. UNCHANGED <<pc, kind, opcode, remain, fields, from, outcome, calls>>
  BY <1>1, Zenon DEF callVars
<1>4. StreamTypes'
  BY <1>2, Zenon DEF IInv, StreamTypes
<1>5. CallTypes'
  BY <1>3, SameCall, Zenon DEF IInv
<1>6. Ended' /\ OneRequest' /\ InStep'
  BY <1>2, <1>3, Zenon DEF IInv, Ended, OneRequest, InStep
<1>7. Rest'
  BY <1>1, <1>2, <1>3, Zenon DEF IInv, Rest
<1> QED
  BY <1>4, <1>5, <1>6, <1>7, Zenon DEF IInv

LEMMA BeginStep ==
  ASSUME IInv, Begin
  PROVE  IInv'
<1> DEFINE r == [no |-> calls + 1, kind |-> kind']
<1>1. /\ pc = "idle" /\ calls < MaxCalls /\ kind' \in Kinds /\ Write(<<r>>)
      /\ calls' = calls + 1 /\ pc' = "opcode" /\ fields' = Widths[kind']
      /\ from' = {} /\ outcome' = "none" /\ opcode' = opcode /\ remain' = remain
  BY DEF Begin
<1>2. calls + 1 \in 1 .. MaxCalls
  <2>1. calls \in 0 .. MaxCalls
    BY Zenon DEF IInv, CallTypes
  <2> QED
    BY <1>1, <2>1, PacketAssumption
<1>3. r \in Request /\ r = [no |-> calls', kind |-> kind']
  BY <1>1, <1>2, Zenon DEF Request
<1> HIDE DEF r
<1>4. /\ inbox = << >> /\ inbox' = inbox /\ hungUp' = hungUp
      /\ good' \in BOOLEAN /\ (good' => good) /\ (~good' => hungUp)
      /\ good' => requests' = <<r>>
      /\ requests' = requests \/ requests' = <<r>>
  <2>1. << >> \o <<r>> = <<r>>
    OBVIOUS
  <2>2. /\ inbox = << >> /\ inbox' = inbox /\ hungUp' = hungUp
        /\ good' \in BOOLEAN /\ (good' => good) /\ (~good' => hungUp)
        /\ good' => requests' = << >> \o <<r>>
        /\ requests' = requests \/ requests' = << >> \o <<r>>
    BY <1>1, Writing, SMT
  <2> QED
    BY <2>1, <2>2, Zenon
<1>5. StreamTypes'
  BY <1>3, <1>4, Zenon DEF IInv, StreamTypes
<1>6. CallTypes'
  <2>1. calls' \in 0 .. MaxCalls /\ calls' # 0
    BY <1>1, <1>2
  <2>2. fields' \in Seq({1, 2})
    BY <1>1, WidthsType, Zenon
  <2>3. /\ pc' \in {"idle", "opcode", "size", "check", "fields", "leave"}
        /\ outcome' \in {"none", "returned", "threw"}
        /\ from' \subseteq 0 .. MaxCalls
    BY <1>1, Zenon
  <2> QED
    BY <1>1, <2>1, <2>2, <2>3, Zenon DEF IInv, CallTypes
<1>7. OneRequest'
  BY <1>1, <1>3, <1>4, Zenon DEF OneRequest
<1>8. Ended' /\ InStep'
  BY <1>1, <1>4, Zenon DEF Ended, InStep
<1>9. Rest'
  <2>1. \A k \in 1 .. Len(inbox') : FALSE
    BY <1>4
  <2>2. GoesOn(0)' /\ remain' = 0 /\ pc' \notin {"idle", "size", "check", "fields", "leave"}
    <3>1. remain = 0
      BY <1>1, Zenon DEF IInv, Rest
    <3> QED
      BY <1>1, <1>4, <3>1, Zenon DEF GoesOn
  <2> QED
    BY <2>1, <2>2, Zenon DEF Rest
<1> QED
  BY <1>5, <1>6, <1>7, <1>8, <1>9, Zenon DEF IInv

(* What a step that only reads keeps of the invariant.                     *)
LEMMA ReadStep ==
  ASSUME IInv, NEW n \in Nat \ {0}, Read(n) \/ NoRead, calls' = calls
  PROVE  /\ StreamTypes' /\ Ended' /\ (good' => good) /\ (good' => requests' = << >>)
         /\ Len(inbox') \in Nat /\ Len(inbox) \in Nat
         /\ Len(inbox') = IF n <= Len(inbox) THEN Len(inbox) - n ELSE 0
         /\ \A k \in 1 .. Len(inbox') : n + k \in 1 .. Len(inbox) /\ inbox'[k] = inbox[n + k]
         /\ \A k \in 1 .. Len(inbox') : inbox'[k].no = calls'
         /\ good' => Len(inbox) >= n
         /\ ~good' => inbox' = << >>
<1>1. inbox \in Seq(PacketByte) /\ Len(inbox) \in Nat
  <2>1. inbox \in Seq(PacketByte)
    BY Zenon DEF IInv, StreamTypes
  <2> QED
    BY <2>1, LenProperties
<1>2. StreamTypes /\ Ended
  BY Zenon DEF IInv
<1>3. /\ inbox' \in Seq(PacketByte)
      /\ Len(inbox') = IF n <= Len(inbox) THEN Len(inbox) - n ELSE 0
      /\ \A k \in 1 .. Len(inbox') : n + k \in 1 .. Len(inbox) /\ inbox'[k] = inbox[n + k]
      /\ good' \in BOOLEAN /\ (good' => good)
      /\ hungUp' = hungUp /\ requests' = requests
      /\ good' => Len(inbox) >= n
      /\ ~good' => hungUp /\ inbox' = << >>
  <2>1. CASE Read(n)
    BY <1>2, <2>1, Reading, Zenon
  <2>2. CASE NoRead
    <3>1. /\ ~good /\ ~good' /\ good' = good /\ hungUp /\ hungUp' = hungUp
          /\ inbox = << >> /\ inbox' = inbox /\ requests' = requests
      BY <1>2, <2>2, NotReading, Zenon
    <3>2. Len(<< >>) = 0 /\ ~(n <= 0) /\ \A k \in 1 .. 0 : FALSE
      OBVIOUS
    <3>3. good' \in BOOLEAN
      BY <1>2, <3>1, Zenon DEF StreamTypes
    <3>4. /\ Len(inbox') = IF n <= Len(inbox) THEN Len(inbox) - n ELSE 0
          /\ \A k \in 1 .. Len(inbox') : n + k \in 1 .. Len(inbox) /\ inbox'[k] = inbox[n + k]
      BY <3>1, <3>2
    <3> QED
      BY <1>1, <3>1, <3>3, <3>4, Zenon
  <2> QED
    BY <2>1, <2>2, Zenon
<1>4. \A k \in 1 .. Len(inbox') : inbox'[k].no = calls'
  BY <1>3, Zenon DEF IInv, Rest
<1>5. good' => requests' = << >>
  <2>1. ASSUME good'
        PROVE  inbox # << >>
    <3>1. ~(Len(<< >>) >= n)
      OBVIOUS
    <3> QED
      BY <1>3, <2>1, <3>1, Zenon
  <2> QED
    BY <1>3, <2>1, Zenon DEF IInv, OneRequest
<1>6. StreamTypes' /\ Ended'
  BY <1>2, <1>3, Zenon DEF StreamTypes, Ended
<1>7. Len(inbox') \in Nat
  BY <1>3, LenProperties
<1> QED
  BY <1>1, <1>3, <1>4, <1>5, <1>6, <1>7, Zenon

LEMMA ReadOpcodeStep ==
  ASSUME IInv, ReadOpcode
  PROVE  IInv'
<1>1. /\ pc = "opcode" /\ pc' = "size"
      /\ kind' = kind /\ remain' = remain /\ fields' = fields /\ from' = from
      /\ outcome' = outcome /\ calls' = calls
      /\ \/ Read(2) /\ opcode' \in OpcodeIn(FirstOf(2))
         \/ NoRead /\ opcode' = "none"
  BY Zenon DEF ReadOpcode
<1>2. /\ StreamTypes' /\ Ended' /\ (good' => good) /\ (good' => requests' = << >>)
      /\ Len(inbox') \in Nat /\ Len(inbox) \in Nat
      /\ Len(inbox') = IF 2 <= Len(inbox) THEN Len(inbox) - 2 ELSE 0
      /\ \A k \in 1 .. Len(inbox') : 2 + k \in 1 .. Len(inbox) /\ inbox'[k] = inbox[2 + k]
      /\ \A k \in 1 .. Len(inbox') : inbox'[k].no = calls'
  <2>1. 2 \in Nat \ {0}
    OBVIOUS
  <2> QED
    BY <1>1, <2>1, ReadStep, Zenon
<1>3. opcode' \in Opcodes \union {"none"}
  <2>1. CASE NoRead /\ opcode' = "none"
    BY <2>1, Zenon
  <2>2. CASE Read(2) /\ opcode' \in OpcodeIn(FirstOf(2))
    <3>1. /\ Len(FirstOf(2)) = Minimum(2, Len(inbox))
          /\ DOMAIN FirstOf(2) = 1 .. Minimum(2, Len(inbox))
          /\ \A k \in DOMAIN FirstOf(2) :
               k \in 1 .. Len(inbox) /\ FirstOf(2)[k] = inbox[k]
      <4>1. inbox \in Seq(PacketByte) /\ 2 \in Nat
        BY DEF IInv, StreamTypes
      <4> QED
        BY <4>1, FirstBytes, Zenon
    <3>2. CASE At(FirstOf(2), 1, 2)
      <4>1. Minimum(2, Len(inbox)) = 2 /\ 1 \in 1 .. 2
        BY <3>1, <3>2 DEF At
      <4>2. 1 \in 1 .. Len(inbox) /\ FirstOf(2)[1] = inbox[1]
        BY <3>1, <4>1, Zenon
      <4>3. inbox[1] \in PacketByte
        <5>1. inbox \in Seq(PacketByte)
          BY Zenon DEF IInv, StreamTypes
        <5> QED
          BY <4>2, <5>1, ElementOfSeq
      <4>4. \A b \in PacketByte : b.op \in Opcodes
        BY DEF PacketByte
      <4> QED
        BY <2>2, <3>2, <4>2, <4>3, <4>4, Zenon DEF OpcodeIn
    <3> QED
      BY <2>2, <3>2, Zenon DEF OpcodeIn
  <2> QED
    BY <1>1, <2>1, <2>2, Zenon
<1>4. CallTypes'
  <2>1. pc' \in {"idle", "opcode", "size", "check", "fields", "leave"} /\ pc # "idle"
    BY <1>1
  <2> QED
    BY <1>1, <1>3, <2>1, Zenon DEF IInv, CallTypes
<1>5. OneRequest' /\ InStep'
  BY <1>1, <1>2, Zenon DEF IInv, OneRequest, InStep
<1>6. GoesOn(2)'
  <2>1. CASE inbox' = << >>
    BY <2>1, Zenon DEF GoesOn
  <2>2. CASE inbox' # << >>
    <3>1. Len(inbox) >= 2 /\ Len(inbox') = Len(inbox) - 2
      <4>1. inbox' \in Seq(PacketByte)
        BY <1>2, Zenon DEF StreamTypes
      <4>2. Len(inbox') # 0
        BY <2>2, <4>1, EmptySeq
      <4> QED
        BY <1>2, <4>2
    <3>2. inbox # << >>
      <4>1. Len(<< >>) = 0
        OBVIOUS
      <4> QED
        BY <3>1, <4>1
    <3>3. PICK op \in Opcodes, size \in Sizes : Piece(0, op, size)
      BY <1>1, <3>2, Zenon DEF IInv, Rest, GoesOn
    <3>4. /\ 0 + Len(inbox) <= Length(size)
          /\ \A k \in 1 .. Len(inbox) :
               inbox[k] = [no |-> calls, op |-> op, size |-> size, at |-> 0 + k]
      BY <3>3, Zenon DEF Piece
    <3>5. Length(size) \in Nat
      BY LengthType, Zenon
    <3>6. 2 + Len(inbox') <= Length(size) /\ \A k \in 1 .. Len(inbox') : 0 + (2 + k) = 2 + k
      BY <1>2, <3>1, <3>4, <3>5
    <3>7. ASSUME NEW k \in 1 .. Len(inbox')
          PROVE  inbox'[k] = [no |-> calls', op |-> op, size |-> size, at |-> 2 + k]
      <4>1. inbox'[k] = inbox[2 + k] /\ 2 + k \in 1 .. Len(inbox) /\ 0 + (2 + k) = 2 + k
        BY <1>2, <3>6, Zenon
      <4> QED
        BY <1>1, <3>4, <4>1, Zenon
    <3>8. Piece(2, op, size)'
      BY <3>6, <3>7, Zenon DEF Piece
    <3> QED
      BY <3>8, Zenon DEF GoesOn
  <2> QED
    BY <2>1, <2>2
<1>7. Rest'
  <2>1. remain' = 0
    BY <1>1, Zenon DEF IInv, Rest
  <2>2. pc' \notin {"idle", "opcode", "check", "fields", "leave"}
    BY <1>1
  <2> QED
    BY <1>1, <1>2, <1>6, <2>1, <2>2, Zenon DEF Rest
<1> QED
  BY <1>2, <1>4, <1>5, <1>7, Zenon DEF IInv

(* What is left when a size was read is no longer than it says.            *)
LEMMA ReadSizeStep ==
  ASSUME IInv, ReadSize
  PROVE  IInv'
<1>1. /\ pc = "size"
      /\ Read(2) \/ NoRead
      /\ kind' = kind /\ opcode' = opcode /\ fields' = fields /\ from' = from
      /\ calls' = calls
  BY Zenon DEF ReadSize
<1>2. PICK size \in IF good' THEN SizeIn(FirstOf(2)) ELSE {4} :
        \/ size < 4 /\ Throw /\ UNCHANGED remain
        \/ size >= 4 /\ remain' = size - 4 /\ pc' = "check" /\ UNCHANGED outcome
  BY Zenon DEF ReadSize
<1>3. /\ StreamTypes' /\ Ended' /\ (good' => good) /\ (good' => requests' = << >>)
      /\ Len(inbox') \in Nat /\ Len(inbox) \in Nat
      /\ Len(inbox') = IF 2 <= Len(inbox) THEN Len(inbox) - 2 ELSE 0
      /\ \A k \in 1 .. Len(inbox') : inbox'[k].no = calls'
      /\ good' => Len(inbox) >= 2
      /\ ~good' => inbox' = << >>
  <2>1. 2 \in Nat \ {0}
    OBVIOUS
  <2> QED
    BY <1>1, <2>1, ReadStep, Zenon
<1>4. remain = 0
  BY <1>1, Zenon DEF IInv, Rest
<1>5. CASE ~good'
  <2>1. size = 4
    BY <1>2, <1>5, Zenon
  <2>2. ~(size < 4) /\ size - 4 = 0 /\ 0 \in 0 .. MaxSize - 4 /\ Len(<< >>) <= 0
    BY <2>1, MaxSizeType
  <2>3. pc' = "check" /\ remain' = 0 /\ outcome' = outcome /\ inbox' = << >>
    BY <1>2, <1>3, <1>5, <2>2, Zenon
  <2>4. remain' \in 0 .. MaxSize - 4 /\ Len(inbox') <= remain'
    BY <2>2, <2>3, Zenon
  <2>5. CallTypes'
    <3>1. pc' \in {"idle", "opcode", "size", "check", "fields", "leave"} /\ pc # "idle"
      BY <1>1, <2>3
    <3> QED
      BY <1>1, <2>3, <2>4, <3>1, Zenon DEF IInv, CallTypes
  <2>6. Rest'
    <3>1. pc' \notin {"idle", "opcode", "size"}
      BY <2>3
    <3> QED
      BY <1>3, <2>4, <3>1, Zenon DEF Rest
  <2> QED
    BY <1>1, <1>3, <1>5, <2>5, <2>6, Zenon DEF IInv, OneRequest, InStep
<1>6. CASE good'
  <2>1. size \in SizeIn(FirstOf(2))
    BY <1>2, <1>6, Zenon
  <2>2. 2 <= Len(inbox) /\ Len(inbox') = Len(inbox) - 2 /\ inbox # << >>
    <3>1. Len(<< >>) = 0
      OBVIOUS
    <3> QED
      BY <1>3, <1>6, <3>1
  <2>3. PICK op \in Opcodes, s \in Sizes : Piece(2, op, s)
    BY <1>1, <2>2, Zenon DEF IInv, Rest, GoesOn
  <2>4. /\ 2 + Len(inbox) <= Length(s)
        /\ \A k \in 1 .. Len(inbox) :
             inbox[k] = [no |-> calls, op |-> op, size |-> s, at |-> 2 + k]
    BY <2>3, Zenon DEF Piece
  <2>5. /\ Len(FirstOf(2)) = 2
        /\ \A k \in 1 .. 2 : FirstOf(2)[k] = [no |-> calls, op |-> op, size |-> s, at |-> 2 + k]
    <3>1. inbox \in Seq(PacketByte) /\ 2 \in Nat
      BY DEF IInv, StreamTypes
    <3>2. Minimum(2, Len(inbox)) = 2
      BY <1>3, <2>2 DEF Minimum
    <3> QED
      BY <2>4, <3>1, <3>2, FirstBytes, Zenon
  <2>6. At(FirstOf(2), 3, 2) /\ FirstOf(2)[1].size = s
    <3>1. 1 \in 1 .. 2 /\ \A k \in 1 .. 2 : 3 + k - 1 = 2 + k
      OBVIOUS
    <3>2. \A k \in 1 .. 2 : FirstOf(2)[k].at = 2 + k /\ FirstOf(2)[k].size = s
      BY <2>5
    <3> QED
      BY <2>5, <3>1, <3>2, Zenon DEF At
  <2>7. size = s
    BY <2>1, <2>6, Zenon DEF SizeIn
  <2>8. s \in Nat /\ s <= MaxSize /\ Length(s) = IF s < 4 THEN 4 ELSE s
    BY PacketAssumption, MaxSizeType DEF Length
  <2> DEFINE taken == /\ remain' \in 0 .. MaxSize - 4 /\ Len(inbox') <= remain'
                      /\ pc' \in {"check", "leave"}
                      /\ outcome' \in {"none", "returned", "threw"}
                      /\ pc' \notin {"idle", "opcode", "size"}
  <2>9. ASSUME size < 4
        PROVE  taken
    <3>1. pc' = "leave" /\ outcome' = "threw" /\ remain' = 0
      <4>1. ~(size >= 4)
        BY <2>7, <2>8, <2>9
      <4> QED
        BY <1>2, <1>4, <4>1, Zenon DEF Throw
    <3>2. remain' \in 0 .. MaxSize - 4 /\ Len(inbox') <= remain'
      BY <1>3, <2>2, <2>4, <2>7, <2>8, <2>9, <3>1, MaxSizeType
    <3>3. /\ pc' \in {"check", "leave"} /\ outcome' \in {"none", "returned", "threw"}
          /\ pc' \notin {"idle", "opcode", "size"}
      BY <3>1
    <3> QED
      BY <3>2, <3>3
  <2>10. ASSUME size >= 4
         PROVE  taken
    <3>1. pc' = "check" /\ outcome' = outcome /\ remain' = s - 4
      <4>1. ~(size < 4)
        BY <2>7, <2>8, <2>10
      <4> QED
        BY <1>2, <2>7, <4>1, Zenon
    <3>2. remain' \in 0 .. MaxSize - 4 /\ Len(inbox') <= remain'
      BY <1>3, <2>2, <2>4, <2>7, <2>8, <2>10, <3>1, MaxSizeType
    <3>3. outcome' \in {"none", "returned", "threw"}
      BY <3>1, Zenon DEF IInv, CallTypes
    <3>4. pc' \in {"check", "leave"} /\ pc' \notin {"idle", "opcode", "size"}
      BY <3>1
    <3> QED
      BY <3>2, <3>3, <3>4
  <2>11. taken
    <3>1. size < 4 \/ size >= 4
      BY <2>7, <2>8
    <3> QED
      BY <2>9, <2>10, <3>1, Zenon
  <2>12. CallTypes'
    <3>1. pc' \in {"idle", "opcode", "size", "check", "fields", "leave"} /\ pc # "idle"
      BY <1>1, <2>11
    <3> QED
      BY <1>1, <2>11, <3>1, Zenon DEF IInv, CallTypes
  <2>13. Rest'
    BY <1>3, <2>11, Zenon DEF Rest
  <2> QED
    BY <1>1, <1>3, <1>6, <2>12, <2>13, Zenon DEF IInv, OneRequest, InStep
<1> QED
  BY <1>5, <1>6, Zenon

(* A step that leaves the stream alone, within a call.                     *)
LEMMA LocalStep ==
  ASSUME IInv, pc \in {"check", "fields"}, pc' \in {"fields", "leave"},
         outcome' \in {"none", "returned", "threw"},
         UNCHANGED <<streamVars, kind, opcode, remain, fields, from, calls>>
  PROVE  IInv'
<1>1. /\ UNCHANGED <<inbox, hungUp, requests, good>>
      /\ UNCHANGED <<kind, opcode, remain, fields, from, calls>>
  BY Zenon DEF streamVars
<1>2. /\ pc # "idle" /\ pc # "opcode" /\ pc' \notin {"idle", "opcode", "size"}
      /\ pc' \in {"idle", "opcode", "size", "check", "fields", "leave"}
      /\ pc \in {"check", "fields", "leave"}
  OBVIOUS
<1>3. StreamTypes' /\ Ended' /\ InStep'
  BY <1>1, Zenon DEF IInv, StreamTypes, Ended, InStep
<1>4. CallTypes'
  BY <1>1, <1>2, Zenon DEF IInv, CallTypes
<1>5. OneRequest'
  BY <1>1, <1>2, Zenon DEF IInv, OneRequest
<1>6. Rest'
  BY <1>1, <1>2, Zenon DEF IInv, Rest
<1> QED
  BY <1>3, <1>4, <1>5, <1>6, Zenon DEF IInv

LEMMA CheckOpcodeStep ==
  ASSUME IInv, CheckOpcode
  PROVE  IInv'
<1>1. /\ pc = "check" /\ UNCHANGED <<streamVars, kind, opcode, remain, fields, from, calls>>
      /\ \/ pc' = "fields" /\ outcome' = outcome
         \/ pc' = "leave" /\ outcome' = "threw"
  BY Zenon DEF CheckOpcode, Throw
<1>2. /\ pc \in {"check", "fields"} /\ pc' \in {"fields", "leave"}
      /\ outcome' \in {"none", "returned", "threw"}
  BY <1>1, Zenon DEF IInv, CallTypes
<1> QED
  BY <1>1, <1>2, LocalStep, Zenon

LEMMA ReturnStep ==
  ASSUME IInv, Return
  PROVE  IInv'
<1>1. /\ pc = "fields" /\ UNCHANGED <<streamVars, kind, opcode, remain, fields, from, calls>>
      /\ pc' = "leave" /\ outcome' = "returned"
  BY Zenon DEF Return
<1>2. /\ pc \in {"check", "fields"} /\ pc' \in {"fields", "leave"}
      /\ outcome' \in {"none", "returned", "threw"}
  BY <1>1, Zenon
<1> QED
  BY <1>1, <1>2, LocalStep, Zenon

(* What ReadLittle gives is of the answer to this call, or the stream has  *)
(* ended.                                                                  *)
LEMMA ReadLittleGives ==
  ASSUME IInv, pc = "fields", calls' = calls, NEW n \in Nat \ {0}, ReadLittle(n)
  PROVE  InStep' /\ from' \subseteq 0 .. MaxCalls
<1>1. calls \in 0 .. MaxCalls /\ 0 \in 0 .. MaxCalls /\ calls # 0
  BY PacketAssumption DEF IInv, CallTypes
<1>2. {0, calls} \subseteq 0 .. MaxCalls
  BY <1>1, Zenon
<1>3. from \subseteq {0, calls} /\ (0 \in from => ~good)
  BY Zenon DEF IInv, InStep
<1>4. CASE NoRead /\ from' = from \union {0}
  <2>1. ~good'
    BY <1>4, NotReading, Zenon DEF IInv
  <2>2. from' \subseteq {0, calls}
    BY <1>3, <1>4
  <2> QED
    BY <1>2, <2>1, <2>2, Zenon DEF InStep
<1>5. CASE /\ Read(n)
           /\ from' = from \union {FirstOf(n)[k].no : k \in DOMAIN FirstOf(n)}
                           \union (IF good' THEN {} ELSE {0})
  <2>1. good
    BY <1>5, Zenon DEF Read
  <2>2. \A k \in DOMAIN FirstOf(n) : FirstOf(n)[k].no = calls
    <3>1. inbox \in Seq(PacketByte)
      BY Zenon DEF IInv, StreamTypes
    <3> QED
      BY <3>1, FirstBytes, Zenon DEF IInv, Rest
  <2>3. {FirstOf(n)[k].no : k \in DOMAIN FirstOf(n)} \subseteq {calls}
    BY <2>2, Zenon
  <2>4. 0 \notin from
    BY <1>3, <2>1, Zenon
  <2>5. CASE good'
    <3>1. from' = from \union {FirstOf(n)[k].no : k \in DOMAIN FirstOf(n)} \union {}
      BY <1>5, <2>5, Zenon
    <3>2. from' \subseteq {0, calls} /\ 0 \notin from'
      BY <1>1, <1>3, <2>3, <2>4, <3>1, Zenon
    <3> QED
      BY <1>2, <3>2, Zenon DEF InStep
  <2>6. CASE ~good'
    <3>1. from' = from \union {FirstOf(n)[k].no : k \in DOMAIN FirstOf(n)} \union {0}
      BY <1>5, <2>6, Zenon
    <3>2. from' \subseteq {0, calls}
      BY <1>3, <2>3, <3>1, Zenon
    <3> QED
      BY <1>2, <2>6, <3>2, Zenon DEF InStep
  <2> QED
    BY <2>5, <2>6, Zenon
<1> QED
  BY <1>4, <1>5, Zenon DEF ReadLittle

LEMMA ReadFieldStep ==
  ASSUME IInv, ReadField
  PROVE  IInv'
<1> DEFINE n == Head(fields)
<1>1. /\ pc = "fields" /\ fields # << >> /\ kind' = kind /\ opcode' = opcode /\ calls' = calls
      /\ \/ Throw /\ UNCHANGED <<streamVars, remain, fields, from>>
         \/ remain >= n /\ remain' = remain - n /\ ReadLittle(n) /\ PastField
  BY Zenon DEF ReadField
<1>2. CASE Throw /\ UNCHANGED <<streamVars, remain, fields, from>>
  <2>1. /\ pc \in {"check", "fields"} /\ pc' \in {"fields", "leave"}
        /\ outcome' \in {"none", "returned", "threw"}
        /\ UNCHANGED <<streamVars, kind, opcode, remain, fields, from, calls>>
    BY <1>1, <1>2, Zenon DEF Throw
  <2> QED
    BY <2>1, LocalStep, Zenon
<1>3. CASE remain >= n /\ remain' = remain - n /\ ReadLittle(n) /\ PastField
  <2>1. fields \in Seq({1, 2})
    BY Zenon DEF IInv, CallTypes
  <2>2. n \in {1, 2} /\ Tail(fields) \in Seq({1, 2})
    BY <1>1, <2>1
  <2>3. n \in Nat \ {0} /\ n \in Nat
    BY <2>2
  <2> HIDE DEF n
  <2>4. /\ StreamTypes' /\ Ended' /\ (good' => good) /\ (good' => requests' = << >>)
        /\ Len(inbox') \in Nat /\ Len(inbox) \in Nat
        /\ Len(inbox') = IF n <= Len(inbox) THEN Len(inbox) - n ELSE 0
        /\ \A k \in 1 .. Len(inbox') : inbox'[k].no = calls'
    <3>1. Read(n) \/ NoRead
      BY <1>3, Zenon DEF ReadLittle
    <3> QED
      BY <1>1, <2>3, <3>1, ReadStep, Zenon
  <2>5. InStep' /\ from' \subseteq 0 .. MaxCalls
    BY <1>1, <1>3, <2>3, ReadLittleGives, Zenon
  <2>6. remain' \in 0 .. MaxSize - 4 /\ Len(inbox') <= remain'
    <3>1. remain \in 0 .. MaxSize - 4 /\ Len(inbox) <= remain
      BY <1>1, Zenon DEF IInv, CallTypes, Rest
    <3>2. remain - n \in 0 .. MaxSize - 4 /\ Len(inbox') <= remain - n
      BY <1>3, <2>3, <2>4, <3>1, MaxSizeType
    <3> QED
      BY <1>3, <3>2, Zenon
  <2>7. /\ pc' \in {"fields", "leave"} /\ fields' = Tail(fields)
        /\ outcome' \in {"none", "returned", "threw"}
    <3>1. outcome \in {"none", "returned", "threw"}
      BY Zenon DEF IInv, CallTypes
    <3> QED
      BY <1>1, <1>3, <3>1, Zenon DEF PastField, Throw
  <2>8. /\ pc' \in {"idle", "opcode", "size", "check", "fields", "leave"}
        /\ pc' \notin {"idle", "opcode", "size"} /\ pc # "idle" /\ pc # "opcode"
    BY <1>1, <2>7
  <2>9. CallTypes'
    BY <1>1, <2>2, <2>5, <2>6, <2>7, <2>8, Zenon DEF IInv, CallTypes
  <2>10. Rest'
    BY <2>4, <2>6, <2>8, Zenon DEF Rest
  <2>11. OneRequest'
    BY <2>4, Zenon DEF OneRequest
  <2> QED
    BY <2>4, <2>5, <2>9, <2>10, <2>11, Zenon DEF IInv
<1> QED
  BY <1>1, <1>2, <1>3, Zenon

(* All that is left of the answer is dropped, and nothing else.            *)
LEMMA DiscardStep ==
  ASSUME IInv, Discard
  PROVE  IInv'
<1>1. /\ pc = "leave" /\ pc' = "idle" /\ remain' = 0
      /\ UNCHANGED <<hungUp, requests, good, kind, opcode, fields, from, outcome, calls>>
      /\ \/ (remain = 0 \/ ~good) /\ inbox' = inbox
         \/ inbox' = SubSeq(inbox, remain + 1, Len(inbox))
  BY Zenon DEF Discard, Left, Drop
<1>2. inbox \in Seq(PacketByte) /\ remain \in Nat /\ Len(inbox) <= remain
  <2>1. inbox \in Seq(PacketByte) /\ remain \in 0 .. MaxSize - 4 /\ Len(inbox) <= remain
    BY <1>1, Zenon DEF IInv, StreamTypes, CallTypes, Rest
  <2> QED
    BY <2>1, MaxSizeType
<1>3. Len(inbox) \in Nat
  BY <1>2, LenProperties
<1>4. inbox' = << >>
  <2>1. CASE remain = 0 /\ inbox' = inbox
    <3>1. Len(inbox) = 0
      BY <1>2, <1>3, <2>1
    <3> QED
      BY <1>2, <2>1, <3>1, EmptySeq
  <2>2. CASE ~good /\ inbox' = inbox
    BY <2>2, Zenon DEF IInv, Ended
  <2>3. CASE inbox' = SubSeq(inbox, remain + 1, Len(inbox))
    <3>1. remain >= Len(inbox)
      BY <1>2, <1>3
    <3> QED
      BY <1>2, <2>3, <3>1, Dropped
  <2> QED
    BY <1>1, <2>1, <2>2, <2>3, Zenon
<1>5. StreamTypes'
  <2>1. << >> \in Seq(PacketByte)
    OBVIOUS
  <2> QED
    BY <1>1, <1>4, <2>1, Zenon DEF IInv, StreamTypes
<1>6. CallTypes'
  <2>1. 0 \in 0 .. MaxSize - 4
    BY MaxSizeType
  <2>2. pc' \in {"idle", "opcode", "size", "check", "fields", "leave"}
    BY <1>1, Zenon
  <2> QED
    BY <1>1, <2>1, <2>2, Zenon DEF IInv, CallTypes
<1>7. Ended' /\ InStep'
  BY <1>1, <1>4, Zenon DEF IInv, Ended, InStep
<1>8. OneRequest'
  BY <1>1, Zenon DEF IInv, OneRequest
<1>9. Rest'
  <2>1. \A k \in 1 .. Len(inbox') : FALSE
    BY <1>4
  <2>2. pc' \notin {"opcode", "size", "check", "fields", "leave"}
    BY <1>1
  <2> QED
    BY <1>1, <1>4, <2>1, <2>2, Zenon DEF Rest
<1> QED
  BY <1>5, <1>6, <1>7, <1>8, <1>9, Zenon DEF IInv
-----------------------------------------------------------------------------
LEMMA InitInv == Init => IInv
<1> SUFFICES ASSUME Init
             PROVE  IInv
  OBVIOUS
<1>1. /\ inbox = << >> /\ hungUp = FALSE /\ requests = << >> /\ good = TRUE
      /\ pc = "idle" /\ kind = "execCmd" /\ opcode = "none" /\ remain = 0
      /\ fields = << >> /\ from = {} /\ outcome = "none" /\ calls = 0
  BY Zenon DEF Init
<1>2. StreamTypes
  <2>1. << >> \in Seq(PacketByte)
    OBVIOUS
  <2> QED
    BY <1>1, <2>1, Zenon DEF StreamTypes
<1>3. CallTypes
  <2>1. 0 \in 0 .. MaxSize - 4 /\ 0 \in 0 .. MaxCalls
    BY MaxSizeType, PacketAssumption
  <2>2. << >> \in Seq({1, 2}) /\ {} \subseteq 0 .. MaxCalls
    OBVIOUS
  <2>3. "execCmd" \in Kinds
    BY DEF Kinds, Widths
  <2> QED
    BY <1>1, <2>1, <2>2, <2>3, Zenon DEF CallTypes
<1>4. Ended /\ OneRequest /\ InStep
  BY <1>1, Zenon DEF Ended, OneRequest, InStep
<1>5. Rest
  <2>1. \A k \in 1 .. Len(inbox) : FALSE
    BY <1>1
  <2>2. pc \notin {"opcode", "size", "check", "fields", "leave"}
    BY <1>1
  <2> QED
    BY <1>1, <2>1, <2>2, Zenon DEF Rest
<1> QED
  BY <1>2, <1>3, <1>4, <1>5, Zenon DEF IInv

LEMMA Step == IInv /\ [Next]_vars => IInv'
<1> SUFFICES ASSUME IInv, [Next]_vars
             PROVE  IInv'
  OBVIOUS
<1>1. CASE Answer
  BY <1>1, AnswerStep, Zenon
<1>2. CASE Send
  BY <1>2, SendStep, Zenon
<1>3. CASE Begin
  BY <1>3, BeginStep, Zenon
<1>4. CASE ReadOpcode
  BY <1>4, ReadOpcodeStep, Zenon
<1>5. CASE ReadSize
  BY <1>5, ReadSizeStep, Zenon
<1>6. CASE CheckOpcode
  BY <1>6, CheckOpcodeStep, Zenon
<1>7. CASE ReadField
  BY <1>7, ReadFieldStep, Zenon
<1>8. CASE Return
  BY <1>8, ReturnStep, Zenon
<1>9. CASE Discard
  BY <1>9, DiscardStep, Zenon
<1>10. CASE UNCHANGED vars
  <2>1. /\ UNCHANGED <<inbox, hungUp, requests, good>>
        /\ UNCHANGED <<pc, kind, opcode, remain, fields, from, outcome, calls>>
    BY <1>10, Zenon DEF vars, streamVars, callVars
  <2>2. StreamTypes' /\ Ended' /\ OneRequest' /\ InStep'
    BY <2>1, Zenon DEF IInv, StreamTypes, Ended, OneRequest, InStep
  <2>3. CallTypes'
    BY <2>1, SameCall, Zenon DEF IInv
  <2>4. Rest'
    BY <2>1, Zenon DEF IInv, Rest, GoesOn, Piece
  <2> QED
    BY <2>2, <2>3, <2>4, Zenon DEF IInv
<1> QED
  BY <1>1, <1>2, <1>3, <1>4, <1>5, <1>6, <1>7, <1>8, <1>9, <1>10, Zenon DEF Next, Call

(* What is in the stream is the rest of the answer to the call that is in  *)
(* progress, from where it was read to.                                    *)
THEOREM Invariance == Spec => []IInv
BY InitInv, Step, PTL DEF Spec

(* The integers StreamPacket counts with keep to their widths: above all   *)
(* the size of a payload, whatever header the printer sends.               *)
THEOREM TypeCorrect == Spec => []TypeOK
<1>1. IInv => TypeOK
  <2> SUFFICES ASSUME IInv
               PROVE  TypeOK
    OBVIOUS
  <2>1. \A k \in DOMAIN inbox : inbox[k] \in PacketByte
    <3>1. inbox \in Seq(PacketByte)
      BY Zenon DEF IInv, StreamTypes
    <3> QED
      BY <3>1, LenProperties, ElementOfSeq
  <2>2. \A k \in DOMAIN requests : requests[k] \in Request
    <3>1. \A r \in Request : \A k \in DOMAIN <<r>> : <<r>>[k] \in Request
      OBVIOUS
    <3>2. \A k \in DOMAIN << >> : FALSE
      OBVIOUS
    <3> QED
      BY <3>1, <3>2, Zenon DEF IInv, StreamTypes
  <2> QED
    BY <2>1, <2>2, Zenon DEF IInv, StreamTypes, CallTypes, TypeOK, PacketByte, Request
<1> QED
  BY <1>1, Invariance, PTL

(* For answers of every size, opcode and length, and any number of calls:  *)
(* no call reads a byte of another's answer, and none invents one unless   *)
(* the stream has ended.                                                   *)
THEOREM InStepHolds == Spec => []InStep
<1>1. IInv => InStep
  BY Zenon DEF IInv
<1> QED
  BY <1>1, Invariance, PTL

(* Whatever becomes of a call, it leaves nothing in the stream.            *)
THEOREM DrainedHolds == Spec => []Drained
<1>1. IInv => Drained
  BY Zenon DEF IInv, Rest, Drained
<1> QED
  BY <1>1, Invariance, PTL
=============================================================================
