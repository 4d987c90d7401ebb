---------------------------- MODULE PacketStream ----------------------------
(***************************************************************************)
(* PacketStream (libcapt/Core, libcapt/Protocol/Protocol.cpp): requests    *)
(* and answers over one byte stream.                                       *)
(*                                                                         *)
(* A call writes a request, reads the header of a packet, checks its       *)
(* opcode and reads fields.  It may give up after any of them; the         *)
(* destructor of StreamPacket then drops what the packet still has, so     *)
(* that the next call begins with a header.                                *)
(*                                                                         *)
(* The printer answers each request it gets with one packet, of any opcode *)
(* and size, until it hangs up, in the middle of a packet or between two.  *)
(* A byte stands for itself by the packet it is of and its place in it.    *)
(***************************************************************************)
EXTENDS Naturals, Sequences

CONSTANTS Sizes,    \* the sizes that headers declare
          MaxCalls  \* bound: the calls made

(* A size is a uint16_t.                                                   *)
MaxSize == 65535

ASSUME PacketAssumption == Sizes \subseteq 0 .. MaxSize /\ MaxCalls \in Nat

(* The integers each call reads from its answer, by width: execCmd for     *)
(* itself, PCR_GO_ONLINE and PCR_CLEANING; PCR_GET_BASIC_STATUS without    *)
(* `changed`, which nothing under libcapt passes.                          *)
Widths == [PC_GET_EXTENDED_STATUS |-> <<1, 1, 1, 1, 1, 1, 2, 2, 2, 2, 2>>,
           PC_GET_PRINTER_INFO    |-> <<1, 1, 1, 1, 1, 1, 2, 2>>,
           PCR_GET_BASIC_STATUS   |-> <<1>>,
           execCmd                |-> <<1>>]

Kinds   == DOMAIN Widths
Opcodes == Kinds \union {"other"}

VARIABLES
  inbox,     \* bytes from the printer that were not read
  hungUp,    \* no more will come
  requests,  \* what the printer got and has not answered
  good,      \* stream.good()
  pc, kind,  \* where in which call the program is
  opcode, remain, fields,  \* Header.Opcode, StreamPacket::remain, widths still to read
  from,      \* history: the packets this call's fields are made of, 0 for invented bytes
  outcome,   \* of the last call
  calls      \* history: how many calls there were

streamVars == <<inbox, hungUp, requests, good>>
callVars   == <<pc, kind, opcode, remain, fields, from, outcome, calls>>
vars       == <<streamVars, callVars>>

Minimum(a, b) == IF a <= b THEN a ELSE b

Init ==
  /\ inbox = <<>> /\ hungUp = FALSE /\ requests = <<>> /\ good = TRUE
  /\ pc = "idle" /\ kind = "execCmd"
  /\ opcode = "none" /\ remain = 0 /\ fields = <<>>
  /\ from = {} /\ outcome = "none" /\ calls = 0
-----------------------------------------------------------------------------
(* The printer.                                                            *)
Answer ==
  /\ ~hungUp /\ requests # <<>>
  /\ \E size \in Sizes, op \in {Head(requests).kind, "other"} :
       LET length == IF size < 4 THEN 4 ELSE size
           packet == [k \in 1 .. length |->
                        [no |-> Head(requests).no, op |-> op, size |-> size, at |-> k]]
       IN \E sent \in 0 .. length :
            /\ inbox' = inbox \o SubSeq(packet, 1, sent)
            /\ hungUp' = (sent < length)
  /\ requests' = Tail(requests)
  /\ UNCHANGED <<good, callVars>>
-----------------------------------------------------------------------------
(* A read of n bytes returns when they are there or no more will come.     *)
Ready(n)     == Len(inbox) >= n \/ hungUp
Drop(n)      == inbox' = SubSeq(inbox, n + 1, Len(inbox))
FirstOf(n)   == SubSeq(inbox, 1, Minimum(n, Len(inbox)))

(* istream::read.                                                          *)
Read(n) ==
  /\ good /\ Ready(n)
  /\ Drop(n)
  /\ good' = (Len(inbox) >= n)
  /\ UNCHANGED <<hungUp, requests>>

NoRead == ~good /\ UNCHANGED streamVars

(* What a header says that is read from these bytes: what the packet says  *)
(* if they are its header, anything if not, or if there are too few: value *)
(* is not initialised (Integer.hpp:39).                                    *)
At(bytes, first, n) == Len(bytes) = n /\ \A k \in 1 .. n : bytes[k].at = first + k - 1
OpcodeIn(bytes)     == IF At(bytes, 1, 2) THEN {bytes[1].op} ELSE Opcodes
SizeIn(bytes)       == IF At(bytes, 3, 2) THEN {bytes[1].size} ELSE Sizes

Throw == pc' = "leave" /\ outcome' = "threw"

(* WriteTo and flush.  A printer that is gone may or may not be noticed.   *)
Write(r) ==
  \/ good /\ requests' = requests \o r /\ UNCHANGED <<inbox, hungUp, good>>
  \/ good /\ hungUp /\ good' = FALSE /\ UNCHANGED <<inbox, hungUp, requests>>
  \/ ~good /\ UNCHANGED streamVars

(* IC_BEGIN_PAGE, IC_BEGIN_DATA, IC_VIDEO_DATA, IC_END_PAGE: no answer.    *)
Send == pc = "idle" /\ Write(<<>>) /\ UNCHANGED callVars

Begin ==
  /\ pc = "idle" /\ calls < MaxCalls
  /\ kind' \in Kinds
  /\ Write(<<[no |-> calls + 1, kind |-> kind']>>)
  /\ calls' = calls + 1
  /\ pc' = "opcode"
  /\ fields' = Widths[kind']
  /\ from' = {} /\ outcome' = "none"
  /\ UNCHANGED <<opcode, remain>>

(* operator>>: the first integer of the header, ...                        *)
ReadOpcode ==
  /\ pc = "opcode"
  /\ \/ Read(2) /\ opcode' \in OpcodeIn(FirstOf(2))
     \/ NoRead  /\ opcode' = "none"
  /\ pc' = "size"
  /\ UNCHANGED <<kind, remain, fields, from, outcome, calls>>

(* Slip: a size that has no room for the header is taken.                  *)
ReadSizeUnchecked ==
  /\ pc = "size"
  /\ \/ Read(2) \/ NoRead
  /\ \E size \in IF good' THEN SizeIn(FirstOf(2)) ELSE {4} :
       remain' = (size + 65532) % 65536 /\ pc' = "check"
  /\ UNCHANGED <<outcome, kind, opcode, fields, from, calls>>

(* ... and the second; the payload has size 0 if it does not come.         *)
ReadSize ==
  /\ pc = "size"
  /\ \/ Read(2) \/ NoRead
  /\ \E size \in IF good' THEN SizeIn(FirstOf(2)) ELSE {4} :
       \/ size < 4  /\ Throw /\ UNCHANGED remain
       \/ size >= 4 /\ remain' = size - 4 /\ pc' = "check" /\ UNCHANGED outcome
  /\ UNCHANGED <<kind, opcode, fields, from, calls>>

(* Slip: the opcode is checked before there is a packet to discard.        *)
CheckOpcodeFirst ==
  /\ pc = "check"
  /\ \/ opcode = kind /\ pc' = "fields" /\ UNCHANGED outcome
     \/ opcode # kind /\ pc' = "idle" /\ outcome' = "threw"
  /\ UNCHANGED <<streamVars, kind, opcode, remain, fields, from, calls>>

CheckOpcode ==
  /\ pc = "check"
  /\ \/ opcode = kind /\ pc' = "fields" /\ UNCHANGED outcome
     \/ opcode # kind /\ Throw
  /\ UNCHANGED <<streamVars, kind, opcode, remain, fields, from, calls>>

(* The answer to PC_GET_EXTENDED_STATUS may say in its first field that it *)
(* is an error.                                                            *)
MayRefuse == kind = "PC_GET_EXTENDED_STATUS" /\ fields = Widths[kind]

(* ReadLittle: a stream that is not good gives 0, one that ends within the *)
(* integer leaves it unset.                                                *)
ReadLittle(n) ==
  \/ /\ Read(n)
     /\ from' = from \union {FirstOf(n)[k].no : k \in DOMAIN FirstOf(n)}
                     \union (IF good' THEN {} ELSE {0})
  \/ NoRead /\ from' = from \union {0}

PastField ==
  /\ fields' = Tail(fields)
  /\ \/ UNCHANGED <<pc, outcome>>
     \/ MayRefuse /\ Throw

(* Slip: remain is not counted down.                                       *)
ReadFieldUncounted ==
  /\ pc = "fields" /\ fields # <<>>
  /\ LET n == Head(fields)
     IN  \/ remain < n  /\ Throw /\ UNCHANGED <<streamVars, fields, from>>
         \/ remain >= n /\ ReadLittle(n) /\ PastField
  /\ UNCHANGED <<remain, kind, opcode, calls>>

(* ReadInt.                                                                *)
ReadField ==
  /\ pc = "fields" /\ fields # <<>>
  /\ LET n == Head(fields)
     IN  \/ remain < n  /\ Throw /\ UNCHANGED <<streamVars, remain, fields, from>>
         \/ remain >= n /\ remain' = remain - n /\ ReadLittle(n) /\ PastField
  /\ UNCHANGED <<kind, opcode, calls>>

Return ==
  /\ pc = "fields" /\ fields = <<>>
  /\ pc' = "leave" /\ outcome' = "returned"
  /\ UNCHANGED <<streamVars, kind, opcode, remain, fields, from, calls>>

Left == /\ pc = "leave" /\ pc' = "idle" /\ remain' = 0
        /\ UNCHANGED <<hungUp, requests, good, kind, opcode, fields, from, outcome, calls>>

(* Slip: what is left is dropped only when the answer was of use.          *)
DiscardReturned ==
  /\ Left
  /\ \/ (remain = 0 \/ ~good \/ outcome = "threw") /\ UNCHANGED inbox
     \/ remain > 0 /\ good /\ outcome # "threw" /\ Ready(remain) /\ Drop(remain)

(* ~StreamPacket, when the call returns or throws.  sbumpc goes past the   *)
(* istream: end of file is not noticed.                                    *)
Discard ==
  /\ Left
  /\ \/ (remain = 0 \/ ~good) /\ UNCHANGED inbox
     \/ remain > 0 /\ good /\ Ready(remain) /\ Drop(remain)
-----------------------------------------------------------------------------
Call == Begin \/ ReadOpcode \/ ReadSize \/ CheckOpcode \/ ReadField \/ Return \/ Discard

Next == Answer \/ Send \/ Call

Spec == Init /\ [][Next]_vars

(* The program waits only for the printer, which answers or hangs up.      *)
FairSpec == Spec /\ WF_vars(Call) /\ WF_vars(Answer)
-----------------------------------------------------------------------------
TypeOK ==
  /\ \A k \in DOMAIN inbox :
       inbox[k] \in [no : 1 .. MaxCalls, op : Opcodes, size : Sizes, at : 1 .. MaxSize]
  /\ hungUp \in BOOLEAN /\ good \in BOOLEAN
  /\ \A k \in DOMAIN requests : requests[k] \in [no : 1 .. MaxCalls, kind : Kinds]
  /\ pc \in {"idle", "opcode", "size", "check", "fields", "leave"}
  /\ kind \in Kinds /\ opcode \in Opcodes \union {"none"}
  /\ remain \in 0 .. MaxSize - 4 /\ fields \in Seq({1, 2})
  /\ from \subseteq 0 .. MaxCalls /\ outcome \in {"none", "returned", "threw"}
  /\ calls \in 0 .. MaxCalls

(***************************************************************************)
(* A call never reads from the answer to another, even after calls that    *)
(* threw half-way through theirs (operator>> and Discard,                  *)
(* StreamPacket.cpp:37), and what it returns was received: only the stream *)
(* ending within an answer can make it return bytes that were never sent,  *)
(* and then the stream is no longer good.                                  *)
(***************************************************************************)
InStep ==
  /\ from \subseteq {0, calls}
  /\ 0 \in from => ~good

(***************************************************************************)
(* Between two calls nothing is left in the stream: whatever a call made   *)
(* of its answer, the next one begins with a header.                       *)
(***************************************************************************)
Drained == pc = "idle" => inbox = <<>>

(* Every call returns or throws: no read and no Discard waits for bytes    *)
(* that do not belong to the answer.                                       *)
CallsEnd == pc # "idle" ~> pc = "idle"
=============================================================================
