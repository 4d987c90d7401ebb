---------------------------- MODULE MCScoaCodec -----------------------------
(* Every count the assertions admit, with payloads that look like opcodes: *)
(* all of one byte for each length, and a few mixed ones.                  *)
EXTENDS ScoaCodec

MCPayload == {[k \in 1 .. n |-> 66] : n \in 1 .. 255}
             \union {<<64>>, <<192, 65>>, <<160, 0, 200, 66, 67, 128, 7, 255, 1>>}
=============================================================================
