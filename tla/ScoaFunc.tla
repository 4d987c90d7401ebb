------------------------------ MODULE ScoaFunc ------------------------------
(***************************************************************************)
(* The vocabulary of the SCoA compressor's first stage                     *)
(* (libcapt/Compression/ScoaFunc.hpp, and the pure member function         *)
(* ScoaState::NextFunc of ScoaState.hpp).                                  *)
(*                                                                         *)
(* A raster line is a function from 0 .. LineSize-1 to bytes, indexed from *)
(* zero as the std::span of the source is.  A ScoaFunc describes a run of  *)
(* consecutive bytes of the line: copied from the previous line, one byte  *)
(* repeated, or raw.                                                       *)
(***************************************************************************)
EXTENDS Integers, Sequences

FuncTypes == {"Copy", "Repeat", "Raw"}

Func(type, idx, count) == [Type |-> type, Index |-> idx, Count |-> count]

(* std::nullopt, a null `last` pointer and a ScoaFunc nobody assigned yet. *)
NoFunc == Func("None", 0, 0)

(* The empty span: what NextFunc sees for the first line of a page.        *)
NoLine == <<>>

(* Slip: a payload one byte short.                                         *)
PayloadShort(f, line) == [k \in 1 .. f.Count - 1 |-> line[f.Index + k - 1]]

(* The bytes of the line a run describes.                                  *)
Payload(f, line) == [k \in 1 .. f.Count |-> line[f.Index + k - 1]]

(* The first index after a run.                                            *)
End(f) == f.Index + f.Count

Resized(f, n) == Func(f.Type, f.Index, n)

(* Slips: a repeat once begun goes on whatever the byte is; a byte that    *)
(* repeats a copied one ends the copy.                                     *)
RepeatsAnything(line, idx, last) ==
  idx >= 1 /\ last.Type # "Copy" /\ (line[idx] = line[idx - 1] \/ last.Type = "Repeat")

RepeatsCopied(line, idx, last) == idx >= 1 /\ line[idx] = line[idx - 1]

(* Does byte idx repeat the byte before it, and is that byte free to be    *)
(* repeated?                                                               *)
Repeats(line, idx, last) ==
  idx >= 1 /\ line[idx] = line[idx - 1] /\ last.Type # "Copy"

(* Is it the byte above it?                                                *)
Copies(prevLine, line, idx) == prevLine # NoLine /\ line[idx] = prevLine[idx]

(* Slip: the run keeps the byte that the repeat after it begins with.      *)
KeptBack(last) == last

(* The raw run without the byte that turned out to be the first of a       *)
(* repeat.                                                                 *)
TakenBack(last) == Resized(last, last.Count - 1)

(***************************************************************************)
(* ScoaState::NextFunc looks at byte idx.  It either folds the byte into   *)
(* the last run, which it changes in place (func is then NoFunc), or       *)
(* starts a new run; a repeat discovered at the end of a raw run takes the *)
(* last byte of that run back.                                             *)
(***************************************************************************)
NextFunc(prevLine, line, idx, last) ==
  LET Fold(f)   == [last |-> f, func |-> NoFunc]
      Start(f)  == [last |-> last, func |-> f]
      Extend(t) == IF last.Type = t THEN Fold(Resized(last, last.Count + 1))
                                    ELSE Start(Func(t, idx, 1))
  IN  IF ~Repeats(line, idx, last)
      THEN Extend(IF Copies(prevLine, line, idx) THEN "Copy" ELSE "Raw")
      ELSE IF last.Type = "Repeat" THEN Fold(Resized(last, last.Count + 1))
      ELSE IF last.Count = 1 THEN Fold(Func("Repeat", last.Index, 2))
      ELSE [last |-> TakenBack(last), func |-> Func("Repeat", idx - 1, 2)]
=============================================================================
