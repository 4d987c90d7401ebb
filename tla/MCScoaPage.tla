----------------------------- MODULE MCScoaPage -----------------------------
EXTENDS ScoaPage

Line == [0 .. LineSize - 1 -> Byte]

Announced(n, rasters) == {[raster |-> r, lines |-> n] : r \in rasters}

(* Every raster of two lines, and of one line or none where two were       *)
(* announced.                                                              *)
TwoLines == Announced(2, UNION {[1 .. k -> Line] : k \in 0 .. 2})

(* Every raster of three lines, some that end early, and some that go on   *)
(* after the page.                                                         *)
ThreeLines == Announced(3, [1 .. 3 -> Line] \union [1 .. 1 -> Line])
              \union Announced(1, [1 .. 2 -> Line])

(***************************************************************************)
(* Long lines: n bytes of one run and then another, and under it a line    *)
(* that copies the first n bytes and goes on as it began; the runs are     *)
(* repeats, RepeatXes and raw bytes, n and the rest at the bounds of the   *)
(* commands.                                                               *)
(***************************************************************************)
Pattern(kind, i) == CASE kind = "zero"  -> 0
                      [] kind = "x"     -> 67
                      [] kind = "noise" -> 1 + (i % 3)

Mixed(n, a, b) == [i \in 0 .. LineSize - 1 |-> IF i < n THEN Pattern(a, i) ELSE Pattern(b, i)]

LongPages == {[raster |-> <<Mixed(n, a, b), Mixed(0, a, a)>>, lines |-> 2] :
                n \in {0, 7, 249, 256}, a, b \in {"zero", "x", "noise"}}
=============================================================================
