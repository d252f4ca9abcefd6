------------------------------- MODULE Angles -------------------------------
(* math.c without the loop of magnitude: the lookup tables and the functions   *)
(* that use them.  The tables are the ones of sine.h, arctan.h and arcsin.h;   *)
(* an index of the C array is one less than the index here.                    *)
EXTENDS Integers, Sequences

sinetable ==
  << 0, 2, 4, 7, 9, 11, 13, 16, 18, 20, 22, 24, 27, 29, 31, 33, 35, 37,
     40, 42, 44, 46, 48, 50, 52, 54, 56, 58, 60, 62, 64, 66, 68, 70, 72,
     73, 75, 77, 79, 81, 82, 84, 86, 87, 89, 91, 92, 94, 95, 97, 98, 99,
     101, 102, 104, 105, 106, 107, 109, 110, 111, 112, 113, 114, 115, 116,
     117, 118, 119, 119, 120, 121, 122, 122, 123, 124, 124, 125, 125, 126,
     126, 126, 127, 127, 127, 128, 128, 128, 128, 128, 128, 128 >>

arctan ==
  << 0, 0, 1, 2, 3, 4, 5, 6, 7, 8, 9, 10, 11, 12, 13, 14, 14, 15, 16, 17,
     18, 18, 19, 20, 21, 22, 22, 23, 24, 25, 25, 26, 27, 27, 28, 29, 30,
     30, 31, 32, 32, 33, 33, 34, 35, 35, 36, 36, 37, 38, 38, 39, 39, 40,
     40, 41, 41, 42, 42, 43, 43, 44, 44, 45, 45, 46 >>

arcsin ==
  << 0, 0, 1, 2, 3, 4, 5, 6, 7, 8, 8, 9, 10, 11, 12, 13, 14, 15, 16, 17,
     18, 19, 20, 21, 22, 23, 23, 24, 25, 26, 27, 28, 30, 31, 32, 33, 34,
     35, 36, 37, 38, 39, 41, 42, 43, 44, 45, 47, 48, 49, 51, 52, 54, 55,
     57, 59, 61, 62, 65, 67, 69, 72, 75, 79, 90, 90 >>

Abs(v) == IF v < 0 THEN -v ELSE v

-----------------------------------------------------------------------------
(* Sine and cosine of an angle in -180 .. 180, times 128.                      *)

sine(angle) ==
  LET reflected == CASE angle > 90 -> 180 - angle
                     [] angle < -90 -> -(180 + angle)
                     [] OTHER -> angle
  IN  IF reflected < 0 THEN -sinetable[-reflected + 1] ELSE sinetable[reflected + 1]

cosine(angle) ==
  IF Abs(angle) > 90 THEN -sinetable[Abs(angle) - 90 + 1]
                     ELSE sinetable[90 - Abs(angle) + 1]

-----------------------------------------------------------------------------
(* The face that is up: 1, 2, 3 for x, y, z and 4, 5, 6 for their negatives.   *)

Larger(face, axis, v) == CASE v > face.mag -> [name |-> axis, mag |-> v]
                           [] v < -face.mag -> [name |-> axis + 3, mag |-> -v]
                           [] OTHER -> face

upness(x, y, z) ==
  Larger(Larger([name |-> IF x < 0 THEN 4 ELSE 1, mag |-> Abs(x)], 2, y), 3, z).name

-----------------------------------------------------------------------------
(* findArctan, once uy is known: |y|, or the magnitude of (y, z).              *)

\* Mutant: uy is always the divisor.
BugTangent(ux, uy) == (ux * 64) \div uy

\* The index into the table; uy is not 0.
Tangent(ux, uy) == IF uy >= ux THEN (ux * 64) \div uy ELSE (uy * 64) \div ux

FirstQuadrant(ux, uy) ==
  IF uy >= ux THEN 90 - arctan[Tangent(ux, uy) + 1]
              ELSE arctan[Tangent(ux, uy) + 1]

\* Mutant: the third quadrant is taken for the fourth.
BugRoll(x, y, result) ==
  IF y < 0 THEN -result ELSE IF x < 0 THEN 180 - result ELSE result

Pitch(x, result) == IF x < 0 THEN 90 - result ELSE result - 90

Roll(x, y, result) ==
  CASE y < 0 /\ x < 0 -> result - 180
    [] y < 0 /\ x >= 0 -> -result
    [] y >= 0 /\ x < 0 -> 180 - result
    [] OTHER -> result

findArctan(x, y, z, uy) ==
  CASE uy = 0 -> 0
    [] uy # 0 /\ z # 0 -> Pitch(x, FirstQuadrant(Abs(x), uy))
    [] OTHER -> Roll(x, y, FirstQuadrant(Abs(x), uy))

-----------------------------------------------------------------------------
(* findArcsin, which the build leaves out unless USEARCSIN is defined.         *)

\* The index into the table; mag is not 0.
SineIndex(scalar, mag) == (Abs(scalar) * 64) \div mag

findArcsin(scalar, mag) ==
  CASE mag = 0 -> 0
    [] mag # 0 /\ scalar < 0 -> -arcsin[SineIndex(scalar, mag) + 1]
    [] OTHER -> arcsin[SineIndex(scalar, mag) + 1]
=============================================================================
