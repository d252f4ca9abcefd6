-------------------------------- MODULE Demo --------------------------------
(* The loop of main in demo.c: the three axes are measured, magnitude and      *)
(* findArctan turn them into force, pitch and roll, and those into a colour.   *)
(* The loop in magnitude is taken one iteration at a time; findArctan enters   *)
(* it as well, for a vector with a z.                                          *)
EXTENDS Angles

CONSTANTS Coordinates,  \* what accel_x, accel_y and accel_z return
          Touches       \* what touch_data returns

\* _read_reg14 shifts a 16-bit value right by 2.
Signed14 == -8192 .. 8191

ASSUME DemoAssumption == /\ Coordinates \subseteq Signed14
                         /\ Touches \subseteq Int

VARIABLES
  pc,                   \* "measure"; "force" or "pitch": in the loop of
                        \* magnitude for it; "roll"; "light"
  ax, ay, az,
  square, result, bit,  \* the variables of magnitude
  force, pitch, roll,
  colour,               \* the arguments of RGB_LED
  touched               \* touch decides the colour

axes == <<ax, ay, az>>
root == <<square, result, bit>>
vars == <<pc, axes, root, force, pitch, roll, colour, touched>>

-----------------------------------------------------------------------------
(* magnitude.                                                                  *)

TopBit == 16384

\* The entry of the function, up to the loop.
magnitude(x, y, z) ==
  /\ square' = x * x + y * y + z * z
  /\ result' = 0
  /\ bit' = TopBit

\* result |= bit
Or(r, b) == IF (r \div b) % 2 = 1 THEN r ELSE r + b

\* Mutant: a bit that makes the square exact is dropped.
BugExact ==
  /\ pc \in {"force", "pitch"} /\ bit # 0
  /\ result' = IF Or(result, bit) * Or(result, bit) >= square
                 THEN Or(result, bit) - bit ELSE Or(result, bit)
  /\ bit' = bit \div 2
  /\ UNCHANGED <<pc, axes, square, force, pitch, roll, colour, touched>>

\* One iteration.
TryBit ==
  /\ pc \in {"force", "pitch"} /\ bit # 0
  /\ result' = IF Or(result, bit) * Or(result, bit) > square
                 THEN Or(result, bit) - bit ELSE Or(result, bit)
  /\ bit' = bit \div 2
  /\ UNCHANGED <<pc, axes, square, force, pitch, roll, colour, touched>>

-----------------------------------------------------------------------------
(* main.                                                                       *)

\* The results of the last round are dead; they are forgotten here.
Measure ==
  /\ pc = "measure" /\ pc' = "force"
  /\ \E x, y, z \in Coordinates :
       /\ ax' = x /\ ay' = y /\ az' = z
       /\ magnitude(x, y, z)
  /\ force' = 0 /\ pitch' = 0 /\ roll' = 0
  /\ colour' = <<0, 0, 0>> /\ touched' = FALSE

\* magnitude returns the force.  findArctan(ax, ay, az) calls it again if az is
\* not 0.
ForceDone ==
  /\ pc = "force" /\ bit = 0
  /\ force' = result
  /\ IF az = 0
       THEN /\ pitch' = findArctan(ax, ay, az, Abs(ay))
            /\ pc' = "roll"
            /\ UNCHANGED root
       ELSE /\ magnitude(ay, az, 0)
            /\ pc' = "pitch"
            /\ UNCHANGED pitch
  /\ UNCHANGED <<axes, roll, colour, touched>>

PitchDone ==
  /\ pc = "pitch" /\ bit = 0 /\ pc' = "roll"
  /\ pitch' = findArctan(ax, ay, az, result)
  /\ UNCHANGED <<axes, root, force, roll, colour, touched>>

RollDone ==
  /\ pc = "roll" /\ pc' = "light"
  /\ roll' = findArctan(az, ay, 0, Abs(ay))
  /\ UNCHANGED <<axes, root, force, pitch, colour, touched>>

AtMost80(v) == IF v > 80 THEN 80 ELSE v

Red == AtMost80(Abs(((force \div 4) - 1000) \div 8))
Green == AtMost80(Abs(roll))

Blue == AtMost80(Abs(pitch))

Light ==
  /\ pc = "light" /\ pc' = "measure"
  /\ \E data1, data2 \in Touches :
       LET t1 == (data1 + 4) \div 8
           t2 == (data2 + 4) \div 8
       IN  /\ touched' = (t1 + t2 # 0)
           /\ colour' = IF t1 + t2 # 0 THEN <<Red, t2, t1>>
                                       ELSE <<Red, Green, Blue>>
  /\ UNCHANGED <<axes, root, force, pitch, roll>>

-----------------------------------------------------------------------------
Init ==
  /\ pc = "measure"
  /\ ax = 0 /\ ay = 0 /\ az = 0
  /\ square = 0 /\ result = 0 /\ bit = 0
  /\ force = 0 /\ pitch = 0 /\ roll = 0
  /\ colour = <<0, 0, 0>> /\ touched = FALSE

Next == Measure \/ TryBit \/ ForceDone \/ PitchDone \/ RollDone \/ Light

Spec == Init /\ [][Next]_vars

-----------------------------------------------------------------------------
Bits == {1, 2, 4, 8, 16, 32, 64, 128, 256, 512, 1024, 2048, 4096, 8192, 16384}

\* Sums of three squares of 14-bit values, their roots, and angles.
Squares == {s \in Nat : s <= 201326592}
Roots == {r \in Nat : r <= 32767}
Degrees == -180 .. 180

TypeOK ==
  /\ pc \in {"measure", "force", "pitch", "roll", "light"}
  /\ ax \in Signed14 /\ ay \in Signed14 /\ az \in Signed14
  /\ square \in Squares /\ result \in Roots /\ bit \in Bits \cup {0}
  /\ force \in Roots /\ pitch \in Degrees /\ roll \in Degrees
  /\ colour \in Seq(Int) /\ touched \in BOOLEAN

\* What the loop in magnitude returns is the integer square root of the sum, for
\* both of its callers.
RootIsExact ==
  pc \in {"force", "pitch"} /\ bit = 0 =>
    result * result <= square /\ square < (result + 1) * (result + 1)

\* No vector makes findArctan read outside its table, whichever of the two values
\* it divides, and it never divides by 0.
ArctanInTable ==
  /\ pc = "force" /\ bit = 0 /\ az = 0 /\ ay # 0 => Tangent(Abs(ax), Abs(ay)) \in 0 .. 64
  /\ pc = "pitch" /\ bit = 0 => result > 0 /\ Tangent(Abs(ax), result) \in 0 .. 64
  /\ pc = "roll" /\ ay # 0 => Tangent(Abs(az), Abs(ay)) \in 0 .. 64

\* magnitude never returns less than a component of its vector: findArcsin of any
\* component and that magnitude stays within its table.
ArcsinInTable ==
  pc \in {"pitch", "roll", "light"} /\ force # 0 =>
    \A v \in {ax, ay, az} : SineIndex(v, force) \in 0 .. 64

\* The angle has the direction of the vector, within 3 degrees: sine and cosine
\* of math.c undo its arctangent.
PointsAt(angle, x, y) ==
  /\ Abs(x * sine(angle) - y * cosine(angle)) <= 4 * (Abs(x) + Abs(y)) + 4
  /\ x * cosine(angle) + y * sine(angle) > 0

\* The roll has the direction of (az, ay) in all four quadrants, as long as ay is
\* not 0.
RollPointsAtVector == pc = "light" /\ ay # 0 => PointsAt(roll, az, ay)

\* The pitch is the inclination of the x axis against the other two, as long as
\* az is not 0.
PitchIsInclination ==
  pc = "roll" /\ az # 0 =>
    /\ pitch \in -90 .. 90
    /\ Abs(128 * ax + sine(pitch) * force) <= 256 + 4 * force

\* upness names an axis of the vector that no other exceeds, with its sign.
UpnessIsLargest ==
  LET face == upness(ax, ay, az)
      axis == <<ax, ay, az>>
  IN  IF face <= 3 THEN \A k \in 1 .. 3 : axis[face] >= Abs(axis[k])
                   ELSE \A k \in 1 .. 3 : -axis[face - 3] >= Abs(axis[k])

\* Both tables are read inside their bounds, whatever the vector.
IndicesInTables == ArctanInTable /\ ArcsinInTable

\* What main and math.c compute of a vector agrees with it: the types of what is
\* stored, the roll in every quadrant, the pitch, and the face that is up.
Inv == TypeOK /\ RollPointsAtVector /\ PitchIsInclination /\ UpnessIsLargest
=============================================================================
