------------------------------ MODULE CanonTags ------------------------------
(***************************************************************************)
(* What the maker note of a Canon says of the picture (canon.rs and        *)
(* canon/colour.rs): arrays of numbers without names, in which a value is  *)
(* found by its index.  An array that is not there is empty.               *)
(*                                                                         *)
(* Of the colour data only the length, the version, which is the first     *)
(* value as an i16, and the levels of black count.  Their layout has to be *)
(* guessed from the length or the version before anything is read from it. *)
(***************************************************************************)
EXTENDS Integers, Sequences

None == {}    \* of an Option

(* SensorInfo::parse: the borders of the active area, from the left, top,  *)
(* right and bottom at 5 to 8 to a rectangle of even size.                 *)
Even(n) == n + (n % 2)

SensorInfo(info) ==
  IF Len(info) <= 8 THEN None
  ELSE LET left == info[6]  top == info[7]  right == info[8]  bottom == info[9]
       IN IF right <= left \/ bottom <= top THEN None
          ELSE {[x |-> left, y |-> top, width |-> Even(right - left), height |-> Even(bottom - top)]}

(* AspectInfo::parse: a rectangle, and a ratio if it is one that is known. *)
AspectRatio ==
  [code \in {0, 1, 2, 7, 8, 12, 13, 256, 258} |->
     CASE code \in {0, 12, 13, 256} -> <<3, 2>>
       [] code = 1 -> <<1, 1>>
       [] code \in {2, 258} -> <<4, 3>>
       [] code = 7 -> <<16, 9>>
       [] code = 8 -> <<4, 5>>]

AspectInfo(info) ==
  IF Len(info) < 5 THEN None
  ELSE {[x |-> info[4], y |-> info[5], width |-> info[2], height |-> info[3],
         ratio |-> IF info[1] \in DOMAIN AspectRatio THEN {AspectRatio[info[1]]} ELSE None]}

(* The user crop is given from the corner of the active area, if there is  *)
(* one.                                                                    *)
UserCrop(aspect, sensor) ==
  {[a EXCEPT !.x = a.x + s.x, !.y = a.y + s.y] : a \in aspect, s \in sensor}
    \cup {a \in aspect : sensor = None}

-----------------------------------------------------------------------------
(* ColourFormat::identify: the k of ColourDatak, by lengths that are those *)
(* of few cameras, or else by the version.  The first two have none.       *)
ByLength(len) ==
  CASE len = 582 -> 1
    [] len = 653 -> 2
    [] len \in {1816, 1820, 1824} -> 9
    [] len \in {2024, 3656} -> 10
    [] len \in {3973, 3778} -> 11
    [] OTHER -> 0

ByVersion(version, len) ==
  CASE version = 1 -> 3
    [] version \in (2 .. 7) \cup {9} -> 4
    [] version \in -4 .. -3 -> 5
    [] version \in 10 .. 11 -> IF len \in {1273, 1275} THEN 6 ELSE 7
    [] version \in 12 .. 15 -> 8
    [] OTHER -> 0

identify(colour) ==
  IF ByLength(colour.len) # 0 THEN ByLength(colour.len) ELSE ByVersion(colour.version, colour.len)

(* Where the four levels of black are, or -1 if there are none.            *)
blacks(colour) ==
  LET k == identify(colour)  v == colour.version
  IN CASE k \in {1, 2} -> -1
       [] k = 3 -> 196
       [] k = 4 -> (CASE v \in 2 .. 3 -> -1 [] v \in 4 .. 5 -> 692 [] v \in 6 .. 7 -> 715 [] v = 9 -> 719)
       [] k = 5 -> IF v = -4 THEN 333 ELSE 264
       [] k = 6 -> 479
       [] k = 7 -> IF v = 10 THEN 504 ELSE 728
       [] k = 8 -> IF v = 14 THEN 556 ELSE 778
       [] k = 9 -> 329
       [] k = 10 -> 343
       [] k = 11 -> 363

(* Where the four values of the white balance are.                         *)
as_shot(colour) ==
  LET k == identify(colour)
  IN CASE k = 1 -> 25
       [] k = 2 -> 24
       [] k \in {3, 4, 6, 7, 8} -> 63
       [] k \in {5, 9} -> 71
       [] k = 10 -> 85
       [] k = 11 -> 105

(* Nothing is read past the end; of no data, not even a version.           *)
ColourReadable(colour) ==
  /\ colour.len > 0
  /\ identify(colour) # 0 =>
       blacks(colour) + 4 <= colour.len /\ as_shot(colour) + 4 <= colour.len
=============================================================================
