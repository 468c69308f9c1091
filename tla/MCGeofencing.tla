---------------------------- MODULE MCGeofencing ----------------------------
(* Geofencing over a 6 x 6 grid of points and cells of side 2: a square, a *)
(* triangle across four cells and a polygon with a notch.                  *)
EXTENDS Geofencing, DriverAssignment

Coordinates == (0 .. 5) \X (0 .. 5)
Square == << <<0, 0>>, <<0, 2>>, <<2, 2>>, <<2, 0>> >>
Triangle == << <<1, 1>>, <<4, 2>>, <<1, 4>> >>
Notched == << <<0, 0>>, <<5, 0>>, <<5, 5>>, <<2, 1>>, <<0, 5>> >>
Polygons == {Square, Triangle, Notched}
Route == { <<0, 0>>, <<1, 1>>, <<3, 2>>, <<4, 4>> }

(* The assignment for every fleet of three drivers of these kinds.         *)
Kinds == [free : BOOLEAN, distance : {0, 1500, 4000, 6000}, rating : {10, 50},
          vehicle : {"car", "bicycle"}]

ASSUME EveryFleetIsServed == \A fleet \in [1 .. 3 -> Kinds] : AnswersOnce(fleet)
=============================================================================
