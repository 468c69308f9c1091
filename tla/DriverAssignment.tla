--------------------------- MODULE DriverAssignment ---------------------------
(***************************************************************************)
(* DriverAssignmentService: which driver a restaurant's order is offered.  *)
(* The service keeps nothing; it is handed the drivers and answers.        *)
(*                                                                         *)
(* A fleet is the sequence of drivers of the request: whether a driver is  *)
(* free, the distance in meters to the restaurant, the rating in tenths    *)
(* and the vehicle.  Scores are the code's times 1000.                     *)
(***************************************************************************)
EXTENDS Integers, Sequences, FiniteSets

CONSTANTS
  MaxDistance,   \* maxDistanceMeters
  Limit          \* limit, how many drivers are short-listed

ASSUME AssignmentAssumption == MaxDistance \in Nat /\ Limit \in Nat

Driver == [free : BOOLEAN, distance : Nat, rating : 0 .. 50,
           vehicle : {"car", "motorcycle", "bicycle"}]

AtLeastZero(n) == IF n < 0 THEN 0 ELSE n

(* Half for the distance, three tenths for the rating, the rest for the    *)
(* vehicle, which counts less by the meter only for bicycles.              *)
Score(d) ==
  LET vehicle == CASE d.vehicle = "car" -> 8000
                   [] d.vehicle = "motorcycle" -> 10000
                   [] d.vehicle = "bicycle" -> AtLeastZero(10000 - d.distance)
  IN 5 * AtLeastZero(10000 - 2 * d.distance) + 3 * 200 * d.rating + 2 * vehicle

(* findEntitiesWithinRadius of the available drivers.                      *)
Reachable(fleet) ==
  {i \in DOMAIN fleet : fleet[i].free /\ fleet[i].distance <= MaxDistance}

(* Both sorts are stable: by distance first, then by score.                *)
Before(fleet, i, j) ==
  LET c == fleet[i]  d == fleet[j]
  IN \/ Score(c) > Score(d)
     \/ /\ Score(c) = Score(d)
        /\ \/ c.distance < d.distance
           \/ c.distance = d.distance /\ i < j

Ahead(fleet, i) == {j \in Reachable(fleet) : Before(fleet, j, i)}

FindBestDrivers(fleet) ==
  {i \in Reachable(fleet) : Cardinality(Ahead(fleet, i)) < Limit}

(* assignBestDriverForOrder takes the first of the short list by the whole *)
(* route; its second leg is the same for all.                              *)
IsAssigned(fleet, i) ==
  /\ i \in FindBestDrivers(fleet)
  /\ \A j \in FindBestDrivers(fleet) \ {i} :
       \/ fleet[i].distance < fleet[j].distance
       \/ fleet[i].distance = fleet[j].distance /\ Before(fleet, i, j)

(* No reachable driver is both nearer and sorted before the chosen one,    *)
(* although the nearest of all may not be on the short list.               *)
Undominated(fleet, i) ==
  \A j \in Reachable(fleet) :
    ~ (fleet[j].distance < fleet[i].distance /\ Before(fleet, j, i))

(* Someone is chosen whenever a driver is free and near enough.            *)
AnswersOnce(fleet) ==
  LET chosen == {i \in DOMAIN fleet : IsAssigned(fleet, i)}
  IN /\ Cardinality(chosen) = IF Reachable(fleet) = {} THEN 0 ELSE 1
     /\ \A i \in chosen : Undominated(fleet, i)
=============================================================================
