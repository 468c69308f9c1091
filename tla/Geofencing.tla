------------------------------ MODULE Geofencing ------------------------------
(***************************************************************************)
(* The geofencing module: geofences in a grid index (GeofenceRepository,   *)
(* GridIndex), delivery zones that name a geofence (DeliveryZoneService),  *)
(* and the enter, exit and dwell events of moving entities                 *)
(* (GeofenceEventService).  Everything is synchronous and in memory; what  *)
(* interleaves are requests and the timer of the dwell check.              *)
(*                                                                         *)
(* Coordinates are integers, a point is <<latitude, longitude>>, and a     *)
(* boundary is the sequence of a polygon's points.  Time is counted in     *)
(* intervals of the dwell timer.                                           *)
(***************************************************************************)
EXTENDS Integers, Sequences, FiniteSets

CONSTANTS
  Fences,       \* ids uuidv4 may draw, each once
  Boundaries,   \* the polygons requests may ask for
  Stops,        \* the points entities report
  Probes,       \* the points lookups are made for
  CellSize,     \* GridIndex.cellSize
  Zones,        \* ids of delivery zones
  Entities,     \* keys "type:id" of moving entities
  DwellTicks,   \* ticks that make a location old enough to dwell: the
                \* intervals in dwellThresholdMs and the one it arrived in
  NoFence, NoZone

ASSUME CellSizeAssumption == CellSize \in Nat \ {0}
ASSUME DwellTicksAssumption == DwellTicks \in Nat \ {0}
ASSUME CoordinatesAssumption ==
  /\ Boundaries \subseteq Seq(Int \X Int)
  /\ Stops \cup Probes \subseteq Int \X Int
ASSUME ModelValues ==
  /\ NoFence \notin Boundaries
  /\ NoZone \notin [fence : Fences, active : BOOLEAN]

VARIABLES
  fences,    \* GridIndex.geofences: the boundary of each fence
  drawn,     \* ids already given away
  cells,     \* GridIndex.cells: the pairs <<cell, id in its geofenceIds>>
  zones,     \* DeliveryZoneService.deliveryZones
  known,     \* the entities in entityLocations
  inside,    \* the geofenceIds stored there
  age,       \* intervals since its timestamp, DwellTicks at most
  due,       \* the timer is about to call checkDwellEvents
  dwelt,     \* the dwell events of the last check
  told,      \* history: the fences events placed an entity in
  dropped    \* history: those a clear took from it without an event

index == <<fences, drawn, cells>>
events == <<known, inside, age, due, dwelt, told, dropped>>
geoVars == <<index, zones, events>>

Living == {f \in Fences : fences[f] # NoFence}
-----------------------------------------------------------------------------
(* GeoUtils.isPointInPolygon: a ray from the point crosses an odd number   *)
(* of edges.  The edge that ends in corner i starts in the one before it;  *)
(* the quotient of the code is multiplied out.                             *)
Crosses(p, a, b) ==
  /\ (b[1] > p[1]) # (a[1] > p[1])
  /\ LET run == (p[2] - b[2]) * (a[1] - b[1])
         rise == (a[2] - b[2]) * (p[1] - b[1])
     IN IF a[1] > b[1] THEN run < rise ELSE run > rise

IsPointInPolygon(p, b) ==
  /\ Len(b) >= 3
  /\ Cardinality({i \in 1 .. Len(b) :
       Crosses(p, b[IF i = 1 THEN Len(b) ELSE i - 1], b[i])}) % 2 = 1

CellOf(p) == <<p[1] \div CellSize, p[2] \div CellSize>>

(* Mutant: the last row and column of the bounding box are left out.       *)
BugCellsOf(b) ==
  LET Corners(k) == {b[i][k] \div CellSize : i \in 1 .. Len(b)}
      Span(k) == UNION {c[1] .. (c[2] - 1) : c \in Corners(k) \X Corners(k)}
  IN Span(1) \X Span(2)

(* The cells of the bounding box of a boundary, from the smallest index to *)
(* the largest in both directions.                                         *)
CellsOf(b) ==
  LET Corners(k) == {b[i][k] \div CellSize : i \in 1 .. Len(b)}
      Span(k) == UNION {c[1] .. c[2] : c \in Corners(k) \X Corners(k)}
  IN Span(1) \X Span(2)

FindGeofencesContainingPoint(p) ==
  {f \in Living : <<CellOf(p), f>> \in cells /\ IsPointInPolygon(p, fences[f])}

FindDeliveryZonesContainingPoint(p) ==
  {z \in Zones : /\ zones[z] # NoZone
                 /\ zones[z].active
                 /\ zones[z].fence \in FindGeofencesContainingPoint(p)}
-----------------------------------------------------------------------------
GeoInit ==
  /\ fences = [f \in Fences |-> NoFence]
  /\ drawn = {}
  /\ cells = {}
  /\ zones = [z \in Zones |-> NoZone]
  /\ known = {}
  /\ inside = [e \in Entities |-> {}]
  /\ age = [e \in Entities |-> 0]
  /\ due = FALSE
  /\ dwelt = {}
  /\ told = [e \in Entities |-> {}]
  /\ dropped = [e \in Entities |-> {}]

AddGeofence(f, b, others) ==
  /\ fences' = [fences EXCEPT ![f] = b]
  /\ cells' = others \cup (CellsOf(b) \X {f})

(* removeGeofence takes the id out of every cell and drops empty cells.    *)
Others(f) == {c \in cells : c[2] # f}

CreateGeofence(f, b) ==
  /\ f \notin drawn
  /\ drawn' = drawn \cup {f}
  /\ AddGeofence(f, b, cells)
  /\ UNCHANGED <<zones, events>>

UpdateGeofence(f, b) ==
  /\ f \in Living
  /\ AddGeofence(f, b, Others(f))
  /\ UNCHANGED <<drawn, zones, events>>

(* Entities inside and zones on the fence are not told.                    *)
DeleteGeofence(f) ==
  /\ f \in Living
  /\ fences' = [fences EXCEPT ![f] = NoFence]
  /\ cells' = Others(f)
  /\ UNCHANGED <<drawn, zones, events>>

(* createDeliveryZone, updateDeliveryZone: a zone is taken as the request  *)
(* gives it, with the geofence it was given, whatever becomes of it.       *)
PutDeliveryZone(z, f, active) ==
  /\ f \in drawn
  /\ zones' = [zones EXCEPT ![z] = [fence |-> f, active |-> active]]
  /\ UNCHANGED <<index, events>>

DeleteDeliveryZone(z) ==
  /\ zones[z] # NoZone
  /\ zones' = [zones EXCEPT ![z] = NoZone]
  /\ UNCHANGED <<index, events>>
-----------------------------------------------------------------------------
(* Mutant: the stored set only ever grows.                                 *)
BugUpdateEntityLocation(e, p) ==
  LET current == FindGeofencesContainingPoint(p)
      exits == (inside[e] \ current) \cap Living
  IN /\ inside' = [inside EXCEPT ![e] = inside[e] \cup current]
     /\ known' = known \cup {e}
     /\ told' = [told EXCEPT ![e] = (@ \ exits) \cup (current \ inside[e])]
     /\ dropped' = [dropped EXCEPT ![e] = @ \ current]
     /\ \E a \in {0, 1} : age' = [age EXCEPT ![e] = a]
     /\ UNCHANGED <<index, zones, due, dwelt>>

(* updateEntityLocation: exits of the fences left, unless a fence is gone, *)
(* enters of the new ones, and a new timestamp, which may fall on a tick   *)
(* of the timer and then counts one interval more.                         *)
UpdateEntityLocation(e, p) ==
  LET current == FindGeofencesContainingPoint(p)
      exits == (inside[e] \ current) \cap Living
  IN /\ inside' = [inside EXCEPT ![e] = current]
     /\ known' = known \cup {e}
     /\ told' = [told EXCEPT ![e] = (@ \ exits) \cup (current \ inside[e])]
     /\ dropped' = [dropped EXCEPT ![e] = @ \ current]
     /\ \E a \in {0, 1} : age' = [age EXCEPT ![e] = a]
     /\ UNCHANGED <<index, zones, due, dwelt>>

(* clearEntityLocation emits nothing: whoever follows the events still     *)
(* places the entity where it was, until an enter event puts it there anew.*)
ClearEntityLocation(e) ==
  /\ e \in known
  /\ known' = known \ {e}
  /\ inside' = [inside EXCEPT ![e] = {}]
  /\ age' = [age EXCEPT ![e] = 0]
  /\ dropped' = [dropped EXCEPT ![e] = @ \cup inside[e]]
  /\ UNCHANGED <<index, zones, due, dwelt, told>>

Tick ==
  /\ ~ due
  /\ due' = TRUE
  /\ age' = [e \in Entities |->
               IF e \in known /\ age[e] < DwellTicks THEN age[e] + 1 ELSE age[e]]
  /\ UNCHANGED <<index, zones, known, inside, dwelt, told, dropped>>

Dwelling ==
  {d \in Entities \X Fences : /\ d[2] \in inside[d[1]] \cap Living
                              /\ age[d[1]] = DwellTicks}

(* Mutant: the check renews the timestamps of the entities it skips.       *)
BugCheckDwellEvents ==
  /\ due
  /\ due' = FALSE
  /\ dwelt' = Dwelling
  /\ age' = [e \in Entities |-> IF age[e] < DwellTicks THEN 0 ELSE age[e]]
  /\ UNCHANGED <<index, zones, known, inside, told, dropped>>

CheckDwellEvents ==
  /\ due
  /\ due' = FALSE
  /\ dwelt' = Dwelling
  /\ UNCHANGED <<index, zones, known, inside, age, told, dropped>>

EventStep ==
  \E e \in Entities : \/ \E p \in Stops : UpdateEntityLocation(e, p)
                      \/ ClearEntityLocation(e)

GeoNext ==
  \/ \E f \in Fences, b \in Boundaries : \/ CreateGeofence(f, b)
                                         \/ UpdateGeofence(f, b)
  \/ \E f \in Fences : DeleteGeofence(f)
  \/ \E z \in Zones, f \in Fences, a \in BOOLEAN : PutDeliveryZone(z, f, a)
  \/ \E z \in Zones : DeleteDeliveryZone(z)
  \/ EventStep
  \/ Tick
  \/ CheckDwellEvents

GeoSpec == GeoInit /\ [][GeoNext]_geoVars

(* setInterval calls the check at every interval while the process lives.  *)
FairGeoSpec == GeoSpec /\ WF_geoVars(Tick) /\ WF_geoVars(CheckDwellEvents)
-----------------------------------------------------------------------------
GeoTypeOK ==
  /\ fences \in [Fences -> Boundaries \cup {NoFence}]
  /\ drawn \subseteq Fences
  /\ cells \subseteq (Int \X Int) \X Fences
  /\ zones \in [Zones -> [fence : Fences, active : BOOLEAN] \cup {NoZone}]
  /\ known \subseteq Entities
  /\ inside \in [Entities -> SUBSET Fences]
  /\ age \in [Entities -> 0 .. DwellTicks]
  /\ due \in BOOLEAN
  /\ dwelt \subseteq Entities \X Fences
  /\ told \in [Entities -> SUBSET Fences]
  /\ dropped \in [Entities -> SUBSET Fences]

(* The index holds each living fence in exactly the cells of its box.      *)
IndexExact ==
  cells = UNION {CellsOf(fences[f]) \X {f} : f \in Living}

(* After any history of creations, updates and deletions a lookup through  *)
(* the grid finds what a scan of all living fences would, and a delivery   *)
(* zone is offered exactly where its fence, as it is now, contains the     *)
(* point: no cell on a border is missed and nothing of an old boundary or  *)
(* of a deleted fence is left.                                             *)
LookupsAnswerLikeAScan ==
  /\ IndexExact
  /\ \A p \in Probes :
       LET scan == {f \in Living : IsPointInPolygon(p, fences[f])}
       IN /\ FindGeofencesContainingPoint(p) = scan
          /\ FindDeliveryZonesContainingPoint(p) =
               {z \in Zones : zones[z] # NoZone /\ zones[z].active
                                                /\ zones[z].fence \in scan}

(* Whoever follows the enter and exit events knows, for every fence that   *)
(* still exists, which entities the service takes to be inside, through    *)
(* updates and deletions of fences between the reports; only of the fences *)
(* a clear has dropped do the followers go on to believe what the service  *)
(* has forgotten, until the entity is reported there again.                *)
SubscribersAgree ==
  \A e \in Entities :
    /\ inside[e] \cap dropped[e] = {}
    /\ told[e] \cap Living = (inside[e] \cup dropped[e]) \cap Living

(* An entity that stays in a fence and reports no more is reported as      *)
(* dwelling there, and again at every check.                               *)
SilentEntitiesDwell ==
  \A e \in Entities, f \in Fences :
    (/\ <>[][\A p \in Stops : ~ UpdateEntityLocation(e, p)]_geoVars
     /\ <>[](f \in inside[e] \cap Living))
      => []<>(<<e, f>> \in dwelt)

(* The comments on DWELL and on checkDwellEvents: an entity that stays in  *)
(* a fence is reported as dwelling there, whether it reports or not.       *)
EntitiesThatStayDwell ==
  \A e \in Entities, f \in Fences :
    <>[](f \in inside[e] \cap Living) => []<>(<<e, f>> \in dwelt)
=============================================================================
