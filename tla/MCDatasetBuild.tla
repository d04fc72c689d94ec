----------------------------- MODULE MCDatasetBuild -----------------------------
(***************************************************************************)
(* DatasetBuild with one vehicle, two trips, two versions of the Trip      *)
(* mapping and a second mapping of it that passed no validation, and two   *)
(* versions of the MaintenanceEvent mapping, one with a computed           *)
(* timestamp; deliveries are mapped without their join column.  The clock  *)
(* advances by 90 days, so that the windows of 30, 90 and 180 days end on  *)
(* a tick or between two.                                                  *)
(***************************************************************************)
EXTENDS DatasetBuild

CONSTANTS t1, t2, v1, m1, m2

TripFields == {"trip_id", "vehicle_id", "driver_id", "route_id", "planned_distance_km",
               "planned_departure_at", "actual_departure_at", "planned_arrival_at",
               "actual_arrival_at", "status"}
Full(columns) == [columns |-> columns, computed |-> {}, allowed |-> TRUE]

MCVersions == {"trip", "trip_no_route", "trip_bare", "event", "event_computed", "reading", "vehicle", "stop",
               "delivery_no_key"}
MCDoc == [
  trip |-> Full(TripFields),
  trip_no_route |-> Full(TripFields \ {"route_id", "planned_distance_km"}),
  trip_bare |-> Full({"trip_id", "driver_id", "status"}),
  event |-> Full({"vehicle_id", "started_at", "completed_at", "event_type"}),
  event_computed |-> [Full({"vehicle_id", "started_at", "event_type"})
                        EXCEPT !.computed = {"completed_at"}],
  reading |-> Full({"vehicle_id", "recorded_at", "reading_km"}),
  vehicle |-> Full({"vehicle_id", "acquired_at"}),
  stop |-> Full({"route_id"}),
  delivery_no_key |-> Full({"delivery_id"})]

MCFixed == [e \in Entities |->
  CASE e = "Vehicle" -> {[vehicle_id |-> v1, acquired_at |-> -100 * Day]}
    [] e = "RouteStop" -> {[route_id |-> v1, n |-> n] : n \in 1..2}
    [] e = "Delivery" -> {[trip_id |-> t] : t \in {t1, t2}}
    [] OTHER -> {}]

Record(m, v) == [id |-> m, version |-> v, suspended |-> FALSE]
MCActivatable == [Trip |-> {Record(m1, "trip"), Record(m1, "trip_no_route"), Record(m2, "trip_bare")},
                  MaintenanceEvent |-> {Record(m1, "event"), Record(m1, "event_computed")}]
MCInitial ==
  [e \in Entities |->
     CASE e = "Trip" -> Record(m1, "trip")
       [] e = "MaintenanceEvent" -> Record(m1, "event")
       [] e = "OdometerReading" -> Record(m1, "reading")
       [] e = "Vehicle" -> Record(m1, "vehicle")
       [] e = "RouteStop" -> Record(m1, "stop")
       [] e = "Delivery" -> Record(m1, "delivery_no_key")
       [] OTHER -> None]

MCTick == 90 * Day
MCStarts == {[t \in {t1, t2} |-> IF t = t1 THEN 0 ELSE late] : late \in {0, MCTick}}
=============================================================================
