------------------------------ MODULE DatasetBuild ------------------------------
(***************************************************************************)
(* A dataset build beside a customer database that keeps changing, online  *)
(* feature extraction, and operators who change mappings.                  *)
(*                                                                         *)
(* The build reads its candidate rows once and extracts the features of    *)
(* one row at a time, resolving the mappings again for every row.  Its     *)
(* session keeps the target's SchemaMapping object alive, so a later query *)
(* that returns the same row finds the attributes loaded first; the        *)
(* objects of related mappings are dropped after every row and read anew.  *)
(*                                                                         *)
(* The customer's database is external.  Maintenance events and odometer   *)
(* readings are appended when they happen; trips are planned in advance,   *)
(* their outcome is final, and they may be deleted.                        *)
(***************************************************************************)
EXTENDS DatasetRules

CONSTANTS
  TripIds, Keys,        \* Keys: vehicles; the vehicle also stands for driver and route
  Versions, Doc,        \* Doc[v]: the document of mapping version v
  Mappings,             \* ids of schema mappings
  Initial,              \* Initial[e]: the active mapping of e at first, or None
  Activatable,          \* Activatable[e]: the mappings of e that may be activated
  Fixed,                \* Fixed[e]: the first rows of the entities other than trips
  Tick, Ticks,          \* the clock advances by Tick, Ticks times
  Starts,               \* functions that give the trips their planned departures
  EventKinds,           \* types of maintenance events
  MaxChanges,           \* bound on mapping changes and deleted trips
  MaxRows               \* bound on the maintenance events and odometer readings

VARIABLES
  now,
  db,        \* db[e]: the rows of entity e in the customer database
  mapping,   \* mapping[e]: the committed mapping of e in state ACTIVE, or None
  changes,   \* number of mapping changes and deleted trips
  build,     \* the build
  served     \* the batches of online extractions

datasetVars == <<now, db, mapping, changes, build, served>>

Opt(S) == S \cup {None}
Clocks == {k * Tick : k \in 0..Ticks}
MappingRecords == [id : Mappings, version : Versions, suspended : BOOLEAN]

Trips == [trip_id : TripIds, vehicle_id : Keys, driver_id : Keys, route_id : Opt(Keys),
          planned_distance_km : {1}, planned_departure_at : Nat, planned_arrival_at : Nat,
          actual_departure_at : Opt(Nat), actual_arrival_at : Opt(Nat),
          status : TripStatusValues]
Events == [vehicle_id : Keys, started_at : Nat, completed_at : Opt(Nat),
           event_type : EventKinds]
Readings == [vehicle_id : Keys, recorded_at : Nat, reading_km : Nat]

\* NULL is the name of no entity, field, function or status.
ASSUME NullAssumption ==
  None \notin {"Trip", "MaintenanceEvent", "OdometerReading", "RouteStop", "Vehicle", "Delivery",
               "FuelEvent", "trip_id", "vehicle_id", "driver_id", "route_id",
               "planned_departure_at", "planned_distance_km", "actual_departure_at",
               "started_at", "completed_at", "recorded_at", "hour_of_day", "day_of_week",
               "loading_start_delay_minutes", "age_years_at_prediction"} \cup TripStatusValues

ASSUME WorldAssumption ==
  /\ IsFiniteSet(TripIds) /\ Starts \subseteq [TripIds -> Nat] /\ Tick \in Nat /\ Ticks \in Nat
  /\ Fixed["MaintenanceEvent"] \subseteq Events /\ IsFiniteSet(Fixed["MaintenanceEvent"])
  /\ Fixed["OdometerReading"] \subseteq Readings /\ IsFiniteSet(Fixed["OdometerReading"])

ASSUME MappingAssumption ==
  /\ Initial \in [Entities -> Opt(MappingRecords)]
  /\ DOMAIN Activatable \subseteq Entities
  /\ \A e \in DOMAIN Activatable : Activatable[e] \subseteq MappingRecords

\* held is the mapping the build resolved first; raw the enumerated rows; i the next one to
\* look at; row and used what the current extraction read of its target.
NoBuild == [pc |-> "idle", held |-> None, raw |-> <<>>, i |-> 1, row |-> None, used |-> None,
            out |-> <<>>, splits |-> None, report |-> None]

Planned(id, k, start) ==
  [trip_id |-> id, vehicle_id |-> k, driver_id |-> k, route_id |-> k, planned_distance_km |-> 1,
   planned_departure_at |-> start, planned_arrival_at |-> start + Tick,
   actual_departure_at |-> None, actual_arrival_at |-> None, status |-> "planned"]

DatasetInit ==
  /\ now = 0
  /\ \E key \in [TripIds -> Keys], start \in Starts :
       db = [e \in Entities |-> IF e = "Trip" THEN {Planned(id, key[id], start[id]) : id \in TripIds}
                               ELSE Fixed[e]]
  /\ mapping = Initial
  /\ changes = 0
  /\ build = NoBuild
  /\ served = {}

-----------------------------------------------------------------------------
(***************************************************************************)
(* The customer's database (external).                                     *)
(***************************************************************************)

Insert(e, row) == db' = [db EXCEPT ![e] = @ \cup {row}]
Replace(t, u) == db' = [db EXCEPT !["Trip"] = (@ \ {t}) \cup {u}]

\* Mappings change and rows disappear under a running build; before it, DatasetInit chooses.
Disturbed ==
  /\ build.pc # "idle"
  /\ changes < MaxChanges /\ changes' = changes + 1
ControlPlane == <<mapping, changes, build, served>>

\* A build takes less than a tick.
Pass ==
  /\ build.pc = "idle"
  /\ now + Tick \in Clocks /\ now' = now + Tick
  /\ UNCHANGED <<db, ControlPlane>>

\* On time or early; a trip is late by its arrival.
Depart(t) ==
  /\ t.status = "planned" /\ now <= t.planned_departure_at
  /\ Replace(t, [t EXCEPT !.status = "in_progress", !.actual_departure_at = now])
  /\ UNCHANGED <<now, ControlPlane>>

Arrive(t) ==
  /\ t.status = "in_progress"
  /\ Replace(t, [t EXCEPT !.status = "completed", !.actual_arrival_at = now])
  /\ UNCHANGED <<now, ControlPlane>>

Cancel(t) ==
  /\ t.status = "planned"
  /\ Replace(t, [t EXCEPT !.status = "cancelled"])
  /\ UNCHANGED <<now, ControlPlane>>

Delete(t) ==
  /\ Disturbed
  /\ db' = [db EXCEPT !["Trip"] = @ \ {t}]
  /\ UNCHANGED <<now, mapping, build, served>>

Room == Cardinality(db["MaintenanceEvent"]) + Cardinality(db["OdometerReading"]) < MaxRows

Maintain(k, kind) ==
  /\ Room
  /\ \A r \in db["MaintenanceEvent"] : r.started_at # now
  /\ Insert("MaintenanceEvent", [vehicle_id |-> k, started_at |-> now, completed_at |-> now,
                                 event_type |-> kind])
  /\ UNCHANGED <<now, ControlPlane>>

ReadOdometer(k) ==
  /\ Room
  /\ \A r \in db["OdometerReading"] : r.recorded_at # now
  /\ Insert("OdometerReading",
            [vehicle_id |-> k, recorded_at |-> now,
             reading_km |-> Cardinality(db["OdometerReading"]) + 1])
  /\ UNCHANGED <<now, ControlPlane>>

-----------------------------------------------------------------------------
(***************************************************************************)
(* Operators: a new version takes a mapping out of the state ACTIVE, the   *)
(* version or another mapping of the entity is activated, a mapping is     *)
(* suspended for drift.  At most one mapping of an entity is active here   *)
(* (MappingLifecycle is about the others).                                 *)
(***************************************************************************)

Change(e, m) ==
  /\ Disturbed
  /\ mapping' = [mapping EXCEPT ![e] = m]
  /\ UNCHANGED <<now, db, build, served>>

\* create_new_version and deprecate: the mapping leaves the state ACTIVE.
Retire(e) == mapping[e] # None /\ Change(e, None)

Activate(e) ==
  /\ mapping[e] = None
  /\ \E m \in Activatable[e] : Change(e, m)

Suspend(e) == mapping[e] # None /\ Change(e, [mapping[e] EXCEPT !.suspended = TRUE])

-----------------------------------------------------------------------------
(***************************************************************************)
(* Resolving mappings.                                                     *)
(***************************************************************************)

\* MappingResolver.resolve on the attributes of a mapping: the version it gives.
Resolved(m) == IF m = None THEN None ELSE IF m.suspended THEN None ELSE m.version
Document(v) == IF v = None THEN None ELSE Doc[v]
DocumentsOf(versions) == [e \in Entities |-> Document(versions[e])]

\* Mutant: every query refreshes the object.
SeenFresh(e) == mapping[e]

\* The mapping of e as the build's session sees it.
Seen(e) ==
  IF mapping[e] # None /\ build.held # None /\ e = TargetEntity /\ mapping[e].id = build.held.id
  THEN build.held ELSE mapping[e]

\* _resolve_related_entities.
SeenVersions == [e \in Entities |-> Resolved(Seen(e))]

Row(id) == CHOOSE t \in db["Trip"] : t.trip_id = id
Exists(id) == \E t \in db["Trip"] : t.trip_id = id

-----------------------------------------------------------------------------
(***************************************************************************)
(* POST /v1/features/{task_key}/extract, asked at a trip's departure.      *)
(***************************************************************************)

\* It shares nothing with a build but what both read, and is followed only before one.
Extract(id) ==
  /\ served = {} /\ build.pc = "idle"
  /\ Exists(id)
  /\ Row(id).planned_departure_at = now
  /\ LET versions == [e \in Entities |-> Resolved(mapping[e])]
         docs == DocumentsOf(versions) IN
     /\ docs[TargetEntity] # None
     /\ ~FetchRaises(docs[TargetEntity], NeededFields)
     /\ LET row == Fetched(docs[TargetEntity], Row(id)) IN
        /\ ~ExtractRaises(docs, row)
        /\ served' = {[trip_id |-> id, time |-> now, versions |-> versions,
                       features |-> FeaturesOut(db, docs, row, now),
                       missing |-> MissingFeatures(db, docs, row, now)]}
  /\ UNCHANGED <<now, db, mapping, changes, build>>

-----------------------------------------------------------------------------
(***************************************************************************)
(* The build.                                                              *)
(***************************************************************************)

Failed == [build EXCEPT !.pc = "failed", !.held = None, !.row = None, !.used = None]
World == <<now, db, mapping, changes, served>>

\* _validate_definition_matches_tenant, for definitions that pass _tenant_or_shared.
DefinitionAccepted(own, shared) == ~shared /\ own

\* build: the definition is checked and the target mapping resolved.
StartBuild ==
  /\ build.pc = "idle"
  /\ build' = IF Resolved(mapping[TargetEntity]) = None THEN Failed
              ELSE [build EXCEPT !.pc = "enumerate", !.held = mapping[TargetEntity]]
  /\ UNCHANGED World

\* build: a definition of another tenant, or of a shared dataset.
RefuseBuild ==
  /\ build.pc = "idle"
  /\ \E own, shared \in BOOLEAN :
       (own \/ shared) /\ ~DefinitionAccepted(own, shared)
  /\ build' = Failed
  /\ UNCHANGED World

\* build: fetch_rows_in_range, the checks of the raw rows and their labels.
Enumerate ==
  /\ build.pc = "enumerate"
  /\ LET doc == Doc[build.held.version] IN
     IF RangeRaises(doc) THEN build' = Failed
     ELSE \E raw \in FetchRowsInRange({Fetched(doc, t) : t \in db["Trip"]}, 0, now + 1) :
            build' = [build EXCEPT !.pc = "extract", !.raw = raw]
  /\ UNCHANGED World

\* The labelable rows that are left.
Pending == {k \in build.i .. Len(build.raw) : Labelable(build.raw[k])}

\* extract, for the next labelable row: the target row is read.
FetchTarget ==
  /\ build.pc = "extract"
  /\ \E k \in Pending : LET doc == Document(Resolved(Seen(TargetEntity)))
                            id == build.raw[k].trip_id IN
       /\ \A j \in Pending : k <= j
       /\ build' = IF doc = None THEN Failed
                   ELSE IF FetchRaises(doc, NeededFields) THEN Failed
                   ELSE IF ~Exists(id) THEN [build EXCEPT !.i = k + 1]
                   ELSE [build EXCEPT !.pc = "related", !.i = k, !.row = Fetched(doc, Row(id)),
                                      !.used = Seen(TargetEntity)]
  /\ UNCHANGED World

\* extract: the related entities are resolved and queried, and the row is added.  The code
\* awaits between these queries; here nothing comes between them.
QueryRelated ==
  /\ build.pc = "related"
  /\ LET cand == build.raw[build.i]
         time == cand.planned_departure_at IN
     build' = IF ExtractRaises(DocumentsOf(SeenVersions), build.row) THEN Failed
              ELSE [build EXCEPT
                      !.pc = "extract", !.i = @ + 1, !.row = None, !.used = None,
                      !.out = Append(@, [trip_id |-> cand.trip_id, time |-> time,
                                         label |-> TrustedLabel(cand), used |-> build.used,
                                         versions |-> SeenVersions,
                                         features |-> FeaturesOut(db, DocumentsOf(SeenVersions),
                                                                  build.row, time)])]
  /\ UNCHANGED World

\* The quality report and the statistics of the manifest.
Report(raw, out) ==
  LET labels == [i \in DOMAIN out |-> out[i].label] IN
  [rows |-> Len(out), passed |-> QualityPassed(raw, now), missing |-> MissingLabels(raw),
   imbalanced |-> Imbalanced(labels), labels |-> LabelStatistics(labels),
   features |-> [n \in Features |-> FeatureStatistic([i \in DOMAIN out |-> out[i].features[n]])]]

\* build: the split and the manifest.
FinishBuild ==
  /\ build.pc = "extract" /\ Pending = {}
  /\ build' = [build EXCEPT !.pc = "done", !.splits = Split(build.out),
                            !.report = Report(build.raw, build.out)]
  /\ UNCHANGED World

-----------------------------------------------------------------------------
Surroundings ==
  \/ Pass
  \/ \E t \in db["Trip"] : Depart(t) \/ Arrive(t) \/ Cancel(t) \/ Delete(t)
  \/ \E k \in Keys, kind \in EventKinds : Maintain(k, kind)
  \/ \E k \in Keys : ReadOdometer(k)
  \/ \E e \in DOMAIN Activatable : Retire(e) \/ Activate(e)
  \/ Suspend(TargetEntity)
  \/ \E id \in TripIds : Extract(id)

BuildStep == StartBuild \/ RefuseBuild \/ Enumerate \/ FetchTarget \/ QueryRelated \/ FinishBuild

\* The world is followed until the build has ended.
DatasetNext == (build.pc \notin {"done", "failed"} /\ Surroundings) \/ BuildStep

DatasetSpec == DatasetInit /\ [][DatasetNext]_datasetVars

-----------------------------------------------------------------------------
(***************************************************************************)
(* Properties.                                                             *)
(***************************************************************************)

\* The clock, the database, the mappings and the build have their types; a dataset row has a
\* label of 0 or 1 (DatasetRow, features/lineage.py).
DatasetTypeOK ==
  /\ now \in Clocks
  /\ db["Trip"] \subseteq Trips
  /\ db["MaintenanceEvent"] \subseteq Events
  /\ db["OdometerReading"] \subseteq Readings
  /\ mapping \in [Entities -> Opt(MappingRecords)]
  /\ build.pc \in {"idle", "enumerate", "extract", "related", "done", "failed"}
  /\ build.held \in Opt(MappingRecords)
  /\ \A i \in DOMAIN build.out : LET r == build.out[i] IN
       /\ r.trip_id \in TripIds /\ r.time \in Nat /\ r.label \in {0, 1}
       /\ r.used \in MappingRecords /\ r.versions \in [Entities -> Opt(Versions)]

\* As long as the query for the target's mapping returns the row the build resolved first,
\* every row of the dataset was extracted with the version the manifest names, whatever was
\* activated during the build (datasets/manifest.py, mapping_version_ids).
TargetPinned ==
  \A i \in DOMAIN build.out :
    LET m == build.out[i].used IN
    build.held # None /\ m.id = build.held.id => m.version = build.held.version

\* The features the build is about to compute for a trip do not depend on the trip's own
\* outcome: neither its status nor its arrival leaks into its own row, not even through the
\* trips of the same driver or route, as long as the mapping these are read with gives the
\* planned departure a column (datasets/definition.py, LabelDefinition).  Without one the
\* compiler compares nothing (README, section 5).
OwnOutcomeUnused ==
  /\ build.pc = "related" /\ ~ExtractRaises(DocumentsOf(SeenVersions), build.row)
  /\ LET trip == DocumentsOf(SeenVersions)[TargetEntity] IN
     trip # None => Mapped(trip, "planned_departure_at")
  =>
    LET cand == build.raw[build.i]
        own == {t \in db["Trip"] : t.trip_id = cand.trip_id}
        Value(rows) == FeaturesOut([db EXCEPT !["Trip"] = (@ \ own) \cup rows],
                                   DocumentsOf(SeenVersions), build.row, cand.planned_departure_at)
    IN \A s \in TripStatusValues, arrival \in {None, now} :
         Value({[t EXCEPT !.status = s, !.actual_arrival_at = arrival] : t \in own}) = Value(own)

\* The features over rows that are appended when they happen.
Appended == {n \in Features : Contract[n].entity \in {"MaintenanceEvent", "OdometerReading"}}

\* A row and what was served of the same trip, at the same time and under the same mapping
\* documents of the trip and of the feature's entity, the latter with a mapped timestamp,
\* agree on a feature.
AsServed(r, s, n) ==
  LET e == Contract[n].entity
      Comparable ==
        /\ r.trip_id = s.trip_id /\ r.time = s.time
        /\ r.versions[e] # None /\ r.versions[e] = s.versions[e]
        /\ r.used.version = s.versions[TargetEntity]
        /\ Mapped(Doc[r.versions[e]], Contract[n].stamp)
  IN Comparable => r.features[n] = s.features[n]

\* Training sees what serving saw: a feature over appended rows has in the dataset the value
\* that an online extraction for the same trip and the same time returned when that time was
\* the present, under the same mapping documents with a mapped timestamp
\* (features/compiler.py:5).
SameAsServed ==
  \A i \in DOMAIN build.out, s \in served : \A n \in Appended : AsServed(build.out[i], s, n)

\* A label in the dataset is the outcome of its trip: it is still the label of the trip's
\* row, and a delivery it was derived from came after the prediction time
\* (datasets/label.py: excluded until the outcome is known).
LabelFinal ==
  \A i \in DOMAIN build.out : Exists(build.out[i].trip_id) =>
    LET t == Row(build.out[i].trip_id) IN
    /\ build.out[i].label = Label(t)
    /\ t.actual_arrival_at # None => t.actual_arrival_at > build.out[i].time

\* No row of a split is later than a row of the next split, and the splits together are the
\* dataset, in order (datasets/split.py).
TemporalSplit ==
  build.pc = "done" =>
    LET s == build.splits
        NotLater(a, b) == \A i \in DOMAIN a, j \in DOMAIN b : a[i].time <= b[j].time IN
    /\ NotLater(s.train, s.validation) /\ NotLater(s.train, s.test)
    /\ NotLater(s.validation, s.test)
    /\ s.train \o s.validation \o s.test = build.out

\* What a row of the dataset is kept from: the outcome of its own trip reaches none of its
\* features, and the features over maintenance events and odometer readings have the values
\* serving saw (features/compiler.py).  The ratios over trips do read the status other trips
\* have by now, whenever they got it (README, section 5).
PointInTime == OwnOutcomeUnused /\ SameAsServed

\* Rows dropped during the build, for want of a label, a time or the row itself, shift
\* neither the labels of the others nor their order (datasets/builder.py).
RowsKept == LabelFinal /\ TemporalSplit

\* What the dry-run plan, if it does not raise, reports as unavailable is filled by the
\* missing-value rule when the extraction runs under the same mappings (features/planner.py).
PlanHonest ==
  \A s \in served : LET docs == DocumentsOf(s.versions) IN
    ~PlanRaises(docs) =>
      \A n \in Features : ~PlanAvailable(docs, Contract[n]) =>
        s.features[n] = Normalize(Contract[n], None)

-----------------------------------------------------------------------------
(***************************************************************************)
(* The inductive invariant.                                                *)
(***************************************************************************)

\* Every trip has its own id; an arrival is recorded only when it completes.
TripsInv ==
  /\ db = [e \in Entities |-> db[e]]
  /\ IsFiniteSet(db["Trip"]) /\ IsFiniteSet(db["MaintenanceEvent"])
  /\ IsFiniteSet(db["OdometerReading"])
  /\ \A t, u \in db["Trip"] : t.trip_id = u.trip_id => t = u
  /\ \A t \in db["Trip"] : t.status # "completed" => t.actual_arrival_at = None

\* The enumerated rows are in order, and a row with a label is of a trip whose outcome is final.
RawInv ==
  /\ build.raw = [k \in 1..Len(build.raw) |-> build.raw[k]] /\ Len(build.raw) \in Nat
  /\ \A k \in DOMAIN build.raw :
       build.raw[k].trip_id \in TripIds /\ build.raw[k].planned_departure_at \in Nat
  /\ \A j, k \in DOMAIN build.raw :
       j < k => build.raw[j].planned_departure_at <= build.raw[k].planned_departure_at
  /\ \A k \in DOMAIN build.raw, t \in db["Trip"] : t.trip_id = build.raw[k].trip_id =>
       /\ t.planned_departure_at = build.raw[k].planned_departure_at
       /\ Labelable(build.raw[k]) =>
            /\ t.status \in {"completed", "cancelled"} /\ Label(t) = TrustedLabel(build.raw[k])
            /\ t.actual_arrival_at # None => t.actual_arrival_at > t.planned_departure_at

\* The rows of the dataset come from the enumerated rows before the next one, in their order.
OutInv ==
  /\ build.out = [k \in 1..Len(build.out) |-> build.out[k]] /\ Len(build.out) \in Nat
  /\ \A k \in DOMAIN build.out : \E j \in DOMAIN build.raw :
       /\ j < build.i /\ build.out[k].trip_id = build.raw[j].trip_id /\ Labelable(build.raw[j])
       /\ build.out[k].label = TrustedLabel(build.raw[j])
       /\ build.out[k].time = build.raw[j].planned_departure_at
  /\ \A j, k \in DOMAIN build.out : j < k => build.out[j].time <= build.out[k].time
  /\ build.pc = "done" => build.splits = Split(build.out)

\* Where the build is.
BuildInv ==
  /\ build = [pc |-> build.pc, held |-> build.held, raw |-> build.raw, i |-> build.i,
              row |-> build.row, used |-> build.used, out |-> build.out,
              splits |-> build.splits, report |-> build.report]
  /\ build.i \in 1 .. Len(build.raw) + 1
  /\ build.pc \in {"idle", "enumerate"} => build.raw = <<>> /\ build.out = <<>>
  /\ build.pc \in {"enumerate", "extract", "related", "done"} => build.held # None
  /\ build.pc = "related" =>
       /\ build.i <= Len(build.raw) /\ Labelable(build.raw[build.i])
       /\ build.used \in MappingRecords
       /\ build.used.id = build.held.id => build.used.version = build.held.version

\* What feature n over appended rows is worth at p for a vehicle, under version v.
HistoryValue(n, v, vehicle, p) ==
  Normalize(Contract[n], Raw(db, [e \in Entities |-> Document(v)], [vehicle_id |-> vehicle],
                             Contract[n], p))

\* The vehicle a row of trips shows when it is read under version v.
VehicleRead(v, vehicle) == IF Mapped(Doc[v], "vehicle_id") THEN vehicle ELSE None

\* A trip keeps its vehicle, and what was served is still what the rows say.
ServedInv ==
  /\ \A s \in served : s.time \in Nat /\ s.time <= now
  /\ \E vehicle \in [TripIds -> Keys] :
       /\ \A t \in db["Trip"] : t.vehicle_id = vehicle[t.trip_id]
       /\ build.pc = "related" =>
            build.row.vehicle_id = VehicleRead(build.used.version, vehicle[build.raw[build.i].trip_id])
       /\ \A s \in served, n \in Appended : LET v == s.versions[Contract[n].entity] IN
            v # None /\ Mapped(Doc[v], Contract[n].stamp) =>
              s.features[n] = HistoryValue(n, v, VehicleRead(s.versions[TargetEntity], vehicle[s.trip_id]),
                                           s.time)

DatasetInv ==
  /\ DatasetTypeOK /\ TripsInv /\ RawInv /\ OutInv /\ BuildInv
  /\ ServedInv /\ TargetPinned /\ SameAsServed /\ PlanHonest

=============================================================================
