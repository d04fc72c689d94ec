--------------------------- MODULE FeatureExtraction ---------------------------
(***************************************************************************)
(* What feature extraction computes: the delivery-delay-risk contract, the *)
(* query recipes of the compiler over the mapped columns of a customer     *)
(* database, the derive functions, the normalizer and the dry-run plan.    *)
(*                                                                         *)
(* A database gives every entity a set of rows, and a mapping document     *)
(* says which ontology fields of its entity are plain columns.  Times are  *)
(* in minutes.  A ratio is kept as its two counts and an age in days, so   *)
(* that every value is exact; float() and int() change none of them.       *)
(***************************************************************************)
EXTENDS Integers, FiniteSets, FiniteSetsExt, Common   \* None is NULL

Minute == 1
Day == 24 * 60 * Minute
MaxWindowDays == 365

\* FeatureSpec, with the defaults of its optional fields.
Spec0 == [kind |-> "direct_field", missing |-> "null", required |-> FALSE, target |-> None,
          secondary |-> None, derive |-> None, entity |-> None, fk |-> None, stamp |-> None,
          filter |-> None, equals |-> None, value |-> None, window |-> None]

FromTarget(field, derive) ==
  [Spec0 EXCEPT !.kind = IF derive = None THEN "direct_field" ELSE "derived_from_target",
                !.target = field, !.derive = derive]
Count(entity, fk, stamp, window) ==
  [Spec0 EXCEPT !.kind = "related_count", !.entity = entity, !.fk = fk, !.stamp = stamp,
                !.window = window, !.missing = "zero"]
CancelledRatio(fk) ==
  [Spec0 EXCEPT !.kind = "related_ratio", !.entity = "Trip", !.fk = fk,
                !.stamp = "planned_departure_at", !.window = 90, !.filter = "status",
                !.equals = "cancelled"]
Latest(entity, stamp, value) ==
  [Spec0 EXCEPT !.kind = "related_latest_value", !.entity = entity, !.fk = "vehicle_id",
                !.stamp = stamp, !.value = value]

\* FeatureSpec._validate_kind_specific_fields.
ValidSpec(f) ==
  IF f.kind \in {"direct_field", "derived_from_target"}
  THEN f.target # None /\ (f.kind = "derived_from_target" => f.derive # None)
  ELSE /\ f.entity # None /\ f.fk # None
       /\ (f.kind \in {"related_recency_days", "related_ratio"} \/ f.window # None)
             => f.stamp # None
       /\ f.kind = "related_ratio" => f.filter # None /\ f.equals # None
       /\ f.kind = "related_latest_value" => f.value # None

TargetEntity == "Trip"

\* DELIVERY_DELAY_RISK_CONTRACT, first half.
TripAndVehicleFeatures == [
  planned_departure_hour |->
    [FromTarget("planned_departure_at", "hour_of_day") EXCEPT !.required = TRUE],
  day_of_week |-> [FromTarget("planned_departure_at", "day_of_week") EXCEPT !.required = TRUE],
  planned_trip_distance_km |->
    [FromTarget("planned_distance_km", None) EXCEPT !.required = TRUE],
  number_of_stops |-> Count("RouteStop", "route_id", None, None),
  vehicle_age_years |->
    [Latest("Vehicle", None, "acquired_at") EXCEPT !.derive = "age_years_at_prediction"],
  odometer_km |-> Latest("OdometerReading", "recorded_at", "reading_km"),
  days_since_last_maintenance |->
    [Spec0 EXCEPT !.kind = "related_recency_days", !.entity = "MaintenanceEvent",
                  !.fk = "vehicle_id", !.stamp = "completed_at"]]

\* DELIVERY_DELAY_RISK_CONTRACT, second half.
HistoryFeatures == [
  previous_breakdown_count |->
    [Count("MaintenanceEvent", "vehicle_id", "started_at", 180)
       EXCEPT !.filter = "event_type", !.equals = "unscheduled"],
  driver_recent_trip_count |-> Count("Trip", "driver_id", "planned_departure_at", 30),
  driver_late_delivery_ratio |-> CancelledRatio("driver_id"),
  route_historical_delay_ratio |-> CancelledRatio("route_id"),
  planned_delivery_count |-> Count("Delivery", "trip_id", None, None),
  loading_start_delay_minutes |->
    [FromTarget("actual_departure_at", "loading_start_delay_minutes")
       EXCEPT !.secondary = "planned_departure_at", !.missing = "zero"],
  recent_fuel_anomaly_count |-> Count("FuelEvent", "vehicle_id", "occurred_at", 30)]

Features == DOMAIN TripAndVehicleFeatures \cup DOMAIN HistoryFeatures
Contract == [n \in Features |-> IF n \in DOMAIN HistoryFeatures
                                THEN HistoryFeatures[n] ELSE TripAndVehicleFeatures[n]]
RelatedEntities == {Contract[n].entity : n \in Features} \ {None}
Entities == RelatedEntities \cup {TargetEntity}

ASSUME ContractAssumption == \A n \in Features : ValidSpec(Contract[n])

-----------------------------------------------------------------------------
(***************************************************************************)
(* Derived values and missing values.                                      *)
(***************************************************************************)

\* hour_of_day and day_of_week; time 0 is a Monday at midnight.
Hour(t) == IF t = None THEN None ELSE (t % Day) \div 60
Weekday(t) == IF t = None THEN None ELSE (t \div Day) % 7

\* age_years_at_prediction, in days.
Age(t, p) == IF t = None THEN None ELSE (p - t) \div Day

\* loading_start_delay_minutes.
Delay(left, planned, p) ==
  IF left = None \/ planned = None \/ left >= p THEN 0 ELSE left - planned

\* apply_derive.
Derive(name, value, secondary, p) ==
  CASE name = "hour_of_day" -> Hour(value)
    [] name = "day_of_week" -> Weekday(value)
    [] name = "age_years_at_prediction" -> Age(value, p)
    [] name = "loading_start_delay_minutes" -> Delay(value, secondary, p)

\* normalize: the contract declares no constant default.
Normalize(f, raw) == IF raw = None /\ f.missing = "zero" THEN 0 ELSE raw

-----------------------------------------------------------------------------
(***************************************************************************)
(* Columns and queries.  A document maps the fields in columns to plain    *)
(* columns and those in computed to a static or derived value; allowed     *)
(* says that its table is on the allowlist of its connection.              *)
(***************************************************************************)

Mapped(doc, field) == field # None /\ field \in doc.columns

\* resolve_column raises ColumnNotDirectlyMappedError.
NotPlain(doc, field) == field # None /\ field \in doc.computed

\* Mutant: the predicate without its strictness.
BeforeOrAt(t, p) == t # None /\ t <= p

\* NULL is before nothing.
Before(t, p) == t # None /\ t < p

\* Mutant: the end of the window is only set where its start is.
SelectedUnbounded(rows, doc, f, join, p) ==
  {r \in rows :
     /\ r[f.fk] = join
     /\ Mapped(doc, f.stamp) /\ f.window # None =>
          Before(r[f.stamp], p) /\ r[f.stamp] >= p - f.window * Day}

\* The rows the conditions of compile_and_run_related_feature select.
Selected(rows, doc, f, join, p) ==
  {r \in rows :
     /\ r[f.fk] = join
     /\ Mapped(doc, f.stamp) =>
          /\ Before(r[f.stamp], p)
          /\ f.window # None => r[f.stamp] >= p - f.window * Day}

\* enforce_window_limit.
TooWide(doc, f) == Mapped(doc, f.stamp) /\ f.window # None /\ f.window > MaxWindowDays

\* The query of one related feature raises: a disallowed table, a field that is not a plain
\* column, a window too wide, or the assertion that a recency has a timestamp column.
QueryRaises(doc, f) ==
  \/ ~doc.allowed
  \/ NotPlain(doc, f.fk)
  \/ /\ Mapped(doc, f.fk)
     /\ \/ NotPlain(doc, f.stamp) \/ TooWide(doc, f)
        \/ NotPlain(doc, f.filter) \/ NotPlain(doc, f.value)
        \/ f.kind = "related_recency_days" /\ ~Mapped(doc, f.stamp)

\* RELATED_COUNT; an unmapped filter is not applied.
CountOf(rows, doc, f) ==
  Cardinality({r \in rows : Mapped(doc, f.filter) => r[f.filter] = f.equals})

\* RELATED_RATIO.
RatioOf(rows, doc, f) ==
  IF rows = {} \/ ~Mapped(doc, f.filter) THEN None
  ELSE <<Cardinality({r \in rows : r[f.filter] = f.equals}), Cardinality(rows)>>

\* RELATED_RECENCY_DAYS, in minutes.
RecencyOf(rows, f, p) == IF rows = {} THEN None ELSE p - Max({r[f.stamp] : r \in rows})

\* RELATED_LATEST_VALUE; the model's rows have distinct timestamps.
LatestOf(rows, doc, f) ==
  IF rows = {} \/ ~Mapped(doc, f.value) THEN None
  ELSE (CHOOSE r \in rows :
          Mapped(doc, f.stamp) => \A s \in rows : s[f.stamp] <= r[f.stamp])[f.value]

\* Mutant: without a join column every row is selected.
QueryUnjoined(rows, doc, f, join, p) ==
  LET hit == IF Mapped(doc, f.fk) THEN Selected(rows, doc, f, join, p) ELSE rows IN
  CASE f.kind = "related_count" -> CountOf(hit, doc, f)
    [] f.kind = "related_ratio" -> RatioOf(hit, doc, f)
    [] f.kind = "related_recency_days" -> RecencyOf(hit, f, p)
    [] f.kind = "related_latest_value" -> LatestOf(hit, doc, f)

\* compile_and_run_related_feature, for a query that does not raise.
Query(rows, doc, f, join, p) ==
  IF ~Mapped(doc, f.fk) THEN None
  ELSE LET hit == Selected(rows, doc, f, join, p) IN
       CASE f.kind = "related_count" -> CountOf(hit, doc, f)
         [] f.kind = "related_ratio" -> RatioOf(hit, doc, f)
         [] f.kind = "related_recency_days" -> RecencyOf(hit, f, p)
         [] f.kind = "related_latest_value" -> LatestOf(hit, doc, f)

\* The rows fetch_related_records may choose from.
Records(rows, doc, fk, join, stamp, p) ==
  IF ~Mapped(doc, fk) THEN {}
  ELSE {r \in rows : r[fk] = join /\ (Mapped(doc, stamp) => Before(r[stamp], p))}

\* Mutant: oldest first.
OldestRecords(rows, doc, fk, join, stamp, p, limit) ==
  LET fit == Records(rows, doc, fk, join, stamp, p) IN
  {S \in SUBSET fit :
     /\ Cardinality(S) = Min({limit, Cardinality(fit)})
     /\ Mapped(doc, stamp) => \A r \in S, s \in fit \ S : r[stamp] <= s[stamp]}

\* fetch_related_records: newest first and at most limit of them.  Rows with the same
\* timestamp come in any order; the result is the set of the possible answers.
RelatedRecords(rows, doc, fk, join, stamp, p, limit) ==
  LET fit == Records(rows, doc, fk, join, stamp, p) IN
  {S \in SUBSET fit :
     /\ Cardinality(S) = Min({limit, Cardinality(fit)})
     /\ Mapped(doc, stamp) => \A r \in S, s \in fit \ S : r[stamp] >= s[stamp]}

-----------------------------------------------------------------------------
(***************************************************************************)
(* Extraction.  docs gives every entity the document of its active mapping *)
(* or None; row is the row of the target entity.                           *)
(***************************************************************************)

\* needed_target_fields of extract.
NeededFields == (UNION {{Contract[n].target, Contract[n].secondary, Contract[n].fk} :
                         n \in Features}) \ {None}

\* fetch_target_row: the mapped fields of one row.
Fetched(doc, row) == [c \in DOMAIN row |-> IF c \in doc.columns THEN row[c] ELSE None]

\* A query for fields of the target raises.
FetchRaises(doc, fields) ==
  \/ ~doc.allowed
  \/ "trip_id" \notin doc.columns
  \/ \E c \in fields : NotPlain(doc, c)

\* The features of related entities that are skipped: no mapping, or no join value.
Skipped(docs, row, f) ==
  f.entity # None /\ (docs[f.entity] = None \/ row[f.fk] = None)

\* Some query of the extraction raises, and with it the extraction.
ExtractRaises(docs, row) ==
  \E n \in Features : LET f == Contract[n] IN
    f.entity # None /\ ~Skipped(docs, row, f) /\ QueryRaises(docs[f.entity], f)

\* The raw value of a feature.
Raw(db, docs, row, f, p) ==
  IF f.entity = None
  THEN IF f.derive = None THEN row[f.target]
       ELSE Derive(f.derive, row[f.target],
                   IF f.secondary = None THEN None ELSE row[f.secondary], p)
  ELSE IF Skipped(docs, row, f) THEN None
  ELSE LET raw == Query(db[f.entity], docs[f.entity], f, row[f.fk], p) IN
       IF f.derive = None THEN raw ELSE Derive(f.derive, raw, None, p)

\* extract: features_out.
FeaturesOut(db, docs, row, p) ==
  [n \in Features |-> Normalize(Contract[n], Raw(db, docs, row, Contract[n], p))]

\* extract: missing_features of the lineage.
MissingFeatures(db, docs, row, p) ==
  {n \in Features : LET f == Contract[n] IN
     Skipped(docs, row, f) \/ (f.required /\ Raw(db, docs, row, f, p) = None)}

\* build_query_plan: resolve_column raises for a static or derived field, and with it the plan.
PlanRaises(docs) ==
  \E n \in Features : LET f == Contract[n] IN
    IF f.entity = None THEN NotPlain(docs[TargetEntity], f.target)
    ELSE docs[f.entity] # None /\ \E e \in {TargetEntity, f.entity} : NotPlain(docs[e], f.fk)

\* build_query_plan, where it does not raise: is a feature reported as available?
PlanAvailable(docs, f) ==
  IF f.entity = None THEN Mapped(docs[TargetEntity], f.target)
  ELSE /\ docs[f.entity] # None
       /\ Mapped(docs[TargetEntity], f.fk)
       /\ Mapped(docs[f.entity], f.fk)

=============================================================================
