------------------------------- MODULE ModelRules -------------------------------
(***************************************************************************)
(* The pure rules around the models: the decision threshold, explanations, *)
(* the relational context of the transformer and its encoding, the         *)
(* pretraining targets, and the synthetic fleet the trainer builds its     *)
(* data from.                                                              *)
(*                                                                         *)
(* Random draws are arguments; probabilities are integers; a categorical   *)
(* hash is its input.                                                      *)
(***************************************************************************)
EXTENDS DatasetRules

CONSTANTS
  FixedThreshold,    \* fixed_value of the training configuration
  MaxExplanations,   \* _MAX_EXPLANATIONS
  MaxRecords,        \* max_records_per_relation
  Horizon,           \* _DATETIME_HORIZON_YEARS, in days
  RecentWindow       \* _RECENT_OUTCOME_WINDOW

ASSUME ModelRulesAssumption ==
  /\ MaxExplanations \in Nat /\ MaxRecords \in Nat \ {0} /\ RecentWindow \in Nat \ {0}

-----------------------------------------------------------------------------
(* The threshold.  A sample is a label and a probability.                  *)

TruePositives(samples, t) == CountWhere(samples, LAMBDA s : s.proba >= t /\ s.label = 1)
Flagged(samples, t) == CountWhere(samples, LAMBDA s : s.proba >= t)
Actual(samples) == CountWhere(samples, LAMBDA s : s.label = 1)

\* f1_score(zero_division=0) is twice the true positives over this, and 0 over 0 is 0.
F1Divisor(samples, t) == Max({1, Flagged(samples, t) + Actual(samples)})

HigherF1(samples, t, u) ==
  TruePositives(samples, t) * F1Divisor(samples, u)
    > TruePositives(samples, u) * F1Divisor(samples, t)

\* Mutant: best_f1 is never updated, so that the last candidate wins.
SelectLast(samples, strategy) ==
  LET candidates == {s.proba : s \in Range(samples)} IN
  IF strategy = "fixed" \/ candidates = {} THEN FixedThreshold ELSE Max(candidates)

\* select_threshold: the least of the best candidates.
SelectThreshold(samples, strategy) ==
  LET candidates == {s.proba : s \in Range(samples)} IN
  IF strategy = "fixed" \/ candidates = {} THEN FixedThreshold
  ELSE Min({t \in candidates : \A u \in candidates : ~HigherF1(samples, u, t)})

-----------------------------------------------------------------------------
(* Explanations.  Coefficients and values are numbers; factors come in the *)
(* order of the coefficients.                                              *)

Magnitude(n) == IF n < 0 THEN -n ELSE n

\* Mutant: sorted without abs.
StrongerSigned(c, d) == c > d

Stronger(c, d) == Magnitude(c) > Magnitude(d)

\* generate_explanations: the strongest contributions, ties in their order, zeros left out
\* only after the cut.
Explain(coefficient, value) ==
  LET present == {i \in DOMAIN coefficient : value[i] # None}
      share(i) == coefficient[i] * value[i]
      rank(i) == Cardinality({j \in present : \/ Stronger(share(j), share(i))
                                              \/ /\ ~Stronger(share(i), share(j))
                                                 /\ j < i})
  IN {[factor |-> i, direction |-> IF share(i) > 0 THEN "increases_risk" ELSE "decreases_risk"] :
        i \in {i \in present : rank(i) < MaxExplanations /\ share(i) # 0}}

-----------------------------------------------------------------------------
(* The relational context and its encoding.                                *)

Relation(name, entity, key, stamp) ==
  [relationship |-> name, entity |-> entity, key |-> key, stamp |-> stamp]

\* _RELATION_SPECS, which has the order of RELATIONSHIP_VOCAB.
RelationSpecs == <<
  Relation("uses_vehicle", "Vehicle", "vehicle_id", None),
  Relation("assigned_driver_history", "Trip", "driver_id", "planned_departure_at"),
  Relation("follows_route_history", "Trip", "route_id", "planned_departure_at"),
  Relation("has_deliveries", "Delivery", "trip_id", None),
  Relation("has_maintenance_events", "MaintenanceEvent", "vehicle_id", "started_at"),
  Relation("has_fuel_events", "FuelEvent", "vehicle_id", "occurred_at")>>

\* fetch_related_records resolves every field of the document, so one that is not a plain
\* column raises.
RecordsRaise(doc, key) ==
  ~doc.allowed \/ NotPlain(doc, key) \/ (Mapped(doc, key) /\ doc.computed # {})

\* The answers of one round of build_example's loop: newest first, a missing join value or
\* mapping gives no record.
RelatedAnswers(db, docs, row, p, spec) ==
  LET doc == docs[spec.entity]
      answers == RelatedRecords(db[spec.entity], doc, spec.key, row[spec.key], spec.stamp, p,
                                MaxRecords)
      newestFirst(s) == \A i, j \in DOMAIN s :
        i < j /\ Mapped(doc, spec.stamp) => s[i][spec.stamp] >= s[j][spec.stamp]
  IN IF row[spec.key] = None \/ doc = None THEN {<<>>}
     ELSE {s \in UNION {SetToSeqs(S) : S \in answers} : newestFirst(s)}

\* _write_record, and a position nothing was written to, whose relationship is the first of
\* RELATIONSHIP_VOCAB.
Token(relationship, record) == [relationship |-> relationship, record |-> record]
Padding == Token("__pad__", None)

\* encode_batch for one example: the target, then a block of slots for each relation.
Encode(target, related) ==
  [position \in 0..(Len(RelationSpecs) * MaxRecords) |->
     LET i == (position - 1) \div MaxRecords + 1
         slot == ((position - 1) % MaxRecords) + 1 IN
     IF position = 0 THEN Token("__target__", target)
     ELSE IF slot <= Len(related[i])
     THEN Token(RelationSpecs[i].relationship, related[i][slot])
     ELSE Padding]

\* The last feature of _encode_datetime: whole days, clamped; an empty slot holds zero.
EncodedYears(t) == IF t = None THEN 0 ELSE Max({0, Min({Horizon, t \div Day})})

-----------------------------------------------------------------------------
(* Pretraining.  A record has an entity, a first timestamp, an unprotected *)
(* category and a business identifier; position 1 is the target.           *)

Cells == {"stamp", "category", "identifier"}

\* protected_field_names
Protected == {"identifier"}

Present(example) == {x \in (DOMAIN example) \X Cells : example[x[1]][x[2]] # None}

\* Mutant: identifiers are masked as well.
MaskableAll(example) == Present(example)

\* The cells the loop over real_positions may mask.
Maskable(example) == {x \in Present(example) : x[2] \notin Protected}

Related(example) == DOMAIN example \ {1}

\* Mutant: any other record.
OthersAny(example, s) == Related(example) \ {s}

\* cross_entity_candidates
Others(example, s) == {o \in Related(example) : example[o].entity # example[s].entity}

\* The cells of the masked batch: the content of a corrupted position is copied from the
\* batch before masking.
Shown(example, masked, source) ==
  {x \in (DOMAIN example) \X Cells :
     IF source[x[1]] # x[1] THEN <<source[x[1]], x[2]>> \in Present(example)
     ELSE x \in Present(example) \ masked}

\* Positions of one entity whose first timestamp is visible.
PairCandidates(example, visible, entity) ==
  {s \in Related(example) : example[s].entity = entity /\ <<s, "stamp">> \in visible}

\* Mutant: records of the same day count as ordered.
BeforeLabelLoose(example, a, b) ==
  EncodedYears(example[a].stamp) <= EncodedYears(example[b].stamp)

\* The label of a temporal pair, from the batch before masking.
BeforeLabel(example, a, b) ==
  EncodedYears(example[a].stamp) < EncodedYears(example[b].stamp)

-----------------------------------------------------------------------------
(* The synthetic fleet.  A draw is what the random generator decides about *)
(* one trip; no delay at all is a cancellation.                            *)

CutoffMinutes == 18 * 60
Threshold == 30   \* _DELAY_LABEL_THRESHOLD_MINUTES

\* Mutant: no trip is too close to the end.
TooCloseNever(departure, end) == FALSE

TooClose(departure, end) == departure > end - CutoffMinutes

\* _resolve_trip_outcome, with the trip it becomes part of.
Trip(draw, id, end) ==
  LET arrival == draw.departure + draw.duration
      open == TooClose(draw.departure, end)
      done == ~open /\ draw.delay # None IN
  [trip_id |-> id, route_id |-> draw.route, planned_departure_at |-> draw.departure,
   planned_arrival_at |-> arrival, planned_distance_km |-> draw.duration,
   actual_departure_at |-> IF done THEN draw.departure + draw.loading ELSE None,
   actual_arrival_at |-> IF done THEN arrival + draw.delay ELSE None,
   status |-> IF open THEN "planned" ELSE IF done THEN "completed" ELSE "cancelled"]

\* Mutant: arriving late at all is bad.
WasBadStrict(trip) ==
  \/ trip.status = "cancelled"
  \/ trip.actual_arrival_at # None /\ trip.actual_arrival_at > trip.planned_arrival_at

WasBad(trip) ==
  \/ trip.status = "cancelled"
  \/ /\ trip.actual_arrival_at # None
     /\ trip.actual_arrival_at - trip.planned_arrival_at > Threshold

\* _record_recent_outcome
Remember(bucket, bad) ==
  LET longer == Append(bucket, bad) IN
  IF Len(longer) > RecentWindow THEN Tail(longer) ELSE longer

\* One round of _generate_trips_deliveries_fuel, on the trips so far and what is remembered
\* of each route; drivers are remembered the same way.
AddTrip(fleet, draw, end) ==
  LET trip == Trip(draw, Len(fleet.trips) + 1, end) IN
  [trips |-> Append(fleet.trips, trip),
   recent |-> IF trip.status = "planned" THEN fleet.recent
              ELSE [fleet.recent EXCEPT ![draw.route] = Remember(@, WasBad(trip))]]

Completed(trips) == {i \in DOMAIN trips : trips[i].status = "completed"}

\* The n-th completed trip, from 0: an arrival before the departure, a negative distance, an
\* unrecognised status, a departure in the future; later ones stay as they are.
Defect(trip, n, now, end) ==
  CASE n = 0 -> [trip EXCEPT !.actual_arrival_at = trip.planned_departure_at - 60]
    [] n = 1 -> [trip EXCEPT !.planned_distance_km = -42]
    [] n = 2 -> [trip EXCEPT !.status = "delayed_indefinitely"]
    [] n = 3 -> [trip EXCEPT !.planned_departure_at = Min({now + 6 * 60, end - 1})]
    [] OTHER -> trip

\* Mutant: the future is measured from the end of the range.
InjectDefectsByEnd(trips, now, end) ==
  LET completed == Completed(trips) IN
  IF Cardinality(completed) < 4 THEN trips
  ELSE [i \in DOMAIN trips |->
          IF i \in completed
          THEN Defect(trips[i], Cardinality({j \in completed : j < i}), end - 12 * 60, end)
          ELSE trips[i]]

\* _inject_defects: the first four completed trips.
InjectDefects(trips, now, end) ==
  LET completed == Completed(trips) IN
  IF Cardinality(completed) < 4 THEN trips
  ELSE [i \in DOMAIN trips |->
          IF i \in completed
          THEN Defect(trips[i], Cardinality({j \in completed : j < i}), now, end)
          ELSE trips[i]]
=============================================================================
