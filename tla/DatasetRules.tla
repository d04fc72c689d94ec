------------------------------ MODULE DatasetRules ------------------------------
(***************************************************************************)
(* The pure rules of a dataset build: which candidate rows are enumerated  *)
(* and in which order, their labels, the quality checks, the temporal      *)
(* split, and the statistics kept in the manifest.                         *)
(*                                                                         *)
(* Rows are rows of the Trip entity with times in minutes; None stands for *)
(* NULL.  Of the statistics of a feature only the counts are kept.         *)
(***************************************************************************)
EXTENDS FeatureExtraction, Sequences, SequencesExt

CONSTANTS
  DelayThreshold,   \* delay_threshold_minutes
  TrainPercent, ValidationPercent,   \* the fractions of TemporalSplitStrategy
  BuildRowLimit     \* dataset_build_row_limit()

\* TemporalSplitStrategy._fractions_are_valid.
ASSUME FractionsAssumption ==
  /\ TrainPercent \in 1..99 /\ ValidationPercent \in 1..99
  /\ TrainPercent + ValidationPercent < 100

ASSUME LimitAssumption == BuildRowLimit \in Nat

TripStatusValues == {"planned", "in_progress", "completed", "cancelled"}

\* fetch_rows_in_range: [start, end) on the time field, ordered by it, at most a limit of
\* rows.  Rows with the same time come in any order; the result is the set of the orders.
InRange(rows, start, end) ==
  {r \in rows : /\ r.planned_departure_at # None
                /\ start <= r.planned_departure_at /\ r.planned_departure_at < end}

\* Mutant: no ORDER BY.
FetchUnordered(rows, start, end) ==
  {SubSeq(s, 1, IF Len(s) < BuildRowLimit THEN Len(s) ELSE BuildRowLimit) :
     s \in SetToSeqs(InRange(rows, start, end))}

FetchRowsInRange(rows, start, end) ==
  {SubSeq(s, 1, IF Len(s) < BuildRowLimit THEN Len(s) ELSE BuildRowLimit) :
     s \in {q \in SetToSeqs(InRange(rows, start, end)) :
              \A i, j \in DOMAIN q :
                i < j => q[i].planned_departure_at <= q[j].planned_departure_at}}

\* fetch_rows_in_range raises; a document without the time field gives no rows.
LabelFields == {"planned_departure_at", "status", "planned_arrival_at", "actual_arrival_at",
                "planned_distance_km"}
RangeRaises(doc) ==
  \/ FetchRaises(doc, {"planned_departure_at"})
  \/ "planned_departure_at" \in doc.columns /\ FetchRaises(doc, LabelFields)

\* delivery_delay_label.
Label(row) ==
  CASE row.status = "cancelled" -> 1
    [] row.status = "completed" /\ row.planned_arrival_at # None
                                /\ row.actual_arrival_at # None ->
         IF row.actual_arrival_at - row.planned_arrival_at > DelayThreshold THEN 1 ELSE 0
    [] OTHER -> None

\* Mutant: nothing is excluded.
AnyTime(row) == TRUE

\* _is_point_in_time_valid.
PointInTimeValid(row) ==
  row.planned_departure_at # None /\ row.actual_arrival_at # None
    => row.actual_arrival_at > row.planned_departure_at

\* The label build() works with.
TrustedLabel(row) == IF PointInTimeValid(row) THEN Label(row) ELSE None

\* Mutant: rows without a label stay.
LabelableAll(row) == TRUE

Labelable(row) == TrustedLabel(row) # None

-----------------------------------------------------------------------------
(***************************************************************************)
(* Quality checks: a count of zero is no issue.  A label is counted where  *)
(* the rows of the built dataset carry one.                                *)
(***************************************************************************)

CountWhere(seq, Bad(_)) == Cardinality({i \in DOMAIN seq : Bad(seq[i])})

\* check_duplicate_ids counts values, not rows.
DuplicateIds(raw) ==
  Cardinality({v \in {raw[i].trip_id : i \in DOMAIN raw} \ {None} :
                 CountWhere(raw, LAMBDA r : r.trip_id = v) > 1})

\* check_invalid_date_ordering.
InvalidDates(raw) ==
  CountWhere(raw, LAMBDA r : /\ r.planned_departure_at # None /\ r.actual_arrival_at # None
                             /\ r.actual_arrival_at < r.planned_departure_at)

\* check_negative_numeric.
NegativeDistances(raw) ==
  CountWhere(raw, LAMBDA r : r.planned_distance_km # None /\ r.planned_distance_km < 0)

\* check_unrecognised_values.
UnrecognisedStatuses(raw) ==
  CountWhere(raw, LAMBDA r : r.status # None /\ r.status \notin TripStatusValues)

\* check_future_timestamps.
FutureTimestamps(raw, now) ==
  CountWhere(raw, LAMBDA r : r.planned_departure_at # None /\ r.planned_departure_at > now)

\* check_missing_labels.
MissingLabels(raw) == CountWhere(raw, LAMBDA r : TrustedLabel(r) = None)

Positives(labels) == CountWhere(labels, LAMBDA l : l = 1)

\* check_class_imbalance: a minority of less than 2 percent.
Imbalanced(labels) ==
  /\ labels # <<>>
  /\ 100 * Min({Positives(labels), Len(labels) - Positives(labels)}) < 2 * Len(labels)

\* DataQualityReport.passed: no check of severity ERROR found anything.
QualityPassed(raw, now) ==
  DuplicateIds(raw) + InvalidDates(raw) + NegativeDistances(raw) + FutureTimestamps(raw, now)
    = 0

-----------------------------------------------------------------------------
(***************************************************************************)
(* Split and statistics.                                                   *)
(***************************************************************************)

\* split_temporally.  The code multiplies with a float and cuts off: where the product falls
\* short of a whole number its part has one row less than here.  No property is about where
\* the cuts are.
Split(rows) ==
  LET n == Len(rows)
      trainEnd == (n * TrainPercent) \div 100
      validationEnd == trainEnd + (n * ValidationPercent) \div 100 IN
  [train |-> SubSeq(rows, 1, trainEnd), validation |-> SubSeq(rows, trainEnd + 1, validationEnd),
   test |-> SubSeq(rows, validationEnd + 1, n)]

\* compute_feature_statistics for one feature; of the moments nothing is kept.
FeatureStatistic(values) ==
  LET count == CountWhere(values, LAMBDA v : v # None) IN
  [count |-> count, missing |-> Len(values) - count]

\* compute_label_statistics.
LabelStatistics(labels) ==
  [count |-> Len(labels), positive |-> Positives(labels),
   negative |-> Len(labels) - Positives(labels)]

=============================================================================
