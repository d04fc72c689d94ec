---------------------------- MODULE MCDataAlgorithms ----------------------------
(***************************************************************************)
(* The inputs of DataAlgorithms, chosen so that every branch is taken:     *)
(* ties, empty inputs, missing values and the values on both sides of each *)
(* limit.                                                                  *)
(***************************************************************************)
EXTENDS DataAlgorithms

\* Drift: up to three tables of at most two columns, with a foreign key or without.
Column(name, type, nullable) == [name |-> name, type |-> type, nullable |-> nullable]
ForeignKey(constraint, referenced) ==
  [constraint |-> constraint, columns |-> "a", table |-> "u", referenced |-> referenced]
Table(columns, keys) == [columns |-> columns, keys |-> keys, others |-> {}]
a == Column("a", "int", FALSE)
b == Column("b", "int", FALSE)
Contents == {Table({}, {}), Table({a}, {}), Table({a, b}, {}),
             Table({Column("a", "int", TRUE), b}, {}), Table({Column("a", "text", FALSE)}, {}),
             Table({a, b}, {ForeignKey("fk", "a")}), Table({a, b}, {ForeignKey("fk_old", "a")}),
             Table({a, b}, {ForeignKey("fk", "b")}), [Table({a}, {}) EXCEPT !.others = {"a"}]}
Snapshots == UNION {[names -> Contents] : names \in SUBSET {"s", "t", "u"}}
Smaller == UNION {[names -> Contents] : names \in SUBSET {"s", "t"}}
DriftInputs == [kind : {"drift"}, old : Smaller, new : Smaller]
  \cup [kind : {"drift"}, old : [{"s"} -> Contents], new : Snapshots]
  \cup [kind : {"drift"}, old : Snapshots, new : [{"u"} -> Contents]]

\* Thresholds: up to four samples.
Samples == [label : 0..1, proba : {0, 30, 60, 100}]
ThresholdInputs ==
  [kind : {"threshold"}, strategy : {"max_f1"}, samples : UNION {[1..n -> Samples] : n \in 0..4}]
  \cup [kind : {"threshold"}, strategy : {"fixed"}, samples : [1..1 -> Samples]]

\* Explanations: four features, three of them reported.
ExplanationInputs ==
  [kind : {"explanation"}, coefficient : [1..4 -> {-2, 1}], value : [1..4 -> {None, 0, 1, 2, 3}]]

\* Contexts: the target, three more trips of its driver and route, and maintenance events.
TripRow(id, departure) ==
  [trip_id |-> id, vehicle_id |-> "v", driver_id |-> "d", route_id |-> None,
   planned_departure_at |-> departure]
Entity(columns) == [columns |-> columns, computed |-> {}, allowed |-> TRUE]
TripDocs == {Entity({"trip_id", "vehicle_id", "driver_id", "planned_departure_at"}),
             Entity({"trip_id", "vehicle_id", "driver_id"})}
EventDocs == {None, Entity({"vehicle_id", "started_at"}), Entity({"started_at"}),
              [Entity({"vehicle_id"}) EXCEPT !.computed = {"started_at"}]}
ContextInputs ==
  {[kind |-> "context", row |-> TripRow(1, 3), time |-> p,
    db |-> [e \in Entities |->
              CASE e = "Trip" -> {TripRow(1, 3)} \cup {TripRow(i + 1, departures[i]) : i \in 1..3}
                [] e = "Vehicle" -> {[vehicle_id |-> "v"]}
                [] e = "Delivery" -> {[trip_id |-> 1, n |-> n] : n \in 1..3}
                [] e = "MaintenanceEvent" -> {[vehicle_id |-> "v", started_at |-> t] : t \in events}
                [] OTHER -> {}],
    docs |-> [e \in Entities |->
                CASE e = "Trip" -> tripDoc
                  [] e = "Vehicle" -> Entity({"vehicle_id"})
                  [] e = "Delivery" -> Entity({"trip_id"})
                  [] e = "MaintenanceEvent" -> eventDoc
                  [] OTHER -> None]] :
     p \in {3, 4}, departures \in [1..3 -> {None, 2, 3, 4}], events \in {{}, {1, 2, 3}},
     tripDoc \in TripDocs, eventDoc \in EventDocs}

\* Pretraining: a target and three related records, of one entity or of two; two of the
\* timestamps are on the same day, two beyond the horizon.
Item(entity, stamp, category) ==
  [entity |-> entity, stamp |-> stamp, category |-> category, identifier |-> "id"]
PretrainingInputs ==
  {[kind |-> "pretraining",
    example |-> <<Item("Trip", None, "open"), Item("Trip", stamps[1], None),
                  Item("Trip", stamps[2], "open"), Item(third, stamps[3], None)>>] :
     stamps \in [1..3 -> {None, 10, 20, Day + 10, (Horizon + 1) * Day, (Horizon + 2) * Day}],
     third \in {"Trip", "FuelEvent"}}

\* The fleet: departures on both sides of the cutoff, the longest trip, and the delays at the
\* ends of the two ranges.
FleetInputs ==
  {[kind |-> "fleet", routes |-> {"r", "q"}, now |-> n, end |-> 3 * Day] : n \in {0, 3 * Day - 60, 4 * Day}}
MCDraws ==
  {[route |-> r, departure |-> d, duration |-> 450, loading |-> -5, delay |-> l] :
     r \in {"r"}, d \in {3 * Day - CutoffMinutes, 3 * Day - 30},
     l \in {-10, 25, 35, 240, None}}
  \cup {[route |-> "q", departure |-> Day, duration |-> 30, loading |-> 25, delay |-> 25]}

\* Expressions of up to three levels over two columns and one the table lacks.
Ref(c) == <<[kind |-> "column", column |-> c, parts |-> <<>>]>>
Shift(e, by) == [n \in DOMAIN e |-> [e[n] EXCEPT !.parts = [i \in DOMAIN @ |-> @[i] + by]]]
Unary(kind, e) == Append(e, [kind |-> kind, parts |-> <<Len(e)>>])
Binary(kind, e, f) ==
  Append(e \o Shift(f, Len(e)), [kind |-> kind, parts |-> <<Len(e), Len(e) + Len(f)>>])
Leaves == {Ref("x"), Ref("y"), Ref("z"), <<[kind |-> "literal", value |-> "text", parts |-> <<>>]>>}
Over(S) == {Binary(k, e, f) : k \in {"concat", "coalesce", "if_null"}, e \in S, f \in S}
  \cup {Unary("upper", e) : e \in S}
Shallow == Leaves \cup Over(Leaves)
Expressions == Shallow \cup {Binary("if_null", e, f) : e \in Leaves, f \in Shallow}
                       \cup {Binary("coalesce", e, f) : e \in Shallow, f \in Leaves}
                       \cup {Unary("upper", Unary("upper", e)) : e \in Shallow}
ExpressionInputs ==
  {[kind |-> "expression", nodes |-> e, row |-> row,
    available |-> IF snapshot THEN DOMAIN row ELSE None] :
     e \in Expressions, row \in [{"x", "y"} -> {None, "text"}] \cup [{"x"} -> {None, "text"}],
     snapshot \in BOOLEAN}

\* Suggestions: an identifier and a required field over two columns, which may be a primary
\* key, have a comment, look unique or be mostly null.
Fields == <<[name |-> "id", identifier |-> TRUE, required |-> TRUE],
            [name |-> "kind", identifier |-> FALSE, required |-> TRUE]>>
Columns == {[primary |-> FALSE, profile |-> f, mentioned |-> {}] : f \in {"none", "unique", "null"}}
  \cup {[primary |-> TRUE, profile |-> "unique", mentioned |-> m] : m \in {{}, {"kind"}}}
Scored(columns, similarity, compatible) ==
  {[field |-> i, column |-> j,
    score |-> ScoreColumn(Fields[i], columns[j], similarity[i, j], compatible[i, j])] :
     i \in 1..2, j \in 1..2}
SuggestionInputs ==
  {[kind |-> "suggestion", fields |-> Fields, pairs |-> Scored(cs, s, t)] :
     cs \in [1..2 -> Columns], s \in [(1..2) \X (1..2) -> {0, 70, 100}],
     t \in [(1..2) \X (1..2) -> BOOLEAN]}

MCInputs == DriftInputs \cup ThresholdInputs \cup ExplanationInputs
  \cup ContextInputs \cup PretrainingInputs \cup FleetInputs
  \cup ExpressionInputs \cup SuggestionInputs
=============================================================================
