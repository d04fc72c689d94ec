----------------------------- MODULE DataAlgorithms -----------------------------
(***************************************************************************)
(* The pure rules of SchemaRules, ModelRules and MappingRules, each run on *)
(* one of a set of inputs.  A behavior starts with an input and takes the  *)
(* steps of the algorithm, one for each round of its loop where the round  *)
(* makes a choice of its own (a database that returns rows in any order, a *)
(* set walked in any order, a random number) or builds on the rounds       *)
(* before it.                                                              *)
(***************************************************************************)
EXTENDS ModelRules, MappingRules

CONSTANTS RenamePercent, Inputs, Draws, MaxTrips

Schema == INSTANCE SchemaRules

\* A table has columns of different names.
Snapshot(s) ==
  /\ IsFiniteSet(DOMAIN s) /\ None \notin DOMAIN s
  /\ \A name \in DOMAIN s : LET columns == s[name].columns IN
       /\ IsFiniteSet(columns)
       /\ \A c \in columns : c = [name |-> c.name, type |-> c.type, nullable |-> c.nullable]
       /\ \A c, d \in columns : c.name = d.name => c = d

\* The table of an expression, and a row without an exception in it.
Expression(nodes, row) ==
  /\ Len(nodes) \in Nat \ {0} /\ DOMAIN nodes = 1..Len(nodes)
  /\ \A c \in DOMAIN row : row[c] # Fails
  /\ \A n \in DOMAIN nodes : LET node == nodes[n] IN
       /\ node.kind \in {"column", "literal", "concat", "coalesce", "upper", "if_null"}
       /\ node.kind = "literal" => node.value # Fails
       /\ node.kind = "upper" => 1 \in DOMAIN node.parts
       /\ node.parts \in Seq(1..(n - 1))

ASSUME InputAssumption == \A in \in Inputs :
  /\ in.kind = "drift" => Snapshot(in.old) /\ Snapshot(in.new)
  /\ in.kind = "threshold" => in.samples \in Seq([label : 0..1, proba : 0..100])
  /\ in.kind = "explanation" =>
       /\ IsFiniteSet(DOMAIN in.value) /\ DOMAIN in.value = DOMAIN in.coefficient
       /\ \A i \in DOMAIN in.value :
            i \in Nat /\ in.coefficient[i] \in Int /\ in.value[i] \in Int \cup {None}
  /\ in.kind = "context" =>
       \A i \in DOMAIN RelationSpecs : IsFiniteSet(in.db[RelationSpecs[i].entity])
  /\ in.kind = "pretraining" =>
       /\ Len(in.example) \in Nat \ {0} /\ DOMAIN in.example = 1..Len(in.example)
       /\ \A s \in DOMAIN in.example : in.example[s].stamp \in Nat \cup {None}
  /\ in.kind = "fleet" => in.now \in Int /\ in.end \in Int
  /\ in.kind = "expression" => Expression(in.nodes, in.row) /\ in.available \in {None, DOMAIN in.row}
  /\ in.kind = "suggestion" =>
       /\ IsFiniteSet(in.pairs)
       /\ \A p \in in.pairs : p.score \in Int /\ p.field \in Nat /\ p.column \in Nat

\* 15 to 450 kilometres at 60 an hour, but at least half an hour; a delay under the threshold
\* or over it.  The two modules have the same threshold (generator.py:31).
ASSUME FleetAssumption ==
  /\ None \notin Int /\ None \notin {"planned", "completed", "cancelled", "delayed_indefinitely"}
  /\ DelayThreshold = Threshold
  /\ \A draw \in Draws :
       /\ draw.departure \in Int /\ draw.duration \in 30..450 /\ draw.loading \in Int
       /\ draw.delay \in (-10..25) \cup (35..240) \cup {None}

ASSUME RuleAssumption == RenamePercent \in 1..100 /\ Horizon \in Nat

VARIABLES input, output

ruleVars == <<input, output>>

\* What an algorithm that runs in rounds starts from.
Beginning(in) ==
  CASE in.kind = "context" -> <<>>
    [] in.kind = "pretraining" -> [masked |-> None, source |-> <<1>>, pairs |-> None]
    [] in.kind = "fleet" -> [trips |-> <<>>, recent |-> [r \in in.routes |-> <<>>]]
    [] in.kind = "expression" -> <<>>
    [] in.kind = "suggestion" -> [seen |-> {}, claimed |-> {}, done |-> FALSE]
    [] OTHER -> None

RulesInit == input \in Inputs /\ output = Beginning(input)

Runs(kind) == input.kind = kind /\ UNCHANGED input

-----------------------------------------------------------------------------

\* compare_snapshots; the added tables are walked in the order of a set.
CompareSnapshots ==
  /\ Runs("drift") /\ output = None
  /\ \E order \in SetToSeqs(DOMAIN input.new \ DOMAIN input.old) :
       output' = Schema!CompareSnapshots(input.old, input.new, order)

\* select_threshold
Select ==
  /\ Runs("threshold") /\ output = None
  /\ output' = SelectThreshold(input.samples, input.strategy)

\* generate_explanations
GenerateExplanations ==
  /\ Runs("explanation") /\ output = None
  /\ output' = Explain(input.coefficient, input.value)

\* One round of build_example; a document that raises ends the build.
FetchRelated ==
  /\ Runs("context") /\ output # Fails /\ Len(output) < Len(RelationSpecs)
  /\ LET spec == RelationSpecs[Len(output) + 1] IN
     IF /\ input.row[spec.key] # None /\ input.docs[spec.entity] # None
        /\ RecordsRaise(input.docs[spec.entity], spec.key)
     THEN output' = Fails
     ELSE \E rows \in RelatedAnswers(input.db, input.docs, input.row, input.time, spec) :
            output' = Append(output, rows)

\* build_pretraining_batch masks cells,
MaskCells ==
  /\ Runs("pretraining") /\ output.masked = None
  /\ \E masked \in SUBSET Maskable(input.example) : output' = [output EXCEPT !.masked = masked]

\* corrupts the link of some related positions, one after the other,
CorruptLink ==
  /\ Runs("pretraining") /\ output.masked # None
  /\ Len(output.source) < Len(input.example)
  /\ LET s == Len(output.source) + 1 IN
     \E other \in {s} \cup Others(input.example, s) :
       output' = [output EXCEPT !.source = Append(@, other)]

\* and draws at most one pair of records of each entity.
PairRecords ==
  /\ Runs("pretraining") /\ output.masked # None
  /\ Len(output.source) = Len(input.example) /\ output.pairs = None
  /\ LET visible == Shown(input.example, output.masked, output.source)
         entities == {input.example[s].entity : s \in Related(input.example)}
         drawn(e) == {pair \in PairCandidates(input.example, visible, e)
                                \X PairCandidates(input.example, visible, e) : pair[1] # pair[2]}
     IN \E pick \in [entities -> {None} \cup UNION {drawn(e) : e \in entities}] :
          /\ \A e \in entities : pick[e] \in drawn(e) \cup {None}
          /\ output' = [output EXCEPT !.pairs =
               {<<pair[1], pair[2], BeforeLabel(input.example, pair[1], pair[2])>> :
                  pair \in {pick[e] : e \in entities} \ {None}}]

\* One trip of _generate_trips_deliveries_fuel.
GenerateTrip ==
  /\ Runs("fleet") /\ Len(output.trips) < MaxTrips
  /\ \E draw \in Draws : output' = AddTrip(output, draw, input.end)

\* check_expression_depth, referenced_columns and evaluate come back from one more node.
VisitNode ==
  /\ Runs("expression") /\ Len(output) < Len(input.nodes)
  /\ output' = Append(output, Entry(input.nodes[Len(output) + 1], output, input.row))

\* One round of suggest_mapping: the strongest pair left,
ConsiderPair ==
  /\ Runs("suggestion") /\ output # Fails /\ ~output.done
  /\ LET left == input.pairs \ output.seen
         pair == Strongest(left) IN
     /\ left # {} /\ pair.score >= MinConfidence
     /\ output' = [output EXCEPT !.seen = @ \cup {pair},
                     !.claimed = IF Taken(pair, @) THEN @ ELSE @ \cup {pair}]

\* until no pair is confident; without an identifier it raises.
ConcludeSuggestion ==
  /\ Runs("suggestion") /\ output # Fails /\ ~output.done
  /\ LET left == input.pairs \ output.seen IN
     left # {} => Strongest(left).score < MinConfidence
  /\ output' = IF \E p \in output.claimed : input.fields[p.field].identifier
               THEN [output EXCEPT !.done = TRUE] ELSE Fails

RulesNext ==
  \/ CompareSnapshots \/ Select \/ GenerateExplanations
  \/ FetchRelated \/ MaskCells \/ CorruptLink \/ PairRecords \/ GenerateTrip
  \/ VisitNode \/ ConsiderPair \/ ConcludeSuggestion

RulesSpec == RulesInit /\ [][RulesNext]_ruleVars

-----------------------------------------------------------------------------
(* Properties.                                                             *)

Done(kind) == input.kind = kind /\ output \notin {None, Fails}

\* compare_snapshots (schemas/drift.py): in whatever order the set of added tables is
\* walked, an event names a table of the old snapshot exactly when the table is gone or its
\* columns or the tables its foreign keys point to have changed, and a table that is new is
\* either reported as added or shares columns with one that is reported as renamed.
DriftExact ==
  Done("drift") =>
    LET old == input.old  new == input.new
        gone(name) == name \notin DOMAIN new
        seen(table) == <<table.columns, Schema!RelationshipSignature(table)>>
        added == {e.table : e \in {e \in output : e.type = "table_added"}} IN
    /\ {e.table : e \in output} \ added =
         {name \in DOMAIN old : gone(name) \/ seen(old[name]) # seen(new[name])}
    /\ added \subseteq DOMAIN new \ DOMAIN old
    /\ \A name \in (DOMAIN new \ DOMAIN old) \ added : \E was \in DOMAIN old :
         /\ gone(was) /\ old[was].columns \cap new[name].columns # {}
         /\ Schema!Event("table_renamed_likely", was) \in output

\* compute_fingerprints and compare_snapshots (schemas/fingerprint.py, schemas/drift.py):
\* two snapshots with the same table fingerprints give no event but of a foreign key that was
\* renamed, so equal fingerprints never hide a changed column or table.
FingerprintCoversDrift ==
  Done("drift") =>
    (Schema!ComputeFingerprints(input.old) = Schema!ComputeFingerprints(input.new)
       => \A e \in output : e.type = "relationship_changed")

\* Drift is neither missed nor invented, by the events or by the fingerprints.
DriftReported == DriftExact /\ FingerprintCoversDrift

\* select_threshold (models/metrics.py): no threshold at all, one of the predicted
\* probabilities or not, gives the validation set a better F1 than the one selected.
ThresholdOptimal ==
  Done("threshold") /\ input.strategy = "max_f1" /\ input.samples # <<>> =>
    \A t \in 0..100 : ~HigherF1(input.samples, t, output)

\* generate_explanations (inference/explanation.py): the reported factors are the features
\* that contribute most to the score, whichever way, with the sign of their contribution.
ExplanationsTop ==
  Done("explanation") =>
    LET share(i) == input.coefficient[i] * input.value[i]
        named == {e.factor : e \in output} IN
    /\ \A e \in output : (e.direction = "increases_risk") = (share(e.factor) > 0)
    /\ \A i \in DOMAIN input.value \ named :
         input.value[i] # None /\ share(i) # 0 =>
           /\ Cardinality(named) = MaxExplanations
           /\ \A j \in named : Magnitude(share(j)) >= Magnitude(share(i))

\* The choices the code makes by walking a sorted list (the decision threshold, the reported
\* factors) pass over no better candidate, with ties, zeros and missing values among the
\* candidates.
ChoicesOptimal == ThresholdOptimal /\ ExplanationsTop

\* build_example, fetch_related_records and encode_batch (transformer/context.py,
\* transformer/encoding.py): the target is at position 0; where the key and the timestamp of
\* a relation are mapped, no record at or after the prediction time is encoded, and no earlier
\* record left out is newer than one encoded.  Only the prediction time keeps the target out
\* of its own history: of a trip that left before, the row is encoded there like any other
\* (README, section 5).
HistoryEncoded ==
  Done("context") /\ Len(output) = Len(RelationSpecs) =>
    LET encoded == Encode(input.row, output)
        block(spec) == {encoded[s].record : s \in {s \in DOMAIN encoded :
                          encoded[s].relationship = spec.relationship}} IN
    /\ encoded[0].record = input.row
    /\ \A i \in DOMAIN RelationSpecs :
         LET spec == RelationSpecs[i]
             doc == input.docs[spec.entity]
             timed == /\ doc # None /\ input.row[spec.key] # None
                      /\ Mapped(doc, spec.key) /\ Mapped(doc, spec.stamp) IN
         timed =>
           /\ \A r \in block(spec) : Before(r[spec.stamp], input.time)
           /\ \A r \in input.db[spec.entity] \ block(spec) :
                r[spec.key] = input.row[spec.key] /\ Before(r[spec.stamp], input.time) =>
                  /\ Cardinality(block(spec)) = MaxRecords
                  /\ \A q \in block(spec) : q[spec.stamp] >= r[spec.stamp]

Genuine(s) == output.source[s] = s

\* build_pretraining_batch (transformer/pretraining.py): a position labelled corrupt holds the
\* record of another entity than it claims.
LinkLabels ==
  \A s \in DOMAIN input.example :
    ~Genuine(s) => input.example[output.source[s]].entity # input.example[s].entity

\* build_pretraining_batch: both positions of a pair show a timestamp, and the label is the
\* order of the records they held before any corruption: 1 if the second is later, or the
\* first, being replaced, had no time at all; 0 if it is not later by a day, or both lie
\* beyond the horizon.
PairLabels ==
  LET stamp(s) == input.example[s].stamp
      day(s) == IF stamp(s) = None THEN 0 ELSE stamp(s) \div Day
      shown == Shown(input.example, output.masked, output.source) IN
  \A pair \in output.pairs : LET a == pair[1]  b == pair[2] IN
    /\ \A s \in {a, b} : <<s, "stamp">> \in shown /\ (Genuine(s) => stamp(s) # None)
    /\ pair[3] => stamp(b) # None /\ (stamp(a) # None => stamp(a) < stamp(b))
    /\ ~pair[3] => day(a) >= day(b) \/ day(a) >= Horizon

\* build_pretraining_batch: no business identifier is ever a reconstruction target, and a cell
\* to be reconstructed is shown nowhere but where its record is passed off as another's, at a
\* position labelled corrupt.
TargetsHidden ==
  \A x \in output.masked :
    /\ x[2] \notin Protected
    /\ \A y \in Shown(input.example, output.masked, output.source) :
         y[2] = x[2] /\ output.source[y[1]] = x[1] => ~Genuine(y[1])

\* The pretraining batch after masking, corrupting and pairing have each edited it: the labels
\* of links are true of the batch as it is shown, those of pairs of the batch as it was read
\* (so of a pair with a corrupted position the label may contradict what is shown; README,
\* section 5), and targets are shown at corrupt positions only.
PretrainingSound ==
  Done("pretraining") /\ output.pairs # None => LinkLabels /\ PairLabels /\ TargetsHidden

Labelled(trips, r) == {i \in DOMAIN trips : trips[i].route_id = r /\ Label(trips[i]) # None}

\* _record_recent_outcome and delivery_delay_label (synthetic/generator.py,
\* datasets/label.py): what the generator remembers of a route is the label the dataset
\* builder gives the last trips of that route, and a trip without a label is not remembered.
HistoryMatchesLabel ==
  input.kind = "fleet" =>
    \A r \in input.routes :
      LET labelled == Labelled(output.trips, r)
          newer(i) == {j \in labelled : j > i}
          recent == output.recent[r] IN
      /\ Len(recent) = Min({RecentWindow, Cardinality(labelled)})
      /\ \A i \in labelled : Cardinality(newer(i)) < Len(recent) =>
           recent[Len(recent) - Cardinality(newer(i))] = (Label(output.trips[i]) = 1)

\* _resolve_trip_outcome: no generated outcome lies after the end of the time range.
OutcomesKnown ==
  input.kind = "fleet" =>
    \A i \in DOMAIN output.trips :
      output.trips[i].actual_arrival_at # None => output.trips[i].actual_arrival_at < input.end

\* _inject_defects (synthetic/generator.py) and run_quality_checks (datasets/quality.py):
\* once four trips are completed, the quality report of the injected trips has an issue for
\* each of the four defects of trips, if the range reaches past the present.
DefectsCaught ==
  LET bad == InjectDefects(output.trips, input.now, input.end) IN
  input.kind = "fleet" /\ bad # output.trips =>
    /\ InvalidDates(bad) > 0 /\ NegativeDistances(bad) > 0 /\ UnrecognisedStatuses(bad) > 0
    /\ input.now < input.end - 1 => FutureTimestamps(bad, input.now) > 0
    /\ ~QualityPassed(bad, input.now)

\* The generated fleet and the dataset builder agree: on labels, on what is known at the
\* end of the range, and on which rows are defective.
FleetConsistent == HistoryMatchesLabel /\ OutcomesKnown /\ DefectsCaught

\* _validate_source_columns and evaluate (mappings/validation.py, mappings/expressions.py):
\* evaluating a derived expression that passed validation never runs out of stack, and if it
\* was checked against the columns of a table it evaluates on every row of that table,
\* whatever is NULL in it.
ValidatedEvaluates ==
  input.kind = "expression" /\ Len(output) = Len(input.nodes) =>
    LET root == output[Len(output)] IN
    ValidateDerived(root, input.available) = {} =>
      /\ root.frames <= StackLimit
      /\ input.available # None => root.value # Fails

\* suggest_mapping (mappings/suggest.py): no column is suggested for two fields and no field
\* gets two columns, and every confident pair left out lost its field or its column to a pair
\* with at least its score, so a reviewer finds no better pair that was passed over.
StableSuggestion ==
  Done("suggestion") /\ output.done =>
    /\ \A p, q \in output.claimed : p # q => p.field # q.field /\ p.column # q.column
    /\ \A p \in input.pairs \ output.claimed : p.score >= MinConfidence =>
         \E q \in output.claimed : (q.field = p.field \/ q.column = p.column) /\ q.score >= p.score

\* What a reviewer approves is sound: validated expressions evaluate, and the suggestion it
\* starts from is stable.
DocumentsSound == ValidatedEvaluates /\ StableSuggestion

-----------------------------------------------------------------------------
(* The inductive invariant: what the rounds so far have computed.          *)

OneRoundInv ==
  /\ input.kind = "drift" /\ output # None =>
       \E order \in SetToSeqs(DOMAIN input.new \ DOMAIN input.old) :
         output = Schema!CompareSnapshots(input.old, input.new, order)
  /\ input.kind = "threshold" /\ output # None =>
       output = SelectThreshold(input.samples, input.strategy)
  /\ input.kind = "explanation" /\ output # None =>
       output = Explain(input.coefficient, input.value)

ContextInv ==
  input.kind = "context" /\ output # Fails =>
    /\ output = [i \in 1..Len(output) |-> output[i]] /\ Len(output) \in 0..Len(RelationSpecs)
    /\ \A i \in 1..Len(output) :
         output[i] \in RelatedAnswers(input.db, input.docs, input.row, input.time,
                                     RelationSpecs[i])

\* A pair is two records of one entity whose timestamps are shown, with its label.
PairInv(pair) ==
  LET shown == Shown(input.example, output.masked, output.source) IN
  \E e \in {input.example[s].entity : s \in Related(input.example)} :
    \E a, b \in PairCandidates(input.example, shown, e) :
      pair = <<a, b, BeforeLabel(input.example, a, b)>>

PretrainingInv ==
  input.kind = "pretraining" =>
    LET source == output.source IN
    /\ output = [masked |-> output.masked, source |-> source, pairs |-> output.pairs]
    /\ output.masked # None => output.masked \subseteq Maskable(input.example)
    /\ source = [s \in 1..Len(source) |-> source[s]] /\ Len(source) \in 1..Len(input.example)
    /\ \A s \in 1..Len(source) : source[s] \in {s} \cup Others(input.example, s)
    /\ output.pairs # None =>
         /\ output.masked # None /\ Len(source) = Len(input.example)
         /\ \A pair \in output.pairs : PairInv(pair)

\* Every trip is one the generator makes.
FleetInv ==
  input.kind = "fleet" =>
    LET trips == output.trips IN
    /\ output = [trips |-> trips, recent |-> output.recent]
    /\ trips = [i \in 1..Len(trips) |-> trips[i]] /\ Len(trips) \in Nat
    /\ \A i \in 1..Len(trips) : \E draw \in Draws : trips[i] = Trip(draw, i, input.end)
    /\ output.recent \in [input.routes -> Seq(BOOLEAN)]
    /\ HistoryMatchesLabel

\* evaluate() comes no deeper than the expression is, and raises only where a column is
\* missing or the expression is too deep.
EntryInv(entry) ==
  /\ entry.height \in Nat /\ entry.frames \in Nat /\ entry.frames <= entry.height
  /\ entry.columns \subseteq DOMAIN input.row /\ entry.height <= MaxDepth => entry.value # Fails

ExpressionInv ==
  input.kind = "expression" =>
    /\ output = [n \in 1..Len(output) |-> output[n]] /\ Len(output) \in 0..Len(input.nodes)
    /\ \A n \in 1..Len(output) : EntryInv(output[n])

\* The pairs seen are the strongest, and each is claimed or lost to one claimed before it.
SuggestionInv ==
  input.kind = "suggestion" /\ output # Fails =>
    LET left == input.pairs \ output.seen IN
    /\ output = [seen |-> output.seen, claimed |-> output.claimed, done |-> output.done]
    /\ output.claimed \subseteq output.seen /\ output.seen \subseteq input.pairs
    /\ \A p, q \in output.claimed : p # q => p.field # q.field /\ p.column # q.column
    /\ \A p \in output.seen :
         /\ \E q \in output.claimed :
              (q.field = p.field \/ q.column = p.column) /\ q.score >= p.score
         /\ \A q \in left : p.score >= q.score
    /\ output.done => \A q \in left : q.score < MinConfidence

RulesInv ==
  /\ input \in Inputs /\ OneRoundInv /\ ContextInv /\ PretrainingInv
  /\ FleetInv /\ ExpressionInv /\ SuggestionInv
=============================================================================
