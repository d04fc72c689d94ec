------------------------------ MODULE MappingRules ------------------------------
(***************************************************************************)
(* The pure rules about mapping documents: the validation and the          *)
(* evaluation of derived expressions, and the greedy mapping suggestion.   *)
(* Scores are in hundredths.  Fails is an exception that is raised.        *)
(***************************************************************************)
EXTENDS Integers, FiniteSets, FiniteSetsExt, Sequences, Common

CONSTANTS
  Fails,
  MaxDepth,        \* _MAX_EXPRESSION_DEPTH
  StackLimit,      \* the nesting at which evaluate() raises RecursionError
  MinConfidence    \* _MIN_CONFIDENCE

\* 20 levels are far from the recursion limit of Python.
ASSUME DocumentAssumption ==
  /\ MaxDepth \in Nat /\ StackLimit \in Nat /\ MaxDepth <= StackLimit
  /\ MinConfidence \in Int
  /\ Fails \notin {None, "joined", "TEXT"}

-----------------------------------------------------------------------------
(* Expressions.  A tree is the table of its nodes, each after its operands *)
(* and the root last; parts are the positions of the operands.  A value is *)
(* None, a number or a string; what the string functions make of a string  *)
(* is again a string.  The three recursive functions of the code fill one  *)
(* entry of the node: what they answer for the tree below it.              *)

Operands(node, entries) == {entries[node.parts[i]] : i \in DOMAIN node.parts}

\* Mutant: the fallback of an if_null is not looked at.
HeightWithoutDefault(node, entries) ==
  1 + Max({0} \cup {entries[node.parts[i]].height :
                      i \in IF node.kind = "if_null" THEN {1} ELSE DOMAIN node.parts})

\* check_expression_depth: the levels of the tree.
Height(node, entries) == 1 + Max({0} \cup {e.height : e \in Operands(node, entries)})

\* Mutant: the fallback of an if_null is not looked at.
ReferencedWithoutDefault(node, entries) ==
  CASE node.kind = "column" -> {node.column}
    [] node.kind = "if_null" -> entries[node.parts[1]].columns
    [] OTHER -> UNION {e.columns : e \in Operands(node, entries)}

\* referenced_columns
ReferencedColumns(node, entries) ==
  IF node.kind = "column" THEN {node.column}
  ELSE UNION {e.columns : e \in Operands(node, entries)}

\* The operands evaluate() comes to: a coalesce and an if_null stop at the first value.
Reached(node, entries) ==
  {i \in DOMAIN node.parts :
     node.kind \in {"coalesce", "if_null"} =>
       \A j \in DOMAIN node.parts : j < i => entries[node.parts[j]].value = None}

\* The frames evaluate() needs.
Frames(node, entries) ==
  1 + Max({0} \cup {entries[node.parts[i]].frames : i \in Reached(node, entries)})

\* evaluate.  A concat joins even nulls to a string; a coalesce and an if_null may not reach
\* a bad reference.
Evaluate(node, entries, row) ==
  LET value(i) == entries[node.parts[i]].value
      stops == {i \in DOMAIN node.parts : value(i) # None}
  IN CASE Frames(node, entries) > StackLimit -> Fails
       [] node.kind = "column" -> IF node.column \in DOMAIN row THEN row[node.column] ELSE Fails
       [] node.kind = "literal" -> node.value
       [] node.kind = "concat" -> IF \E i \in DOMAIN node.parts : value(i) = Fails
                                  THEN Fails ELSE "joined"
       [] node.kind \in {"coalesce", "if_null"} ->
            IF stops = {} THEN None ELSE value(Min(stops))
       [] node.kind = "upper" -> IF value(1) = "text" THEN "TEXT" ELSE value(1)

Entry(node, entries, row) ==
  [height |-> Height(node, entries), columns |-> ReferencedColumns(node, entries),
   frames |-> Frames(node, entries), value |-> Evaluate(node, entries, row)]

\* Mutant: without a snapshot nothing is checked.
ValidateDerivedLate(entry, available) ==
  IF available = None THEN {}
  ELSE IF entry.height > MaxDepth THEN {"too deep"}
  ELSE entry.columns \ available

\* _validate_source_columns of a derived source; available is None when no snapshot is
\* at hand.
ValidateDerived(entry, available) ==
  IF entry.height > MaxDepth THEN {"too deep"}
  ELSE IF available = None THEN {}
  ELSE entry.columns \ available

-----------------------------------------------------------------------------
(* Suggestions.                                                            *)

\* _score_column: name similarity counts half, a compatible type 0.3, the primary key of an
\* identifier 0.1 and a comment that mentions the field 0.1; a profile that looks unique adds
\* 0.05 to an identifier and one that is mostly null costs a required field 0.1.
ScoreColumn(field, column, similarity, compatible) ==
  Min({100, similarity \div 2
            + (IF compatible THEN 30 ELSE 0)
            + (IF field.identifier /\ column.primary THEN 10 ELSE 0)
            + (IF field.name \in column.mentioned THEN 10 ELSE 0)
            + (IF field.identifier /\ column.profile = "unique" THEN 5 ELSE 0)
            - (IF field.required /\ column.profile = "null" THEN 10 ELSE 0)})

\* Mutant: one field after the other, each with its columns by score.
PrecedesByField(p, q) ==
  \/ p.field < q.field
  \/ p.field = q.field /\ (p.score > q.score \/ (p.score = q.score /\ p.column < q.column))

\* Pairs are walked by descending score; equal scores keep the order of fields, then columns.
Precedes(p, q) ==
  \/ p.score > q.score
  \/ p.score = q.score /\ (p.field < q.field \/ (p.field = q.field /\ p.column < q.column))

Strongest(pairs) == CHOOSE p \in pairs : \A q \in pairs : ~Precedes(q, p)

\* Mutant: only the field is looked up.
TakenField(pair, claimed) == \E q \in claimed : q.field = pair.field

\* used_fields and used_columns
Taken(pair, claimed) == \E q \in claimed : q.field = pair.field \/ q.column = pair.column
=============================================================================
