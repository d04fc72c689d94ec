------------------------------ MODULE SchemaRules ------------------------------
(***************************************************************************)
(* The pure rules about customer schemas: table fingerprints and the       *)
(* comparison of two snapshots.                                            *)
(*                                                                         *)
(* A snapshot gives each qualified table name its columns (records of a    *)
(* name, a type and a nullability), its foreign keys and its other         *)
(* constraints.  A hash is its input.                                      *)
(***************************************************************************)
EXTENDS Integers, FiniteSets, FiniteSetsExt, Common

CONSTANT RenamePercent   \* _RENAME_SIMILARITY_THRESHOLD

-----------------------------------------------------------------------------
(* Fingerprints and drift.                                                 *)

\* Mutant: nullability is not part of a column's fingerprint.
FingerprintTypes(table) ==
  [columns |-> {[name |-> c.name, type |-> c.type] : c \in table.columns},
   others |-> table.others,
   relationships |-> {[columns |-> k.columns, table |-> k.table, referenced |-> k.referenced] :
                        k \in table.keys}]

\* fingerprint_table: the names of foreign keys are not part of it.  The code hashes sorted
\* lists; as sets they lose only how often an equal foreign key or constraint is declared.
FingerprintTable(table) ==
  [columns |-> table.columns, others |-> table.others,
   relationships |-> {[columns |-> k.columns, table |-> k.table, referenced |-> k.referenced] :
                        k \in table.keys}]

\* compute_fingerprints: those of the tables.  The fingerprint of the schema is the hash of
\* these and of the names of the schemas, and has no state of its own here.
ComputeFingerprints(snapshot) ==
  [name \in DOMAIN snapshot |-> FingerprintTable(snapshot[name])]

\* _relationship_signature: here they are, and the referenced columns are not.
RelationshipSignature(table) ==
  {<<k.constraint, k.columns, k.table>> : k \in table.keys}

Overlap(removed, added) == Cardinality(removed.columns \cap added.columns)
Wider(removed, added) == Max({Cardinality(removed.columns), Cardinality(added.columns)})

\* _likely_rename_target: of the added tables that are similar enough the most similar, and
\* the first of these in order, which is the order of a Python set.
RenameTarget(removed, new, order) ==
  LET table(i) == new[order[i]]
      fits == {i \in DOMAIN order :
                 /\ removed.columns # {} /\ table(i).columns # {}
                 /\ Overlap(removed, table(i)) * 100
                      >= RenamePercent * Wider(removed, table(i))}
      asClose(i, j) == Overlap(removed, table(i)) * Wider(removed, table(j))
                         >= Overlap(removed, table(j)) * Wider(removed, table(i))
      best == {i \in fits : \A j \in fits : asClose(i, j)}
  IN IF fits = {} THEN None ELSE order[Min(best)]

Event(type, table) == [type |-> type, table |-> table]

\* Mutant: a changed nullability goes unreported.
ColumnChangesOfType(old, new) ==
  {Event("column_type_changed", c.name) : c \in {c \in old : \E d \in new :
     d.name = c.name /\ d.type # c.type}}

\* The changes of the columns both tables have.
ColumnChanges(old, new) ==
  {Event("column_type_changed", c.name) : c \in {c \in old : \E d \in new :
     d.name = c.name /\ d.type # c.type}}
  \cup {Event("column_nullability_changed", c.name) : c \in {c \in old : \E d \in new :
     d.name = c.name /\ d.nullable # c.nullable}}

Names(columns) == {c.name : c \in columns}

\* The events of a table both snapshots have.
TableEvents(name, old, new) ==
  {Event("column_added", name) : c \in Names(new.columns) \ Names(old.columns)}
  \cup {Event("column_removed", name) : c \in Names(old.columns) \ Names(new.columns)}
  \cup {Event(e.type, name) : e \in ColumnChanges(old.columns, new.columns)}
  \cup IF RelationshipSignature(old) # RelationshipSignature(new)
       THEN {Event("relationship_changed", name)} ELSE {}

\* compare_snapshots, with the order in which the set of added tables is walked.
CompareSnapshots(old, new, order) ==
  LET removed == DOMAIN old \ DOMAIN new
      added == DOMAIN new \ DOMAIN old
      target(name) == RenameTarget(old[name], new, order)
      renamed == {name \in removed : target(name) # None}
  IN {Event("table_renamed_likely", name) : name \in renamed}
     \cup {Event("table_removed", name) : name \in removed \ renamed}
     \cup {Event("table_added", name) : name \in added \ {target(n) : n \in renamed}}
     \cup UNION {TableEvents(name, old[name], new[name]) :
                   name \in DOMAIN old \cap DOMAIN new}
===============================================================================
