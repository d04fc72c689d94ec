--------------------------- MODULE MappingLifecycle ---------------------------
(***************************************************************************)
(* The schema mappings of the control plane: the SchemaMapping row, its    *)
(* numbered MappingVersions, and the operations of MappingService inside   *)
(* their API handlers.                                                     *)
(*                                                                         *)
(* An operation reads the mapping, checks its state, reads the versions,   *)
(* writes and commits, and other operations run between these steps.  Only *)
(* SchemaMapping has a version counter; MappingVersion has a unique number *)
(* per mapping.  A write that changes nothing sends no UPDATE, so it is    *)
(* not checked against the version counter either.                         *)
(***************************************************************************)
EXTENDS Naturals, FiniteSets

CONSTANTS
  Maps,       \* mapping ids of one tenant
  Reqs,       \* slots for requests in flight
  Entities,   \* ontology entities
  Sources,    \* customer database connections
  Tables,     \* qualified table names
  None,       \* the absent value
  MaxNumber,  \* bound: version numbers of a mapping
  MaxVersion  \* bound: no request starts on a row past this version

ASSUME NoneAssumption == None \notin Maps \cup Reqs \cup Entities \cup Sources \cup Tables
ASSUME BoundAssumption == MaxNumber \in Nat \ {0} /\ MaxVersion \in Nat

VARIABLES
  map,        \* map[m]: the committed SchemaMapping
  vers,       \* vers[m][n]: the committed MappingVersion number n of m
  req,        \* req[r]: the request in slot r
  validated   \* history: validated[m], the versions a committed submission validated

vars == <<map, vers, req, validated>>

States == {"draft", "pending_validation", "approved", "active", "deprecated", "rejected"}
Ops == {"new_version", "submit", "approve", "activate", "deprecate", "reject", "drift"}
Numbers == 1..MaxNumber

\* A document is abstracted to its source table and whether it satisfies
\* validate_mapping_document for its entity and snapshot.
Docs == [table : Tables, valid : BOOLEAN]
Versions == [doc : Docs, approved : BOOLEAN]
ASSUME VersionAssumption == None \notin Versions

NoRow == [state |-> "none", active |-> 0, suspended |-> FALSE, version |-> 0,
          entity |-> None, source |-> None]
Rows == {NoRow} \cup [state : States, active : 0..MaxNumber, suspended : BOOLEAN,
                      version : Nat \ {0}, entity : Entities, source : Sources]

Requests == [op : Ops \cup {"none"}, pc : {"idle", "latest", "insert", "flush", "commit"},
             map : Maps \cup {None},       \* the mapping of every operation but drift
             read : [Maps -> Rows],        \* the rows the session has read
             num : 0..MaxNumber,           \* the version it inserts or takes as latest
             doc : Docs \cup {None},       \* the document of a new version
             source : Sources \cup {None}, \* the connection that drifted
             todo : SUBSET Maps,           \* mappings still to be written
             written : SUBSET Maps]        \* rows it has updated and not committed
Idle == [op |-> "none", pc |-> "idle", map |-> None, read |-> [m \in Maps |-> NoRow],
         num |-> 0, doc |-> None, source |-> None, todo |-> {}, written |-> {}]

TypeOK ==
  /\ map \in [Maps -> Rows]
  /\ vers \in [Maps -> [Numbers -> Versions \cup {None}]]
  /\ req \in [Reqs -> Requests]
  /\ validated \in [Maps -> SUBSET Numbers]

Init ==
  /\ map = [m \in Maps |-> NoRow]
  /\ vers = [m \in Maps |-> [n \in Numbers |-> None]]
  /\ req = [r \in Reqs |-> Idle]
  /\ validated = [m \in Maps |-> {}]

Exists(m, n) == n \in Numbers /\ vers[m][n] # None
Ended(r) == req' = [req EXCEPT ![r] = Idle]

-----------------------------------------------------------------------------

\* create_draft inserts a mapping and its first version and reads nothing.
CreateDraft(m, entity, source, doc) ==
  /\ map[m] = NoRow
  /\ map' = [map EXCEPT ![m] = [state |-> "draft", active |-> 0, suspended |-> FALSE,
                                version |-> 1, entity |-> entity, source |-> source]]
  /\ vers' = [vers EXCEPT ![m][1] = [doc |-> doc, approved |-> FALSE]]
  /\ UNCHANGED <<req, validated>>

\* Mutant: activate accepts a mapping nobody has approved.
AdmitsUnapproved(op, m) ==
  CASE op = "new_version" -> map[m].state \in States
    [] op = "submit" -> map[m].state = "draft"
    [] op = "approve" -> map[m].state = "pending_validation"
    [] op = "activate" -> map[m].state \in {"draft", "pending_validation", "approved"}
    [] op = "deprecate" -> map[m].state = "active"
    [] op = "reject" -> map[m].state \in {"draft", "pending_validation"}

\* The state each operation requires of the mapping it has read.
Admits(op, m) ==
  CASE op = "new_version" -> map[m].state \in States
    [] op = "submit" -> map[m].state = "draft"
    [] op = "approve" -> map[m].state = "pending_validation"
    [] op = "activate" -> map[m].state = "approved"
    [] op = "deprecate" -> map[m].state = "active"
    [] op = "reject" -> map[m].state \in {"draft", "pending_validation"}

\* An operation on one mapping begins: it reads the row and checks the state.
\* A refused request changes nothing.
Begin(r, op, m, doc) ==
  /\ req[r].pc = "idle"
  /\ op # "drift" /\ Admits(op, m)
  /\ map[m].version <= MaxVersion
  /\ req' = [req EXCEPT ![r] =
       [Idle EXCEPT !.op = op, !.map = m, !.todo = {m}, !.doc = doc,
                    !.read = [Idle.read EXCEPT ![m] = map[m]],
                    !.pc = IF op \in {"deprecate", "reject"} THEN "flush" ELSE "latest"]]
  /\ UNCHANGED <<map, vers, validated>>

\* The active mappings of the tenant whose source table has drifted.
Affected(tables) ==
  {m \in Maps : /\ map[m].state = "active"
                /\ Exists(m, map[m].active)
                /\ vers[m][map[m].active].doc.table \in tables}

\* suspend_affected_by_drift for a snapshot of a connection: it lists the
\* mappings of the tenant; versions never change, so what the loop reads of
\* them later is what they are now.
BeginDrift(r, source, tables) ==
  /\ req[r].pc = "idle"
  /\ Affected(tables) # {}
  /\ \A m \in Maps : map[m].version <= MaxVersion
  /\ req' = [req EXCEPT ![r] =
       [Idle EXCEPT !.op = "drift", !.pc = "flush", !.source = source,
                    !.read = map, !.todo = Affected(tables)]]
  /\ UNCHANGED <<map, vers, validated>>

\* Mutant: the first version is taken for the latest.
LatestIsFirst(m, n) == Exists(m, n) /\ \A k \in Numbers : Exists(m, k) => n <= k

\* n is the highest committed version number of m.
Latest(m, n) == Exists(m, n) /\ \A k \in Numbers : Exists(m, k) => k <= n

\* _latest_version_for, or the next number for a new version.
ReadVersions(r, n) ==
  LET q == req[r] IN
  /\ q.pc = "latest"
  /\ Latest(q.map, n)
  /\ IF q.op = "new_version"
     THEN /\ n < MaxNumber
          /\ req' = [req EXCEPT ![r].num = n + 1, ![r].pc = "insert"]
     ELSE IF q.op = "submit" /\ ~vers[q.map][n].doc.valid
     THEN Ended(r)                                    \* MappingValidationError
     ELSE req' = [req EXCEPT ![r].num = n, ![r].pc = "flush"]
  /\ UNCHANGED <<map, vers, validated>>

\* Whether another transaction has inserted the same number and is undecided.
InsertPending(q) ==
  \E o \in Reqs : /\ req[o].op = "new_version" /\ req[o].map = q.map
                  /\ req[o].num = q.num /\ req[o].pc \in {"flush", "commit"}

\* The INSERT of the new version: the unique index makes it wait for an
\* undecided insert of the same number, and refuses a committed one.
Insert(r) ==
  LET q == req[r] IN
  /\ q.pc = "insert"
  /\ ~InsertPending(q)
  /\ IF Exists(q.map, q.num) THEN Ended(r)            \* IntegrityError
     ELSE req' = [req EXCEPT ![r].pc = "flush"]
  /\ UNCHANGED <<map, vers, validated>>

-----------------------------------------------------------------------------

\* The row as the operation leaves it in its session.
NewRow(q, m) ==
  CASE q.op = "new_version" -> [q.read[m] EXCEPT !.state = "draft"]
    [] q.op = "submit" -> [q.read[m] EXCEPT !.state = "pending_validation"]
    [] q.op = "approve" -> [q.read[m] EXCEPT !.state = "approved"]
    [] q.op = "activate" ->
         [q.read[m] EXCEPT !.state = "active", !.active = q.num, !.suspended = FALSE]
    [] q.op = "deprecate" -> [q.read[m] EXCEPT !.state = "deprecated"]
    [] q.op = "reject" -> [q.read[m] EXCEPT !.state = "rejected"]
    [] OTHER -> [q.read[m] EXCEPT !.suspended = TRUE]

Dirty(q, m) == NewRow(q, m) # q.read[m]

\* The row the session has read is still the committed one.
VersionMatches(q, m) == map[m].version = q.read[m].version

\* The UPDATE of one mapping when audit.record flushes the session.  It waits
\* for a row another transaction has updated.
Flush(r, m) ==
  LET q == req[r] IN
  /\ q.pc = "flush" /\ m \in q.todo
  /\ Dirty(q, m) => \A o \in Reqs : m \notin req[o].written
  /\ IF Dirty(q, m) /\ ~VersionMatches(q, m)
     THEN Ended(r)                                    \* StaleDataError
     ELSE req' = [req EXCEPT
            ![r].todo = @ \ {m},
            ![r].written = IF Dirty(q, m) THEN @ \cup {m} ELSE @,
            ![r].pc = IF q.todo = {m} THEN "commit" ELSE @]
  /\ UNCHANGED <<map, vers, validated>>

\* The version row the transaction inserts or updates.
NewVersion(q, n) ==
  CASE q.op = "new_version" /\ n = q.num -> [doc |-> q.doc, approved |-> FALSE]
    [] q.op = "approve" /\ n = q.num -> [vers[q.map][n] EXCEPT !.approved = TRUE]
    [] OTHER -> vers[q.map][n]

\* session.commit in the handler.
Commit(r) ==
  LET q == req[r] IN
  /\ q.pc = "commit"
  /\ map' = [m \in Maps |-> IF m \in q.written
                            THEN [NewRow(q, m) EXCEPT !.version = q.read[m].version + 1]
                            ELSE map[m]]
  /\ vers' = [m \in Maps |-> IF m = q.map THEN [n \in Numbers |-> NewVersion(q, n)]
                             ELSE vers[m]]
  /\ validated' = [m \in Maps |-> IF m = q.map /\ q.op = "submit"
                                  THEN validated[m] \cup {q.num} ELSE validated[m]]
  /\ Ended(r)

\* An exception, a cancelled request or a crash: the session rolls back.
Abort(r) ==
  /\ req[r].pc # "idle"
  /\ Ended(r)
  /\ UNCHANGED <<map, vers, validated>>

Next ==
  \/ \E m \in Maps, e \in Entities, s \in Sources, d \in Docs : CreateDraft(m, e, s, d)
  \/ \E r \in Reqs :
       \/ \E m \in Maps :
            \/ \E d \in Docs : Begin(r, "new_version", m, d)
            \/ \E op \in Ops \ {"new_version", "drift"} : Begin(r, op, m, None)
       \/ \E s \in Sources, T \in SUBSET Tables : BeginDrift(r, s, T)
       \/ \E n \in Numbers : ReadVersions(r, n)
       \/ Insert(r)
       \/ \E m \in Maps : Flush(r, m)
       \/ Commit(r)
       \/ Abort(r)

Spec == Init /\ [][Next]_vars

-----------------------------------------------------------------------------
(***************************************************************************)
(* Safety.                                                                 *)
(***************************************************************************)

\* get_production_version: the mappings feature extraction may use.
Production(m) ==
  /\ map[m].state = "active" /\ map[m].active # 0 /\ ~map[m].suspended

\* A mapping in production points at a version that exists, some version of it
\* has passed validation and some version has been approved.
ProductionEvidence ==
  \A m \in Maps : map[m].state = "active" =>
    /\ Exists(m, map[m].active)
    /\ validated[m] # {}
    /\ \E n \in Numbers : Exists(m, n) /\ vers[m][n].approved

\* A stored version keeps its document for ever, also when two revisions of a
\* mapping are created at the same time.
VersionsImmutable ==
  [][\A m \in Maps, n \in Numbers :
       Exists(m, n) => vers'[m][n] # None /\ vers'[m][n].doc = vers[m][n].doc]_vars

Edges ==
  {<<"none", "draft">>, <<"draft", "pending_validation">>,
   <<"pending_validation", "approved">>, <<"approved", "active">>,
   <<"active", "deprecated">>, <<"draft", "rejected">>,
   <<"pending_validation", "rejected">>} \cup {<<s, "draft">> : s \in States}

\* However requests interleave, a mapping moves along the edges of the
\* lifecycle: no operation takes effect on a state it does not accept.
LifecycleEdges ==
  [][\A m \in Maps : map'[m].state # map[m].state =>
       <<map[m].state, map'[m].state>> \in Edges]_vars

\* A suspension ends only by the activation of a version newer than the one
\* that drifted: no rejection, deprecation, retry or late commit clears it, and
\* the drifted version is never put back in production by activate.
SuspensionOutlastsVersion ==
  [][\A m \in Maps : map[m].suspended /\ ~map'[m].suspended =>
       map'[m].state = "active" /\ map'[m].active > map[m].active]_vars

-----------------------------------------------------------------------------
(***************************************************************************)
(* The inductive invariant behind the safety properties.                   *)
(***************************************************************************)

\* The states in which an operation has read the mappings it writes.
ReadStates(op) ==
  CASE op = "new_version" -> States
    [] op = "submit" -> {"draft"}
    [] op = "approve" -> {"pending_validation"}
    [] op = "activate" -> {"approved"}
    [] op = "reject" -> {"draft", "pending_validation"}
    [] OTHER -> {"active"}

\* A request is where its operation can be, and has written what it must.
Shape(q) ==
  /\ q.pc = "idle" => q = Idle
  /\ q.pc # "idle" => q.op \in Ops
  /\ q.pc # "idle" /\ q.op # "drift" => q.map \in Maps /\ q.todo \cup q.written \subseteq {q.map}
  /\ q.op = "drift" => q.map = None /\ q.pc \in {"flush", "commit"}
  /\ q.op \in {"deprecate", "reject"} => q.pc \in {"flush", "commit"}
  /\ q.pc = "insert" => q.op = "new_version"
  /\ \A m \in q.todo \cup q.written :
       q.read[m] # NoRow /\ q.read[m].state \in ReadStates(q.op)
  /\ q.op = "new_version" => q.doc \in Docs
  /\ q.pc \in {"latest", "insert"} => q.todo = {q.map} /\ q.written = {}
  /\ q.pc = "commit" /\ q.op \notin {"drift", "new_version"} => q.written = {q.map}
  /\ q.pc = "commit" /\ q.op = "new_version" /\ q.written = {} =>
       q.read[q.map] # NoRow /\ q.read[q.map].state = "draft"

\* The version counter tells whether a row that was read is the committed one,
\* and an uncommitted write keeps it so.
Current(q) ==
  \A m \in Maps :
    /\ q.read[m] # NoRow =>
         /\ q.read[m].version <= map[m].version
         /\ q.read[m].version = map[m].version => q.read[m] = map[m]
    /\ m \in q.written => q.read[m] = map[m]

\* The new version is in the table and not committed.
Inserted(q) == q.op = "new_version" /\ q.pc \in {"flush", "commit"}

\* What a request knows of the version it inserts or has taken as latest.
Numbered(q) ==
  /\ q.pc \in {"flush", "commit"} /\ q.op \in {"submit", "approve", "activate"} =>
       Exists(q.map, q.num)
  /\ q.op = "new_version" /\ q.pc # "latest" =>
       q.num \in Numbers /\ Exists(q.map, q.num - 1)
  /\ Inserted(q) => ~Exists(q.map, q.num)
  /\ q.op = "activate" =>
       \E n \in Numbers : Exists(q.map, n) /\ n > q.read[q.map].active
  /\ q.op = "activate" /\ q.pc # "latest" => q.num > q.read[q.map].active

\* No two transactions have written the same row or inserted the same number.
Exclusive ==
  \A r, o \in Reqs : r # o =>
    /\ req[r].written \cap req[o].written = {}
    /\ ~(/\ Inserted(req[r]) /\ Inserted(req[o])
         /\ req[r].map = req[o].map /\ req[r].num = req[o].num)

\* Version numbers have no gaps; a mapping on its way to activation has a
\* version newer than the active one; each state has the evidence it needs.
RowInv(m) ==
  /\ \A j, k \in Numbers : Exists(m, k) /\ j <= k => Exists(m, j)
  /\ map[m] = NoRow => \A k \in Numbers : ~Exists(m, k)
  /\ map[m].state \in {"draft", "pending_validation", "approved", "rejected"} =>
       \E n \in Numbers : Exists(m, n) /\ n > map[m].active
  /\ map[m].state \in {"active", "deprecated"} => Exists(m, map[m].active)
  /\ map[m].state \in {"pending_validation", "approved", "active"} => validated[m] # {}
  /\ map[m].state \in {"approved", "active"} =>
       \E n \in Numbers : Exists(m, n) /\ vers[m][n].approved

RequestsInv == \A r \in Reqs : Shape(req[r]) /\ Current(req[r]) /\ Numbered(req[r])

IInv == TypeOK /\ RequestsInv /\ Exclusive /\ \A m \in Maps : RowInv(m)

-----------------------------------------------------------------------------
(***************************************************************************)
(* What the documentation says and the code does not do.                   *)
(***************************************************************************)

\* create_new_version: the active version stays production-usable until the
\* new one is activated.  The code resets the state that Production tests.
NewVersionKeepsProduction ==
  [][\A m \in Maps : Production(m) /\ vers'[m] # vers[m] => Production(m)']_vars

\* MappingService: only a validated and approved version is activated.
\* create_new_version on a draft is not version-checked, so it can slip a
\* version in behind a submission or an approval, and activate takes the latest.
ProductionApproved ==
  \A m \in Maps : Production(m) =>
    map[m].active \in validated[m] /\ vers[m][map[m].active].approved

\* suspend_affected_by_drift: suspends mappings for this connection.  The code
\* compares table names of all the tenant's mappings.
DriftOfOwnSource ==
  [][\A m \in Maps : ~map[m].suspended /\ map'[m].suspended =>
       \E r \in Reqs : req[r].pc = "commit" /\ req[r].source = map[m].source]_vars

\* get_active_by_entity_name: the mapping feature extraction resolves per
\* ontology entity.  Nothing keeps a second mapping from being activated.
OneActivePerEntity ==
  \A m, o \in Maps : map[m].state = "active" /\ map[o].state = "active"
                       /\ map[m].entity = map[o].entity => m = o

=============================================================================
