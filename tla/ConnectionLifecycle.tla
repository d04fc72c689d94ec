------------------------- MODULE ConnectionLifecycle -------------------------
(***************************************************************************)
(* The customer-database connections of the control plane: the row of a    *)
(* connection and of its credential reference in PostgreSQL, the secret in *)
(* the secret provider, and the per-process registry of engine pools.      *)
(*                                                                         *)
(* A request is an instance of one of ConnectionLifecycleManager's         *)
(* operations inside an API handler.  It is split into one step per await  *)
(* at which another request can run: the read of the row, each call of the *)
(* secret provider, each call of the pool registry, the flush of the       *)
(* version-checked UPDATE or DELETE, and the commit.  Steps write to three *)
(* stores that no transaction spans, which is where the hazards are.       *)
(*                                                                         *)
(* PostgreSQL runs at READ COMMITTED: a flushed row stays locked until the *)
(* commit, a second flush of the row waits, and then fails the version     *)
(* check (SQLAlchemy's version_id_col raises StaleDataError).              *)
(*                                                                         *)
(* The secret provider is what the SecretProvider protocol describes: one  *)
(* store that all processes reach and that survives them.  The only        *)
(* implementation so far, LocalDevSecretProvider, is a dictionary of its   *)
(* process, whose secrets a restart loses (secrets/provider.py:41).        *)
(***************************************************************************)
EXTENDS Naturals, FiniteSets

CONSTANTS
  Conns,      \* connection ids; each stands for a (tenant_id, connection_id)
  Procs,      \* API processes, each with its own pool registry
  Reqs,       \* slots for requests in flight
  Refs,       \* reference keys the secret provider can hand out
  None,       \* the absent value
  MaxVersion  \* bound: no request starts on a row past this version

ASSUME NoneAssumption == None \notin Conns \cup Procs \cup Reqs \cup Refs
ASSUME BoundAssumption == MaxVersion \in Nat

VARIABLES
  row,      \* row[c]: the committed CustomerDatabaseConnection
  cred,     \* cred[s]: the committed DatabaseCredentialReference with key s
  secret,   \* secret[s]: the secret provider's entry for key s
  pool,     \* pool[p][c]: the key whose password process p's engine was built with
  req,      \* req[r]: the request in slot r
  lock,     \* lock[c]: the request whose uncommitted write holds the row
  owner,    \* history: the connection a secret was stored for
  proven    \* history: connections with a committed successful validation

vars == <<row, cred, secret, pool, req, lock, owner, proven>>

Statuses == {"pending_validation", "active", "disabled", "error"}
Ops == {"register", "validate", "enable", "disable", "rotate", "delete", "use"}
Steps == {"store", "resolve", "pool", "using", "evict", "erase", "flush", "commit"}

\* "none" is a row not inserted yet, "gone" a deleted one.
NoRow == [status |-> "none", cred |-> None, validated |-> FALSE, version |-> 0]
Rows == {NoRow} \cup [status : Statuses \cup {"gone"}, cred : Refs,
                      validated : BOOLEAN, version : Nat \ {0}]

Live(c) == row[c].status \in Statuses

Requests == [op : Ops \cup {"none"}, pc : Steps \cup {"idle"},
             conn : Conns \cup {None}, proc : Procs \cup {None},
             snap : Rows, ref : Refs \cup {None}, new : Rows]
Idle == [op |-> "none", pc |-> "idle", conn |-> None, proc |-> None,
         snap |-> NoRow, ref |-> None, new |-> NoRow]

TypeOK ==
  /\ row \in [Conns -> Rows]
  /\ cred \in [Refs -> {"absent", "active", "rotated"}]
  /\ secret \in [Refs -> {"unused", "stored", "deleted"}]
  /\ pool \in [Procs -> [Conns -> Refs \cup {None}]]
  /\ req \in [Reqs -> Requests]
  /\ lock \in [Conns -> Reqs \cup {None}]
  /\ owner \in [Refs -> Conns \cup {None}]
  /\ proven \in SUBSET Conns

Init ==
  /\ row = [c \in Conns |-> NoRow]
  /\ cred = [s \in Refs |-> "absent"]
  /\ secret = [s \in Refs |-> "unused"]
  /\ pool = [p \in Procs |-> [c \in Conns |-> None]]
  /\ req = [r \in Reqs |-> Idle]
  /\ lock = [c \in Conns |-> None]
  /\ owner = [s \in Refs |-> None]
  /\ proven = {}

-----------------------------------------------------------------------------
(***************************************************************************)
(* A request begins: the handler reads the committed row and applies the   *)
(* operation's early returns.  A refused request changes nothing, so it is *)
(* not a step.                                                             *)
(***************************************************************************)

\* register_connection inserts a row under a fresh id, so nothing is read.
FreshId(c) ==
  /\ row[c].status = "none"
  /\ \A q \in Reqs : req[q].conn # c

\* Mutant: enable_connection without its last_validated_at check.
AdmitsUnvalidated(op, c) ==
  CASE op = "register" -> FreshId(c)
    [] op = "use" -> Live(c) /\ row[c].status # "disabled"
    [] OTHER -> Live(c)

\* The guard of each operation on the row it has read.
Admits(op, c) ==
  CASE op = "register" -> FreshId(c)
    [] op = "enable" -> Live(c) /\ row[c].validated
    [] op = "use" -> Live(c) /\ row[c].status # "disabled"
    [] OTHER -> Live(c)

\* The first await after the read.
FirstStep(op) ==
  CASE op \in {"register", "rotate"} -> "store"
    [] op \in {"validate", "use"} -> "resolve"
    [] op \in {"disable", "delete"} -> "evict"
    [] op = "enable" -> "flush"

\* Bound: a request that stores a secret starts only if a key is left for it.
KeyLeft(op) ==
  op \in {"register", "rotate"} =>
    Cardinality({q \in Reqs : req[q].pc = "store"})
      < Cardinality({s \in Refs : secret[s] = "unused"})

Begin(r, op, c, p) ==
  /\ req[r].pc = "idle"
  /\ Admits(op, c)
  /\ row[c].version <= MaxVersion /\ KeyLeft(op)
  /\ req' = [req EXCEPT ![r] =
       [op |-> op, pc |-> FirstStep(op), conn |-> c, proc |-> p,
        snap |-> row[c], ref |-> None, new |-> row[c]]]
  /\ UNCHANGED <<row, cred, secret, pool, lock, owner, proven>>

\* What a request that ends leaves behind: no locks and a free slot.
Released(S) == [c \in Conns |-> IF lock[c] \in S THEN None ELSE lock[c]]
Ended(S) == [q \in Reqs |-> IF q \in S THEN Idle ELSE req[q]]

-----------------------------------------------------------------------------
(***************************************************************************)
(* Calls of the secret provider.                                           *)
(***************************************************************************)

\* SecretProvider.store under a new reference key.
Store(r, s) ==
  /\ req[r].pc = "store"
  /\ secret[s] = "unused"
  /\ secret' = [secret EXCEPT ![s] = "stored"]
  /\ owner' = [owner EXCEPT ![s] = req[r].conn]
  /\ req' = [req EXCEPT ![r].ref = s,
       ![r].pc = IF req[r].op = "register" THEN "commit" ELSE "evict"]
  /\ UNCHANGED <<row, cred, pool, lock, proven>>

\* Mutant: a missing secret is waited for instead of raised.
ResolveWaits(r) ==
  /\ req[r].pc = "resolve" /\ secret[req[r].snap.cred] = "stored"
  /\ req' = [req EXCEPT ![r].pc = "pool"]
  /\ UNCHANGED <<row, cred, secret, pool, lock, owner, proven>>

\* _resolve_target: the password of the credential the request has read.
Resolve(r) ==
  /\ req[r].pc = "resolve"
  /\ req' = IF secret[req[r].snap.cred] = "stored"
            THEN [req EXCEPT ![r].pc = "pool"]
            ELSE Ended({r})                  \* SecretNotFoundError
  /\ UNCHANGED <<row, cred, secret, pool, lock, owner, proven>>

\* Mutant: the new key is deleted in place of the one it supersedes.
EraseWrongKey(r) ==
  /\ req[r].pc = "erase"
  /\ secret' = IF req[r].ref = None THEN secret
               ELSE [secret EXCEPT ![req[r].ref] = "deleted"]
  /\ req' = [req EXCEPT ![r].pc = IF req[r].op = "rotate" THEN "flush" ELSE "commit"]
  /\ UNCHANGED <<row, cred, pool, lock, owner, proven>>

\* SecretProvider.delete of the credential the request has read.
Erase(r) ==
  /\ req[r].pc = "erase"
  /\ secret' = [secret EXCEPT ![req[r].snap.cred] = "deleted"]
  /\ req' = [req EXCEPT ![r].pc = IF req[r].op = "rotate" THEN "flush" ELSE "commit"]
  /\ UNCHANGED <<row, cred, pool, lock, owner, proven>>

-----------------------------------------------------------------------------
(***************************************************************************)
(* Calls of the pool registry of the request's process.                    *)
(***************************************************************************)

\* Mutant: the registry finds an engine by process alone.
GetOrCreateUnkeyed(r) ==
  LET p == req[r].proc
      built == {pool[p][d] : d \in Conns} \ {None}
      engine == IF built = {} THEN req[r].snap.cred ELSE CHOOSE s \in built : TRUE
  IN
  /\ req[r].pc = "pool"
  /\ pool' = [pool EXCEPT ![p][req[r].conn] = engine]
  /\ req' = [req EXCEPT ![r].ref = engine,
       ![r].pc = IF req[r].op = "use" THEN "using" ELSE "flush"]
  /\ UNCHANGED <<row, cred, secret, lock, owner, proven>>

\* get_or_create: reuse the engine of the key, else build one with the
\* password resolved earlier.  The request holds the engine from here on.
GetOrCreate(r) ==
  LET p == req[r].proc
      c == req[r].conn
      engine == IF pool[p][c] = None THEN req[r].snap.cred ELSE pool[p][c]
  IN
  /\ req[r].pc = "pool"
  /\ pool' = [pool EXCEPT ![p][c] = engine]
  /\ req' = [req EXCEPT ![r].ref = engine,
       ![r].pc = IF req[r].op = "use" THEN "using" ELSE "flush"]
  /\ UNCHANGED <<row, cred, secret, lock, owner, proven>>

\* evict: drop and dispose the engine.
Evict(r) ==
  /\ req[r].pc = "evict"
  /\ pool' = [pool EXCEPT ![req[r].proc][req[r].conn] = None]
  /\ req' = [req EXCEPT ![r].pc = IF req[r].op = "rotate" THEN "erase" ELSE "flush"]
  /\ UNCHANGED <<row, cred, secret, lock, owner, proven>>

\* The caller of get_or_create_engine is done with the engine.
Release(r) ==
  /\ req[r].pc = "using"
  /\ req' = Ended({r})
  /\ UNCHANGED <<row, cred, secret, pool, lock, owner, proven>>

-----------------------------------------------------------------------------
(***************************************************************************)
(* The end of the transaction.                                             *)
(***************************************************************************)

\* The rows in which the operation of request q can leave its session; the
\* outcome of ConnectionHealthChecker.check is not determined by anything
\* modelled.
Outcomes(q) ==
  CASE q.op = "validate" ->
         {[q.snap EXCEPT !.status = s, !.validated = TRUE] : s \in {"active", "error"}}
    [] q.op = "enable" -> {[q.snap EXCEPT !.status = "active"]}
    [] q.op = "disable" -> {[q.snap EXCEPT !.status = "disabled"]}
    [] q.op = "rotate" ->
         {[q.snap EXCEPT !.status = "pending_validation", !.cred = q.ref]}
    [] q.op = "delete" -> {[q.snap EXCEPT !.status = "gone"]}
    [] OTHER -> {q.snap}

\* A status set to the value it had is no change, and sends no UPDATE; the
\* other operations always write a new timestamp, key or DELETE.
Dirty(q, new) == q.op \in {"validate", "rotate", "delete"} \/ new # q.snap

\* Mutant: the UPDATE does not compare the version (no version_id_col).
VersionIgnored(r) == Live(req[r].conn)

\* The row the session read is still the committed one.
VersionMatches(r) ==
  Live(req[r].conn) /\ row[req[r].conn].version = req[r].snap.version

\* audit.record flushes the session (for delete, repository.delete does).
Flush(r, new) ==
  LET c == req[r].conn IN
  /\ req[r].pc = "flush"
  /\ new \in Outcomes(req[r])
  /\ Dirty(req[r], new) => lock[c] = None
  /\ IF Dirty(req[r], new) /\ ~VersionMatches(r)
     THEN req' = Ended({r}) /\ UNCHANGED lock               \* StaleDataError
     ELSE /\ req' = [req EXCEPT ![r].new = new,
               ![r].pc = IF req[r].op = "delete" THEN "erase" ELSE "commit"]
          /\ lock' = IF Dirty(req[r], new) THEN [lock EXCEPT ![c] = r] ELSE lock
  /\ UNCHANGED <<row, cred, secret, pool, owner, proven>>

\* The row the transaction of r leaves in the database.
CommittedRow(r) ==
  IF req[r].op = "register"
  THEN [status |-> "pending_validation", cred |-> req[r].ref,
        validated |-> FALSE, version |-> 1]
  ELSE IF Dirty(req[r], req[r].new)
  THEN [req[r].new EXCEPT !.version = req[r].snap.version + 1]
  ELSE row[req[r].conn]

\* The credential references the transaction of r leaves in the database.
CommittedCreds(r) ==
  [s \in Refs |->
     CASE req[r].op \in {"register", "rotate"} /\ s = req[r].ref -> "active"
       [] req[r].op = "rotate" /\ s = req[r].snap.cred -> "rotated"
       [] req[r].op = "delete" /\ s = req[r].snap.cred -> "absent"
       [] OTHER -> cred[s]]

\* session.commit in the handler.
Commit(r) ==
  LET c == req[r].conn IN
  /\ req[r].pc = "commit"
  /\ row' = [row EXCEPT ![c] = CommittedRow(r)]
  /\ cred' = CommittedCreds(r)
  /\ proven' = IF req[r].op = "validate" /\ req[r].new.status = "active"
               THEN proven \cup {c} ELSE proven
  /\ lock' = Released({r})
  /\ req' = Ended({r})
  /\ UNCHANGED <<secret, pool, owner>>

\* An exception, a cancelled request or a lost database connection: the
\* session closes without a commit.  Secrets and pools keep what was done.
Abort(r) ==
  /\ req[r].pc # "idle"
  /\ lock' = Released({r})
  /\ req' = Ended({r})
  /\ UNCHANGED <<row, cred, secret, pool, owner, proven>>

\* A process dies and restarts: its requests and its pools are lost.
Crash(p) ==
  LET dead == {q \in Reqs : req[q].proc = p} IN
  /\ lock' = Released(dead)
  /\ req' = Ended(dead)
  /\ pool' = [pool EXCEPT ![p] = [c \in Conns |-> None]]
  /\ UNCHANGED <<row, cred, secret, owner, proven>>

-----------------------------------------------------------------------------

\* The next step of the request in slot r.
Step(r) ==
  \/ \E s \in Refs : Store(r, s)
  \/ Resolve(r)
  \/ Erase(r)
  \/ GetOrCreate(r)
  \/ Evict(r)
  \/ Release(r)
  \/ \E new \in Outcomes(req[r]) : Flush(r, new)
  \/ Commit(r)

Next ==
  \/ \E r \in Reqs, op \in Ops, c \in Conns, p \in Procs : Begin(r, op, c, p)
  \/ \E r \in Reqs : Step(r) \/ Abort(r)
  \/ \E p \in Procs : Crash(p)

Spec == Init /\ [][Next]_vars

\* The event loop runs every request on, and PostgreSQL's lock queue serves a
\* waiting flush in turn, however often the row is locked again: strong
\* fairness.  Nothing promises that a client sends a request, that one fails
\* or that a process dies.
Fairness ==
  \A r \in Reqs : /\ WF_vars(Step(r))
                  /\ SF_vars(\E new \in Outcomes(req[r]) : Flush(r, new))

FairSpec == Spec /\ Fairness

-----------------------------------------------------------------------------
(***************************************************************************)
(* Safety.                                                                 *)
(***************************************************************************)

\* A credential the database records as superseded, or as belonging to a
\* deleted connection, has no secret left: rotate_secret and
\* delete_connection erase it before they commit, whatever else runs and
\* wherever a process dies.
SupersededSecretErased ==
  /\ \A s \in Refs : cred[s] = "rotated" => secret[s] = "deleted"
  /\ \A c \in Conns : row[c].status = "gone" => secret[row[c].cred] = "deleted"

\* The engine registered for a connection, and every engine a request holds,
\* was built with a secret stored for that same connection: the registry is
\* keyed by (tenant_id, connection_id).
PoolIsolation ==
  /\ \A p \in Procs, c \in Conns : pool[p][c] # None => owner[pool[p][c]] = c
  /\ \A r \in Reqs : req[r].pc = "using" => owner[req[r].ref] = req[r].conn

\* A disabled connection leaves that status only by a request that had read
\* it as disabled: a validation, rotation or enable already in flight when
\* disable_connection commits never turns the connection on again.
DisableNotOverwritten ==
  [][\A c \in Conns :
       row[c].status = "disabled" /\ row'[c].status # "disabled" =>
         \E r \in Reqs : /\ req[r].pc = "commit" /\ req[r].conn = c
                         /\ req[r].snap.status = "disabled"]_vars

\* The rows change as if every operation were atomic: no update is lost and
\* none is applied to a row other than the one the operation has checked.
Contract == INSTANCE ConnectionContract WITH
  conn <- [c \in Conns |-> [status |-> row[c].status, cred |-> row[c].cred,
                            validated |-> row[c].validated]]
AtomicOperations == Contract!Spec

\* Every request comes to an end: no wait for a row lock is for ever.
EveryRequestEnds == \A r \in Reqs : req[r].pc # "idle" ~> req[r].pc = "idle"

-----------------------------------------------------------------------------
(***************************************************************************)
(* The inductive invariant behind the safety properties.                   *)
(***************************************************************************)

\* The operations that can be at a step.
OpsAt(pc) ==
  CASE pc = "store" -> {"register", "rotate"}
    [] pc \in {"resolve", "pool"} -> {"validate", "use"}
    [] pc = "using" -> {"use"}
    [] pc = "evict" -> {"disable", "rotate", "delete"}
    [] pc = "erase" -> {"rotate", "delete"}
    [] pc = "flush" -> {"validate", "enable", "disable", "rotate", "delete"}
    [] pc = "commit" -> Ops \ {"use"}
    [] OTHER -> {"none"}

\* A request is where its operation can be, has read a live row, and carries
\* a row its operation can produce.
Shape(q) ==
  /\ q.op \in OpsAt(q.pc)
  /\ q.pc = "idle" => q = Idle
  /\ q.pc # "idle" => q.conn \in Conns /\ q.proc \in Procs
  /\ q.op \in Ops \ {"register"} => q.snap # NoRow /\ q.snap.status \in Statuses
  /\ q.op = "enable" => q.snap.validated
  /\ q.pc = "using" => q.ref \in Refs
  /\ q.op # "register" /\ q.pc = "commit" => q.new \in Outcomes(q)
  /\ q.op = "delete" /\ q.pc = "erase" => q.new \in Outcomes(q)

RequestShape == \A r \in Reqs : Shape(req[r])

\* A registration is alone with its connection id.
RegisterAlone ==
  \A r \in Reqs : req[r].op = "register" =>
    /\ row[req[r].conn] = NoRow
    /\ \A q \in Reqs : req[q].conn = req[r].conn => q = r

\* The version tells whether the row a request has read is the committed one.
SnapshotVersion ==
  \A r \in Reqs : req[r].op \in Ops \ {"register"} =>
    /\ req[r].snap.version <= row[req[r].conn].version
    /\ req[r].snap.version = row[req[r].conn].version => req[r].snap = row[req[r].conn]

\* The request has an uncommitted write to its row in the database.
HasWritten(q) ==
  \/ q.op = "delete" /\ q.pc \in {"erase", "commit"}
  \/ q.op \notin {"register", "delete"} /\ q.pc = "commit" /\ Dirty(q, q.new)

\* Who has written holds the row lock, and the row it read is still the
\* committed one.
LockDiscipline ==
  /\ \A r \in Reqs : HasWritten(req[r]) => lock[req[r].conn] = r
  /\ \A c \in Conns : lock[c] # None =>
       /\ HasWritten(req[lock[c]]) /\ req[lock[c]].conn = c
       /\ row[c] = req[lock[c]].snap

\* The request holds a new key: it is past SecretProvider.store.
HoldsKey(q) ==
  \/ q.op = "register" /\ q.pc = "commit"
  \/ q.op = "rotate" /\ q.pc \in {"evict", "erase", "flush", "commit"}

\* Every key in use belongs to one connection; a new key is in no row yet.
KeyOwnership ==
  /\ \A s \in Refs : secret[s] = "unused" => owner[s] = None /\ cred[s] = "absent"
  /\ \A c \in Conns : row[c] # NoRow => owner[row[c].cred] = c
  /\ \A r \in Reqs :
       req[r].op \in Ops \ {"register"} => owner[req[r].snap.cred] = req[r].conn

NewKeys ==
  \A r \in Reqs : HoldsKey(req[r]) =>
    /\ req[r].ref \in Refs /\ owner[req[r].ref] = req[r].conn
    /\ \A c \in Conns : row[c].cred # req[r].ref
    /\ \A q \in Reqs : HoldsKey(req[q]) /\ req[q].ref = req[r].ref => q = r

\* A request about to commit the end of a credential has erased its secret.
HasErased(q) ==
  \/ q.op = "rotate" /\ q.pc \in {"flush", "commit"}
  \/ q.op = "delete" /\ q.pc = "commit"

ErasedFirst ==
  \A r \in Reqs : HasErased(req[r]) => secret[req[r].snap.cred] = "deleted"

IInv ==
  /\ TypeOK /\ RequestShape /\ RegisterAlone /\ SnapshotVersion /\ LockDiscipline
  /\ KeyOwnership /\ NewKeys /\ ErasedFirst /\ SupersededSecretErased /\ PoolIsolation

-----------------------------------------------------------------------------
(***************************************************************************)
(* What the documentation says and the code does not do.                   *)
(***************************************************************************)

Quiet == \A r \in Reqs : req[r].pc = "idle"

\* ConnectionNotReadyError: a connection that has never been successfully
\* validated cannot be enabled.  enable_connection tests last_validated_at,
\* which a failed validation sets too.
ActiveWasProven == \A c \in Conns : row[c].status = "active" => c \in proven

\* ADR-0004: after a rotation no stale pool keeps working.  A request that
\* resolved the old secret can register its engine after the eviction.
NoStalePool ==
  Quiet => \A p \in Procs, c \in Conns :
             Live(c) /\ pool[p][c] # None => pool[p][c] = row[c].cred

\* ADR-0004: pools are evicted when a connection is disabled.  A request
\* that read the row before can register an engine after the eviction.
DisabledHasNoPool ==
  Quiet => \A p \in Procs, c \in Conns :
             row[c].status = "disabled" => pool[p][c] = None

\* get_secret_provider: the persistent provider is what lets a connection
\* survive a restart.  rotate_secret erases the old secret before the row
\* that still names it has been replaced.
LiveSecretStored ==
  Quiet => \A c \in Conns : Live(c) => secret[row[c].cred] = "stored"

=============================================================================
