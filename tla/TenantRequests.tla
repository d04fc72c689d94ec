----------------------------- MODULE TenantRequests -----------------------------
(***************************************************************************)
(* Requests on the control-plane database: the pooled connections they     *)
(* borrow, the tenant they bind for row-level security, the tenant check   *)
(* of the repositories, the audit events of success and of refusal, and    *)
(* the recording of prediction outcomes with the quality gauges computed   *)
(* from them.                                                              *)
(*                                                                         *)
(* set_config(..., true) lasts for a transaction; PostgreSQL then shows    *)
(* the setting as '' on that connection, not as unset.  The role may or    *)
(* may not be subject to row-level security (docs/SECURITY_REVIEW.md).     *)
(* The session of a refused request is closed before its exception handler *)
(* runs, and the handler writes the event in a session of its own.         *)
(***************************************************************************)
EXTENDS Naturals, FiniteSets

CONSTANTS
  Tenants,
  Conns,     \* connections of the pool
  Reqs,      \* request slots
  Objects,   \* tenant-owned rows found by id; as prediction results they can be labelled
  Owner,     \* Owner[x]: the tenant of row x
  None       \* NULL

ASSUME OwnerAssumption == Owner \in [Objects -> Tenants]
ASSUME NoneAssumption == None \notin Tenants \cup Conns \cup Reqs \cup Objects \cup BOOLEAN
ASSUME SettingAssumption == Tenants \cap {"unset", "empty"} = {}

VARIABLES
  bypass,   \* the database role has BYPASSRLS
  guc,      \* guc[k]: app.current_tenant_id on connection k
  req,      \* req[r]: the request in slot r
  outcome,  \* outcome[x]: the committed label of prediction x, or None
  writer,   \* writer[x]: the request with an uncommitted row of prediction_outcomes for x
  trail,    \* the tenants of the committed audit events; None for platform events
  gauge,    \* gauge[t]: the labels the published quality gauges of t were computed from
  clean     \* clean[t]: the last outcome of t was recorded by a request that ran alone

vars == <<bypass, guc, req, outcome, writer, trail, gauge, clean>>

Opt(S) == S \cup {None}
Settings == Tenants \cup {"unset", "empty"}
Kinds == {"outcome", "get", "summary", "exchange", "denied"}
PCs == {"idle", "require", "lookup", "write", "publish", "commit", "list", "find", "event",
        "handler", "insert", "refused", "unknown"}

\* conn is the connection of the request's session, or of its handler's, and bound the
\* tenant bound on it.  got holds the tenants of the rows the request was given.
Requests == [kind : Kinds, pc : PCs, tenant : Opt(Tenants), object : Opt(Objects),
             label : BOOLEAN, existing : Opt(BOOLEAN), conn : Opt(Conns), bound : Opt(Tenants),
             got : SUBSET Opt(Tenants), alone : BOOLEAN]
Idle == [kind |-> "denied", pc |-> "idle", tenant |-> None, object |-> None, label |-> FALSE,
         existing |-> None, conn |-> None, bound |-> None, got |-> {}, alone |-> TRUE]

Pairs(t) == {x \in Objects : Owner[x] = t /\ outcome[x] # None}
Labels(t) == {<<x, outcome[x]>> : x \in Pairs(t)}

Init ==
  /\ bypass \in BOOLEAN
  /\ guc = [k \in Conns |-> "unset"]
  /\ req = [r \in Reqs |-> Idle]
  /\ outcome = [x \in Objects |-> None]
  /\ writer = [x \in Objects |-> None]
  /\ trail = {}
  /\ gauge = [t \in Tenants |-> {}]
  /\ clean = [t \in Tenants |-> TRUE]

-----------------------------------------------------------------------------
(***************************************************************************)
(* The pool and row-level security.                                        *)
(***************************************************************************)

Held == {req[r].conn : r \in Reqs}
Free(k) == k \in Conns /\ k \notin Held

\* bind_tenant_for_row_level_security: nothing for no tenant.
Bind(k, t) == IF t = None THEN guc[k] ELSE t

\* Mutant: set_config(..., false), which outlives the transaction.
KeepSetting(k) == guc

\* The end of the transaction on connection k: the local setting is gone.
Reset(k) == [j \in Conns |-> IF j = k /\ guc[j] # "unset" THEN "empty" ELSE guc[j]]

\* hermes_current_tenant_id(): nullif(current_setting(...), '').
Current(k) == IF guc[k] \in Tenants THEN guc[k] ELSE None

\* tenant_isolation on the tables whose tenant_id is not null.  NULL equals nothing.
Strict(t, k) == t # None /\ t = Current(k)

\* Mutant: the policy before migration b48a21a99ef0.
AuditStrict(t, k) == Strict(t, k)

\* tenant_isolation on audit_events: platform events from unbound sessions.
Audit(t, k) == Strict(t, k) \/ (t = None /\ Current(k) = None)

\* Mutant: no clause for the empty setting.
CredentialUnsetOnly(t, k) == Strict(t, k) \/ guc[k] = "unset"

\* tenant_isolation on service_credentials: every row for an unbound session.
Credential(t, k) == Strict(t, k) \/ guc[k] \in {"unset", "empty"}

Visible(t, k) == bypass \/ Strict(t, k)
EventAdmitted(t, k) == bypass \/ Audit(t, k)
CredentialFound(t, k) == bypass \/ Credential(t, k)

Goto(r, pc) == req' = [req EXCEPT ![r].pc = pc]
Rows == <<outcome, writer, trail, gauge, clean>>

\* The session is closed: what it wrote is rolled back unless it was committed.
Close(r) ==
  /\ req' = [req EXCEPT ![r] = Idle]
  /\ guc' = Reset(req[r].conn)
Release(r) == writer' = [x \in Objects |-> IF writer[x] = r THEN None ELSE writer[x]]

-----------------------------------------------------------------------------
(***************************************************************************)
(* A request arrives.  An outcome, a read by id and a summary come with a  *)
(* verified token: get_tenant_context binds its tenant.  An exchange comes *)
(* with none; a request with a bad token touches no session.               *)
(***************************************************************************)

Recording(t) == {r \in Reqs : req[r].pc # "idle" /\ req[r].kind = "outcome" /\ req[r].tenant = t}

Opened(kind, t, x, l, k) ==
  [Idle EXCEPT !.kind = kind, !.tenant = t, !.label = l, !.conn = k,
     !.object = IF kind = "summary" THEN None ELSE x,
     !.bound = t, !.alone = (kind = "outcome" => Recording(t) = {}),
     !.pc = CASE kind \in {"outcome", "get"} -> "require"
              [] kind = "summary" -> "list"
              [] kind = "exchange" -> "find"
              [] OTHER -> "handler"]

\* Requests of a tenant that record outcomes at the same time are not alone.
Open(r, kind, t, x, l, k) ==
  /\ req[r].pc = "idle" /\ Free(k)
  /\ kind \in {"outcome", "get", "summary"} <=> t # None
  /\ kind # "denied"
  /\ l => kind = "outcome"
  /\ req' = [s \in Reqs |-> IF s = r THEN Opened(kind, t, x, l, k)
                            ELSE IF kind = "outcome" /\ s \in Recording(t)
                                 THEN [req[s] EXCEPT !.alone = FALSE] ELSE req[s]]
  /\ guc' = [guc EXCEPT ![k] = Bind(k, t)]
  /\ UNCHANGED bypass /\ UNCHANGED Rows

\* An exception that an exception handler answers: get_session closes the session on the
\* way out, and the handler knows the caller's tenant at most.
Refuse(r) ==
  /\ req' = [req EXCEPT ![r] = Opened("denied", req[r].tenant, None, FALSE, None)]
  /\ guc' = Reset(req[r].conn)

BadToken(r) ==
  /\ req[r].pc = "idle"
  /\ req' = [req EXCEPT ![r] = Opened("denied", None, None, FALSE, None)]
  /\ UNCHANGED <<bypass, guc>> /\ UNCHANGED Rows

-----------------------------------------------------------------------------
(***************************************************************************)
(* Reads.                                                                  *)
(***************************************************************************)

\* Mutant: get without its comparison of tenants.
FoundAnyTenant(q) == Visible(Owner[q.object], q.conn)

\* TenantScopedRepository.get.
Found(q) == Visible(Owner[q.object], q.conn) /\ Owner[q.object] = q.tenant

\* require_scopes: AuthorizationError.
MissingScope(r) ==
  /\ req[r].pc \in {"require", "list"}
  /\ Refuse(r)
  /\ UNCHANGED bypass /\ UNCHANGED Rows

Given(r, pc) == req' = [req EXCEPT ![r].pc = pc, ![r].got = {Owner[req[r].object]}]

\* require of a membership, a connection, a mapping...: TenantMismatchError.
GetById(r) ==
  /\ req[r].pc = "require" /\ req[r].kind = "get"
  /\ \/ Found(req[r]) /\ Given(r, "commit") /\ UNCHANGED guc
     \/ ~Found(req[r]) /\ Refuse(r)
  /\ UNCHANGED bypass /\ UNCHANGED Rows

\* require of the prediction to label: the route answers 404 itself.
GetPrediction(r) ==
  /\ req[r].pc = "require" /\ req[r].kind = "outcome"
  /\ \/ Found(req[r]) /\ Given(r, "lookup") /\ UNCHANGED guc
     \/ ~Found(req[r]) /\ Close(r)
  /\ UNCHANGED bypass /\ UNCHANGED Rows

\* AuditEventRepository.list_for_tenant.
EventsOf(t, k) == {e \in trail : EventAdmitted(e, k) /\ e = t}

\* tenant_summary, of which the audit events are kept.
List(r) ==
  /\ req[r].pc = "list"
  /\ req' = [req EXCEPT ![r].pc = "commit",
       ![r].got = EventsOf(req[r].tenant, req[r].conn)]
  /\ UNCHANGED <<bypass, guc>> /\ UNCHANGED Rows

\* The end of a read.
EndRead(r) ==
  /\ req[r].pc = "commit" /\ req[r].kind \in {"get", "summary"}
  /\ Close(r)
  /\ UNCHANGED bypass /\ UNCHANGED Rows

-----------------------------------------------------------------------------
(***************************************************************************)
(* record_outcome.                                                         *)
(***************************************************************************)

\* get_by_prediction_result_id.
Lookup(r) ==
  /\ req[r].pc = "lookup"
  /\ req' = [req EXCEPT ![r].pc = "write", ![r].existing = outcome[req[r].object]]
  /\ UNCHANGED <<bypass, guc>> /\ UNCHANGED Rows

\* The flush.  A label that is already the row's writes nothing; any other write waits
\* for the transaction that has written the row, and an INSERT then meets
\* uq_prediction_outcome_result.
Write(r) ==
  LET q == req[r]
      x == q.object
  IN  /\ q.pc = "write"
      /\ \/ q.existing = q.label /\ Goto(r, "publish") /\ UNCHANGED <<guc, writer>>
         \/ /\ q.existing # q.label /\ writer[x] = None
            /\ q.existing # None \/ outcome[x] = None
            /\ writer' = [writer EXCEPT ![x] = r]
            /\ Goto(r, "publish") /\ UNCHANGED guc
         \/ /\ q.existing = None /\ writer[x] = None /\ outcome[x] # None
            /\ Close(r) /\ UNCHANGED writer               \* IntegrityError
      /\ UNCHANGED <<bypass, outcome, trail, gauge, clean>>

\* Mutant: the metrics are computed from what is committed.
PublishesOld(r) == Labels(req[r].tenant)

\* list_labeled_results_for_model in the request's session: committed labels and its own.
Published(r) ==
  {p \in Labels(req[r].tenant) : p[1] # req[r].object} \cup {<<req[r].object, req[r].label>>}

\* AuditService.record and compute_realized_model_metrics, which sets the gauges of
\* the process before the commit.
Publish(r) ==
  LET q == req[r]
  IN  /\ q.pc = "publish"
      /\ IF EventAdmitted(q.tenant, q.conn)
         THEN Goto(r, "commit") /\ gauge' = [gauge EXCEPT ![q.tenant] = Published(r)]
         ELSE Goto(r, "refused") /\ UNCHANGED gauge
      /\ UNCHANGED <<bypass, guc, outcome, writer, trail, clean>>

CommitOutcome(r) ==
  LET q == req[r]
  IN  /\ q.pc = "commit" /\ q.kind = "outcome"
      /\ outcome' = [x \in Objects |-> IF writer[x] = r THEN q.label ELSE outcome[x]]
      /\ trail' = trail \cup {q.tenant}
      /\ clean' = [clean EXCEPT ![q.tenant] = q.alone]
      /\ Release(r) /\ Close(r)
      /\ UNCHANGED <<bypass, gauge>>

-----------------------------------------------------------------------------
(***************************************************************************)
(* The token exchange: find_by_client_id in an unbound session, then the   *)
(* credential's tenant is bound for the audit event.                       *)
(***************************************************************************)

FindCredential(r) ==
  LET q == req[r]
      t == Owner[q.object]
  IN  /\ q.pc = "find"
      /\ IF CredentialFound(t, q.conn)
         THEN /\ req' = [req EXCEPT ![r].pc = "event", ![r].bound = t]
              /\ guc' = [guc EXCEPT ![q.conn] = Bind(q.conn, t)]
         ELSE Goto(r, "unknown") /\ UNCHANGED guc
      /\ UNCHANGED bypass /\ UNCHANGED Rows

\* An unknown client, or a wrong, revoked or expired secret: the refusal is recorded in
\* the session that the AuthenticationError then closes.
DenyExchange(r) ==
  /\ req[r].pc \in {"find", "event"}
  /\ IF EventAdmitted(req[r].bound, req[r].conn)
     THEN Refuse(r)
     ELSE Goto(r, "refused") /\ UNCHANGED guc
  /\ UNCHANGED bypass /\ UNCHANGED Rows

\* The commit of a successful exchange, or of the refusal by the rate limiter, which
\* comes before the lookup.
CommitExchange(r) ==
  /\ req[r].pc \in {"find", "event"}
  /\ IF EventAdmitted(req[r].bound, req[r].conn)
     THEN trail' = trail \cup {req[r].bound} /\ Close(r)
     ELSE Goto(r, "refused") /\ UNCHANGED <<guc, trail>>
  /\ UNCHANGED <<bypass, outcome, writer, gauge, clean>>

-----------------------------------------------------------------------------
(***************************************************************************)
(* _record_audit_event_best_effort, for AuthenticationError (no tenant),   *)
(* AuthorizationError and TenantMismatchError (the caller's tenant).       *)
(***************************************************************************)

\* The handler's session takes a connection from the pool.
HandlerSession(r, k) ==
  /\ req[r].pc = "handler" /\ Free(k)
  /\ req' = [req EXCEPT ![r].pc = "insert", ![r].conn = k]
  /\ guc' = [guc EXCEPT ![k] = Bind(k, req[r].tenant)]
  /\ UNCHANGED bypass /\ UNCHANGED Rows

\* No connection in time, or a database that fails: the event is dropped, the answer is not.
DropEvent(r) ==
  /\ req[r].pc \in {"handler", "insert"}
  /\ Close(r)
  /\ UNCHANGED bypass /\ UNCHANGED Rows

HandlerInsert(r) ==
  /\ req[r].pc = "insert"
  /\ IF EventAdmitted(req[r].tenant, req[r].conn)
     THEN trail' = trail \cup {req[r].tenant} /\ Close(r)
     ELSE Goto(r, "refused") /\ UNCHANGED <<guc, trail>>
  /\ UNCHANGED <<bypass, outcome, writer, gauge, clean>>

\* The database goes away under a request: its transaction is rolled back.
Fail(r) ==
  /\ req[r].pc \notin {"idle", "handler", "insert"}
  /\ Release(r) /\ Close(r)
  /\ clean' = IF req[r].kind = "outcome" THEN [clean EXCEPT ![req[r].tenant] = FALSE] ELSE clean
  /\ UNCHANGED <<bypass, outcome, trail, gauge>>

-----------------------------------------------------------------------------
Step(r) ==
  \/ MissingScope(r) \/ GetById(r) \/ GetPrediction(r) \/ List(r) \/ EndRead(r)
  \/ Lookup(r) \/ Publish(r) \/ CommitOutcome(r)
  \/ FindCredential(r) \/ DenyExchange(r) \/ CommitExchange(r)
  \/ HandlerInsert(r) \/ DropEvent(r) \/ \E k \in Conns : HandlerSession(r, k)

Next ==
  \/ \E r \in Reqs, kind \in Kinds, t \in Opt(Tenants), x \in Objects, l \in BOOLEAN, k \in Conns :
       Open(r, kind, t, x, l, k)
  \/ \E r \in Reqs : BadToken(r) \/ Step(r) \/ Write(r) \/ Fail(r)

Spec == Init /\ [][Next]_vars

-----------------------------------------------------------------------------
(***************************************************************************)
(* Properties.                                                             *)
(***************************************************************************)

TypeOK ==
  /\ bypass \in BOOLEAN
  /\ guc \in [Conns -> Settings]
  /\ req \in [Reqs -> Requests]
  /\ outcome \in [Objects -> Opt(BOOLEAN)]
  /\ writer \in [Objects -> Opt(Reqs)]
  /\ trail \subseteq Opt(Tenants)
  /\ gauge \in [Tenants -> SUBSET (Objects \X BOOLEAN)]
  /\ clean \in [Tenants -> BOOLEAN]

\* On a connection in use, row-level security alone admits rows of the tenant the
\* request was authenticated for and no other; an unbound session sees none, whoever
\* used the connection before it (common/tenant_session.py:43).
RowSecurity ==
  \A r \in Reqs : \A t \in Tenants :
    req[r].conn # None /\ Strict(t, req[r].conn) => t = req[r].bound

\* The rows given to a request belong to its tenant, with a role that bypasses row-level
\* security too (common/repository.py:64, audit/repository.py:19).
OwnRowsReturned == \A r \in Reqs : req[r].got \subseteq {req[r].tenant}

\* The exchange of an existing credential finds it on whatever connection it is given
\* (migration f94e2a13d107).
CredentialsFound == \A r \in Reqs : req[r].pc # "unknown"

\* Row-level security refuses none of the platform's own audit events (the defect of
\* migration b48a21a99ef0: a NULL tenant equals nothing).
EventsAdmitted == \A r \in Reqs : req[r].pc # "refused"

\* Two barriers, each of which must hold without the other: row-level security shows a
\* session only the tenant it has bound, whatever its pooled connection did before, and
\* the repositories return only rows of the caller's tenant, whatever the role sees.
TenantIsolation == RowSecurity /\ OwnRowsReturned

\* The policies do not lock the platform out of its own rows: exchanges without a tenant
\* find their credential on a fresh connection and on a used one, and events without a
\* tenant are stored.
PoliciesAdmit == CredentialsFound /\ EventsAdmitted

\* When the last outcome of a tenant was recorded by a request that ran alone, and none
\* is being recorded, the gauges are those of the committed labels
\* (monitoring/outcomes.py:94, "from every ... pair currently on record").
GaugeCurrent ==
  \A t \in Tenants : clean[t] /\ Recording(t) = {} => gauge[t] = Labels(t)

\* Waiting for rows never forms a chain and never crosses tenants: a request that waits
\* for an uncommitted label waits for a request of its own tenant that has written it and
\* has only to publish and commit (uq_prediction_outcome_result).
WaitsForWorker ==
  \A r \in Reqs : req[r].pc = "write" /\ writer[req[r].object] # None =>
    LET w == writer[req[r].object] IN
    /\ w \in Reqs \ {r} /\ req[w].pc \in {"publish", "commit"}
    /\ req[w].tenant = req[r].tenant

-----------------------------------------------------------------------------
(***************************************************************************)
(* The inductive invariant.                                                *)
(***************************************************************************)

Working == {"require", "lookup", "write", "publish", "commit", "list"}

\* What a request holds and knows at each point.
RequestInv(q) ==
  /\ q.pc \notin {"refused", "unknown"}
  /\ q.got \subseteq {q.tenant}
  /\ q.pc = "idle" => q.conn = None
  /\ q.pc \in Working \cup {"find", "event"} => q.conn # None
  /\ q.pc \in Working => q.tenant # None
  /\ q.conn # None /\ q.pc \notin {"find", "event"} => q.bound = q.tenant
  /\ q.pc = "find" => q.bound = None
  /\ q.pc = "event" => q.bound # None
  /\ q.pc \in {"require", "lookup", "write", "publish", "find"} => q.object # None
  /\ q.pc = "handler" => q.conn = None /\ q.bound = q.tenant
  /\ q.pc = "insert" => q.conn # None
  /\ q.kind = "outcome" /\ q.pc # "idle" => q.tenant # None

\* A connection belongs to one session.
Holds(q, k) == k \in Conns /\ q.conn = k
Exclusive == \A k \in Conns : \A r, s \in Reqs : Holds(req[r], k) /\ Holds(req[s], k) => r = s

\* The setting of a connection is the tenant its session has bound; it is nobody's when
\* none is bound and when the connection is free.
Shows(k, t) == IF t = None THEN guc[k] \notin Tenants ELSE guc[k] = t
SettingInv ==
  /\ \A r \in Reqs : req[r].conn # None => Shows(req[r].conn, req[r].bound)
  /\ \A k \in Conns : Free(k) => Shows(k, None)

\* Recording of an outcome: what a request has read, written and published.
OutcomeInv(r) ==
  LET q == req[r]
      x == q.object
  IN  /\ q.pc \in {"lookup", "write", "publish"} => q.kind = "outcome"
      /\ q.pc \in {"list", "find", "event"} => q.kind # "outcome"
      /\ q.kind = "outcome" /\ q.pc \in {"lookup", "write", "publish", "commit"} =>
           x # None /\ Owner[x] = q.tenant
      /\ q.kind = "outcome" /\ q.pc # "idle" /\ q.alone =>
           /\ Recording(q.tenant) = {r}
           /\ q.pc = "write" => q.existing = outcome[x]
           /\ q.pc \in {"publish", "commit"} => writer[x] = r \/ outcome[x] = q.label
           /\ q.pc = "commit" => gauge[q.tenant] = Published(r)
WriterInv ==
  \A x \in Objects : writer[x] # None =>
    LET q == req[writer[x]] IN
    q.kind = "outcome" /\ q.pc \in {"publish", "commit"} /\ q.object = x

\* The gauges are current but between the publication of an outcome and its commit.
GaugeInv ==
  \A t \in Tenants :
    clean[t] /\ (\A r \in Recording(t) : req[r].pc # "commit") => gauge[t] = Labels(t)

IInv ==
  /\ TypeOK
  /\ \A r \in Reqs : RequestInv(req[r]) /\ OutcomeInv(r)
  /\ Exclusive /\ SettingInv /\ WriterInv /\ GaugeInv
=============================================================================
