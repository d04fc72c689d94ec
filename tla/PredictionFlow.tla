---------------------------- MODULE PredictionFlow ----------------------------
(***************************************************************************)
(* The prediction endpoint: predict_delivery_delay and                     *)
(* PredictionService.predict with their Idempotency-Key.                   *)
(*                                                                         *)
(* A call looks its key up, inserts a PredictionRequest, reads the         *)
(* production model, computes, and commits request, result and audit event *)
(* together.  All of it is one transaction: what an attempt writes about   *)
(* its own failure is rolled back when the handler raises.                 *)
(*                                                                         *)
(* A call is one HTTP request; a client that retries makes another call.   *)
(* The id of a PredictionRequest is the call that inserted it.             *)
(***************************************************************************)
EXTENDS Naturals, Common

CONSTANTS
  Calls,     \* HTTP requests
  Tenants,
  Keys,      \* values of the Idempotency-Key header; None: no header
  EmptyKey,  \* the header sent with an empty value
  Trips,     \* business references
  Models,    \* model versions of the task
  Owner,     \* Owner[m]: the tenant m is private to, or Shared
  Shared

ASSUME OwnerAssumption == Owner \in [Models -> Tenants \cup {Shared}] /\ Shared \notin Tenants
ASSUME KeyAssumption == EmptyKey # None /\ None \notin Keys

\* How a call that gave no prediction ended.
Errors == {"not_configured", "conflict", "failed", "lost"}
ASSUME AnswerAssumption == Calls \cap Errors = {} /\ None \notin Calls \cup Errors \cup Models

VARIABLES
  row,    \* row[c]: the committed PredictionRequest of c with its result, or None
  call,   \* call[c]: the handler of c
  prod,   \* the model versions that are PRODUCTION and active
  task,   \* whether the PredictionTaskDefinition has been seeded
  audit   \* the committed audit events

vars == <<row, call, prod, task, audit>>

PCs == {"new", "lookup", "insert", "model", "work", "failed", "commit", "done"}

\* A request's row.  status is "completed" when its PredictionResult was
\* committed with it.
Rows == [tenant : Tenants, key : Keys \cup {None}, trip : Trips,
         model : Models \cup {None}, status : {"completed", "failed"}]
ASSUME RowAssumption == None \notin Rows

CallStates == [pc : PCs, tenant : Tenants \cup {None}, key : Keys \cup {None},
               trip : Trips \cup {None}, model : Models \cup {None},
               answer : Calls \cup Errors \cup {None}]   \* what the client got
Unsent == [pc |-> "new", tenant |-> None, key |-> None, trip |-> None,
           model |-> None, answer |-> None]

TypeOK ==
  /\ row \in [Calls -> Rows \cup {None}]
  /\ call \in [Calls -> CallStates]
  /\ prod \subseteq Models
  /\ task \in BOOLEAN
  /\ audit \subseteq Calls \X {"success", "error"}

Init ==
  /\ row = [c \in Calls |-> None]
  /\ call = [c \in Calls |-> Unsent]
  /\ prod = {}
  /\ task = FALSE
  /\ audit = {}

Answer(c, a) == call' = [call EXCEPT ![c].pc = "done", ![c].answer = a]
Goto(c, pc) == call' = [call EXCEPT ![c].pc = pc]

\* The committed row of d is one with the tenant and the key of call q.
SameKey(q, d) == row[d] # None /\ row[d].tenant = q.tenant /\ row[d].key = q.key

-----------------------------------------------------------------------------

\* The request arrives.  An empty key is stored but, being falsy, not looked up.
Send(c, t, k, trip) ==
  /\ call[c].pc = "new"
  /\ call' = [call EXCEPT ![c] =
       [Unsent EXCEPT !.pc = IF k \in {None, EmptyKey} THEN "insert" ELSE "lookup",
                      !.tenant = t, !.key = k, !.trip = trip]]
  /\ UNCHANGED <<row, prod, task, audit>>

\* Mutant: the lookup is not scoped to the tenant.
CachedAnyTenant(c) == {d \in Calls : row[d] # None /\ row[d].key = call[c].key
                                     /\ row[d].status = "completed"}

\* _cached_response: the completed request with this key.
Cached(c) == {d \in Calls : SameKey(call[c], d) /\ row[d].status = "completed"}

Lookup(c) ==
  /\ call[c].pc = "lookup"
  /\ \/ Cached(c) = {} /\ Goto(c, "insert")
     \/ \E d \in Cached(c) : Answer(c, d)
  /\ UNCHANGED <<row, prod, task, audit>>

\* Mutant: no unique constraint on (tenant_id, idempotency_key).
NeverTaken(c) == FALSE

\* The unique index holds a committed row with the tenant and key of c.
Taken(c) == call[c].key # None /\ \E d \in Calls : SameKey(call[c], d)

\* Calls whose row is inserted and not yet committed or rolled back.
Inserted(c) == call[c].pc \in {"model", "work", "failed", "commit"}

\* Mutant: a key that was ever inserted counts as pending for ever.
PendingForever(c) ==
  \E d \in Calls : /\ call[c].key # None /\ d # c
                   /\ Inserted(d) \/ call[d].answer = "failed"
                   /\ call[d].tenant = call[c].tenant /\ call[d].key = call[c].key

\* Another transaction has inserted the same tenant and key and is undecided.
Pending(c) ==
  \E d \in Calls : /\ call[c].key # None /\ d # c /\ Inserted(d)
                   /\ call[d].tenant = call[c].tenant /\ call[d].key = call[c].key

\* The task definition is read and the PredictionRequest inserted: the INSERT
\* waits for an undecided one with its key and is refused by a committed one.
Insert(c) ==
  /\ call[c].pc = "insert"
  /\ \/ ~task /\ Answer(c, "not_configured")
     \/ task /\ ~Pending(c) /\ Taken(c) /\ Answer(c, "conflict")    \* IntegrityError
     \/ task /\ ~Pending(c) /\ ~Taken(c) /\ Goto(c, "model")
  /\ UNCHANGED <<row, prod, task, audit>>

\* get_production_model: private models of the tenant before shared ones.
Candidates(t) ==
  LET private == {m \in prod : Owner[m] = t} IN
  IF private # {} THEN private ELSE {m \in prod : Owner[m] = Shared}

ReadModel(c) ==
  /\ call[c].pc = "model"
  /\ \/ Candidates(call[c].tenant) = {} /\ Goto(c, "failed")        \* NoProductionModelError
     \/ \E m \in Candidates(call[c].tenant) :
          call' = [call EXCEPT ![c].pc = "work", ![c].model = m]
  /\ UNCHANGED <<row, prod, task, audit>>

\* The model is loaded, the features are extracted and the prediction made;
\* result, COMPLETED and SUCCESS event are flushed.  Any of it may fail, and
\* then FAILED and an ERROR event are flushed instead.
Work(c) ==
  /\ call[c].pc = "work"
  /\ \/ Goto(c, "commit")
     \/ Goto(c, "failed")
  /\ UNCHANGED <<row, prod, task, audit>>

\* Mutant: the FAILED request and its ERROR event are committed.
FailureCommitted(c) ==
  /\ call[c].pc = "failed"
  /\ row' = [row EXCEPT ![c] = [tenant |-> call[c].tenant, key |-> call[c].key,
                                trip |-> call[c].trip, model |-> call[c].model,
                                status |-> "failed"]]
  /\ audit' = audit \cup {<<c, "error">>}
  /\ Answer(c, "failed")
  /\ UNCHANGED <<prod, task>>

\* The handler turns the exception into an HTTP error without a commit, and
\* closing the session rolls back all the attempt has written.
Raise(c) ==
  /\ call[c].pc = "failed"
  /\ Answer(c, "failed")
  /\ UNCHANGED <<row, prod, task, audit>>

\* session.commit in the handler; the response may still get lost.
Commit(c) ==
  /\ call[c].pc = "commit"
  /\ row' = [row EXCEPT ![c] = [tenant |-> call[c].tenant, key |-> call[c].key,
                                trip |-> call[c].trip, model |-> call[c].model,
                                status |-> "completed"]]
  /\ audit' = audit \cup {<<c, "success">>}
  /\ Answer(c, c) \/ Answer(c, "lost")
  /\ UNCHANGED <<prod, task>>

\* A cancelled request, a lost connection to the database or a crash.
Abort(c) ==
  /\ call[c].pc \notin {"new", "done"}
  /\ Answer(c, "lost")
  /\ UNCHANGED <<row, prod, task, audit>>

\* The registry promotes, archives or deactivates a model version.
ChangeStage(m) ==
  /\ prod' = IF m \in prod THEN prod \ {m} ELSE prod \cup {m}
  /\ UNCHANGED <<row, call, task, audit>>

\* The task definition is seeded.
SeedTask ==
  /\ ~task /\ task' = TRUE
  /\ UNCHANGED <<row, call, prod, audit>>

Step(c) == Lookup(c) \/ Insert(c) \/ ReadModel(c) \/ Work(c) \/ Raise(c) \/ Commit(c)

Next ==
  \/ \E c \in Calls :
       \/ \E t \in Tenants, k \in Keys \cup {None}, trip \in Trips : Send(c, t, k, trip)
       \/ Step(c)
       \/ Abort(c)
  \/ \E m \in Models : ChangeStage(m)
  \/ SeedTask

Spec == Init /\ [][Next]_vars

\* A handler keeps running: every await in it is bounded by a timeout.
FairSpec == Spec /\ \A c \in Calls : WF_vars(Step(c))

-----------------------------------------------------------------------------
(***************************************************************************)
(* Safety and liveness.                                                    *)
(***************************************************************************)

\* The call was answered with a prediction.
Predicted(c) == call[c].answer \in Calls

\* All the calls of a tenant with one Idempotency-Key that get a prediction get
\* the same one, also when they race or when the first response was lost.
SameKeySamePrediction ==
  \A c, d \in Calls :
    /\ Predicted(c) /\ Predicted(d)
    /\ call[c].key # None /\ call[c].key = call[d].key /\ call[c].tenant = call[d].tenant
    => call[c].answer = call[d].answer

\* What a client was told is stored: the prediction is a committed, completed
\* request of its own tenant with its SUCCESS event in the audit log.
AnswerStored ==
  \A c \in Calls : Predicted(c) =>
    LET d == call[c].answer IN
    /\ row[d] # None /\ row[d].tenant = call[c].tenant
    /\ row[d].status = "completed" /\ <<d, "success">> \in audit

\* A key is used up only by a completed prediction: no failed or interrupted
\* attempt leaves a row that would refuse every retry with the same key.
RetryPossible ==
  \A d \in Calls : row[d] # None /\ row[d].key # None =>
    /\ row[d].status = "completed" /\ row[d].model # None

\* A tenant is answered by a model that is shared or its own, whatever the
\* registry does meanwhile.
ModelAuthorised ==
  \A c \in Calls : Predicted(c) =>
    row[call[c].answer] # None /\
    Owner[row[call[c].answer].model] \in {Shared, call[c].tenant}

\* A call as its client sees it.
Seen(c) == [status |-> CASE call[c].pc = "new"  -> "unsent"
                         [] call[c].pc = "done" -> "answered"
                         [] OTHER               -> "waiting",
            tenant |-> call[c].tenant, key |-> call[c].key, trip |-> call[c].trip,
            answer |-> call[c].answer]

Contract == INSTANCE PredictionContract
              WITH asked <- [c \in Calls |-> Seen(c)], stored <- row

\* To its client a call is atomic, whatever interleaves, fails or gets lost: it
\* makes one new prediction under a key that has none, or repeats the stored one
\* of its tenant and key, or leaves nothing behind, neither row nor audit event.
PredictionsAtomic == Contract!Spec

\* Every call is answered: waiting for another call with the same key ends.
EveryCallEnds == \A c \in Calls : (call[c].pc # "new") ~> (call[c].pc = "done")

-----------------------------------------------------------------------------
(***************************************************************************)
(* The inductive invariant.                                                *)
(***************************************************************************)

\* A call in progress knows its tenant and trip; it has a model once it has
\* read one, and no answer before it is done.
CallInv(c) ==
  /\ call[c].pc # "new" => call[c].tenant \in Tenants /\ call[c].trip \in Trips
  /\ call[c].pc = "lookup" => call[c].key \in Keys \ {EmptyKey}
  /\ call[c].pc \in {"work", "commit"} =>
       call[c].model \in Models /\ Owner[call[c].model] \in {Shared, call[c].tenant}
  /\ call[c].pc # "done" => call[c].answer = None
  /\ Predicted(c) =>
       LET d == call[c].answer IN
       /\ row[d] # None /\ row[d].tenant = call[c].tenant /\ row[d].key = call[c].key
       /\ call[c].key = None => d = c

\* A committed row is a completed prediction of its call.
StoredInv(c) ==
  row[c] # None =>
    /\ call[c].pc = "done" /\ row[c].status = "completed" /\ <<c, "success">> \in audit
    /\ row[c].tenant = call[c].tenant /\ row[c].key = call[c].key
    /\ row[c].model \in Models /\ Owner[row[c].model] \in {Shared, row[c].tenant}

\* c has inserted or committed a row with a key.
Holds(c) == call[c].key # None /\ (Inserted(c) \/ row[c] # None)

\* No two rows, committed or not, have the same tenant and key.
KeysUnique ==
  \A c, d \in Calls :
    Holds(c) /\ Holds(d) /\ call[c].tenant = call[d].tenant /\ call[c].key = call[d].key
    => c = d

IInv == TypeOK /\ KeysUnique /\ \A c \in Calls : CallInv(c) /\ StoredInv(c)

-----------------------------------------------------------------------------
(***************************************************************************)
(* What the documentation says and the code does not do.                   *)
(***************************************************************************)

\* The inference API: a failure after the PredictionRequest is created marks
\* it FAILED and emits an ERROR event; every attempt is auditable.
FailureAudited ==
  \A c \in Calls : call[c].answer = "failed" =>
    row[c] # None /\ <<c, "error">> \in audit

\* The inference API: sending the same key twice returns the identical
\* prediction.  A call is instead refused with an internal error when the other
\* one commits during it, and always when the key is empty.
RepeatReturnsPrediction == \A c \in Calls : call[c].answer # "conflict"

\* The inference API: reusing a key with a different trip runs a fresh
\* prediction.
OtherTripIsFresh ==
  \A c \in Calls : Predicted(c) => row[call[c].answer].trip = call[c].trip

=============================================================================
