---------------------------- MODULE SchemaDiscovery ----------------------------
(***************************************************************************)
(* Schema discovery of one customer connection: the start_discovery        *)
(* handler, which commits a numbered PENDING snapshot and schedules a job, *)
(* and run_discovery_job, which introspects the customer database,         *)
(* compares with the previous snapshot and commits the result.             *)
(*                                                                         *)
(* Jobs run in the API process and are lost with it.  A job is one         *)
(* transaction: nothing of it is seen before its commit, and its own       *)
(* RUNNING and FAILED go when it is rolled back.                           *)
(***************************************************************************)
EXTENDS Naturals

CONSTANTS
  Snaps,    \* snapshot ids; each names one start request and its job
  Schemas,  \* what introspection can find in the customer database
  None,     \* the absent value
  MaxSeq    \* bound: sequence numbers

ASSUME SeqAssumption == MaxSeq \in Nat \ {0}
ASSUME NoneAssumption == None \notin Schemas

VARIABLES
  row,     \* row[s]: the committed SchemaSnapshot, or None
  job,     \* job[s]: the request and then the job of s
  schema   \* the schema of the customer database

vars == <<row, job, schema>>

Seqs == 1..MaxSeq
Statuses == {"pending", "running", "completed", "failed"}
PCs == {"new", "insert", "commit", "schedule", "queued", "introspect", "compare", "save",
        "completed", "failed", "refused", "lost", "crashed"}

\* drift is the drift_summary: null, no events or some events; base is the
\* number of the snapshot it was computed against, 0 for none.
Rows == [seq : Seqs, status : Statuses, doc : Schemas \cup {None}, base : 0..MaxSeq,
         drift : {"null", "same", "changed"}, acked : BOOLEAN]
ASSUME RowAssumption == None \notin Rows

Jobs == [pc : PCs, seq : 0..MaxSeq, doc : Schemas \cup {None}, base : 0..MaxSeq,
         drift : {"null", "same", "changed"}]
Unstarted == [pc |-> "new", seq |-> 0, doc |-> None, base |-> 0, drift |-> "null"]

TypeOK ==
  /\ row \in [Snaps -> Rows \cup {None}]
  /\ job \in [Snaps -> Jobs]
  /\ schema \in Schemas

Init ==
  /\ row = [s \in Snaps |-> None]
  /\ job = [s \in Snaps |-> Unstarted]
  /\ schema \in Schemas

Goto(s, pc) == job' = [job EXCEPT ![s].pc = pc]
Committed(s, n) == row[s] # None /\ row[s].seq = n
Used(n) == \E s \in Snaps : Committed(s, n)

-----------------------------------------------------------------------------
(***************************************************************************)
(* The start_discovery handler.                                            *)
(***************************************************************************)

\* next_sequence_number: one more than the highest committed number.
Start(s, n) ==
  /\ job[s].pc = "new"
  /\ n \in Seqs
  /\ \A k \in Seqs : Used(k) => k < n
  /\ n > 1 => Used(n - 1)
  /\ job' = [job EXCEPT ![s].pc = "insert", ![s].seq = n]
  /\ UNCHANGED <<row, schema>>

\* uq_schema_snapshot_sequence refuses a committed number.
Taken(s) == Used(job[s].seq)

\* The INSERT waits for another transaction that has inserted the number.
Insert(s) ==
  /\ job[s].pc = "insert"
  /\ \A t \in Snaps : ~(job[t].pc = "commit" /\ job[t].seq = job[s].seq)
  /\ \/ Taken(s) /\ Goto(s, "refused")                  \* IntegrityError
     \/ ~Taken(s) /\ Goto(s, "commit")
  /\ UNCHANGED <<row, schema>>

\* session.commit: the PENDING snapshot is visible.
CommitStart(s) ==
  /\ job[s].pc = "commit"
  /\ row' = [row EXCEPT ![s] = [seq |-> job[s].seq, status |-> "pending", doc |-> None,
                                base |-> 0, drift |-> "null", acked |-> FALSE]]
  /\ Goto(s, "schedule")
  /\ UNCHANGED schema

\* Mutant: the handler returns without scheduling the job.
ScheduleForgotten(s) == job[s].pc = "schedule" /\ UNCHANGED vars

\* _run_in_background, after the commit.
Schedule(s) ==
  /\ job[s].pc = "schedule"
  /\ Goto(s, "queued")
  /\ UNCHANGED <<row, schema>>

-----------------------------------------------------------------------------
(***************************************************************************)
(* run_discovery_job.                                                      *)
(***************************************************************************)

\* The job reads its snapshot and sets RUNNING in its session, which locks the
\* row at the first query after it.
BeginJob(s) ==
  /\ job[s].pc = "queued"
  /\ Goto(s, "introspect")
  /\ UNCHANGED <<row, schema>>

\* The introspector reads the customer database.
Introspect(s) ==
  /\ job[s].pc = "introspect"
  /\ job' = [job EXCEPT ![s].pc = "compare", ![s].doc = schema]
  /\ UNCHANGED <<row, schema>>

\* Mutant: latest_completed without its before_sequence condition.
LatestOfAll(s, p) ==
  /\ row[p] # None /\ row[p].status = "completed"
  /\ \A t \in Snaps : row[t] # None /\ row[t].status = "completed" => row[t].seq <= row[p].seq

\* Completed snapshots with a lower number than s.
Before(s, t) == row[t] # None /\ row[t].status = "completed" /\ row[t].seq < job[s].seq

\* p is latest_completed for s.
LatestCompleted(s, p) == Before(s, p) /\ \A t \in Snaps : Before(s, t) => row[t].seq <= row[p].seq

\* compare_snapshots with the latest completed snapshot, if there is one.
\* Schemas differ when compare_snapshots reports an event between them.
Compare(s) ==
  /\ job[s].pc = "compare"
  /\ \/ /\ ~ \E p \in Snaps : LatestCompleted(s, p)
        /\ Goto(s, "save")
     \/ \E p \in Snaps :
          /\ LatestCompleted(s, p)
          /\ job' = [job EXCEPT ![s].pc = "save", ![s].base = row[p].seq,
               ![s].drift = IF row[p].doc = job[s].doc THEN "same" ELSE "changed"]
  /\ UNCHANGED <<row, schema>>

\* The job commits COMPLETED with the document and the drift, all at once.  It
\* leaves the columns of the acknowledgement alone.
Save(s) ==
  /\ job[s].pc = "save"
  /\ row' = [row EXCEPT ![s].status = "completed", ![s].doc = job[s].doc,
                        ![s].base = job[s].base, ![s].drift = job[s].drift]
  /\ Goto(s, "completed")
  /\ UNCHANGED schema

\* The job has the row locked.
Locked(s) == job[s].pc \in {"introspect", "compare", "save"}

\* Any step of the job raises.  FAILED, the error and the ERROR event are
\* flushed, re-raised, and rolled back by run_discovery_job.
Fail(s) ==
  /\ Locked(s)
  /\ Goto(s, "failed")
  /\ UNCHANGED <<row, schema>>

\* acknowledge_drift: it waits for a job that has the row locked.
Acknowledge(s) ==
  /\ row[s] # None /\ ~row[s].acked /\ ~Locked(s)
  /\ row' = [row EXCEPT ![s].acked = TRUE]
  /\ UNCHANGED <<job, schema>>

\* The process restarts: requests and jobs in it are gone.
Restart ==
  /\ \E s \in Snaps : job[s].pc \in {"insert", "commit", "schedule", "queued"} \/ Locked(s)
  /\ job' = [s \in Snaps |->
       IF Locked(s) THEN [job[s] EXCEPT !.pc = "crashed"]
       ELSE IF job[s].pc \in {"insert", "commit", "schedule", "queued"}
       THEN [job[s] EXCEPT !.pc = "lost"] ELSE job[s]]
  /\ UNCHANGED <<row, schema>>

\* The customer changes the schema.
ChangeSchema(x) ==
  /\ x # schema /\ schema' = x
  /\ UNCHANGED <<row, job>>

Step(s) ==
  \/ Insert(s) \/ CommitStart(s) \/ Schedule(s)
  \/ BeginJob(s) \/ Introspect(s) \/ Compare(s) \/ Save(s) \/ Fail(s)

Next ==
  \/ \E s \in Snaps : Step(s) \/ Acknowledge(s) \/ \E n \in Seqs : Start(s, n)
  \/ Restart
  \/ \E x \in Schemas : ChangeSchema(x)

Spec == Init /\ [][Next]_vars

\* The event loop runs every request and job it has; introspection and
\* profiling are bounded by the connector's statement timeout.
FairSpec == Spec /\ \A s \in Snaps : WF_vars(Step(s))

-----------------------------------------------------------------------------
(***************************************************************************)
(* Safety and liveness.                                                    *)
(***************************************************************************)

Completed(s) == row[s] # None /\ row[s].status = "completed"

\* Requests that start at the same time never get the same number.
SequenceUnique == \A s, t \in Snaps : \A n \in Seqs : Committed(s, n) /\ Committed(t, n) => s = t

\* In whatever order jobs finish, a drift summary is about the snapshot's own
\* document and that of an older completed snapshot.
DriftOfOlder ==
  \A s \in Snaps : Completed(s) /\ row[s].drift # "null" =>
    \E p \in Snaps : /\ Completed(p) /\ row[p].seq = row[s].base /\ row[p].seq < row[s].seq
                     /\ (row[s].drift = "same") <=> (row[p].doc = row[s].doc)

\* A completed snapshot keeps its document and its drift: no late job and no
\* acknowledgement changes what mappings were validated against.
CompletedFrozen ==
  [][\A s \in Snaps : Completed(s) =>
       Completed(s)' /\ row'[s].seq = row[s].seq /\ row'[s].doc = row[s].doc
       /\ row'[s].base = row[s].base /\ row'[s].drift = row[s].drift]_vars

\* A snapshot that was started is completed unless its job raises or is lost.
JobsEnd ==
  \A s \in Snaps :
    (job[s].pc \notin {"new", "refused"}) ~> (Completed(s) \/
       job[s].pc \in {"refused", "failed", "lost", "crashed"})

-----------------------------------------------------------------------------
(***************************************************************************)
(* The inductive invariant.                                                *)
(***************************************************************************)

\* Where a request is, and what it has stored and read so far.
JobInv(s) ==
  /\ job[s].pc # "new" => job[s].seq \in Seqs
  /\ job[s].pc \in {"new", "insert", "commit", "refused"} => row[s] = None
  /\ job[s].pc \in {"schedule", "queued", "completed", "failed", "crashed"} \/ Locked(s) => row[s] # None
  /\ row[s] # None => row[s].seq = job[s].seq /\ row[s].status \in {"pending", "completed"}
  /\ Completed(s) <=> job[s].pc = "completed"
  /\ Completed(s) => row[s].doc \in Schemas
  /\ row[s] # None /\ ~Completed(s) => row[s].drift = "null"
  /\ job[s].pc \in {"compare", "save"} => job[s].doc \in Schemas
  /\ job[s].drift # "null" => job[s].pc \in {"save", "completed", "failed", "crashed"}

\* What a job has compared with is still there when it saves.
CompareInv(s) ==
  job[s].pc = "save" /\ job[s].drift # "null" =>
    \E p \in Snaps : /\ Completed(p) /\ row[p].seq = job[s].base /\ row[p].seq < job[s].seq
                     /\ (job[s].drift = "same") <=> (row[p].doc = job[s].doc)

\* No two snapshots, committed or about to be, have the same number.
Numbered(s) == row[s] # None \/ job[s].pc = "commit"
NumbersUnique ==
  \A s, t \in Snaps : Numbered(s) /\ Numbered(t) /\ job[s].seq = job[t].seq => s = t

IInv == TypeOK /\ NumbersUnique /\ DriftOfOlder /\ \A s \in Snaps : JobInv(s) /\ CompareInv(s)

-----------------------------------------------------------------------------
(***************************************************************************)
(* What the documentation says and the code does not do.                   *)
(***************************************************************************)

\* run_discovery_job: a restart leaves the snapshot of a running job RUNNING.
CrashLeavesRunning == \A s \in Snaps : job[s].pc = "crashed" => row[s].status = "running"

\* run_discovery: a failed discovery is FAILED.
FailureRecorded == \A s \in Snaps : job[s].pc = "failed" => row[s].status = "failed"

\* drift_summary: null only on a connection's first snapshot.
DriftNullOnlyFirst ==
  \A s, t \in Snaps : Completed(s) /\ Completed(t) /\ row[s].drift = "null" =>
    row[s].seq <= row[t].seq

=============================================================================
