------------------------- MODULE SchemaDiscoveryProofs -------------------------
(***************************************************************************)
(* Proofs about SchemaDiscovery, for any number of snapshots and schemas.  *)
(* A number is taken from the INSERT on (NumbersUnique); a snapshot is     *)
(* completed exactly by its own job (JobInv), so the snapshot a job has    *)
(* compared with is as it was when the job saves (CompareInv).             *)
(***************************************************************************)
EXTENDS SchemaDiscovery, TLAPS

USE SeqAssumption, NoneAssumption, RowAssumption

\* Nothing is stored at first.
LEMMA InitInv == Init => IInv
<1> SUFFICES ASSUME Init PROVE IInv OBVIOUS
<1>0. 0 \in 0..MaxSeq OBVIOUS
<1>1. TypeOK BY <1>0 DEF Init, TypeOK, Unstarted, Jobs, PCs
<1>2. NumbersUnique /\ DriftOfOlder
  BY DEF Init, NumbersUnique, Numbered, DriftOfOlder, Completed, Unstarted
<1>3. \A s \in Snaps : JobInv(s) /\ CompareInv(s)
  BY DEF Init, JobInv, CompareInv, Completed, Locked, Unstarted
<1> QED BY <1>1, <1>2, <1>3 DEF IInv

\* A step of s that moves its job to q and stores nothing.
LEMMA MoveKeepsInv ==
  ASSUME IInv, NEW s \in Snaps, NEW q \in Jobs,
         job' = [job EXCEPT ![s] = q], row' = row, schema' = schema,
         JobInv(s)', CompareInv(s)',
         Numbered(s)' => \A t \in Snaps : Numbered(t) /\ job[t].seq = q.seq => t = s
  PROVE  IInv'
<1>0. job'[s] = q /\ \A t \in Snaps : t # s => job'[t] = job[t]
  BY DEF IInv, TypeOK
<1>1. TypeOK' BY DEF IInv, TypeOK
<1>2. DriftOfOlder' BY DEF IInv, DriftOfOlder, Completed
<1>3. ASSUME NEW t \in Snaps PROVE JobInv(t)' /\ CompareInv(t)'
  <2>1. CASE t = s BY <2>1
  <2>2. CASE t # s
    <3>1. JobInv(t) /\ CompareInv(t) /\ job'[t] = job[t] BY <2>2, <1>0 DEF IInv
    <3>2. JobInv(t)' BY <3>1 DEF JobInv, Completed, Locked
    <3>3. CompareInv(t)' BY <3>1 DEF CompareInv, Completed
    <3> QED BY <3>2, <3>3
  <2> QED BY <2>1, <2>2
<1>4. NumbersUnique'
  <2>1. ASSUME NEW t \in Snaps, t # s, Numbered(t)' PROVE Numbered(t) /\ job'[t] = job[t]
    BY <2>1, <1>0 DEF Numbered
  <2>2. ASSUME NEW a \in Snaps, NEW b \in Snaps, Numbered(a)', Numbered(b)',
               job'[a].seq = job'[b].seq
        PROVE  a = b
    <3>1. CASE a = s /\ b = s BY <3>1
    <3>2. CASE a = s /\ b # s BY <3>2, <2>1, <2>2, <1>0
    <3>3. CASE a # s /\ b = s BY <3>3, <2>1, <2>2, <1>0
    <3>4. CASE a # s /\ b # s BY <3>4, <2>1, <2>2 DEF IInv, NumbersUnique
    <3> QED BY <3>1, <3>2, <3>3, <3>4
  <2> QED BY <2>2 DEF NumbersUnique
<1> QED BY <1>1, <1>2, <1>3, <1>4 DEF IInv

\* The common case: only the pc changes.
LEMMA GotoKeepsInv ==
  ASSUME IInv, NEW s \in Snaps, NEW pc \in PCs, Goto(s, pc), row' = row, schema' = schema,
         job[s].pc # "new",
         <<job[s].pc, pc>> \in {<<"insert", "refused">>, <<"insert", "commit">>,
           <<"schedule", "queued">>, <<"queued", "introspect">>, <<"compare", "save">>,
           <<"introspect", "failed">>, <<"compare", "failed">>, <<"save", "failed">>},
         pc = "commit" => \A t \in Snaps : Numbered(t) /\ job[t].seq = job[s].seq => t = s
  PROVE  IInv'
<1> DEFINE q == [job[s] EXCEPT !.pc = pc]
<1>0. job[s] \in Jobs /\ JobInv(s) /\ job \in [Snaps -> Jobs] BY DEF IInv, TypeOK
<1>1. q \in Jobs /\ q.pc = pc /\ q.seq = job[s].seq /\ q.doc = job[s].doc
      /\ q.base = job[s].base /\ q.drift = job[s].drift
  BY <1>0 DEF Jobs
<1>2. job' = [job EXCEPT ![s] = q] /\ job'[s] = q BY <1>0 DEF Goto
<1> HIDE DEF q
<1>3. JobInv(s)' BY <1>0, <1>1, <1>2 DEF JobInv, Completed, Locked
<1>4. CompareInv(s)' BY <1>0, <1>1, <1>2 DEF CompareInv, JobInv
<1>5. Numbered(s)' => \A t \in Snaps : Numbered(t) /\ job[t].seq = q.seq => t = s
  BY <1>0, <1>1, <1>2 DEF IInv, Numbered, NumbersUnique, JobInv
<1> QED BY <1>1, <1>2, <1>3, <1>4, <1>5, MoveKeepsInv

\* A step that stores a row w for s, which keeps what others have compared with.
LEMMA StoreKeepsInv ==
  ASSUME IInv, NEW s \in Snaps, NEW w \in Rows, NEW pc \in PCs,
         row' = [row EXCEPT ![s] = w], job' = [job EXCEPT ![s].pc = pc], schema' = schema,
         Numbered(s), w.seq = job[s].seq,
         Completed(s) => w.status = "completed" /\ w.doc = row[s].doc
                         /\ w.base = row[s].base /\ w.drift = row[s].drift,
         ~Completed(s) /\ w.status = "completed" /\ w.drift # "null" =>
           w.doc = job[s].doc /\ w.base = job[s].base /\ w.drift = job[s].drift
           /\ job[s].pc = "save",
         JobInv(s)', pc # "save"  \/ pc = job[s].pc
  PROVE  IInv'
<1>t. job \in [Snaps -> Jobs] /\ row \in [Snaps -> Rows \cup {None}] /\ schema \in Schemas
  BY DEF IInv, TypeOK
<1>0. /\ row'[s] = w /\ w # None /\ job'[s] = [job[s] EXCEPT !.pc = pc]
      /\ \A t \in Snaps : t # s => job'[t] = job[t] /\ row'[t] = row[t]
  BY <1>t
<1>s. /\ job'[s] \in Jobs /\ job'[s].seq = job[s].seq /\ job'[s].pc = pc
      /\ job'[s].doc = job[s].doc /\ job'[s].base = job[s].base /\ job'[s].drift = job[s].drift
  <2>1. job[s] \in Jobs BY <1>t
  <2> QED BY <2>1, <1>0 DEF Jobs
<1>1. TypeOK'
  BY <1>t, <1>0, <1>s DEF TypeOK
<1>2. NumbersUnique'
  <2>1. \A t \in Snaps : Numbered(t)' => Numbered(t) /\ job'[t].seq = job[t].seq
    BY <1>0, <1>s DEF Numbered
  <2> QED BY <2>1 DEF IInv, NumbersUnique
<1>3. ASSUME NEW p \in Snaps, Completed(p)
      PROVE  Completed(p)' /\ row'[p].seq = row[p].seq /\ row'[p].doc = row[p].doc
  <2>1. CASE p = s
    BY <1>3, <2>1, <1>0 DEF Completed, IInv, JobInv
  <2>2. CASE p # s
    BY <1>3, <2>2, <1>0 DEF Completed
  <2> QED BY <2>1, <2>2
<1>4. ASSUME NEW t \in Snaps PROVE CompareInv(t)'
  <2>1. CASE t # s
    BY <2>1, <1>0, <1>3 DEF CompareInv, IInv
  <2>2. CASE t = s
    BY <2>2, <1>0, <1>s, <1>3 DEF CompareInv, IInv
  <2> QED BY <2>1, <2>2
<1>5. ASSUME NEW t \in Snaps, Completed(t)', row'[t].drift # "null"
      PROVE  \E p \in Snaps :
               /\ Completed(p)' /\ row'[p].seq = row'[t].base /\ row'[p].seq < row'[t].seq
               /\ (row'[t].drift = "same") <=> (row'[p].doc = row'[t].doc)
  <2>1. CASE Completed(t)
    <3>1. /\ row'[t].base = row[t].base /\ row'[t].drift = row[t].drift
          /\ row'[t].doc = row[t].doc /\ row'[t].seq = row[t].seq
      BY <2>1, <1>0, <1>3
    <3>2. PICK p \in Snaps :
            /\ Completed(p) /\ row[p].seq = row[t].base /\ row[p].seq < row[t].seq
            /\ (row[t].drift = "same") <=> (row[p].doc = row[t].doc)
      BY <2>1, <3>1, <1>5 DEF IInv, DriftOfOlder
    <3> QED BY <3>1, <3>2, <1>3
  <2>2. CASE ~Completed(t)
    <3>1. t = s BY <2>2, <1>5, <1>0 DEF Completed
    <3>2. /\ w.status = "completed" /\ w.drift # "null" /\ job[s].pc = "save"
          /\ w.doc = job[s].doc /\ w.base = job[s].base /\ w.drift = job[s].drift
      BY <3>1, <2>2, <1>5, <1>0 DEF Completed
    <3>3. PICK p \in Snaps :
            /\ Completed(p) /\ row[p].seq = job[s].base /\ row[p].seq < job[s].seq
            /\ (job[s].drift = "same") <=> (row[p].doc = job[s].doc)
      BY <3>2 DEF IInv, CompareInv
    <3> QED BY <3>1, <3>2, <3>3, <1>3, <1>0
  <2> QED BY <2>1, <2>2
<1>6. DriftOfOlder' BY <1>5 DEF DriftOfOlder
<1>7. ASSUME NEW t \in Snaps PROVE JobInv(t)'
  <2>1. CASE t = s BY <2>1
  <2>2. CASE t # s BY <2>2, <1>0 DEF IInv, JobInv, Completed, Locked
  <2> QED BY <2>1, <2>2
<1> QED BY <1>1, <1>2, <1>4, <1>6, <1>7 DEF IInv

\* Every step keeps the invariant.
LEMMA NextInv == IInv /\ [Next]_vars => IInv'
<1> SUFFICES ASSUME IInv, [Next]_vars PROVE IInv' OBVIOUS
<1>t. /\ job \in [Snaps -> Jobs] /\ row \in [Snaps -> Rows \cup {None}] /\ schema \in Schemas
      /\ \A s \in Snaps : JobInv(s) /\ CompareInv(s) /\ job[s] \in Jobs
  BY DEF IInv, TypeOK
<1>1. ASSUME NEW s \in Snaps, NEW n \in Seqs, Start(s, n) PROVE IInv'
  <2> DEFINE q == [job[s] EXCEPT !.pc = "insert", !.seq = n]
  <2>0. job[s] \in Jobs /\ n \in 0..MaxSeq /\ n \in Seqs BY <1>t DEF Seqs
  <2>1. q \in Jobs /\ q.pc = "insert" /\ q.seq = n /\ q.doc = job[s].doc
        /\ q.base = job[s].base /\ q.drift = job[s].drift
    BY <2>0 DEF Jobs, PCs
  <2>2. job' = [job EXCEPT ![s] = q] /\ job'[s] = q /\ row' = row /\ schema' = schema
        /\ job[s].pc = "new"
    BY <1>1, <1>t DEF Start
  <2> HIDE DEF q
  <2>3. JobInv(s)' /\ ~Numbered(s)'
    BY <2>0, <2>1, <2>2, <1>t DEF JobInv, Completed, Locked, Numbered
  <2>4. CompareInv(s)' BY <2>1, <2>2 DEF CompareInv
  <2> QED BY <2>1, <2>2, <2>3, <2>4, MoveKeepsInv
<1>2. ASSUME NEW s \in Snaps, Insert(s) PROVE IInv'
  <2>0. job[s].pc = "insert" /\ row' = row /\ schema' = schema /\ job[s].seq \in Seqs
        /\ {"refused", "commit"} \subseteq PCs
    BY <1>2, <1>t DEF Insert, JobInv, PCs
  <2>1. CASE Goto(s, "refused") BY <2>0, <2>1, GotoKeepsInv
  <2>2. CASE ~Taken(s) /\ Goto(s, "commit")
    <3>1. \A t \in Snaps : Numbered(t) /\ job[t].seq = job[s].seq => t = s
      BY <1>2, <2>2, <1>t DEF Insert, Taken, Used, Committed, Numbered, JobInv
    <3> QED BY <2>0, <2>2, <3>1, GotoKeepsInv
  <2> QED BY <1>2, <2>1, <2>2 DEF Insert
<1>3. ASSUME NEW s \in Snaps, CommitStart(s) PROVE IInv'
  <2> DEFINE w == [seq |-> job[s].seq, status |-> "pending", doc |-> None,
                   base |-> 0, drift |-> "null", acked |-> FALSE]
  <2>0. job[s].pc = "commit" /\ job[s].seq \in Seqs /\ 0 \in 0..MaxSeq /\ row[s] = None
        /\ "schedule" \in PCs
    BY <1>3, <1>t DEF CommitStart, JobInv, PCs
  <2>1. w \in Rows /\ w.seq = job[s].seq /\ w.status = "pending" /\ w.drift = "null"
    BY <2>0 DEF Rows, Statuses
  <2>2. row' = [row EXCEPT ![s] = w] /\ schema' = schema
        /\ job' = [job EXCEPT ![s].pc = "schedule"]
    BY <1>3 DEF CommitStart, Goto
  <2> HIDE DEF w
  <2>3. /\ row'[s] = w /\ w # None /\ job'[s].pc = "schedule" /\ job'[s].seq = job[s].seq
        /\ job'[s].drift = job[s].drift
    <3>1. job[s] \in Jobs BY <1>t
    <3> QED BY <2>1, <2>2, <3>1, <1>t DEF Jobs
  <2>4. JobInv(s)'
    BY <2>0, <2>1, <2>3, <1>t DEF JobInv, Completed, Locked
  <2>5. Numbered(s) /\ ~Completed(s) BY <2>0 DEF Numbered, Completed
  <2> QED BY <2>0, <2>1, <2>2, <2>4, <2>5, StoreKeepsInv
<1>4. ASSUME NEW s \in Snaps, Schedule(s) \/ BeginJob(s) PROVE IInv'
  <2>1. {"queued", "introspect"} \subseteq PCs BY DEF PCs
  <2> QED BY <1>4, <2>1, GotoKeepsInv DEF Schedule, BeginJob
<1>5. ASSUME NEW s \in Snaps, Introspect(s) PROVE IInv'
  <2> DEFINE q == [job[s] EXCEPT !.pc = "compare", !.doc = schema]
  <2>0. job[s] \in Jobs BY <1>t
  <2>1. q \in Jobs /\ q.pc = "compare" /\ q.seq = job[s].seq /\ q.doc = schema
        /\ q.base = job[s].base /\ q.drift = job[s].drift
    BY <2>0, <1>t DEF Jobs, PCs
  <2>2. job' = [job EXCEPT ![s] = q] /\ job'[s] = q /\ row' = row /\ schema' = schema
        /\ job[s].pc = "introspect"
    BY <1>5, <1>t DEF Introspect
  <2> HIDE DEF q
  <2>3. JobInv(s)'
    BY <2>1, <2>2, <1>t DEF JobInv, Completed, Locked
  <2>4. CompareInv(s)' BY <2>1, <2>2 DEF CompareInv
  <2>5. Numbered(s)' => \A t \in Snaps : Numbered(t) /\ job[t].seq = q.seq => t = s
    BY <2>1, <2>2, <1>t DEF IInv, NumbersUnique, Numbered, JobInv, Locked
  <2> QED BY <2>1, <2>2, <2>3, <2>4, <2>5, MoveKeepsInv
<1>6. ASSUME NEW s \in Snaps, Compare(s) PROVE IInv'
  <2>0. job[s].pc = "compare" /\ row' = row /\ schema' = schema /\ "save" \in PCs
    BY <1>6 DEF Compare, PCs
  <2>1. CASE Goto(s, "save") BY <2>0, <2>1, GotoKeepsInv
  <2>2. ASSUME NEW p \in Snaps, LatestCompleted(s, p),
               job' = [job EXCEPT ![s].pc = "save", ![s].base = row[p].seq,
                 ![s].drift = IF row[p].doc = job[s].doc THEN "same" ELSE "changed"]
        PROVE  IInv'
    <3> DEFINE d == IF row[p].doc = job[s].doc THEN "same" ELSE "changed"
               q == [job[s] EXCEPT !.pc = "save", !.base = row[p].seq, !.drift = d]
    <3>1. Completed(p) /\ row[p].seq < job[s].seq /\ row[p].seq \in 0..MaxSeq
      BY <2>2, <1>t DEF LatestCompleted, Before, Completed, Rows, Seqs
    <3>2. job[s] \in Jobs /\ d \in {"null", "same", "changed"} BY <1>t
    <3> HIDE DEF d
    <3>3. /\ q \in Jobs /\ q.pc = "save" /\ q.seq = job[s].seq /\ q.doc = job[s].doc
          /\ q.base = row[p].seq /\ q.drift = d
      BY <3>1, <3>2 DEF Jobs, PCs
    <3>4. job' = [job EXCEPT ![s] = q] /\ job'[s] = q
      BY <2>2, <1>t DEF d
    <3> HIDE DEF q
    <3>5. JobInv(s)'
      BY <3>3, <3>4, <2>0, <1>t DEF JobInv, Completed, Locked
    <3>6. CompareInv(s)'
      BY <3>1, <3>3, <3>4, <2>0 DEF CompareInv, Completed, d
    <3>7. Numbered(s)' => \A t \in Snaps : Numbered(t) /\ job[t].seq = q.seq => t = s
      BY <3>3, <2>0, <1>t DEF IInv, NumbersUnique, Numbered, JobInv, Locked
    <3> QED BY <3>3, <3>4, <3>5, <3>6, <3>7, <2>0, MoveKeepsInv
  <2> QED BY <1>6, <2>1, <2>2 DEF Compare
<1>7. ASSUME NEW s \in Snaps, Save(s) PROVE IInv'
  <2> DEFINE w == [row[s] EXCEPT !.status = "completed", !.doc = job[s].doc,
                                 !.base = job[s].base, !.drift = job[s].drift]
  <2>0. /\ job[s].pc = "save" /\ row[s] \in Rows /\ row[s].seq = job[s].seq /\ row[s] # None
        /\ ~Completed(s) /\ job[s].doc \in Schemas /\ job[s] \in Jobs /\ "completed" \in PCs
    BY <1>7, <1>t DEF Save, JobInv, Locked, PCs
  <2>1. /\ w \in Rows /\ w.seq = job[s].seq /\ w.status = "completed" /\ w.doc = job[s].doc
        /\ w.base = job[s].base /\ w.drift = job[s].drift
    <3>1. /\ job[s].base \in 0..MaxSeq /\ job[s].drift \in {"null", "same", "changed"}
          /\ "completed" \in Statuses
      BY <2>0 DEF Jobs, Statuses
    <3> QED BY <3>1, <2>0 DEF Rows
  <2>2. row' = [row EXCEPT ![s] = w] /\ schema' = schema
        /\ job' = [job EXCEPT ![s].pc = "completed"]
    BY <1>7, <1>t DEF Save, Goto
  <2> HIDE DEF w
  <2>3. row'[s] = w /\ job'[s].pc = "completed" /\ job'[s].seq = job[s].seq
        /\ job'[s].drift = job[s].drift
    BY <2>0, <2>1, <2>2, <1>t DEF Jobs
  <2>4. JobInv(s)'
    BY <2>0, <2>1, <2>3, <1>t DEF JobInv, Completed, Locked
  <2>5. Numbered(s) BY <2>0 DEF Numbered
  <2> QED BY <2>0, <2>1, <2>2, <2>4, <2>5, StoreKeepsInv
<1>8. ASSUME NEW s \in Snaps, Fail(s) PROVE IInv'
  <2>1. "failed" \in PCs BY DEF PCs
  <2> QED BY <1>8, <2>1, GotoKeepsInv DEF Fail, Locked
<1>9. ASSUME NEW s \in Snaps, Acknowledge(s) PROVE IInv'
  <2> DEFINE w == [row[s] EXCEPT !.acked = TRUE]
  <2>0. row[s] \in Rows /\ row[s] # None /\ row[s].seq = job[s].seq /\ job[s] \in Jobs
    BY <1>9, <1>t DEF Acknowledge, JobInv
  <2>1. w \in Rows /\ w.seq = row[s].seq /\ w.status = row[s].status /\ w.doc = row[s].doc
        /\ w.base = row[s].base /\ w.drift = row[s].drift
    BY <2>0 DEF Rows
  <2>2. row' = [row EXCEPT ![s] = w] /\ schema' = schema /\ job' = job
    BY <1>9, <1>t DEF Acknowledge
  <2>3. job' = [job EXCEPT ![s].pc = job[s].pc] /\ job[s].pc \in PCs
    BY <2>0, <2>2, <1>t DEF Jobs
  <2> HIDE DEF w
  <2>4. row'[s] = w /\ w # None BY <2>1, <2>2, <1>t
  <2>5. JobInv(s)'
    BY <2>0, <2>1, <2>2, <2>4, <1>t DEF JobInv, Completed, Locked
  <2>6. Completed(s) <=> w.status = "completed"
    BY <2>0, <2>1 DEF Completed
  <2>7. Numbered(s) BY <2>0 DEF Numbered
  <2> QED BY <2>0, <2>1, <2>2, <2>3, <2>5, <2>6, <2>7, StoreKeepsInv
<1>10. CASE Restart
  <2> DEFINE Off(s) == job[s].pc \in {"insert", "commit", "schedule", "queued"}
             Pc(s) == IF Locked(s) THEN "crashed" ELSE IF Off(s) THEN "lost" ELSE job[s].pc
  <2>0. row' = row /\ schema' = schema BY <1>10 DEF Restart
  <2>1. \A s \in Snaps :
          /\ job'[s] \in Jobs /\ job'[s].pc = Pc(s) /\ job'[s].seq = job[s].seq
          /\ job'[s].doc = job[s].doc /\ job'[s].base = job[s].base
          /\ job'[s].drift = job[s].drift
    <3> SUFFICES ASSUME NEW s \in Snaps
                 PROVE  /\ job'[s] \in Jobs /\ job'[s].pc = Pc(s) /\ job'[s].seq = job[s].seq
                        /\ job'[s].doc = job[s].doc /\ job'[s].base = job[s].base
                        /\ job'[s].drift = job[s].drift
      OBVIOUS
    <3>1. job[s] \in Jobs BY <1>t
    <3>2. {"crashed", "lost"} \subseteq PCs BY DEF PCs
    <3>3. CASE Locked(s) BY <3>1, <3>2, <3>3, <1>10 DEF Restart, Jobs
    <3>4. CASE ~Locked(s) /\ Off(s) BY <3>1, <3>2, <3>4, <1>10 DEF Restart, Jobs
    <3>5. CASE ~Locked(s) /\ ~Off(s) BY <3>1, <3>5, <1>10 DEF Restart
    <3> QED BY <3>3, <3>4, <3>5
  <2>2. TypeOK'
    <3>1. job' \in [Snaps -> Jobs] BY <2>1, <1>10 DEF Restart
    <3> QED BY <3>1, <2>0, <1>t DEF TypeOK
  <2>3. \A s \in Snaps : Completed(s)' <=> Completed(s) BY <2>0 DEF Completed
  <2>4. NumbersUnique' BY <2>0, <2>1 DEF IInv, NumbersUnique, Numbered, Locked
  <2>5. DriftOfOlder' BY <2>0 DEF IInv, DriftOfOlder, Completed
  <2>6. ASSUME NEW s \in Snaps PROVE JobInv(s)'
    BY <2>0, <2>1, <2>3, <1>t DEF JobInv, Completed, Locked
  <2>7. ASSUME NEW s \in Snaps PROVE CompareInv(s)'
    BY <2>0, <2>1, <2>3, <1>t DEF CompareInv, Locked
  <2> QED BY <2>2, <2>4, <2>5, <2>6, <2>7 DEF IInv
<1>11. ASSUME row' = row, job' = job, schema' \in Schemas PROVE IInv'
  BY <1>11 DEF IInv, TypeOK, NumbersUnique, Numbered, DriftOfOlder, Completed, JobInv, Locked,
     CompareInv
<1>12. ASSUME NEW x \in Schemas, ChangeSchema(x) PROVE IInv'
  BY <1>11, <1>12 DEF ChangeSchema
<1>13. CASE UNCHANGED vars BY <1>11, <1>13, <1>t DEF vars
<1> QED BY <1>1, <1>2, <1>3, <1>4, <1>5, <1>6, <1>7, <1>8, <1>9, <1>10, <1>12, <1>13
        DEF Next, Step

\* The inductive invariant holds in every reachable state of discovery.
THEOREM Invariance == Spec => []IInv
  BY InitInv, NextInv, PTL DEF Spec

\* The state of discovery keeps its type.
THEOREM TypeCorrect == Spec => []TypeOK
<1>1. IInv => TypeOK BY DEF IInv
<1> QED BY <1>1, Invariance, PTL

\* However many requests start together, sequence numbers are unique.
THEOREM SequencesUnique == Spec => []SequenceUnique
<1>1. IInv => SequenceUnique
  BY DEF IInv, SequenceUnique, Committed, NumbersUnique, Numbered, JobInv
<1> QED BY <1>1, Invariance, PTL

\* In whatever order jobs finish, drift is measured against an older completed
\* snapshot that still is what it was compared as.
THEOREM DriftMeasuredBack == Spec => []DriftOfOlder
<1>1. IInv => DriftOfOlder BY DEF IInv
<1> QED BY <1>1, Invariance, PTL

\* A completed snapshot never changes.
THEOREM CompletedKept == Spec => CompletedFrozen
<1> DEFINE Kept == \A s \in Snaps : Completed(s) =>
               Completed(s)' /\ row'[s].seq = row[s].seq /\ row'[s].doc = row[s].doc
               /\ row'[s].base = row[s].base /\ row'[s].drift = row[s].drift
<1>1. ASSUME IInv, [Next]_vars PROVE [Kept]_vars
  <2>t. /\ row \in [Snaps -> Rows \cup {None}]
        /\ \A s \in Snaps : Completed(s) => row[s] \in Rows /\ job[s].pc = "completed"
    BY <1>1 DEF IInv, TypeOK, JobInv, Completed
  <2>1. ASSUME row' = row PROVE Kept BY <2>1 DEF Completed
  <2>2. ASSUME NEW s \in Snaps, CommitStart(s) \/ Save(s) PROVE Kept
    <3>1. ~Completed(s) BY <2>2, <2>t DEF CommitStart, Save
    <3>2. \A t \in Snaps : t # s => row'[t] = row[t]
      BY <2>2, <2>t DEF CommitStart, Save
    <3> QED BY <3>1, <3>2 DEF Completed
  <2>3. ASSUME NEW s \in Snaps, Acknowledge(s) PROVE Kept
    <3> SUFFICES ASSUME NEW t \in Snaps, Completed(t)
                 PROVE  Completed(t)' /\ row'[t].seq = row[t].seq /\ row'[t].doc = row[t].doc
                        /\ row'[t].base = row[t].base /\ row'[t].drift = row[t].drift
      OBVIOUS
    <3>1. row[t] \in Rows BY <2>t
    <3>2. CASE t = s
      <4>1. row'[t] = [row[t] EXCEPT !.acked = TRUE]
        BY <2>3, <2>t, <3>2 DEF Acknowledge
      <4>2. row'[t] \in Rows BY <4>1, <3>1 DEF Rows
      <4>3. row'[t] # None BY <4>2
      <4> QED BY <4>1, <4>3, <3>1 DEF Completed, Rows
    <3>3. CASE t # s BY <2>3, <2>t, <3>3 DEF Acknowledge, Completed
    <3> QED BY <3>2, <3>3
  <2>4. CASE UNCHANGED vars BY <2>4
  <2>5. CASE Next
    BY <2>1, <2>2, <2>3, <2>5 DEF Next, Step, Start, Insert, Schedule, BeginJob, Introspect,
       Compare, Fail, Restart, ChangeSchema
  <2> QED BY <1>1, <2>4, <2>5
<1> QED BY <1>1, Invariance, PTL DEF CompletedFrozen, Spec

=============================================================================
