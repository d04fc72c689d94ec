------------------------ MODULE MappingLifecycleProofs ------------------------
(***************************************************************************)
(* MappingLifecycle keeps its inductive invariant, and with it its safety  *)
(* properties, for any number of mappings, requests, versions and tables.  *)
(***************************************************************************)
EXTENDS MappingLifecycle, TLAPS

LEMMA IdleFacts ==
  /\ Idle \in Requests
  /\ Shape(Idle) /\ Current(Idle) /\ Numbered(Idle)
  /\ Idle.written = {} /\ ~Inserted(Idle)
<1>1. NoRow \in Rows
  BY DEF Rows
<1>2. Idle \in Requests
  BY <1>1, BoundAssumption DEF Idle, Requests
<1>3. /\ Idle.op = "none" /\ Idle.pc = "idle" /\ Idle.written = {} /\ Idle.todo = {}
      /\ \A m \in Maps : Idle.read[m] = NoRow
  BY DEF Idle
<1>. QED BY <1>2, <1>3 DEF Shape, Current, Numbered, Inserted

LEMMA InitInv == Init => IInv
<1>. SUFFICES ASSUME Init PROVE IInv
  OBVIOUS
<1>1. NoRow \in Rows /\ NoRow.state = "none"
  BY DEF Rows, NoRow
<1>2. TypeOK
  BY <1>1, IdleFacts DEF Init, TypeOK
<1>3. RequestsInv /\ Exclusive
  BY IdleFacts DEF Init, RequestsInv, Exclusive
<1>4. \A m \in Maps : RowInv(m)
  <2>. TAKE m \in Maps
  <2>1. \A k \in Numbers : ~Exists(m, k)
    BY DEF Init, Exists
  <2>2. map[m].state = "none"
    BY <1>1 DEF Init
  <2>. QED BY <2>1, <2>2 DEF RowInv
<1>. QED BY <1>2, <1>3, <1>4 DEF IInv

-----------------------------------------------------------------------------

\* A step that only changes the request in slot r keeps the invariant if the
\* new request satisfies it.
LEMMA AdvanceKeepsInv ==
  ASSUME IInv, NEW r \in Reqs, NEW nq \in Requests,
         req' = [req EXCEPT ![r] = nq], UNCHANGED <<map, vers, validated>>,
         Shape(nq), Current(nq), Numbered(nq),
         \A o \in Reqs : o # r => nq.written \cap req[o].written = {},
         \A o \in Reqs : o # r =>
           ~(/\ Inserted(nq) /\ Inserted(req[o])
             /\ nq.map = req[o].map /\ nq.num = req[o].num)
  PROVE  IInv'
<1>1. \A o \in Reqs : req'[o] = IF o = r THEN nq ELSE req[o]
  BY DEF IInv, TypeOK
<1>2. TypeOK'
  BY DEF IInv, TypeOK
<1>3. /\ \A q : Current(q)' <=> Current(q)
      /\ \A q : Numbered(q)' <=> Numbered(q)
      /\ \A m \in Maps : RowInv(m)' <=> RowInv(m)
  BY DEF Current, Numbered, RowInv, Exists
<1>4. RequestsInv'
  BY <1>1, <1>3 DEF IInv, RequestsInv
<1>5. Exclusive'
  BY <1>1 DEF IInv, Exclusive
<1>. QED BY <1>2, <1>3, <1>4, <1>5 DEF IInv

LEMMA EndKeepsInv ==
  ASSUME IInv, NEW r \in Reqs, Ended(r), UNCHANGED <<map, vers, validated>>
  PROVE  IInv'
BY IdleFacts, AdvanceKeepsInv DEF Ended

LEMMA CreateDraftInv ==
  ASSUME IInv, NEW m \in Maps, NEW e \in Entities, NEW s \in Sources, NEW d \in Docs,
         CreateDraft(m, e, s, d)
  PROVE  IInv'
<1>. DEFINE new == [state |-> "draft", active |-> 0, suspended |-> FALSE,
                    version |-> 1, entity |-> e, source |-> s]
            v == [doc |-> d, approved |-> FALSE]
<1>0. 1 \in Numbers
  BY BoundAssumption DEF Numbers
<1>1. new \in Rows /\ new # NoRow /\ v \in Versions /\ v # None
  <2>1. 0 \in 0..MaxNumber /\ 1 \in Nat \ {0} /\ "draft" \in States
    BY BoundAssumption DEF States
  <2>2. new \in Rows
    BY <2>1 DEF Rows
  <2>3. new # NoRow
    <3>1. new.version = 1 /\ NoRow.version = 0
      BY DEF NoRow
    <3>. QED BY <3>1
  <2>4. v \in Versions
    BY DEF Versions
  <2>. QED BY <2>2, <2>3, <2>4, VersionAssumption
<1>. HIDE DEF v
<1>2. /\ map[m] = NoRow /\ map' = [map EXCEPT ![m] = new]
      /\ vers' = [vers EXCEPT ![m] = [vers[m] EXCEPT ![1] = v]]
      /\ UNCHANGED <<req, validated>>
  BY DEF CreateDraft, v
<1>3. TypeOK'
  BY <1>0, <1>1, <1>2 DEF IInv, TypeOK
<1>4. /\ \A o \in Maps : map'[o] = IF o = m THEN new ELSE map[o]
      /\ \A o \in Maps, k \in Numbers :
           vers'[o][k] = IF o = m /\ k = 1 THEN v ELSE vers[o][k]
  BY <1>0, <1>2 DEF IInv, TypeOK
<1>5. \A o \in Maps : \A k : Exists(o, k)' <=> Exists(o, k) \/ (o = m /\ k = 1)
  BY <1>0, <1>1, <1>4 DEF Exists
<1>6. \A k \in Numbers : ~Exists(m, k)
  BY <1>2 DEF IInv, RowInv
<1>7. RequestsInv'
  <2>. SUFFICES ASSUME NEW r \in Reqs
                PROVE  Shape(req[r]) /\ Current(req[r])' /\ Numbered(req[r])'
    BY <1>2 DEF RequestsInv
  <2>1. Shape(req[r]) /\ Current(req[r]) /\ Numbered(req[r]) /\ req[r] \in Requests
    BY DEF IInv, RequestsInv, TypeOK
  <2>2. Current(req[r])'
    <3>1. req[r].read[m] = NoRow
      <4>1. map[m].version = 0 /\ req[r].read[m] \in Rows
        BY <1>2, <2>1 DEF NoRow, Requests
      <4>. QED BY <2>1, <4>1 DEF Current, Rows
    <3>2. m \notin req[r].written
      BY <2>1, <3>1 DEF Shape
    <3>. QED BY <1>2, <1>4, <2>1, <3>1, <3>2 DEF Current
  <2>3. Numbered(req[r])'
    <3>1. Inserted(req[r]) => req[r].map # m
      <4>. HAVE Inserted(req[r])
      <4>1. req[r].num \in Numbers /\ Exists(req[r].map, req[r].num - 1)
        BY <2>1 DEF Numbered, Inserted
      <4>. QED BY <1>6, <4>1 DEF Exists
    <3>2. Inserted(req[r]) => req[r].map \in Maps
      BY <2>1 DEF Shape, Inserted
    <3>3. req[r].op \in {"submit", "approve", "activate", "new_version"} => req[r].map \in Maps
      BY <2>1 DEF Shape, Idle
    <3>. QED BY <1>2, <1>5, <2>1, <3>1, <3>2, <3>3 DEF Numbered, Inserted
  <2>. QED BY <2>1, <2>2, <2>3
<1>8. Exclusive'
  BY <1>2 DEF IInv, Exclusive, Inserted
<1>9. ASSUME NEW o \in Maps PROVE RowInv(o)'
  <2>1. CASE o # m
    <3>1. /\ map'[o] = map[o] /\ validated'[o] = validated[o]
          /\ \A k \in Numbers : vers'[o][k] = vers[o][k]
          /\ \A k : Exists(o, k)' <=> Exists(o, k)
      BY <1>2, <1>4, <1>5, <2>1
    <3>. QED BY <3>1 DEF IInv, RowInv
  <2>2. CASE o = m
    <3>1. /\ map'[m] = new /\ new.state = "draft" /\ new.active = 0
          /\ \A k \in Numbers : Exists(m, k)' <=> k = 1
      BY <1>4, <1>5, <1>6
    <3>2. 1 > new.active /\ \A j \in Numbers : j <= 1 => j = 1
      BY DEF Numbers
    <3>. QED BY <1>0, <1>1, <2>2, <3>1, <3>2 DEF RowInv
  <2>. QED BY <2>1, <2>2
<1>. QED BY <1>3, <1>7, <1>8, <1>9 DEF IInv

LEMMA BeginInv ==
  ASSUME IInv, NEW r \in Reqs, NEW op \in Ops, NEW m \in Maps, NEW d \in Docs \cup {None},
         op = "new_version" => d \in Docs, Begin(r, op, m, d)
  PROVE  IInv'
<1>. DEFINE nq == [Idle EXCEPT !.op = op, !.map = m, !.todo = {m}, !.doc = d,
                     !.read = [Idle.read EXCEPT ![m] = map[m]],
                     !.pc = IF op \in {"deprecate", "reject"} THEN "flush" ELSE "latest"]
<1>1. /\ req' = [req EXCEPT ![r] = nq] /\ UNCHANGED <<map, vers, validated>>
      /\ op # "drift" /\ Admits(op, m)
  BY DEF Begin
<1>2. /\ nq \in Requests
      /\ nq.op = op /\ nq.map = m /\ nq.todo = {m} /\ nq.written = {} /\ nq.doc = d
      /\ nq.pc = IF op \in {"deprecate", "reject"} THEN "flush" ELSE "latest"
      /\ nq.read[m] = map[m] /\ \A o \in Maps \ {m} : nq.read[o] = NoRow
  <2>1. Idle.read \in [Maps -> Rows] /\ map[m] \in Rows
    BY DEF Idle, Rows, IInv, TypeOK
  <2>. QED BY <2>1, IdleFacts DEF Requests, Idle
<1>. HIDE DEF nq
<1>3. map[m] # NoRow /\ map[m].state \in ReadStates(op) /\ map[m] \in Rows
  <2>1. map[m].state \in ReadStates(op) /\ map[m].state \in States
    BY <1>1 DEF Admits, ReadStates, States, Ops
  <2>2. NoRow.state \notin States
    BY DEF NoRow, States
  <2>. QED BY <2>1, <2>2 DEF IInv, TypeOK
<1>4. Shape(nq)
  BY <1>1, <1>2, <1>3 DEF Shape
<1>5. Current(nq)
  <2>1. map[m].version <= map[m].version
    BY <1>3 DEF Rows, NoRow
  <2>. QED BY <1>2, <2>1 DEF Current
<1>6. Numbered(nq) /\ ~Inserted(nq)
  <2>1. op = "activate" => \E n \in Numbers : Exists(m, n) /\ n > map[m].active
    BY <1>3 DEF IInv, RowInv, ReadStates
  <2>. QED BY <1>2, <2>1 DEF Numbered, Inserted
<1>. HIDE DEF IInv
<1>. QED BY <1>1, <1>2, <1>4, <1>5, <1>6, AdvanceKeepsInv

LEMMA BeginDriftInv ==
  ASSUME IInv, NEW r \in Reqs, NEW s \in Sources, NEW T, BeginDrift(r, s, T)
  PROVE  IInv'
<1>. DEFINE nq == [Idle EXCEPT !.op = "drift", !.pc = "flush", !.source = s,
                     !.read = map, !.todo = Affected(T)]
<1>1. req' = [req EXCEPT ![r] = nq] /\ UNCHANGED <<map, vers, validated>>
  BY DEF BeginDrift
<1>2. /\ nq \in Requests
      /\ nq.op = "drift" /\ nq.pc = "flush" /\ nq.map = None /\ nq.written = {}
      /\ nq.read = map /\ nq.todo = Affected(T)
  <2>1. Affected(T) \in SUBSET Maps /\ map \in [Maps -> Rows]
    BY DEF Affected, IInv, TypeOK
  <2>. QED BY <2>1, IdleFacts DEF Requests, Idle, Ops
<1>. HIDE DEF nq
<1>3. Shape(nq)
  BY <1>2 DEF Shape, Affected, ReadStates, NoRow, Ops
<1>4. Current(nq)
  <2>1. \A m \in Maps : map[m].version <= map[m].version
    BY DEF IInv, TypeOK, Rows, NoRow
  <2>. QED BY <1>2, <2>1 DEF Current
<1>5. Numbered(nq) /\ ~Inserted(nq)
  BY <1>2 DEF Numbered, Inserted
<1>. HIDE DEF IInv
<1>. QED BY <1>1, <1>2, <1>3, <1>4, <1>5, AdvanceKeepsInv

LEMMA ReadVersionsInv ==
  ASSUME IInv, NEW r \in Reqs, NEW n \in Numbers, ReadVersions(r, n)
  PROVE  IInv'
<1>. DEFINE q == req[r]
<1>1. /\ q \in Requests /\ Shape(q) /\ Current(q) /\ Numbered(q)
      /\ q.pc = "latest" /\ q.map \in Maps /\ Latest(q.map, n)
      /\ UNCHANGED <<map, vers, validated>>
      /\ \A o \in Reqs : o # r => q.written \cap req[o].written = {}
  BY DEF ReadVersions, IInv, RequestsInv, TypeOK, Exclusive, Shape
<1>2. n \in Nat /\ Exists(q.map, n)
  BY <1>1 DEF Latest, Numbers
<1>3. CASE Ended(r)
  BY <1>1, <1>3, EndKeepsInv
<1>4. CASE q.op = "new_version" /\ n < MaxNumber
           /\ req' = [req EXCEPT ![r].num = n + 1, ![r].pc = "insert"]
  <2>. DEFINE nq == [q EXCEPT !.num = n + 1, !.pc = "insert"]
  <2>1. n + 1 \in 0..MaxNumber /\ n + 1 \in Numbers /\ (n + 1) - 1 = n
    BY <1>2, <1>4, BoundAssumption DEF Numbers
  <2>2. req' = [req EXCEPT ![r] = nq] /\ nq \in Requests
    BY <1>1, <1>4, <2>1 DEF Requests, IInv, TypeOK
  <2>3. /\ nq.op = q.op /\ nq.pc = "insert" /\ nq.map = q.map /\ nq.read = q.read
        /\ nq.num = n + 1 /\ nq.doc = q.doc /\ nq.todo = q.todo /\ nq.written = q.written
    BY <1>1 DEF Requests
  <2>. HIDE DEF nq
  <2>4. Shape(nq)
    BY <1>1, <1>4, <2>3 DEF Shape
  <2>5. Current(nq)
    BY <1>1, <2>3 DEF Current
  <2>6. Numbered(nq) /\ ~Inserted(nq)
    BY <1>2, <1>4, <2>1, <2>3 DEF Numbered, Inserted
  <2>. HIDE DEF IInv
  <2>. QED BY <1>1, <2>2, <2>3, <2>4, <2>5, <2>6, AdvanceKeepsInv
<1>5. CASE q.op # "new_version" /\ req' = [req EXCEPT ![r].num = n, ![r].pc = "flush"]
  <2>. DEFINE nq == [q EXCEPT !.num = n, !.pc = "flush"]
  <2>1. n \in 0..MaxNumber
    BY BoundAssumption DEF Numbers
  <2>2. req' = [req EXCEPT ![r] = nq] /\ nq \in Requests
    BY <1>1, <1>5, <2>1 DEF Requests, IInv, TypeOK
  <2>3. /\ nq.op = q.op /\ nq.pc = "flush" /\ nq.map = q.map /\ nq.read = q.read
        /\ nq.num = n /\ nq.doc = q.doc /\ nq.todo = q.todo /\ nq.written = q.written
    BY <1>1 DEF Requests
  <2>. HIDE DEF nq
  <2>4. Shape(nq)
    BY <1>1, <1>5, <2>3 DEF Shape
  <2>5. Current(nq)
    BY <1>1, <2>3 DEF Current
  <2>6. q.op = "activate" => n > q.read[q.map].active
    <3>. HAVE q.op = "activate"
    <3>1. PICK k \in Numbers : Exists(q.map, k) /\ k > q.read[q.map].active
      BY <1>1 DEF Numbered
    <3>2. k <= n /\ k \in Nat
      BY <1>1, <3>1 DEF Latest, Numbers
    <3>3. q.read[q.map].active \in Nat
      BY <1>1, BoundAssumption DEF Requests, Rows, NoRow
    <3>. QED BY <1>2, <3>1, <3>2, <3>3
  <2>7. Numbered(nq) /\ ~Inserted(nq)
    BY <1>1, <1>2, <1>5, <2>3, <2>6 DEF Numbered, Inserted
  <2>. HIDE DEF IInv
  <2>. QED BY <1>1, <2>2, <2>3, <2>4, <2>5, <2>7, AdvanceKeepsInv
<1>. QED BY <1>3, <1>4, <1>5 DEF ReadVersions

LEMMA InsertInv ==
  ASSUME IInv, NEW r \in Reqs, Insert(r)
  PROVE  IInv'
<1>. DEFINE q == req[r]
<1>1. /\ q \in Requests /\ Shape(q) /\ Current(q) /\ Numbered(q)
      /\ q.pc = "insert" /\ q.op = "new_version" /\ ~InsertPending(q)
      /\ UNCHANGED <<map, vers, validated>>
      /\ \A o \in Reqs : o # r => q.written \cap req[o].written = {}
  BY DEF Insert, IInv, RequestsInv, TypeOK, Exclusive, Shape
<1>2. CASE Ended(r)
  BY <1>1, <1>2, EndKeepsInv
<1>3. CASE ~Exists(q.map, q.num) /\ req' = [req EXCEPT ![r].pc = "flush"]
  <2>. DEFINE nq == [q EXCEPT !.pc = "flush"]
  <2>1. req' = [req EXCEPT ![r] = nq] /\ nq \in Requests
    BY <1>1, <1>3 DEF Requests, IInv, TypeOK
  <2>2. /\ nq.op = q.op /\ nq.pc = "flush" /\ nq.map = q.map /\ nq.read = q.read
        /\ nq.num = q.num /\ nq.doc = q.doc /\ nq.todo = q.todo /\ nq.written = q.written
    BY <1>1 DEF Requests
  <2>. HIDE DEF nq
  <2>3. Shape(nq)
    BY <1>1, <2>2 DEF Shape
  <2>4. Current(nq)
    BY <1>1, <2>2 DEF Current
  <2>5. Numbered(nq)
    BY <1>1, <1>3, <2>2 DEF Numbered, Inserted
  <2>6. \A o \in Reqs : o # r =>
          ~(Inserted(nq) /\ Inserted(req[o]) /\ nq.map = req[o].map /\ nq.num = req[o].num)
    BY <1>1, <2>2 DEF InsertPending, Inserted
  <2>. HIDE DEF IInv
  <2>. QED BY <1>1, <2>1, <2>2, <2>3, <2>4, <2>5, <2>6, AdvanceKeepsInv
<1>. QED BY <1>2, <1>3 DEF Insert

-----------------------------------------------------------------------------

\* What each operation makes of the row it has read.
LEMMA NewRowFacts ==
  ASSUME NEW q \in Requests, NEW m \in Maps, q.op \in Ops, q.read[m] # NoRow
  PROVE  /\ NewRow(q, m) \in [state : States, active : 0..MaxNumber, suspended : BOOLEAN,
                               version : Nat \ {0}, entity : Entities, source : Sources]
         /\ NewRow(q, m).state =
              CASE q.op = "new_version" -> "draft"
                [] q.op = "submit" -> "pending_validation"
                [] q.op = "approve" -> "approved"
                [] q.op = "activate" -> "active"
                [] q.op = "deprecate" -> "deprecated"
                [] q.op = "reject" -> "rejected"
                [] OTHER -> q.read[m].state
         /\ NewRow(q, m).active = IF q.op = "activate" THEN q.num ELSE q.read[m].active
         /\ NewRow(q, m).suspended =
              CASE q.op = "activate" -> FALSE
                [] q.op = "drift" -> TRUE
                [] OTHER -> q.read[m].suspended
<1>1. /\ q.read[m] \in [state : States, active : 0..MaxNumber, suspended : BOOLEAN,
                         version : Nat \ {0}, entity : Entities, source : Sources]
      /\ q.num \in 0..MaxNumber
  BY DEF Requests, Rows
<1>. QED BY <1>1 DEF NewRow, Ops, States

\* An operation that changes the state always writes.
LEMMA DirtyFacts ==
  ASSUME NEW q \in Requests, NEW m \in Maps, q.op \in Ops, q.read[m] # NoRow,
         q.read[m].state \in ReadStates(q.op)
  PROVE  /\ q.op \notin {"drift", "new_version"} => Dirty(q, m)
         /\ q.op = "new_version" /\ ~Dirty(q, m) => q.read[m].state = "draft"
<1>1. q.op \notin {"drift", "new_version"} => NewRow(q, m).state # q.read[m].state
  BY NewRowFacts DEF ReadStates, Ops
<1>2. q.op = "new_version" => NewRow(q, m).state = "draft"
  BY NewRowFacts
<1>. QED BY <1>1, <1>2 DEF Dirty

LEMMA FlushInv ==
  ASSUME IInv, NEW r \in Reqs, NEW m \in Maps, Flush(r, m)
  PROVE  IInv'
<1>. DEFINE q == req[r]
            d == Dirty(q, m)
<1>1. /\ q \in Requests /\ Shape(q) /\ Current(q) /\ Numbered(q)
      /\ q.pc = "flush" /\ m \in q.todo
      /\ d => \A o \in Reqs : m \notin req[o].written
      /\ UNCHANGED <<map, vers, validated>>
      /\ \A o \in Reqs : o # r => q.written \cap req[o].written = {}
      /\ \A o \in Reqs : o # r =>
           ~(Inserted(q) /\ Inserted(req[o]) /\ q.map = req[o].map /\ q.num = req[o].num)
  BY DEF Flush, IInv, RequestsInv, TypeOK, Exclusive
<1>2. /\ q.op \in Ops /\ q.read[m] # NoRow /\ q.read[m].state \in ReadStates(q.op)
      /\ q.op # "drift" => m = q.map /\ q.map \in Maps /\ q.todo = {m} /\ q.written \subseteq {m}
  BY <1>1 DEF Shape
<1>3. CASE Ended(r)
  BY <1>1, <1>3, EndKeepsInv
<1>4. CASE ~(d /\ ~VersionMatches(q, m)) /\ ~Ended(r)
  <2>. DEFINE w == IF d THEN q.written \cup {m} ELSE q.written
              next == IF q.todo = {m} THEN "commit" ELSE "flush"
              nq == [q EXCEPT !.todo = q.todo \ {m}, !.written = w, !.pc = next]
  <2>1. req' = [req EXCEPT ![r] = nq]
    BY <1>1, <1>4 DEF Flush, IInv, TypeOK
  <2>2. w \in SUBSET Maps /\ q.todo \ {m} \in SUBSET Maps /\ next \in {"flush", "commit"}
    BY <1>1 DEF Requests
  <2>3. nq \in Requests
    BY <1>1, <2>2, ZenonT(40) DEF Requests
  <2>4. /\ nq.op = q.op /\ nq.pc = next /\ nq.map = q.map /\ nq.read = q.read
        /\ nq.num = q.num /\ nq.doc = q.doc /\ nq.todo = q.todo \ {m} /\ nq.written = w
    BY <1>1 DEF Requests
  <2>. HIDE DEF nq
  <2>5. /\ q.op \notin {"drift", "new_version"} => w = {m}
        /\ q.op = "new_version" /\ w = {} => q.read[m].state = "draft"
    BY <1>1, <1>2, DirtyFacts
  <2>6. w \subseteq q.written \cup {m} /\ (q.op # "drift" => next = "commit")
    BY <1>2
  <2>7. Shape(nq)
    <3>. HIDE DEF w, next, d
    <3>. QED BY <1>1, <1>2, <2>2, <2>4, <2>5, <2>6 DEF Shape
  <2>8. Current(nq)
    <3>1. d => q.read[m] = map[m]
      BY <1>1, <1>2, <1>4 DEF VersionMatches, Current
    <3>. QED BY <1>1, <2>4, <3>1 DEF Current
  <2>9. Numbered(nq) /\ (Inserted(nq) <=> Inserted(q))
    <3>. HIDE DEF next
    <3>. QED BY <1>1, <2>2, <2>4 DEF Numbered, Inserted
  <2>10. \A o \in Reqs : o # r => nq.written \cap req[o].written = {}
    BY <1>1, <2>4
  <2>11. \A o \in Reqs : o # r =>
           ~(Inserted(nq) /\ Inserted(req[o]) /\ nq.map = req[o].map /\ nq.num = req[o].num)
    BY <1>1, <2>4, <2>9
  <2>. HIDE DEF IInv
  <2>. QED BY <1>1, <2>1, <2>3, <2>7, <2>8, <2>9, <2>10, <2>11, AdvanceKeepsInv
<1>. QED BY <1>3, <1>4 DEF Flush

LEMMA CommitRows ==
  ASSUME IInv, NEW r \in Reqs, Commit(r), NEW m \in Maps
  PROVE  /\ m \notin req[r].written => map'[m] = map[m]
         /\ m \in req[r].written =>
              /\ map[m] # NoRow /\ req[r].op \in Ops /\ req[r].read[m] = map[m]
              /\ map[m].state \in ReadStates(req[r].op)
              /\ map'[m] \in Rows /\ map'[m] # NoRow
              /\ map'[m].version = map[m].version + 1
              /\ map'[m].state = NewRow(req[r], m).state
              /\ map'[m].active = NewRow(req[r], m).active
              /\ map'[m].suspended = NewRow(req[r], m).suspended
<1>. DEFINE q == req[r]
            n == NewRow(q, m)
<1>1. /\ q \in Requests /\ Shape(q) /\ Current(q) /\ q.pc = "commit"
      /\ map'[m] = IF m \in q.written THEN [n EXCEPT !.version = q.read[m].version + 1] ELSE map[m]
  BY DEF Commit, IInv, RequestsInv, TypeOK
<1>2. CASE m \in q.written
  <2>1. /\ q.read[m] # NoRow /\ q.read[m].state \in ReadStates(q.op) /\ q.op \in Ops
        /\ q.read[m] = map[m]
    BY <1>1, <1>2 DEF Shape, Current
  <2>2. n \in [state : States, active : 0..MaxNumber, suspended : BOOLEAN,
               version : Nat \ {0}, entity : Entities, source : Sources]
    BY <1>1, <2>1, NewRowFacts
  <2>. HIDE DEF n
  <2>3. map[m].version \in Nat /\ map[m].version + 1 \in Nat \ {0}
    BY <2>1 DEF IInv, TypeOK, Rows
  <2>4. map'[m] = [n EXCEPT !.version = map[m].version + 1]
    BY <1>1, <1>2, <2>1
  <2>5. /\ map'[m] \in [state : States, active : 0..MaxNumber, suspended : BOOLEAN,
                         version : Nat \ {0}, entity : Entities, source : Sources]
        /\ map'[m].version = map[m].version + 1
        /\ map'[m].state = n.state /\ map'[m].active = n.active
        /\ map'[m].suspended = n.suspended
    BY <2>2, <2>3, <2>4
  <2>6. map'[m] # NoRow
    BY <2>3, <2>5 DEF NoRow
  <2>. QED BY <1>2, <2>1, <2>5, <2>6 DEF Rows, n
<1>. QED BY <1>1, <1>2

LEMMA CommitVersions ==
  ASSUME IInv, NEW r \in Reqs, Commit(r), NEW m \in Maps, NEW k \in Numbers
  PROVE  /\ vers'[m][k] \in Versions \cup {None}
         /\ Exists(m, k)' <=>
              Exists(m, k) \/ (req[r].op = "new_version" /\ m = req[r].map /\ k = req[r].num)
         /\ Exists(m, k) => /\ vers'[m][k].doc = vers[m][k].doc
                            /\ vers[m][k].approved => vers'[m][k].approved
         /\ req[r].op = "approve" /\ m = req[r].map /\ k = req[r].num => vers'[m][k].approved
<1>. DEFINE q == req[r]
<1>1. /\ q \in Requests /\ Shape(q) /\ Numbered(q) /\ q.pc = "commit"
      /\ vers'[m][k] = IF m = q.map THEN NewVersion(q, k) ELSE vers[m][k]
      /\ vers[m][k] \in Versions \cup {None}
  BY DEF Commit, IInv, RequestsInv, TypeOK
<1>2. CASE m = q.map /\ k = q.num /\ q.op = "new_version"
  <2>. DEFINE v == [doc |-> q.doc, approved |-> FALSE]
  <2>0. q.doc \in Docs /\ vers'[m][k] = v
    BY <1>1, <1>2 DEF NewVersion, Shape
  <2>. HIDE DEF v
  <2>1. v \in Versions
    BY <2>0 DEF Versions, v
  <2>3. v # None
    BY <2>1, VersionAssumption
  <2>2. ~Exists(m, k)
    BY <1>1, <1>2 DEF Numbered, Inserted
  <2>. QED BY <1>2, <2>0, <2>1, <2>2, <2>3 DEF Exists
<1>3. CASE m = q.map /\ k = q.num /\ q.op = "approve"
  <2>1. Exists(m, k)
    BY <1>1, <1>3 DEF Numbered
  <2>2. vers[m][k] \in Versions /\ vers'[m][k] = [vers[m][k] EXCEPT !.approved = TRUE]
    BY <1>1, <1>3, <2>1 DEF NewVersion, Exists
  <2>3. /\ vers'[m][k] \in Versions /\ vers'[m][k].approved = TRUE
        /\ vers'[m][k].doc = vers[m][k].doc
    BY <2>2 DEF Versions
  <2>4. vers'[m][k] # None
    BY <2>3, VersionAssumption
  <2>. QED BY <1>3, <2>1, <2>3, <2>4 DEF Exists
<1>4. CASE ~(m = q.map /\ k = q.num /\ q.op \in {"new_version", "approve"})
  <2>1. vers'[m][k] = vers[m][k]
    BY <1>1, <1>4 DEF NewVersion
  <2>. QED BY <1>1, <1>4, <2>1 DEF Exists
<1>. QED BY <1>2, <1>3, <1>4

LEMMA CommitRowInv ==
  ASSUME IInv, NEW r \in Reqs, Commit(r), NEW m \in Maps
  PROVE  RowInv(m)'
<1>. DEFINE q == req[r]
<1>1. /\ q \in Requests /\ Shape(q) /\ Numbered(q) /\ q.pc = "commit" /\ RowInv(m)
      /\ validated' = [o \in Maps |-> IF o = q.map /\ q.op = "submit"
                                      THEN validated[o] \cup {q.num} ELSE validated[o]]
      /\ map[m] \in Rows
  BY DEF Commit, IInv, RequestsInv, TypeOK
<1>. PICK num : num = q.num
  OBVIOUS
<1>. PICK a : a = map[m].active
  OBVIOUS
<1>. DEFINE added(k) == q.op = "new_version" /\ m = q.map /\ k = q.num
<1>2. \A k \in Numbers : Exists(m, k)' <=> Exists(m, k) \/ added(k)
  BY CommitVersions
<1>3. \A k \in Numbers : Exists(m, k) /\ vers[m][k].approved => vers'[m][k].approved
  BY CommitVersions
<1>4. validated[m] # {} => validated'[m] # {}
  BY <1>1
<1>5. \A j, k \in Numbers : Exists(m, k)' /\ j <= k => Exists(m, j)'
  <2>. SUFFICES ASSUME NEW j \in Numbers, NEW k \in Numbers, Exists(m, k)', j <= k
                PROVE  Exists(m, j)'
    OBVIOUS
  <2>1. CASE Exists(m, k)
    BY <1>1, <1>2, <2>1 DEF RowInv
  <2>2. CASE added(k) /\ j # k
    <3>1. Exists(m, k - 1) /\ k - 1 \in Numbers
      BY <1>1, <2>2 DEF Numbered, Exists
    <3>2. j <= k - 1
      BY <2>2 DEF Numbers
    <3>. QED BY <1>1, <1>2, <3>1, <3>2 DEF RowInv
  <2>3. CASE added(k) /\ j = k
    BY <1>2, <2>3
  <2>. QED BY <1>2, <2>1, <2>2, <2>3
<1>6. CASE m \notin q.written
  <2>1. map'[m] = map[m]
    BY <1>6, CommitRows
  <2>2. added(q.num) => map[m] # NoRow
    <3>. HAVE added(q.num)
    <3>1. q.num - 1 \in Numbers /\ Exists(m, q.num - 1)
      BY <1>1 DEF Numbered, Exists
    <3>. QED BY <1>1, <3>1 DEF RowInv
  <2>3. map[m] = NoRow => \A k \in Numbers : ~Exists(m, k)'
    BY <1>1, <1>2, <2>2 DEF RowInv
  <2>4. \A k \in Numbers : Exists(m, k) => Exists(m, k)'
    BY <1>2
  <2>5. map[m].state \in {"active", "deprecated"} => a \in Numbers /\ Exists(m, a)'
    <3>1. map[m].state \in {"active", "deprecated"} => a \in Numbers /\ Exists(m, a)
      BY <1>1 DEF RowInv, Exists
    <3>. QED BY <2>4, <3>1
  <2>. QED BY <1>1, <1>3, <1>4, <1>5, <2>1, <2>3, <2>4, <2>5 DEF RowInv
<1>7. CASE m \in q.written
  <2>1. /\ map[m] # NoRow /\ q.op \in Ops /\ q.read[m] = map[m]
        /\ map[m].state \in ReadStates(q.op) /\ map'[m] # NoRow
        /\ map'[m].state = NewRow(q, m).state /\ map'[m].active = NewRow(q, m).active
    BY <1>7, CommitRows
  <2>2. q.op # "drift" => m = q.map
    BY <1>1, <1>7 DEF Shape
  <2>3. map[m].active \in Nat
    BY <1>1, BoundAssumption DEF Rows, NoRow
  <2>4. \A k \in Numbers : Exists(m, k) => Exists(m, k)'
    BY <1>2
  <2>5. CASE q.op = "new_version"
    <3>1. map'[m].state = "draft" /\ map'[m].active = map[m].active
      BY <1>1, <2>1, <2>5, NewRowFacts
    <3>2. \E n \in Numbers : Exists(m, n)' /\ n > map[m].active
      <4>1. CASE map[m].state \in {"active", "deprecated"}
        <5>1. /\ Exists(m, map[m].active) /\ map[m].active \in Numbers
              /\ q.num \in Numbers /\ ~Exists(m, q.num)
          BY <1>1, <2>2, <2>5, <4>1 DEF RowInv, Numbered, Inserted, Exists
        <5>2. ~(q.num <= map[m].active)
          BY <1>1, <5>1 DEF RowInv
        <5>3. q.num > map[m].active
          BY <2>3, <5>1, <5>2 DEF Numbers
        <5>. QED BY <1>2, <2>2, <2>5, <5>1, <5>3
      <4>2. CASE map[m].state \in {"draft", "pending_validation", "approved", "rejected"}
        BY <1>1, <2>4, <4>2 DEF RowInv
      <4>3. map[m].state \in States
        BY <1>1, <2>1 DEF Rows
      <4>. QED BY <4>1, <4>2, <4>3 DEF States
    <3>. QED BY <1>5, <2>1, <3>1, <3>2 DEF RowInv
  <2>6. CASE q.op \in {"submit", "approve", "reject"}
    <3>1. /\ map'[m].active = map[m].active
          /\ q.op = "submit" => map'[m].state = "pending_validation"
          /\ q.op = "approve" => map'[m].state = "approved"
          /\ q.op = "reject" => map'[m].state = "rejected"
      BY <1>1, <2>1, <2>6, NewRowFacts
    <3>2. \E n \in Numbers : Exists(m, n)' /\ n > map[m].active
      BY <1>1, <2>1, <2>4, <2>6 DEF RowInv, ReadStates
    <3>3. q.op = "submit" => validated'[m] # {}
      BY <1>1, <2>2
    <3>4. q.op = "approve" => validated'[m] # {}
      BY <1>1, <1>4, <2>1 DEF RowInv, ReadStates
    <3>5. q.op = "approve" => \E n \in Numbers : Exists(m, n)' /\ vers'[m][n].approved
      <4>. HAVE q.op = "approve"
      <4>1. num \in Numbers /\ Exists(m, num)
        BY <1>1, <2>2 DEF Numbered, Exists
      <4>2. Exists(m, num)' /\ vers'[m][num].approved
        BY <1>2, <2>2, <4>1, CommitVersions
      <4>. QED BY <4>1, <4>2
    <3>. QED BY <1>5, <2>1, <2>6, <3>1, <3>2, <3>3, <3>4, <3>5 DEF RowInv
  <2>7. CASE q.op = "activate"
    <3>1. map'[m].state = "active" /\ map'[m].active = num
      BY <1>1, <2>1, <2>7, NewRowFacts
    <3>2. num \in Numbers /\ Exists(m, num)'
      <4>1. num \in Numbers /\ Exists(m, num)
        BY <1>1, <2>2, <2>7 DEF Numbered, Exists
      <4>. QED BY <2>4, <4>1
    <3>3. validated'[m] # {} /\ \E n \in Numbers : Exists(m, n)' /\ vers'[m][n].approved
      BY <1>1, <1>3, <1>4, <2>1, <2>4, <2>7 DEF RowInv, ReadStates
    <3>. QED BY <1>5, <2>1, <3>1, <3>2, <3>3 DEF RowInv
  <2>8. CASE q.op \in {"deprecate", "drift"}
    <3>1. /\ map'[m].active = map[m].active
          /\ map'[m].state = IF q.op = "drift" THEN "active" ELSE "deprecated"
      <4>1. q.read[m].state = "active"
        BY <2>1, <2>8 DEF ReadStates
      <4>2. NewRow(q, m).state = IF q.op = "drift" THEN "active" ELSE "deprecated"
        BY <1>1, <2>1, <2>8, <4>1, NewRowFacts
      <4>3. NewRow(q, m).active = map[m].active
        BY <1>1, <2>1, <2>8, NewRowFacts
      <4>. QED BY <2>1, <4>2, <4>3
    <3>2. a \in Numbers /\ Exists(m, a)'
      <4>1. a \in Numbers /\ Exists(m, a)
        BY <1>1, <2>1, <2>8 DEF RowInv, ReadStates, Exists
      <4>. QED BY <2>4, <4>1
    <3>3. validated'[m] # {} /\ \E n \in Numbers : Exists(m, n)' /\ vers'[m][n].approved
      BY <1>1, <1>3, <1>4, <2>1, <2>4, <2>8 DEF RowInv, ReadStates
    <3>. QED BY <1>5, <2>1, <3>1, <3>2, <3>3 DEF RowInv
  <2>. QED BY <2>1, <2>5, <2>6, <2>7, <2>8 DEF Ops
<1>. QED BY <1>6, <1>7

LEMMA CommitInv ==
  ASSUME IInv, NEW r \in Reqs, Commit(r)
  PROVE  IInv'
<1>. DEFINE q == req[r]
<1>1. /\ q \in Requests /\ Shape(q) /\ Numbered(q) /\ q.pc = "commit"
      /\ req' = [req EXCEPT ![r] = Idle]
  BY DEF Commit, Ended, IInv, RequestsInv, TypeOK
<1>2. \A o \in Reqs : req'[o] = IF o = r THEN Idle ELSE req[o]
  BY <1>1 DEF IInv, TypeOK
<1>3. TypeOK'
  <2>1. map' \in [Maps -> Rows]
    <3>1. \A m \in Maps : map'[m] \in Rows
      BY CommitRows DEF IInv, TypeOK
    <3>2. map' = [m \in Maps |-> map'[m]]
      BY DEF Commit
    <3>. QED BY <3>1, <3>2
  <2>2. vers' \in [Maps -> [Numbers -> Versions \cup {None}]]
    <3>1. \A m \in Maps, k \in Numbers : vers'[m][k] \in Versions \cup {None}
      BY CommitVersions
    <3>2. /\ vers' = [m \in Maps |-> vers'[m]]
          /\ \A m \in Maps : vers'[m] = [k \in Numbers |-> vers'[m][k]]
      BY DEF Commit, IInv, TypeOK
    <3>. QED BY <3>1, <3>2
  <2>3. req' \in [Reqs -> Requests]
    BY <1>1, IdleFacts DEF IInv, TypeOK
  <2>4. validated' \in [Maps -> SUBSET Numbers]
    <3>1. q.op = "submit" => q.num \in Numbers
      BY <1>1 DEF Numbered, Exists
    <3>. QED BY <3>1 DEF Commit, IInv, TypeOK
  <2>. QED BY <2>1, <2>2, <2>3, <2>4 DEF TypeOK
<1>4. ASSUME NEW o \in Reqs, o # r
      PROVE  Shape(req[o]) /\ Current(req[o])' /\ Numbered(req[o])' /\ req'[o] = req[o]
  <2>1. /\ req[o] \in Requests /\ Shape(req[o]) /\ Current(req[o]) /\ Numbered(req[o])
        /\ req'[o] = req[o]
    BY <1>2, <1>4 DEF IInv, RequestsInv, TypeOK
  <2>. PICK p : p = req[o]
    OBVIOUS
  <2>2. ASSUME NEW m \in Maps
        PROVE  /\ p.read[m] # NoRow =>
                    /\ p.read[m].version <= map'[m].version
                    /\ p.read[m].version = map'[m].version => p.read[m] = map'[m]
               /\ m \in p.written => p.read[m] = map'[m]
    <3>1. CASE m \notin q.written
      BY <2>1, <3>1, CommitRows DEF Current
    <3>2. CASE m \in q.written
      <4>1. m \notin p.written
        BY <1>4, <3>2 DEF IInv, Exclusive
      <4>2. map'[m].version = map[m].version + 1 /\ map[m].version \in Nat
        BY <3>2, CommitRows DEF IInv, TypeOK, Rows
      <4>3. p.read[m] # NoRow => p.read[m].version \in Nat
        BY <2>1 DEF Requests, Rows
      <4>4. p.read[m] # NoRow => p.read[m].version <= map[m].version
        BY <2>1 DEF Current
      <4>. QED BY <4>1, <4>2, <4>3, <4>4
    <3>. QED BY <3>1, <3>2
  <2>3. Current(p)'
    BY <2>2 DEF Current
  <2>4. p.op \in {"submit", "approve", "activate", "new_version"} => p.map \in Maps
    BY <2>1 DEF Shape, Idle
  <2>5. p.op \in {"submit", "approve", "activate", "new_version"} =>
          \A k : Exists(p.map, k) => Exists(p.map, k)'
    BY <2>4, CommitVersions DEF Exists
  <2>6. Inserted(p) => ~Exists(p.map, p.num)'
    <3>. HAVE Inserted(p)
    <3>1. p.num \in Numbers /\ ~Exists(p.map, p.num) /\ p.map \in Maps
      BY <2>1, <2>4 DEF Numbered, Inserted
    <3>2. ~(q.op = "new_version" /\ p.map = q.map /\ p.num = q.num)
      BY <1>1, <1>4 DEF IInv, Exclusive, Inserted
    <3>. QED BY <3>1, <3>2, CommitVersions
  <2>7. Numbered(p)'
    BY <2>1, <2>5, <2>6 DEF Numbered
  <2>. QED BY <2>1, <2>3, <2>7
<1>5. RequestsInv'
  <2>1. Shape(Idle) /\ Current(Idle)' /\ Numbered(Idle)'
    <3>1. /\ Idle.op = "none" /\ Idle.written = {} /\ \A m \in Maps : Idle.read[m] = NoRow
          /\ Idle.pc = "idle"
      BY DEF Idle
    <3>. QED BY <3>1, IdleFacts DEF Current, Numbered, Inserted
  <2>2. ASSUME NEW o \in Reqs PROVE (Shape(req[o]) /\ Current(req[o]) /\ Numbered(req[o]))'
    <3>1. CASE o = r
      BY <1>2, <2>1, <3>1
    <3>2. CASE o # r
      BY <1>4, <3>2
    <3>. QED BY <3>1, <3>2
  <2>. QED BY <2>2 DEF RequestsInv
<1>6. Exclusive'
  BY <1>2, IdleFacts DEF IInv, Exclusive
<1>. QED BY <1>3, <1>5, <1>6, CommitRowInv DEF IInv

LEMMA NextInv == IInv /\ [Next]_vars => IInv'
<1>. SUFFICES ASSUME IInv, [Next]_vars PROVE IInv'
  OBVIOUS
<1>. HIDE DEF IInv
<1>1. ASSUME NEW m \in Maps, NEW e \in Entities, NEW s \in Sources, NEW d \in Docs,
             CreateDraft(m, e, s, d)
      PROVE  IInv'
  BY <1>1, CreateDraftInv
<1>2. ASSUME NEW r \in Reqs, NEW m \in Maps, NEW d \in Docs, Begin(r, "new_version", m, d)
      PROVE  IInv'
  BY <1>2, BeginInv DEF Ops
<1>3. ASSUME NEW r \in Reqs, NEW m \in Maps, NEW op \in Ops \ {"new_version", "drift"},
             Begin(r, op, m, None)
      PROVE  IInv'
  BY <1>3, BeginInv
<1>4. ASSUME NEW r \in Reqs, NEW s \in Sources, NEW T \in SUBSET Tables, BeginDrift(r, s, T)
      PROVE  IInv'
  BY <1>4, BeginDriftInv
<1>5. ASSUME NEW r \in Reqs, NEW n \in Numbers, ReadVersions(r, n)
      PROVE  IInv'
  BY <1>5, ReadVersionsInv
<1>6. ASSUME NEW r \in Reqs, NEW m \in Maps, Flush(r, m)
      PROVE  IInv'
  BY <1>6, FlushInv
<1>7. ASSUME NEW r \in Reqs, Insert(r) \/ Commit(r)
      PROVE  IInv'
  BY <1>7, InsertInv, CommitInv
<1>8. ASSUME NEW r \in Reqs, Abort(r)
      PROVE  IInv'
  BY <1>8, EndKeepsInv DEF Abort
<1>9. CASE UNCHANGED vars
  BY <1>9 DEF vars, IInv, TypeOK, RequestsInv, Exclusive, RowInv, Current, Numbered, Exists
<1>. QED BY <1>1, <1>2, <1>3, <1>4, <1>5, <1>6, <1>7, <1>8, <1>9 DEF Next

\* The inductive invariant holds in every reachable state.
THEOREM Invariance == Spec => []IInv
BY InitInv, NextInv, PTL DEF Spec

\* Every variable keeps its type under every operation of MappingService.
THEOREM TypeCorrect == Spec => []TypeOK
<1>1. IInv => TypeOK
  BY DEF IInv
<1>. QED BY <1>1, Invariance, PTL

\* activate never puts a mapping in production of which nothing was validated
\* or approved, and its active version exists.
THEOREM EvidenceKept == Spec => []ProductionEvidence
<1>1. IInv => ProductionEvidence
  BY DEF IInv, RowInv, ProductionEvidence
<1>. QED BY <1>1, Invariance, PTL

-----------------------------------------------------------------------------

\* Rows and versions change by a commit or by the creation of a mapping.
LEMMA ChangeCases ==
  ASSUME IInv, [Next]_vars
  PROVE  \/ \E r \in Reqs : Commit(r)
         \/ \E m \in Maps, e \in Entities, s \in Sources, d \in Docs : CreateDraft(m, e, s, d)
         \/ UNCHANGED <<map, vers>>
BY ZenonT(40) DEF Next, vars, Begin, BeginDrift, ReadVersions, Insert, Flush, Abort

\* A stored version keeps its document.
THEOREM VersionsKept == Spec => VersionsImmutable
<1>. DEFINE A == \A m \in Maps, n \in Numbers :
                   Exists(m, n) => vers'[m][n] # None /\ vers'[m][n].doc = vers[m][n].doc
<1>1. IInv /\ [Next]_vars => A
  <2>. SUFFICES ASSUME IInv, [Next]_vars, NEW m \in Maps, NEW n \in Numbers, Exists(m, n)
                PROVE  vers'[m][n] # None /\ vers'[m][n].doc = vers[m][n].doc
    OBVIOUS
  <2>1. CASE \E r \in Reqs : Commit(r)
    BY <2>1, CommitVersions DEF Exists
  <2>2. CASE \E o \in Maps, e \in Entities, s \in Sources, d \in Docs : CreateDraft(o, e, s, d)
    <3>1. PICK o \in Maps, e \in Entities, s \in Sources, d \in Docs : CreateDraft(o, e, s, d)
      BY <2>2
    <3>2. o # m
      BY <3>1 DEF CreateDraft, IInv, RowInv
    <3>3. vers'[m] = vers[m]
      BY <3>1, <3>2 DEF CreateDraft, IInv, TypeOK
    <3>. QED BY <3>3 DEF Exists
  <2>3. CASE UNCHANGED <<map, vers>>
    BY <2>3 DEF Exists
  <2>. QED BY <2>1, <2>2, <2>3, ChangeCases
<1>2. IInv /\ [Next]_vars => [A]_vars
  BY <1>1
<1>. QED BY <1>2, Invariance, PTL DEF Spec, VersionsImmutable

\* The state of a mapping moves along the lifecycle.
THEOREM LifecycleFollowed == Spec => LifecycleEdges
<1>. DEFINE A == \A m \in Maps : map'[m].state # map[m].state =>
                   <<map[m].state, map'[m].state>> \in Edges
<1>1. IInv /\ [Next]_vars => A
  <2>. SUFFICES ASSUME IInv, [Next]_vars, NEW m \in Maps, map'[m].state # map[m].state
                PROVE  <<map[m].state, map'[m].state>> \in Edges
    OBVIOUS
  <2>1. CASE \E r \in Reqs : Commit(r)
    <3>1. PICK r \in Reqs : Commit(r)
      BY <2>1
    <3>2. /\ map[m] # NoRow /\ req[r].op \in Ops /\ req[r].read[m] = map[m]
          /\ map[m].state \in ReadStates(req[r].op)
          /\ map'[m].state = NewRow(req[r], m).state
      BY <3>1, CommitRows
    <3>3. req[r] \in Requests /\ map[m].state \in States
      BY <3>2 DEF IInv, TypeOK, Rows
    <3>4. CASE req[r].op = "new_version"
      <4>1. map'[m].state = "draft"
        BY <3>2, <3>3, <3>4, NewRowFacts
      <4>. QED BY <3>3, <4>1 DEF Edges
    <3>5. CASE req[r].op # "new_version"
      BY <3>2, <3>3, <3>5, NewRowFacts, ZenonT(40) DEF ReadStates, Ops, Edges
    <3>. QED BY <3>4, <3>5
  <2>2. CASE \E o \in Maps, e \in Entities, s \in Sources, d \in Docs : CreateDraft(o, e, s, d)
    <3>1. map[m] = NoRow /\ map'[m].state = "draft"
      BY <2>2 DEF CreateDraft, IInv, TypeOK
    <3>. QED BY <3>1 DEF NoRow, Edges
  <2>. QED BY <2>1, <2>2, ChangeCases
<1>2. IInv /\ [Next]_vars => [A]_vars
  BY <1>1
<1>. QED BY <1>2, Invariance, PTL DEF Spec, LifecycleEdges

\* Only the activation of a newer version ends a suspension.
THEOREM SuspensionKept == Spec => SuspensionOutlastsVersion
<1>. DEFINE A == \A m \in Maps : map[m].suspended /\ ~map'[m].suspended =>
                   map'[m].state = "active" /\ map'[m].active > map[m].active
<1>1. IInv /\ [Next]_vars => A
  <2>. SUFFICES ASSUME IInv, [Next]_vars, NEW m \in Maps, map[m].suspended, ~map'[m].suspended
                PROVE  map'[m].state = "active" /\ map'[m].active > map[m].active
    OBVIOUS
  <2>1. CASE \E r \in Reqs : Commit(r)
    <3>1. PICK r \in Reqs : Commit(r)
      BY <2>1
    <3>2. /\ m \in req[r].written
          /\ map[m] # NoRow /\ req[r].op \in Ops /\ req[r].read[m] = map[m]
          /\ map'[m].state = NewRow(req[r], m).state
          /\ map'[m].active = NewRow(req[r], m).active
          /\ map'[m].suspended = NewRow(req[r], m).suspended
      BY <3>1, CommitRows
    <3>3. req[r] \in Requests /\ Shape(req[r]) /\ Numbered(req[r]) /\ req[r].pc = "commit"
      BY <3>1 DEF Commit, IInv, TypeOK, RequestsInv
    <3>4. req[r].op = "activate"
      BY <3>2, <3>3, NewRowFacts
    <3>5. req[r].num > map[m].active
      BY <3>2, <3>3, <3>4 DEF Shape, Numbered
    <3>. QED BY <3>2, <3>3, <3>4, <3>5, NewRowFacts
  <2>2. CASE \E o \in Maps, e \in Entities, s \in Sources, d \in Docs : CreateDraft(o, e, s, d)
    <3>1. map[m] = NoRow
      BY <2>2 DEF CreateDraft, IInv, TypeOK
    <3>. QED BY <3>1 DEF NoRow
  <2>. QED BY <2>1, <2>2, ChangeCases
<1>2. IInv /\ [Next]_vars => [A]_vars
  BY <1>1
<1>. QED BY <1>2, Invariance, PTL DEF Spec, SuspensionOutlastsVersion

=============================================================================
