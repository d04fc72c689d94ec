---------------------- MODULE ConnectionLifecycleProofs ----------------------
(***************************************************************************)
(* Proofs about ConnectionLifecycle for every set of connections,          *)
(* processes, request slots and keys.                                      *)
(***************************************************************************)
EXTENDS ConnectionLifecycle, TLAPS

\* An idle slot has written nothing, holds no key and has the idle shape.
LEMMA IdleFacts ==
  /\ Idle \in Requests /\ Shape(Idle)
  /\ ~HasWritten(Idle) /\ ~HoldsKey(Idle) /\ ~HasErased(Idle)
  /\ Idle.op = "none" /\ Idle.pc = "idle" /\ Idle.conn = None /\ Idle.proc = None
BY DEF Idle, Requests, Shape, OpsAt, Ops, HasWritten, HoldsKey, HasErased, Rows, NoRow

\* A row of the table is the empty one or names a key.
LEMMA RowFacts ==
  ASSUME NEW x \in Rows
  PROVE  /\ x.status \in Statuses \cup {"none", "gone"}
         /\ x.cred \in Refs \cup {None} /\ x.validated \in BOOLEAN /\ x.version \in Nat
         /\ x # NoRow => x.cred \in Refs /\ x.status \in Statuses \cup {"gone"}
         /\ x.status \in Statuses \cup {"gone"} => x # NoRow
<1>1. CASE x = NoRow
  <2>1. /\ x.status = "none" /\ x.cred = None
        /\ x.validated = FALSE /\ x.version = 0
    BY <1>1 DEF NoRow
  <2>2. x.version \in Nat
    BY <2>1
  <2>3. x.validated \in BOOLEAN
    BY <2>1
  <2>4. x.status \notin Statuses \cup {"gone"}
    BY <2>1 DEF Statuses
  <2>. QED BY <1>1, <2>1, <2>2, <2>3, <2>4
<1>2. CASE x \in [status : Statuses \cup {"gone"}, cred : Refs,
                  validated : BOOLEAN, version : Nat \ {0}]
  <2>1. /\ x.status \in Statuses \cup {"gone"} /\ x.cred \in Refs
        /\ x.validated \in BOOLEAN /\ x.version \in Nat \ {0}
    BY <1>2
  <2>2. x # NoRow
    BY <2>1 DEF NoRow
  <2>. QED BY <2>1, <2>2
<1>. QED BY <1>1, <1>2 DEF Rows

LEMMA InitInv == Init => IInv
<1>. SUFFICES ASSUME Init PROVE IInv
  OBVIOUS
<1>. USE NoneAssumption, IdleFacts DEF Init
<1>1. TypeOK BY DEF TypeOK, Rows
<1>2. RequestShape BY DEF RequestShape
<1>3. RegisterAlone BY DEF RegisterAlone
<1>4. LockDiscipline BY DEF LockDiscipline
<1>5. KeyOwnership BY DEF KeyOwnership, Ops
<1>6. NewKeys BY DEF NewKeys
<1>7. ErasedFirst BY DEF ErasedFirst
<1>8. SupersededSecretErased BY DEF SupersededSecretErased, NoRow
<1>9. PoolIsolation BY DEF PoolIsolation
<1>10. SnapshotVersion BY DEF SnapshotVersion, Ops
<1>. QED BY <1>10, <1>1, <1>2, <1>3, <1>4, <1>5, <1>6, <1>7, <1>8, <1>9 DEF IInv

-----------------------------------------------------------------------------
(***************************************************************************)
(* Requests that end without a commit.                                     *)
(***************************************************************************)

\* Ending any set of requests, with their locks released, is harmless as long
\* as the engines left in the registries belong to their connections.
LEMMA EndingKeepsInv ==
  ASSUME IInv, NEW S \in SUBSET Reqs,
         req' = Ended(S), lock' = Released(S),
         UNCHANGED <<row, cred, secret, owner, proven>>,
         pool' \in [Procs -> [Conns -> Refs \cup {None}]],
         \A p \in Procs, c \in Conns : pool'[p][c] # None => owner[pool'[p][c]] = c
  PROVE  IInv'
<1>. USE NoneAssumption, IdleFacts DEF IInv
<1>1. \A q \in Reqs : req'[q] = IF q \in S THEN Idle ELSE req[q]
  BY DEF Ended
<1>2. \A c \in Conns : lock'[c] = IF lock[c] \in S THEN None ELSE lock[c]
  BY DEF Released
<1>3. TypeOK'
  BY DEF TypeOK, Ended, Released
<1>4. RequestShape'
  BY <1>1 DEF RequestShape
<1>5. RegisterAlone'
  <2>. SUFFICES ASSUME NEW q \in Reqs, req'[q].op = "register"
                PROVE  /\ row[req'[q].conn] = NoRow
                       /\ \A z \in Reqs : req'[z].conn = req'[q].conn => z = q
    BY DEF RegisterAlone
  <2>1. req'[q] = req[q] /\ req[q].conn \in Conns
    BY <1>1 DEF RequestShape, Shape, OpsAt, TypeOK, Requests
  <2>. QED BY <1>1, <2>1 DEF RegisterAlone
<1>6. LockDiscipline'
  <2>1. ASSUME NEW q \in Reqs, HasWritten(req'[q]) PROVE lock'[req'[q].conn] = q
    <3>1. q \notin S /\ req'[q] = req[q]
      BY <1>1, <2>1
    <3>2. lock[req[q].conn] = q /\ req[q].conn \in Conns
      BY <2>1, <3>1 DEF LockDiscipline, RequestShape, Shape, HasWritten, TypeOK, Requests
    <3>. QED BY <1>2, <3>1, <3>2
  <2>2. ASSUME NEW c \in Conns, lock'[c] # None
        PROVE  /\ HasWritten(req'[lock'[c]]) /\ req'[lock'[c]].conn = c
               /\ row'[c] = req'[lock'[c]].snap
    <3>1. lock'[c] = lock[c] /\ lock[c] \in Reqs /\ lock[c] \notin S
      BY <1>2, <2>2 DEF TypeOK
    <3>. QED BY <1>1, <3>1 DEF LockDiscipline
  <2>. QED BY <2>1, <2>2 DEF LockDiscipline
<1>7. KeyOwnership'
  BY <1>1 DEF KeyOwnership, Ops
<1>8. NewKeys'
  BY <1>1 DEF NewKeys
<1>9. ErasedFirst'
  BY <1>1 DEF ErasedFirst
<1>10. SupersededSecretErased'
  BY DEF SupersededSecretErased
<1>11. PoolIsolation'
  BY <1>1 DEF PoolIsolation
<1>12. SnapshotVersion'
  BY <1>1 DEF SnapshotVersion, Ops
<1>. QED BY <1>3, <1>4, <1>5, <1>6, <1>7, <1>8, <1>9, <1>10, <1>11, <1>12

\* A request that has not written holds no lock.
LEMMA NoLockToRelease ==
  ASSUME IInv, NEW r \in Reqs, ~HasWritten(req[r])
  PROVE  Released({r}) = lock
<1>1. \A c \in Conns : lock[c] # r
  BY NoneAssumption DEF IInv, LockDiscipline
<1>. QED BY <1>1 DEF IInv, TypeOK, Released

LEMMA AbortInv ==
  ASSUME IInv, NEW r \in Reqs, Abort(r)
  PROVE  IInv'
BY EndingKeepsInv DEF Abort, IInv, TypeOK, PoolIsolation

LEMMA ReleaseInv ==
  ASSUME IInv, NEW r \in Reqs, Release(r)
  PROVE  IInv'
<1>1. Released({r}) = lock
  BY NoLockToRelease DEF Release, HasWritten
<1>. QED BY <1>1, EndingKeepsInv DEF Release, IInv, TypeOK, PoolIsolation

LEMMA CrashInv ==
  ASSUME IInv, NEW p \in Procs, Crash(p)
  PROVE  IInv'
<1>. DEFINE dead == {q \in Reqs : req[q].proc = p}
<1>1. pool' \in [Procs -> [Conns -> Refs \cup {None}]]
  BY DEF Crash, IInv, TypeOK
<1>2. ASSUME NEW z \in Procs, NEW c \in Conns, pool'[z][c] # None
      PROVE  owner[pool'[z][c]] = c
  BY <1>2 DEF Crash, IInv, TypeOK, PoolIsolation
<1>. QED BY <1>1, <1>2, EndingKeepsInv DEF Crash

-----------------------------------------------------------------------------
(***************************************************************************)
(* Steps that move a request on without writing to the database.           *)
(***************************************************************************)

\* Moving request r on to record nq, with what it may do to the registries.
LEMMA AdvanceKeepsInv ==
  ASSUME IInv, NEW r \in Reqs, NEW nq \in Requests, Shape(nq),
         req' = [req EXCEPT ![r] = nq],
         nq.op = req[r].op, nq.conn = req[r].conn, nq.snap = req[r].snap,
         HasWritten(nq) <=> HasWritten(req[r]),
         HasErased(nq) => HasErased(req[r]),
         HoldsKey(nq) => HoldsKey(req[r]) /\ nq.ref = req[r].ref,
         nq.pc = "using" => owner[nq.ref] = nq.conn,
         UNCHANGED <<row, cred, secret, lock, owner, proven>>,
         pool' \in [Procs -> [Conns -> Refs \cup {None}]],
         \A p \in Procs, c \in Conns : pool'[p][c] # None => owner[pool'[p][c]] = c
  PROVE  IInv'
<1>. USE NoneAssumption DEF IInv
<1>1. \A q \in Reqs : req'[q] = IF q = r THEN nq ELSE req[q]
  BY DEF TypeOK
<1>2. \A q \in Reqs : /\ req'[q].op = req[q].op /\ req'[q].conn = req[q].conn
                      /\ req'[q].snap = req[q].snap
                      /\ HasWritten(req'[q]) <=> HasWritten(req[q])
                      /\ HasErased(req'[q]) => HasErased(req[q])
                      /\ HoldsKey(req'[q]) => HoldsKey(req[q]) /\ req'[q].ref = req[q].ref
  BY <1>1
<1>3. TypeOK'
  BY DEF TypeOK
<1>4. RequestShape'
  BY <1>1 DEF RequestShape
<1>5. RegisterAlone'
  BY <1>2 DEF RegisterAlone
<1>6. LockDiscipline'
  BY <1>2 DEF LockDiscipline, TypeOK
<1>7. KeyOwnership'
  BY <1>2 DEF KeyOwnership
<1>8. NewKeys'
  BY <1>2 DEF NewKeys
<1>9. ErasedFirst'
  BY <1>2 DEF ErasedFirst
<1>10. SupersededSecretErased'
  BY DEF SupersededSecretErased
<1>11. PoolIsolation'
  BY <1>1 DEF PoolIsolation
<1>12. SnapshotVersion'
  BY <1>2 DEF SnapshotVersion
<1>. QED BY <1>3, <1>4, <1>5, <1>6, <1>7, <1>8, <1>9, <1>10, <1>11, <1>12

LEMMA ResolveInv ==
  ASSUME IInv, NEW r \in Reqs, Resolve(r)
  PROVE  IInv'
<1>. DEFINE nq == [req[r] EXCEPT !.pc = "pool"]
<1>1. req[r] \in Requests /\ Shape(req[r]) /\ req[r].pc = "resolve"
  BY DEF IInv, TypeOK, RequestShape, Resolve
<1>2. CASE secret[req[r].snap.cred] = "stored"
  <2>1. req' = [req EXCEPT ![r] = nq]
    BY <1>2 DEF Resolve, IInv, TypeOK
  <2>2. nq \in Requests
    BY <1>1 DEF Requests, Steps
  <2>3. /\ nq.op = req[r].op /\ nq.conn = req[r].conn /\ nq.snap = req[r].snap
        /\ nq.proc = req[r].proc /\ nq.pc = "pool"
    BY <1>1 DEF Requests
  <2>4. Shape(nq)
    BY <1>1, <2>3 DEF Shape, OpsAt, Ops
  <2>5. ~HasWritten(nq) /\ ~HasWritten(req[r]) /\ ~HasErased(nq) /\ ~HoldsKey(nq)
    BY <1>1, <2>3 DEF HasWritten, HasErased, HoldsKey
  <2>6. /\ UNCHANGED <<row, cred, secret, lock, owner, proven>>
        /\ pool' \in [Procs -> [Conns -> Refs \cup {None}]]
        /\ \A p \in Procs, c \in Conns : pool'[p][c] # None => owner[pool'[p][c]] = c
    BY DEF Resolve, IInv, TypeOK, PoolIsolation
  <2>. HIDE DEF nq
  <2>. QED
    BY <2>1, <2>2, <2>3, <2>4, <2>5, <2>6, AdvanceKeepsInv
<1>3. CASE secret[req[r].snap.cred] # "stored"
  <2>1. Released({r}) = lock
    BY <1>1, NoLockToRelease DEF HasWritten
  <2>. QED
    BY <1>3, <2>1, EndingKeepsInv DEF Resolve, IInv, TypeOK, PoolIsolation
<1>. QED BY <1>2, <1>3

LEMMA EvictInv ==
  ASSUME IInv, NEW r \in Reqs, Evict(r)
  PROVE  IInv'
<1>. DEFINE next == IF req[r].op = "rotate" THEN "erase" ELSE "flush"
            nq == [req[r] EXCEPT !.pc = next]
<1>1. req[r] \in Requests /\ Shape(req[r]) /\ req[r].pc = "evict"
  BY DEF IInv, TypeOK, RequestShape, Evict
<1>2. req' = [req EXCEPT ![r] = nq] /\ nq \in Requests
  BY <1>1 DEF Evict, IInv, TypeOK, Requests, Steps
<1>3. /\ nq.op = req[r].op /\ nq.conn = req[r].conn /\ nq.snap = req[r].snap
      /\ nq.proc = req[r].proc /\ nq.ref = req[r].ref /\ nq.pc = next
  BY <1>1 DEF Requests
<1>4. req[r].op \in {"disable", "rotate", "delete"}
  BY <1>1 DEF Shape, OpsAt
<1>5. Shape(nq)
  BY <1>1, <1>3, <1>4 DEF Shape, OpsAt, Ops
<1>6. /\ ~HasWritten(nq) /\ ~HasWritten(req[r]) /\ ~HasErased(nq)
      /\ HoldsKey(nq) => HoldsKey(req[r])
  BY <1>1, <1>3, <1>4 DEF HasWritten, HasErased, HoldsKey
<1>7. req[r].conn \in Conns /\ req[r].proc \in Procs
  BY <1>1 DEF Shape
<1>8. pool' \in [Procs -> [Conns -> Refs \cup {None}]]
  BY <1>7 DEF Evict, IInv, TypeOK
<1>9. ASSUME NEW z \in Procs, NEW c \in Conns, pool'[z][c] # None
      PROVE  owner[pool'[z][c]] = c
  BY <1>7, <1>9 DEF Evict, IInv, TypeOK, PoolIsolation
<1>. HIDE DEF nq
<1>. QED
  BY <1>2, <1>3, <1>5, <1>6, <1>8, <1>9, AdvanceKeepsInv DEF Evict

LEMMA GetOrCreateInv ==
  ASSUME IInv, NEW r \in Reqs, GetOrCreate(r)
  PROVE  IInv'
<1>. DEFINE p == req[r].proc
            c == req[r].conn
            engine == IF pool[p][c] = None THEN req[r].snap.cred ELSE pool[p][c]
            next == IF req[r].op = "use" THEN "using" ELSE "flush"
            nq == [req[r] EXCEPT !.ref = engine, !.pc = next]
<1>1. req[r] \in Requests /\ Shape(req[r]) /\ req[r].pc = "pool"
  BY DEF IInv, TypeOK, RequestShape, GetOrCreate
<1>2. /\ req[r].op \in {"validate", "use"} /\ c \in Conns /\ p \in Procs
      /\ req[r].snap \in Rows /\ req[r].snap # NoRow
  BY <1>1 DEF Shape, OpsAt, Ops, Requests
<1>3. req[r].snap.cred \in Refs /\ owner[req[r].snap.cred] = c
  BY <1>2, RowFacts DEF IInv, KeyOwnership, Ops
<1>4. engine \in Refs /\ owner[engine] = c
  BY <1>2, <1>3 DEF IInv, TypeOK, PoolIsolation
<1>5. req' = [req EXCEPT ![r] = nq] /\ nq \in Requests
  <2>. HIDE DEF engine
  <2>1. req' = [req EXCEPT ![r] = nq]
    BY DEF GetOrCreate, engine, IInv, TypeOK
  <2>. QED BY <1>1, <1>4, <2>1 DEF Requests, Steps
<1>6. /\ nq.op = req[r].op /\ nq.conn = c /\ nq.snap = req[r].snap
      /\ nq.proc = p /\ nq.ref = engine /\ nq.pc = next
  BY <1>1 DEF Requests
<1>7. pool' = [pool EXCEPT ![p][c] = engine]
  BY DEF GetOrCreate
<1>. HIDE DEF engine, nq
<1>8. Shape(nq)
  BY <1>1, <1>2, <1>4, <1>6 DEF Shape, OpsAt, Ops
<1>9. ~HasWritten(nq) /\ ~HasWritten(req[r]) /\ ~HasErased(nq) /\ ~HoldsKey(nq)
  BY <1>1, <1>2, <1>6 DEF HasWritten, HasErased, HoldsKey
<1>10. pool' \in [Procs -> [Conns -> Refs \cup {None}]]
  BY <1>2, <1>4, <1>7 DEF IInv, TypeOK
<1>11. ASSUME NEW z \in Procs, NEW d \in Conns, pool'[z][d] # None
       PROVE  owner[pool'[z][d]] = d
  BY <1>2, <1>4, <1>7, <1>11 DEF IInv, TypeOK, PoolIsolation
<1>. QED
  BY <1>4, <1>5, <1>6, <1>8, <1>9, <1>10, <1>11, AdvanceKeepsInv DEF GetOrCreate

\* A begun request has read the committed row and written nothing.
LEMMA BeginInv ==
  ASSUME IInv, NEW r \in Reqs, NEW op \in Ops, NEW c \in Conns, NEW p \in Procs,
         Begin(r, op, c, p)
  PROVE  IInv'
<1>. USE NoneAssumption DEF IInv
<1>. DEFINE nq == [op |-> op, pc |-> FirstStep(op), conn |-> c, proc |-> p,
                   snap |-> row[c], ref |-> None, new |-> row[c]]
<1>1. req[r] = Idle /\ req[r].op = "none" /\ req[r].conn = None
  BY IdleFacts DEF Begin, RequestShape, Shape
<1>2. FirstStep(op) \in Steps /\ op \in OpsAt(FirstStep(op)) /\ FirstStep(op) # "idle"
  BY DEF FirstStep, OpsAt, Ops, Steps
<1>3. row[c] \in Rows
  BY DEF TypeOK
<1>4. nq \in Requests
  BY <1>2, <1>3 DEF Requests
<1>5. /\ nq.op = op /\ nq.pc = FirstStep(op) /\ nq.conn = c /\ nq.proc = p
      /\ nq.snap = row[c]
  OBVIOUS
<1>6. op # "register" => row[c].status \in Statuses /\ row[c] # NoRow
  BY <1>3, RowFacts DEF Begin, Admits, Live, Ops
<1>7. op = "enable" => row[c].validated
  BY DEF Begin, Admits
<1>8. op = "register" => FreshId(c)
  BY DEF Begin, Admits
<1>9. req' = [req EXCEPT ![r] = nq] /\ UNCHANGED <<row, cred, secret, pool, lock, owner, proven>>
  BY DEF Begin
<1>. HIDE DEF nq
<1>10. Shape(nq)
  BY <1>2, <1>5, <1>6, <1>7 DEF Shape, FirstStep, Ops
<1>11. ~HasWritten(nq) /\ ~HoldsKey(nq) /\ ~HasErased(nq) /\ nq.pc # "using"
  BY <1>5 DEF HasWritten, HoldsKey, HasErased, FirstStep, Ops
<1>12. \A q \in Reqs : req'[q] = IF q = r THEN nq ELSE req[q]
  BY <1>9 DEF TypeOK
<1>13. TypeOK'
  BY <1>4, <1>9 DEF TypeOK
<1>14. RequestShape'
  BY <1>10, <1>12 DEF RequestShape
<1>15. RegisterAlone'
  <2>. SUFFICES ASSUME NEW q \in Reqs, req'[q].op = "register"
                PROVE  /\ row[req'[q].conn] = NoRow
                       /\ \A z \in Reqs : req'[z].conn = req'[q].conn => z = q
    BY <1>9 DEF RegisterAlone
  <2>1. CASE q = r
    <3>1. op = "register" /\ row[c].status = "none" /\ \A z \in Reqs : req[z].conn # c
      BY <1>5, <1>8, <1>12, <2>1 DEF FreshId
    <3>2. row[c] = NoRow
      BY <1>3, <3>1, RowFacts DEF Statuses
    <3>. QED BY <1>5, <1>12, <2>1, <3>1, <3>2
  <2>2. CASE q # r
    <3>1. req'[q] = req[q] /\ row[req[q].conn] = NoRow
      BY <1>12, <2>2 DEF RegisterAlone
    <3>2. req[q].conn # c
      <4>1. op = "register" => req[q].conn # c
        BY <1>8 DEF FreshId
      <4>2. op # "register" => row[c] # NoRow
        BY <1>6
      <4>. QED BY <3>1, <4>1, <4>2
    <3>. QED BY <1>5, <1>12, <2>2, <3>1, <3>2 DEF RegisterAlone
  <2>. QED BY <2>1, <2>2
<1>16. LockDiscipline'
  <2>1. \A d \in Conns : lock[d] # r
    BY <1>1, IdleFacts DEF LockDiscipline
  <2>. QED BY <1>9, <1>11, <1>12, <2>1 DEF LockDiscipline, TypeOK
<1>17. KeyOwnership'
  BY <1>5, <1>6, <1>9, <1>12 DEF KeyOwnership
<1>18. NewKeys'
  BY <1>9, <1>11, <1>12 DEF NewKeys
<1>19. ErasedFirst'
  BY <1>9, <1>11, <1>12 DEF ErasedFirst
<1>20. SupersededSecretErased'
  BY <1>9 DEF SupersededSecretErased
<1>21. PoolIsolation'
  BY <1>9, <1>11, <1>12 DEF PoolIsolation
<1>22. SnapshotVersion'
  BY <1>3, <1>5, <1>9, <1>12, RowFacts DEF SnapshotVersion
<1>. QED BY <1>13, <1>14, <1>15, <1>16, <1>17, <1>18, <1>19, <1>20, <1>21, <1>22

-----------------------------------------------------------------------------
(***************************************************************************)
(* Steps that write to the secret provider.                                *)
(***************************************************************************)

\* A stored secret gets a key nothing refers to yet.
LEMMA StoreInv ==
  ASSUME IInv, NEW r \in Reqs, NEW s \in Refs, Store(r, s)
  PROVE  IInv'
<1>. USE NoneAssumption DEF IInv
<1>. DEFINE next == IF req[r].op = "register" THEN "commit" ELSE "evict"
            nq == [req[r] EXCEPT !.ref = s, !.pc = next]
<1>1. req[r] \in Requests /\ Shape(req[r]) /\ req[r].pc = "store"
  BY DEF TypeOK, RequestShape, Store
<1>2. req[r].op \in {"register", "rotate"} /\ req[r].conn \in Conns
  BY <1>1 DEF Shape, OpsAt
<1>3. req' = [req EXCEPT ![r] = nq] /\ nq \in Requests
  BY <1>1 DEF Store, TypeOK, Requests, Steps
<1>4. /\ nq.op = req[r].op /\ nq.conn = req[r].conn /\ nq.snap = req[r].snap
      /\ nq.proc = req[r].proc /\ nq.ref = s /\ nq.pc = next
  BY <1>1 DEF Requests
<1>5. Shape(nq)
  BY <1>1, <1>2, <1>4 DEF Shape, OpsAt, Ops
<1>6. /\ ~HasWritten(nq) /\ ~HasWritten(req[r]) /\ ~HasErased(nq)
      /\ nq.pc # "using"
  BY <1>1, <1>2, <1>4 DEF HasWritten, HasErased
<1>7. /\ secret[s] = "unused" /\ owner[s] = None /\ cred[s] = "absent"
      /\ secret' = [secret EXCEPT ![s] = "stored"]
      /\ owner' = [owner EXCEPT ![s] = req[r].conn]
      /\ UNCHANGED <<row, cred, pool, lock, proven>>
  BY DEF Store, KeyOwnership
<1>. HIDE DEF nq
<1>8. \A q \in Reqs : req'[q] = IF q = r THEN nq ELSE req[q]
  BY <1>3 DEF TypeOK
<1>9. \A z \in Refs : z # s => owner'[z] = owner[z] /\ secret'[z] = secret[z]
  BY <1>7 DEF TypeOK
<1>10. owner'[s] = req[r].conn /\ secret'[s] = "stored"
  BY <1>7 DEF TypeOK
<1>11. TypeOK'
  BY <1>2, <1>3, <1>7 DEF TypeOK
<1>12. RequestShape'
  BY <1>5, <1>8 DEF RequestShape
<1>13. RegisterAlone'
  BY <1>4, <1>7, <1>8 DEF RegisterAlone
<1>14. LockDiscipline'
  BY <1>4, <1>6, <1>7, <1>8 DEF LockDiscipline, TypeOK
<1>15. \A x \in Rows \ {NoRow} : owner[x.cred] \in Conns => x.cred # s /\ owner'[x.cred] = owner[x.cred]
  BY <1>7, <1>9, RowFacts
<1>16. \A c \in Conns : row[c] # NoRow => row[c] \in Rows /\ row[c].cred # s /\ owner'[row[c].cred] = c
  BY <1>15 DEF KeyOwnership, TypeOK
<1>17. \A q \in Reqs : req[q].op \in Ops \ {"register"} =>
         /\ req[q].snap \in Rows \ {NoRow} /\ req[q].snap.cred # s
         /\ owner'[req[q].snap.cred] = req[q].conn /\ req[q].conn \in Conns
  <2>. SUFFICES ASSUME NEW q \in Reqs, req[q].op \in Ops \ {"register"}
                PROVE  /\ req[q].snap \in Rows \ {NoRow} /\ req[q].snap.cred # s
                       /\ owner'[req[q].snap.cred] = req[q].conn /\ req[q].conn \in Conns
    OBVIOUS
  <2>1. req[q] \in Requests /\ Shape(req[q]) /\ req[q].pc # "idle"
    BY IdleFacts DEF TypeOK, RequestShape, Shape, Ops
  <2>2. req[q].snap \in Rows \ {NoRow} /\ req[q].conn \in Conns
    BY <2>1 DEF Shape, Requests
  <2>. QED BY <1>15, <2>2 DEF KeyOwnership
<1>18. KeyOwnership'
  <2>1. ASSUME NEW z \in Refs, secret'[z] = "unused"
        PROVE  owner'[z] = None /\ cred'[z] = "absent"
    BY <1>7, <1>9, <1>10, <2>1 DEF KeyOwnership
  <2>2. ASSUME NEW q \in Reqs, req'[q].op \in Ops \ {"register"}
        PROVE  owner'[req'[q].snap.cred] = req'[q].conn
    BY <1>4, <1>8, <1>17, <2>2
  <2>. QED BY <1>7, <1>16, <2>1, <2>2 DEF KeyOwnership
<1>19. \A q \in Reqs : HoldsKey(req[q]) => req[q].ref # s /\ owner'[req[q].ref] = req[q].conn
  <2>. SUFFICES ASSUME NEW q \in Reqs, HoldsKey(req[q])
                PROVE  req[q].ref # s /\ owner'[req[q].ref] = req[q].conn
    OBVIOUS
  <2>1. req[q].conn \in Conns
    BY DEF RequestShape, Shape, HoldsKey
  <2>. QED BY <1>7, <1>9, <2>1 DEF NewKeys
<1>20. NewKeys'
  <2>1. \A c \in Conns : row'[c].cred # s
    <3>. SUFFICES ASSUME NEW c \in Conns PROVE row[c].cred # s
      BY <1>7
    <3>1. CASE row[c] = NoRow
      BY <3>1 DEF NoRow
    <3>. QED BY <1>16, <3>1
  <2>. QED BY <1>4, <1>7, <1>8, <1>10, <1>19, <2>1 DEF NewKeys
<1>21. ErasedFirst'
  <2>. SUFFICES ASSUME NEW q \in Reqs, HasErased(req'[q])
                PROVE  secret'[req'[q].snap.cred] = "deleted"
    BY DEF ErasedFirst
  <2>1. q # r /\ req'[q] = req[q] /\ HasErased(req[q])
    BY <1>6, <1>8
  <2>2. req[q].snap \in Rows \ {NoRow} /\ req[q].snap.cred # s
    BY <1>17, <2>1 DEF HasErased, Ops
  <2>. QED BY <1>9, <2>1, <2>2, RowFacts DEF ErasedFirst
<1>22. SupersededSecretErased'
  <2>1. ASSUME NEW z \in Refs, cred'[z] = "rotated" PROVE secret'[z] = "deleted"
    BY <1>7, <1>9, <2>1 DEF SupersededSecretErased
  <2>2. ASSUME NEW c \in Conns, row'[c].status = "gone"
        PROVE  secret'[row'[c].cred] = "deleted"
    <3>1. row[c] \in Rows /\ row[c].status = "gone" /\ row'[c] = row[c]
      BY <1>7, <2>2 DEF TypeOK
    <3>2. row[c] # NoRow /\ row[c].cred \in Refs
      BY <3>1, RowFacts
    <3>. QED BY <1>9, <1>16, <3>1, <3>2 DEF SupersededSecretErased
  <2>. QED BY <2>1, <2>2 DEF SupersededSecretErased
<1>23. PoolIsolation'
  <2>1. ASSUME NEW p \in Procs, NEW c \in Conns, pool'[p][c] # None
        PROVE  owner'[pool'[p][c]] = c
    <3>1. pool[p][c] \in Refs /\ owner[pool[p][c]] = c /\ pool' = pool
      BY <1>7, <2>1 DEF TypeOK, PoolIsolation
    <3>. QED BY <1>7, <1>9, <3>1
  <2>2. ASSUME NEW q \in Reqs, req'[q].pc = "using"
        PROVE  owner'[req'[q].ref] = req'[q].conn
    <3>1. req'[q] = req[q] /\ q # r
      BY <1>6, <1>8, <2>2
    <3>2. owner[req[q].ref] = req[q].conn /\ req[q].conn \in Conns /\ req[q].ref \in Refs
      BY <2>2, <3>1 DEF PoolIsolation, RequestShape, Shape
    <3>. QED BY <1>7, <1>9, <3>1, <3>2 DEF TypeOK
  <2>. QED BY <2>1, <2>2 DEF PoolIsolation
<1>24. SnapshotVersion'
  BY <1>4, <1>7, <1>8 DEF SnapshotVersion
<1>. QED BY <1>11, <1>12, <1>13, <1>14, <1>18, <1>20, <1>21, <1>22, <1>23, <1>24

\* An erased secret is one a request in flight has read from its row.
LEMMA EraseInv ==
  ASSUME IInv, NEW r \in Reqs, Erase(r)
  PROVE  IInv'
<1>. USE NoneAssumption DEF IInv
<1>. DEFINE next == IF req[r].op = "rotate" THEN "flush" ELSE "commit"
            nq == [req[r] EXCEPT !.pc = next]
            s == req[r].snap.cred
<1>1. req[r] \in Requests /\ Shape(req[r]) /\ req[r].pc = "erase"
  BY DEF TypeOK, RequestShape, Erase
<1>2. /\ req[r].op \in {"rotate", "delete"} /\ req[r].conn \in Conns
      /\ req[r].snap \in Rows \ {NoRow}
  BY <1>1 DEF Shape, OpsAt, Ops, Requests
<1>3. s \in Refs /\ owner[s] = req[r].conn
  BY <1>2, RowFacts DEF KeyOwnership, Ops
<1>4. req' = [req EXCEPT ![r] = nq] /\ nq \in Requests
  BY <1>1 DEF Erase, TypeOK, Requests, Steps
<1>5. /\ nq.op = req[r].op /\ nq.conn = req[r].conn /\ nq.snap = req[r].snap
      /\ nq.proc = req[r].proc /\ nq.ref = req[r].ref /\ nq.pc = next /\ nq.new = req[r].new
  BY <1>1 DEF Requests
<1>6. secret' = [secret EXCEPT ![s] = "deleted"]
      /\ UNCHANGED <<row, cred, pool, lock, owner, proven>>
  BY DEF Erase
<1>. HIDE DEF nq
<1>7. Outcomes(nq) = Outcomes(req[r])
  BY <1>2, <1>5 DEF Outcomes
<1>8. Shape(nq)
  BY <1>1, <1>2, <1>5, <1>7 DEF Shape, OpsAt, Ops
<1>9. /\ HasWritten(nq) <=> HasWritten(req[r])
      /\ HoldsKey(nq) <=> HoldsKey(req[r])
      /\ nq.pc # "using"
  BY <1>1, <1>2, <1>5 DEF HasWritten, HoldsKey
<1>10. \A q \in Reqs : req'[q] = IF q = r THEN nq ELSE req[q]
  BY <1>4 DEF TypeOK
<1>11. \A q \in Reqs : /\ req'[q].op = req[q].op /\ req'[q].conn = req[q].conn
                       /\ req'[q].snap = req[q].snap /\ req'[q].ref = req[q].ref
                       /\ HasWritten(req'[q]) <=> HasWritten(req[q])
                       /\ HoldsKey(req'[q]) <=> HoldsKey(req[q])
  BY <1>5, <1>9, <1>10
<1>12. secret'[s] = "deleted" /\ \A z \in Refs : z # s => secret'[z] = secret[z]
  BY <1>3, <1>6 DEF TypeOK
<1>13. TypeOK'
  BY <1>3, <1>4, <1>6 DEF TypeOK
<1>14. RequestShape'
  BY <1>8, <1>10 DEF RequestShape
<1>15. RegisterAlone'
  BY <1>6, <1>11 DEF RegisterAlone
<1>16. LockDiscipline'
  BY <1>6, <1>11 DEF LockDiscipline, TypeOK
<1>17. KeyOwnership'
  BY <1>6, <1>11, <1>12 DEF KeyOwnership
<1>18. NewKeys'
  BY <1>6, <1>11 DEF NewKeys
<1>19. ErasedFirst'
  <2>. SUFFICES ASSUME NEW q \in Reqs, HasErased(req'[q])
                PROVE  secret'[req'[q].snap.cred] = "deleted"
    BY DEF ErasedFirst
  <2>1. CASE q = r
    BY <1>5, <1>10, <1>12, <2>1
  <2>2. CASE q # r
    <3>1. req'[q] = req[q] /\ HasErased(req[q])
      BY <1>10, <2>2
    <3>2. req[q].snap \in Rows \ {NoRow}
      BY <3>1 DEF HasErased, TypeOK, RequestShape, Requests, Shape, Ops
    <3>. QED BY <1>12, <3>1, <3>2, RowFacts DEF ErasedFirst
  <2>. QED BY <2>1, <2>2
<1>20. SupersededSecretErased'
  <2>1. ASSUME NEW z \in Refs, cred'[z] = "rotated" PROVE secret'[z] = "deleted"
    BY <1>6, <1>12, <2>1 DEF SupersededSecretErased
  <2>2. ASSUME NEW c \in Conns, row'[c].status = "gone"
        PROVE  secret'[row'[c].cred] = "deleted"
    <3>1. row[c] \in Rows /\ row[c].status = "gone" /\ row'[c] = row[c]
      BY <1>6, <2>2 DEF TypeOK
    <3>2. row[c].cred \in Refs
      BY <3>1, RowFacts
    <3>. QED BY <1>12, <3>1, <3>2 DEF SupersededSecretErased
  <2>. QED BY <2>1, <2>2 DEF SupersededSecretErased
<1>21. PoolIsolation'
  BY <1>6, <1>9, <1>10 DEF PoolIsolation
<1>22. SnapshotVersion'
  BY <1>6, <1>11 DEF SnapshotVersion
<1>. QED BY <1>13, <1>14, <1>15, <1>16, <1>17, <1>18, <1>19, <1>20, <1>21, <1>22

-----------------------------------------------------------------------------
(***************************************************************************)
(* The flush and the commit.                                               *)
(***************************************************************************)

\* What an operation makes of the row it has read.
LEMMA OutcomeFacts ==
  ASSUME NEW q \in Requests, Shape(q), NEW new \in Outcomes(q),
         q.op \in {"validate", "enable", "disable", "rotate", "delete"},
         q.op = "rotate" => q.ref \in Refs
  PROVE  /\ new \in Rows \ {NoRow}
         /\ new.status \in Statuses \cup {"gone"}
         /\ new.status = "gone" <=> q.op = "delete"
         /\ new.cred = IF q.op = "rotate" THEN q.ref ELSE q.snap.cred
         /\ new.version = q.snap.version
<1>1. q.snap \in [status : Statuses \cup {"gone"}, cred : Refs,
                  validated : BOOLEAN, version : Nat \ {0}]
      /\ q.snap.status \in Statuses
  BY DEF Shape, Requests, Rows, Ops
<1>2. /\ new \in [status : Statuses \cup {"gone"}, cred : Refs,
                  validated : BOOLEAN, version : Nat \ {0}]
      /\ new.status = "gone" <=> q.op = "delete"
      /\ new.cred = IF q.op = "rotate" THEN q.ref ELSE q.snap.cred
      /\ new.version = q.snap.version
  <2>. DEFINE S == [status : Statuses \cup {"gone"}, cred : Refs,
                    validated : BOOLEAN, version : Nat \ {0}]
  <2>1. CASE q.op = "validate"
    <3>1. PICK s \in {"active", "error"} :
            new = [q.snap EXCEPT !.status = s, !.validated = TRUE]
      BY <2>1 DEF Outcomes
    <3>2. TRUE \in BOOLEAN /\ s \in Statuses /\ s # "gone"
      BY DEF Statuses
    <3>3. /\ new.status = s /\ new.cred = q.snap.cred
          /\ new.version = q.snap.version
      BY <1>1, <3>1
    <3>4. new \in S
      BY <1>1, <3>1, <3>2
    <3>. QED BY <2>1, <3>2, <3>3, <3>4
  <2>2. CASE q.op = "enable"
    BY <1>1, <2>2 DEF Outcomes, Statuses
  <2>3. CASE q.op = "disable"
    BY <1>1, <2>3 DEF Outcomes, Statuses
  <2>4. CASE q.op = "rotate"
    BY <1>1, <2>4 DEF Outcomes, Statuses
  <2>5. CASE q.op = "delete"
    BY <1>1, <2>5 DEF Outcomes, Statuses
  <2>. QED BY <2>1, <2>2, <2>3, <2>4, <2>5
<1>. QED BY <1>2 DEF Rows, NoRow, Statuses

\* A stale flush ends the request; another one locks the row it has read.
LEMMA FlushInv ==
  ASSUME IInv, NEW r \in Reqs, NEW new \in Outcomes(req[r]), Flush(r, new)
  PROVE  IInv'
<1>. USE NoneAssumption DEF IInv
<1>. DEFINE c == req[r].conn
            next == IF req[r].op = "delete" THEN "erase" ELSE "commit"
            nq == [req[r] EXCEPT !.new = new, !.pc = next]
<1>1. req[r] \in Requests /\ Shape(req[r]) /\ req[r].pc = "flush"
  BY DEF TypeOK, RequestShape, Flush
<1>2. /\ req[r].op \in {"validate", "enable", "disable", "rotate", "delete"}
      /\ c \in Conns /\ req[r].snap \in Rows \ {NoRow}
  BY <1>1 DEF Shape, OpsAt, Ops, Requests
<1>3. ~HasWritten(req[r])
  BY <1>1 DEF HasWritten
<1>4. CASE Dirty(req[r], new) /\ ~VersionMatches(r)
  <2>1. Released({r}) = lock
    BY <1>3, NoLockToRelease
  <2>2. /\ req' = Ended({r}) /\ lock' = Released({r})
        /\ UNCHANGED <<row, cred, secret, pool, owner, proven>>
    BY <1>4, <2>1 DEF Flush
  <2>3. /\ pool' \in [Procs -> [Conns -> Refs \cup {None}]]
        /\ \A p \in Procs, d \in Conns : pool'[p][d] # None => owner[pool'[p][d]] = d
    BY <2>2 DEF TypeOK, PoolIsolation
  <2>. HIDE DEF IInv
  <2>. QED BY <2>2, <2>3, EndingKeepsInv
<1>5. CASE ~(Dirty(req[r], new) /\ ~VersionMatches(r))
  <2>1. /\ req' = [req EXCEPT ![r] = nq]
        /\ lock' = IF Dirty(req[r], new) THEN [lock EXCEPT ![c] = r] ELSE lock
        /\ Dirty(req[r], new) => lock[c] = None /\ VersionMatches(r)
        /\ UNCHANGED <<row, cred, secret, pool, owner, proven>>
    BY <1>5 DEF Flush, TypeOK
  <2>2. req[r].op = "rotate" => req[r].ref \in Refs
    BY <1>1 DEF NewKeys, HoldsKey
  <2>3. new \in Rows
    BY <1>1, <1>2, <2>2, OutcomeFacts
  <2>4. nq \in Requests
    BY <1>1, <2>3 DEF Requests, Steps
  <2>5. /\ nq.op = req[r].op /\ nq.conn = c /\ nq.snap = req[r].snap
        /\ nq.proc = req[r].proc /\ nq.ref = req[r].ref /\ nq.pc = next /\ nq.new = new
    BY <1>1 DEF Requests
  <2>. HIDE DEF nq
  <2>6. Outcomes(nq) = Outcomes(req[r]) /\ (Dirty(nq, new) <=> Dirty(req[r], new))
    BY <2>5 DEF Outcomes, Dirty
  <2>7. Shape(nq)
    BY <1>1, <1>2, <2>5, <2>6 DEF Shape, OpsAt, Ops
  <2>8. /\ HasWritten(nq) <=> Dirty(req[r], new)
        /\ HoldsKey(nq) => HoldsKey(req[r])
        /\ HasErased(nq) => HasErased(req[r])
        /\ nq.pc # "using"
    BY <1>1, <1>2, <2>5, <2>6 DEF HasWritten, HoldsKey, HasErased, Dirty
  <2>9. \A q \in Reqs : req'[q] = IF q = r THEN nq ELSE req[q]
    BY <2>1 DEF TypeOK
  <2>10. \A q \in Reqs : /\ req'[q].op = req[q].op /\ req'[q].conn = req[q].conn
                         /\ req'[q].snap = req[q].snap /\ req'[q].ref = req[q].ref
                         /\ HoldsKey(req'[q]) => HoldsKey(req[q])
                         /\ HasErased(req'[q]) => HasErased(req[q])
    BY <2>5, <2>8, <2>9
  <2>11. TypeOK'
    BY <1>2, <2>1, <2>4 DEF TypeOK
  <2>12. RequestShape'
    BY <2>7, <2>9 DEF RequestShape
  <2>13. RegisterAlone'
    BY <2>1, <2>10 DEF RegisterAlone
  <2>14. LockDiscipline'
    <3>1. CASE ~Dirty(req[r], new)
      <4>1. \A d \in Conns : lock[d] # r
        BY <1>3 DEF LockDiscipline
      <4>. QED BY <2>1, <2>8, <2>9, <3>1, <4>1 DEF LockDiscipline, TypeOK
    <3>2. CASE Dirty(req[r], new)
      <4>1. lock[c] = None /\ lock' = [lock EXCEPT ![c] = r]
        BY <2>1, <3>2
      <4>2. \A d \in Conns : lock'[d] = IF d = c THEN r ELSE lock[d]
        BY <1>2, <4>1 DEF TypeOK
      <4>3. row[c] = req[r].snap
        BY <1>2, <2>1, <3>2 DEF VersionMatches, SnapshotVersion, Ops
      <4>. QED BY <1>2, <2>1, <2>5, <2>8, <2>9, <3>2, <4>1, <4>2, <4>3
               DEF LockDiscipline, TypeOK
    <3>. QED BY <3>1, <3>2
  <2>15. KeyOwnership'
    BY <2>1, <2>10 DEF KeyOwnership
  <2>16. NewKeys'
    BY <2>1, <2>10 DEF NewKeys
  <2>17. ErasedFirst'
    BY <2>1, <2>10 DEF ErasedFirst
  <2>18. SupersededSecretErased'
    BY <2>1 DEF SupersededSecretErased
  <2>19. PoolIsolation'
    BY <2>1, <2>8, <2>9 DEF PoolIsolation
  <2>20. SnapshotVersion'
    BY <2>1, <2>10 DEF SnapshotVersion
  <2>. QED BY <2>11, <2>12, <2>13, <2>14, <2>15, <2>16, <2>17, <2>18, <2>19, <2>20
<1>. QED BY <1>4, <1>5

\* The row and the credentials a commit of r leaves, told by its case.
LEMMA CommitCases ==
  ASSUME IInv, NEW r \in Reqs, req[r].pc = "commit"
  PROVE  \/ /\ req[r].op = "register"
            /\ row[req[r].conn] = NoRow /\ req[r].ref \in Refs
            /\ CommittedRow(r) = [status |-> "pending_validation", cred |-> req[r].ref,
                                  validated |-> FALSE, version |-> 1]
         \/ /\ req[r].op \in {"validate", "enable", "disable", "rotate", "delete"}
            /\ HasWritten(req[r]) /\ lock[req[r].conn] = r
            /\ row[req[r].conn] = req[r].snap
            /\ req[r].new \in Outcomes(req[r])
            /\ req[r].op = "rotate" => req[r].ref \in Refs
            /\ CommittedRow(r) = [req[r].new EXCEPT !.version = req[r].snap.version + 1]
         \/ /\ req[r].op \in {"enable", "disable"}
            /\ CommittedRow(r) = row[req[r].conn]
<1>1. req[r] \in Requests /\ Shape(req[r]) /\ req[r].conn \in Conns
  BY DEF IInv, TypeOK, RequestShape, Shape
<1>2. req[r].op \in {"register", "validate", "enable", "disable", "rotate", "delete"}
  BY <1>1 DEF Shape, OpsAt, Ops
<1>3. HoldsKey(req[r]) => req[r].ref \in Refs
  BY DEF IInv, NewKeys
<1>4. CASE req[r].op = "register"
  BY <1>1, <1>3, <1>4 DEF IInv, RegisterAlone, HoldsKey, CommittedRow
<1>5. CASE req[r].op # "register" /\ Dirty(req[r], req[r].new)
  <2>1. HasWritten(req[r])
    BY <1>5 DEF HasWritten
  <2>2. lock[req[r].conn] = r /\ row[req[r].conn] = req[r].snap
    BY <1>1, <2>1, NoneAssumption DEF IInv, LockDiscipline
  <2>3. req[r].new \in Outcomes(req[r])
    BY <1>1, <1>5 DEF Shape
  <2>. QED BY <1>2, <1>3, <1>5, <2>1, <2>2, <2>3 DEF HoldsKey, CommittedRow
<1>6. CASE req[r].op # "register" /\ ~Dirty(req[r], req[r].new)
  BY <1>2, <1>6 DEF Dirty, CommittedRow
<1>. QED BY <1>4, <1>5, <1>6

\* A commit that changes the row of its connection raises the version, names
\* a key of the connection, and is made by the only request that could.
LEMMA CommitChanges ==
  ASSUME IInv, NEW r \in Reqs, req[r].pc = "commit", CommittedRow(r) # row[req[r].conn]
  PROVE  LET n == CommittedRow(r)
             c == req[r].conn
         IN  /\ c \in Conns /\ row[c] \in Rows /\ n \in Rows \ {NoRow}
             /\ row[c].version < n.version
             /\ owner[n.cred] = c
             /\ n.cred = row[c].cred \/ (HoldsKey(req[r]) /\ n.cred = req[r].ref)
             /\ n.status = "gone" => secret[n.cred] = "deleted"
             /\ lock[c] \in {r, None}
             /\ \A q \in Reqs : req[q].op = "register" /\ req[q].conn = c => q = r
             /\ req[r].op = "register" => \A q \in Reqs : req[q].conn = c => q = r
<1>. DEFINE n == CommittedRow(r)
            c == req[r].conn
<1>. USE NoneAssumption DEF IInv
<1>1. req[r] \in Requests /\ Shape(req[r]) /\ c \in Conns /\ row[c] \in Rows
  BY DEF TypeOK, RequestShape, Shape
<1>2. CASE req[r].op = "register"
  <2>1. /\ row[c] = NoRow /\ req[r].ref \in Refs
        /\ n = [status |-> "pending_validation", cred |-> req[r].ref,
                validated |-> FALSE, version |-> 1]
    BY <1>2, CommitCases
  <2>2. n \in Rows \ {NoRow} /\ n.version = 1 /\ n.cred = req[r].ref /\ n.status # "gone"
    BY <2>1 DEF Rows, NoRow, Statuses
  <2>3. row[c].version = 0
    BY <2>1 DEF NoRow
  <2>4. HoldsKey(req[r]) /\ owner[req[r].ref] = c
    BY <1>2 DEF HoldsKey, NewKeys
  <2>5. \A q \in Reqs : req[q].conn = c => q = r
    BY <1>2 DEF RegisterAlone
  <2>6. lock[c] \in {r, None}
    BY <1>1, <2>5 DEF LockDiscipline, TypeOK
  <2>. QED BY <1>1, <2>2, <2>3, <2>4, <2>5, <2>6
<1>3. CASE req[r].op # "register"
  <2>1. /\ req[r].op \in {"validate", "enable", "disable", "rotate", "delete"}
        /\ lock[c] = r /\ row[c] = req[r].snap /\ req[r].new \in Outcomes(req[r])
        /\ req[r].op = "rotate" => req[r].ref \in Refs
        /\ n = [req[r].new EXCEPT !.version = req[r].snap.version + 1]
    BY <1>3, CommitCases
  <2>2. /\ req[r].new \in Rows \ {NoRow}
        /\ req[r].new.status = "gone" <=> req[r].op = "delete"
        /\ req[r].new.cred = IF req[r].op = "rotate" THEN req[r].ref ELSE row[c].cred
    BY <1>1, <2>1, OutcomeFacts
  <2>3. row[c].version \in Nat /\ row[c].cred \in Refs /\ row[c] # NoRow
    BY <1>1, <2>1, RowFacts DEF Shape, Ops
  <2>4. /\ n.version = row[c].version + 1 /\ n.cred = req[r].new.cred
        /\ n.status = req[r].new.status
        /\ n \in Rows /\ n # NoRow
    <3>1. req[r].new \in [status : Statuses \cup {"gone"}, cred : Refs,
                          validated : BOOLEAN, version : Nat \ {0}]
      BY <2>2 DEF Rows
    <3>2. row[c].version + 1 \in Nat \ {0}
      BY <2>3
    <3>3. /\ n \in [status : Statuses \cup {"gone"}, cred : Refs,
                    validated : BOOLEAN, version : Nat \ {0}]
          /\ n.version = row[c].version + 1 /\ n.cred = req[r].new.cred
          /\ n.status = req[r].new.status
      BY <2>1, <3>1, <3>2
    <3>4. n.version # 0
      BY <2>3, <3>3
    <3>. QED BY <3>3, <3>4 DEF Rows, NoRow
  <2>5. owner[row[c].cred] = c
    BY <1>1, <2>3 DEF KeyOwnership
  <2>6. req[r].op = "rotate" => HoldsKey(req[r]) /\ owner[req[r].ref] = c
    BY DEF HoldsKey, NewKeys
  <2>7. req[r].op = "delete" => secret[row[c].cred] = "deleted"
    BY <2>1 DEF ErasedFirst, HasErased
  <2>8. \A q \in Reqs : req[q].op = "register" /\ req[q].conn = c => q = r
    BY <2>3 DEF RegisterAlone
  <2>9. row[c].version < n.version
    BY <2>3, <2>4
  <2>. QED BY <1>1, <1>3, <2>1, <2>2, <2>4, <2>5, <2>6, <2>7, <2>8, <2>9
<1>. QED BY <1>2, <1>3

LEMMA CommitInv ==
  ASSUME IInv, NEW r \in Reqs, Commit(r)
  PROVE  IInv'
<1>. USE NoneAssumption, IdleFacts
<1>. DEFINE n == CommittedRow(r)
            c == req[r].conn
<1>1. req[r] \in Requests /\ Shape(req[r]) /\ c \in Conns /\ req[r].pc = "commit"
      /\ row[c] \in Rows
  BY DEF IInv, TypeOK, RequestShape, Shape, Commit
<1>2. n # row[c] =>
        /\ n \in Rows \ {NoRow} /\ row[c].version < n.version /\ owner[n.cred] = c
        /\ n.cred = row[c].cred \/ (HoldsKey(req[r]) /\ n.cred = req[r].ref)
        /\ n.status = "gone" => secret[n.cred] = "deleted"
        /\ lock[c] \in {r, None}
        /\ \A q \in Reqs : req[q].op = "register" /\ req[q].conn = c => q = r
  BY <1>1, CommitChanges
<1>3. /\ \A d \in Conns : row'[d] = IF d = c THEN n ELSE row[d]
      /\ \A q \in Reqs : req'[q] = IF q = r THEN Idle ELSE req[q]
      /\ \A d \in Conns : lock'[d] = IF lock[d] = r THEN None ELSE lock[d]
      /\ UNCHANGED <<secret, pool, owner>>
  BY <1>1 DEF Commit, Ended, Released, IInv, TypeOK
<1>. USE DEF IInv
<1>4. n \in Rows
  BY <1>1, <1>2
<1>. HIDE DEF n
<1>5. TypeOK'
  <2>1. row' \in [Conns -> Rows]
    BY <1>1, <1>4 DEF Commit, TypeOK, n
  <2>2. cred' \in [Refs -> {"absent", "active", "rotated"}]
    BY DEF Commit, CommittedCreds, TypeOK
  <2>3. req' \in [Reqs -> Requests] /\ lock' \in [Conns -> Reqs \cup {None}]
    BY DEF Commit, Ended, Released, TypeOK
  <2>4. proven' \in SUBSET Conns
    BY <1>1 DEF Commit, TypeOK
  <2>. QED BY <1>3, <2>1, <2>2, <2>3, <2>4 DEF TypeOK
<1>6. RequestShape'
  BY <1>3 DEF RequestShape
<1>7. RegisterAlone'
  <2>. SUFFICES ASSUME NEW q \in Reqs, req'[q].op = "register"
                PROVE  /\ row'[req'[q].conn] = NoRow
                       /\ \A z \in Reqs : req'[z].conn = req'[q].conn => z = q
    BY DEF RegisterAlone
  <2>1. q # r /\ req'[q] = req[q] /\ row[req[q].conn] = NoRow /\ req[q].conn \in Conns
    BY <1>3 DEF RegisterAlone, RequestShape, Shape
  <2>2. row'[req[q].conn] = NoRow
    BY <1>2, <1>3, <2>1
  <2>. QED BY <1>3, <2>1, <2>2 DEF RegisterAlone
<1>8. SnapshotVersion'
  <2>. SUFFICES ASSUME NEW q \in Reqs, req'[q].op \in Ops \ {"register"}
                PROVE  /\ req'[q].snap.version <= row'[req'[q].conn].version
                       /\ req'[q].snap.version = row'[req'[q].conn].version =>
                            req'[q].snap = row'[req'[q].conn]
    BY DEF SnapshotVersion
  <2>1. /\ req'[q] = req[q] /\ req[q].conn \in Conns /\ req[q].snap \in Rows
        /\ req[q].snap.version <= row[req[q].conn].version
        /\ req[q].snap.version = row[req[q].conn].version => req[q].snap = row[req[q].conn]
    BY <1>3 DEF SnapshotVersion, RequestShape, Shape, TypeOK, Requests, Ops
  <2>2. req[q].snap.version \in Nat /\ row[c].version \in Nat /\ n.version \in Nat
    BY <1>1, <1>4, <2>1, RowFacts
  <2>. QED BY <1>2, <1>3, <2>1, <2>2
<1>9. LockDiscipline'
  <2>1. ASSUME NEW q \in Reqs, HasWritten(req'[q]) PROVE lock'[req'[q].conn] = q
    <3>1. q # r /\ req'[q] = req[q]
      BY <1>3, <2>1
    <3>2. lock[req[q].conn] = q /\ req[q].conn \in Conns
      BY <2>1, <3>1 DEF LockDiscipline, RequestShape, Shape, HasWritten
    <3>. QED BY <1>3, <3>1, <3>2
  <2>2. ASSUME NEW d \in Conns, lock'[d] # None
        PROVE  /\ HasWritten(req'[lock'[d]]) /\ req'[lock'[d]].conn = d
               /\ row'[d] = req'[lock'[d]].snap
    <3>1. lock'[d] = lock[d] /\ lock[d] \in Reqs /\ lock[d] # r
      BY <1>3, <2>2 DEF TypeOK
    <3>2. row'[d] = row[d]
      BY <1>2, <1>3, <3>1
    <3>. QED BY <1>3, <3>1, <3>2 DEF LockDiscipline
  <2>. QED BY <2>1, <2>2 DEF LockDiscipline
<1>10. \A s \in Refs : secret[s] = "unused" => cred'[s] = "absent"
  <2>. SUFFICES ASSUME NEW s \in Refs, secret[s] = "unused" PROVE cred'[s] = "absent"
    OBVIOUS
  <2>1. owner[s] = None /\ cred[s] = "absent"
    BY DEF KeyOwnership
  <2>2. req[r].op \in {"register", "rotate"} => owner[req[r].ref] = c
    BY <1>1 DEF NewKeys, HoldsKey
  <2>3. req[r].op \in {"rotate", "delete"} => owner[req[r].snap.cred] = c
    BY DEF KeyOwnership, Ops
  <2>. QED BY <1>1, <2>1, <2>2, <2>3 DEF Commit, CommittedCreds
<1>11. KeyOwnership'
  BY <1>2, <1>3, <1>10 DEF KeyOwnership, Ops
<1>12. NewKeys'
  <2>. SUFFICES ASSUME NEW q \in Reqs, HoldsKey(req'[q])
                PROVE  /\ req'[q].ref \in Refs /\ owner'[req'[q].ref] = req'[q].conn
                       /\ \A d \in Conns : row'[d].cred # req'[q].ref
                       /\ \A z \in Reqs : HoldsKey(req'[z]) /\ req'[z].ref = req'[q].ref => z = q
    BY DEF NewKeys
  <2>1. q # r /\ req'[q] = req[q] /\ HoldsKey(req[q])
    BY <1>3
  <2>2. n.cred # req[q].ref
    BY <1>1, <1>2, <2>1 DEF NewKeys
  <2>. QED BY <1>3, <2>1, <2>2 DEF NewKeys
<1>13. ErasedFirst'
  BY <1>3 DEF ErasedFirst
<1>14. SupersededSecretErased'
  <2>1. ASSUME NEW s \in Refs, cred'[s] = "rotated" PROVE secret'[s] = "deleted"
    <3>1. req[r].op = "rotate" => secret[req[r].snap.cred] = "deleted"
      BY <1>1 DEF ErasedFirst, HasErased
    <3>2. cred[s] = "rotated" \/ (req[r].op = "rotate" /\ s = req[r].snap.cred)
      BY <2>1 DEF Commit, CommittedCreds
    <3>. QED BY <1>3, <3>1, <3>2 DEF SupersededSecretErased
  <2>2. ASSUME NEW d \in Conns, row'[d].status = "gone"
        PROVE  secret'[row'[d].cred] = "deleted"
    BY <1>2, <1>3, <2>2 DEF SupersededSecretErased
  <2>. QED BY <2>1, <2>2 DEF SupersededSecretErased
<1>15. PoolIsolation'
  BY <1>3 DEF PoolIsolation
<1>. QED BY <1>5, <1>6, <1>7, <1>8, <1>9, <1>11, <1>12, <1>13, <1>14, <1>15

-----------------------------------------------------------------------------
(***************************************************************************)
(* The theorems.                                                           *)
(***************************************************************************)

LEMMA NextInv == IInv /\ [Next]_vars => IInv'
<1>. SUFFICES ASSUME IInv, [Next]_vars PROVE IInv'
  OBVIOUS
<1>1. ASSUME NEW r \in Reqs, NEW op \in Ops, NEW c \in Conns, NEW p \in Procs,
             Begin(r, op, c, p)
      PROVE  IInv'
  BY <1>1, BeginInv
<1>2. ASSUME NEW r \in Reqs, Step(r) PROVE IInv'
  BY <1>2, StoreInv, ResolveInv, EraseInv, GetOrCreateInv, EvictInv, ReleaseInv,
     FlushInv, CommitInv DEF Step
<1>3. ASSUME NEW r \in Reqs, Abort(r) PROVE IInv'
  BY <1>3, AbortInv
<1>4. ASSUME NEW p \in Procs, Crash(p) PROVE IInv'
  BY <1>4, CrashInv
<1>5. CASE UNCHANGED vars
  BY <1>5 DEF vars, IInv, TypeOK, RequestShape, RegisterAlone, SnapshotVersion,
     LockDiscipline, KeyOwnership, NewKeys, ErasedFirst, SupersededSecretErased,
     PoolIsolation
<1>. QED BY <1>1, <1>2, <1>3, <1>4, <1>5 DEF Next

\* The inductive invariant holds in every state: the row lock, the version
\* check, the order of erasing and committing, and the keys' owners.
THEOREM Invariance == Spec => []IInv
BY InitInv, NextInv, PTL DEF Spec

\* Every variable keeps its type.
THEOREM TypeCorrect == Spec => []TypeOK
BY Invariance, PTL DEF IInv

\* A committed rotation or deletion leaves no secret behind.
THEOREM SecretsErased == Spec => []SupersededSecretErased
BY Invariance, PTL DEF IInv

\* No engine is ever built with, or handed out for, another connection's key.
THEOREM PoolsIsolated == Spec => []PoolIsolation
BY Invariance, PTL DEF IInv

\* Only a commit changes the rows.
LEMMA RowsChangeByCommit ==
  ASSUME [Next]_vars, row' # row
  PROVE  \E r \in Reqs : Commit(r)
BY DEF Next, vars, Begin, Step, Store, Resolve, Erase, GetOrCreate, Evict, Release,
       Flush, Abort, Crash

\* A commit made by a request in flight when the connection was disabled
\* cannot take it out of that status.
THEOREM DisableFinal == Spec => DisableNotOverwritten
<1>. DEFINE A == \A c \in Conns :
       row[c].status = "disabled" /\ row'[c].status # "disabled" =>
         \E r \in Reqs : /\ req[r].pc = "commit" /\ req[r].conn = c
                         /\ req[r].snap.status = "disabled"
<1>1. IInv /\ [Next]_vars => A
  <2>. SUFFICES ASSUME IInv, [Next]_vars, NEW c \in Conns,
                       row[c].status = "disabled", row'[c].status # "disabled"
                PROVE  \E r \in Reqs : /\ req[r].pc = "commit" /\ req[r].conn = c
                                       /\ req[r].snap.status = "disabled"
    OBVIOUS
  <2>1. PICK r \in Reqs : Commit(r)
    BY RowsChangeByCommit
  <2>2. req[r].pc = "commit" /\ req[r].conn = c /\ row'[c] = CommittedRow(r)
    BY <2>1 DEF Commit, IInv, TypeOK
  <2>3. row[c] = req[r].snap
    BY <2>2, CommitCases DEF NoRow
  <2>. QED BY <2>2, <2>3
<1>2. IInv /\ [Next]_vars => [A]_vars
  BY <1>1
<1>. QED BY <1>2, Invariance, PTL DEF Spec, DisableNotOverwritten

\* Every step of the implementation is a step of the contract or leaves the
\* connections as they are.
THEOREM ImplementsContract == Spec => AtomicOperations
<1>. DEFINE view == [c \in Conns |-> [status |-> row[c].status, cred |-> row[c].cred,
                                      validated |-> row[c].validated]]
<1>1. Init => Contract!Init
  BY DEF Init, NoRow, Contract!Init, Contract!Absent
<1>2. IInv /\ [Next]_vars => [Contract!Next]_view
  <2>. SUFFICES ASSUME IInv, [Next]_vars, view' # view PROVE Contract!Next
    OBVIOUS
  <2>1. PICK r \in Reqs : Commit(r)
    BY RowsChangeByCommit
  <2>. DEFINE n == CommittedRow(r)
              old == req[r].snap
  <2>2. PICK c \in Conns : c = req[r].conn
    BY <2>1 DEF Commit, IInv, RequestShape, Shape
  <2>3. PICK k : k = req[r].ref
    OBVIOUS
  <2>4. req[r].pc = "commit" /\ req[r] \in Requests /\ Shape(req[r])
    BY <2>1 DEF Commit, IInv, TypeOK, RequestShape
  <2>5. row' = [row EXCEPT ![c] = n] /\ row \in [Conns -> Rows]
    BY <2>1, <2>2 DEF Commit, IInv, TypeOK
  <2>. HIDE DEF n
  <2>6. view' = [view EXCEPT ![c] = [status |-> n.status, cred |-> n.cred,
                                     validated |-> n.validated]]
    BY <2>5
  <2>7. HoldsKey(req[r]) => k \in Refs /\ \A d \in Conns : view[d].cred # k
    BY <2>3 DEF IInv, NewKeys
  <2>8. CASE req[r].op = "register"
    <3>1. /\ row[c] = NoRow /\ n.status = "pending_validation"
          /\ n.cred = k /\ n.validated = FALSE
      BY <2>2, <2>3, <2>4, <2>8, CommitCases DEF n
    <3>2. view[c] = Contract!Absent
      <4>1. row[c].status = "none" /\ row[c].cred = None /\ row[c].validated = FALSE
        BY <3>1 DEF NoRow
      <4>2. view[c] = [status |-> row[c].status, cred |-> row[c].cred,
                       validated |-> row[c].validated]
        OBVIOUS
      <4>. QED BY <4>1, <4>2 DEF Contract!Absent
    <3>3. HoldsKey(req[r])
      BY <2>4, <2>8 DEF HoldsKey
    <3>4. view' = [view EXCEPT ![c] =
            [status |-> "pending_validation", cred |-> k, validated |-> FALSE]]
      BY <2>6, <3>1
    <3>5. Contract!Unshared(k)
      BY <2>7, <3>3 DEF Contract!Unshared
    <3>6. Contract!Register(c, k)
      BY <3>2, <3>4, <3>5 DEF Contract!Register
    <3>. QED BY <2>7, <3>3, <3>6 DEF Contract!Next
  <2>9. CASE req[r].op # "register"
    <3>1. /\ req[r].op \in {"validate", "enable", "disable", "rotate", "delete"}
          /\ row[c] = old /\ req[r].new \in Outcomes(req[r])
          /\ req[r].op = "rotate" => req[r].ref \in Refs
          /\ n = [req[r].new EXCEPT !.version = old.version + 1]
      <4>1. n # row[c]
        BY <2>6
      <4>. QED BY <2>2, <2>4, <2>9, <4>1, CommitCases DEF n
    <3>2. req[r].new \in Rows \ {NoRow} /\ old \in Rows \ {NoRow} /\ old.status \in Statuses
      BY <2>4, <3>1, OutcomeFacts DEF Shape, Requests, Ops
    <3>3. /\ n.status = req[r].new.status /\ n.cred = req[r].new.cred
          /\ n.validated = req[r].new.validated
      BY <3>1, <3>2 DEF Rows
    <3>4. Contract!Exists(c)
      BY <3>1, <3>2 DEF Contract!Exists, Statuses
    <3>5. view[c] = [status |-> old.status, cred |-> old.cred, validated |-> old.validated]
      BY <3>1
    <3>6. CASE req[r].op = "validate"
      <4>1. PICK s \in {"active", "error"} :
              req[r].new = [old EXCEPT !.status = s, !.validated = TRUE]
        BY <3>1, <3>6 DEF Outcomes
      <4>2. n.status = s /\ n.cred = old.cred /\ n.validated = TRUE
        BY <3>2, <3>3, <4>1 DEF Rows
      <4>3. view' = [view EXCEPT ![c] =
              [status |-> s, cred |-> view[c].cred, validated |-> TRUE]]
        BY <2>6, <3>5, <4>2
      <4>4. Contract!Validate(c, s)
        BY <3>4, <4>3 DEF Contract!Validate
      <4>. QED BY <4>4 DEF Contract!Next
    <3>7. CASE req[r].op = "enable"
      <4>1. n.status = "active" /\ n.cred = old.cred /\ n.validated = old.validated
        BY <3>1, <3>2, <3>3, <3>7 DEF Outcomes, Rows
      <4>2. view[c].validated
        BY <2>4, <3>5, <3>7 DEF Shape
      <4>3. view' = [view EXCEPT ![c].status = "active"]
        <5>1. [view EXCEPT ![c] = [status |-> "active", cred |-> old.cred,
                                   validated |-> old.validated]]
                = [view EXCEPT ![c].status = "active"]
          <6>1. [view[c] EXCEPT !.status = "active"]
                  = [status |-> "active", cred |-> old.cred, validated |-> old.validated]
            BY <3>5
          <6>. HIDE DEF view, old
          <6>. QED BY <6>1
        <5>. QED BY <2>6, <4>1, <5>1
      <4>4. Contract!Enable(c)
        BY <3>4, <4>2, <4>3 DEF Contract!Enable
      <4>. QED BY <4>4 DEF Contract!Next
    <3>8. CASE req[r].op = "disable"
      <4>1. n.status = "disabled" /\ n.cred = old.cred /\ n.validated = old.validated
        BY <3>1, <3>2, <3>3, <3>8 DEF Outcomes, Rows
      <4>2. view' = [view EXCEPT ![c].status = "disabled"]
        <5>1. [view EXCEPT ![c] = [status |-> "disabled", cred |-> old.cred,
                                   validated |-> old.validated]]
                = [view EXCEPT ![c].status = "disabled"]
          <6>1. [view[c] EXCEPT !.status = "disabled"]
                  = [status |-> "disabled", cred |-> old.cred, validated |-> old.validated]
            BY <3>5
          <6>. HIDE DEF view, old
          <6>. QED BY <6>1
        <5>. QED BY <2>6, <4>1, <5>1
      <4>3. Contract!Disable(c)
        BY <3>4, <4>2 DEF Contract!Disable
      <4>. QED BY <4>3 DEF Contract!Next
    <3>9. CASE req[r].op = "rotate"
      <4>1. /\ n.status = "pending_validation" /\ n.cred = k
            /\ n.validated = old.validated
        BY <2>3, <3>1, <3>2, <3>3, <3>9 DEF Outcomes, Rows
      <4>2. HoldsKey(req[r])
        BY <2>4, <3>9 DEF HoldsKey
      <4>3. view' = [view EXCEPT ![c] =
              [status |-> "pending_validation", cred |-> k, validated |-> view[c].validated]]
        BY <2>6, <3>5, <4>1
      <4>4. Contract!Unshared(k)
        BY <2>7, <4>2 DEF Contract!Unshared
      <4>5. Contract!Rotate(c, k)
        BY <3>4, <4>3, <4>4 DEF Contract!Rotate
      <4>. QED BY <2>7, <4>2, <4>5 DEF Contract!Next
    <3>10. CASE req[r].op = "delete"
      <4>1. n.status = "gone" /\ n.cred = old.cred /\ n.validated = old.validated
        BY <3>1, <3>2, <3>3, <3>10 DEF Outcomes, Rows
      <4>2. view' = [view EXCEPT ![c].status = "gone"]
        <5>1. [view EXCEPT ![c] = [status |-> "gone", cred |-> old.cred,
                                   validated |-> old.validated]]
                = [view EXCEPT ![c].status = "gone"]
          <6>1. [view[c] EXCEPT !.status = "gone"]
                  = [status |-> "gone", cred |-> old.cred, validated |-> old.validated]
            BY <3>5
          <6>. HIDE DEF view, old
          <6>. QED BY <6>1
        <5>. QED BY <2>6, <4>1, <5>1
      <4>3. Contract!Delete(c)
        BY <3>4, <4>2 DEF Contract!Delete
      <4>. QED BY <4>3 DEF Contract!Next
    <3>. QED BY <3>1, <3>6, <3>7, <3>8, <3>9, <3>10
  <2>. QED BY <2>8, <2>9
<1>. QED BY <1>1, <1>2, Invariance, PTL DEF Spec, AtomicOperations, Contract!Spec

=============================================================================
