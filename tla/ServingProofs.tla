----------------------------- MODULE ServingProofs -----------------------------
(***************************************************************************)
(* Proofs about the two parts of serving, PredictionFlow and ModelLoader,  *)
(* for any number of calls, tenants, keys and models and any threshold and *)
(* number of attempts.                                                     *)
(*                                                                         *)
(* The heart of PredictionFlow's inductive invariant is KeysUnique: a call *)
(* holds its tenant and key from the INSERT on, so of the calls that share *)
(* a key only one can ever reach its commit, and StoredInv: the only rows  *)
(* that get committed are completed ones.  With it ImplementsContract      *)
(* shows that PredictionFlow implements PredictionContract.                *)
(*                                                                         *)
(* In ModelLoader the lock gives LockInv: the holder is the only call past *)
(* the cache lookup, so its model is still not cached.  BreakerInv ties    *)
(* the failures since the last pause to the breaker's own count, which is  *)
(* never reset without a success.                                          *)
(***************************************************************************)
EXTENDS PredictionFlow, ModelLoader, TLAPS

USE OwnerAssumption, KeyAssumption, AnswerAssumption, RowAssumption

\* The initial state: nothing is stored and no call has been sent.
LEMMA InitInv == Init => IInv
<1> SUFFICES ASSUME Init PROVE IInv OBVIOUS
<1>1. TypeOK
  BY DEF Init, TypeOK, Unsent, CallStates, PCs
<1>2. KeysUnique
  BY DEF Init, KeysUnique, Holds, Inserted, Unsent
<1>3. \A c \in Calls : CallInv(c) /\ StoredInv(c)
  BY DEF Init, CallInv, StoredInv, Predicted, Unsent
<1> QED BY <1>1, <1>2, <1>3 DEF IInv

\* A step that only moves one call, to a state that holds no row its old state
\* did not hold and that satisfies the invariant of calls, keeps the invariant.
LEMMA MoveKeepsInv ==
  ASSUME IInv, NEW c \in Calls, NEW q \in CallStates,
         call' = [call EXCEPT ![c] = q], row' = row, audit' = audit,
         prod' \subseteq Models, task' \in BOOLEAN,
         CallInv(c)',
         row[c] # None => q.pc = "done" /\ q.tenant = call[c].tenant /\ q.key = call[c].key,
         q.pc \in {"model", "work", "failed", "commit"} /\ q.key # None =>
           \A d \in Calls : Holds(d) /\ call[d].tenant = q.tenant /\ call[d].key = q.key => d = c
  PROVE  IInv'
<1> USE DEF IInv
<1>0. call' \in [Calls -> CallStates] /\ call'[c] = q
      /\ \A d \in Calls : d # c => call'[d] = call[d]
  BY DEF TypeOK
<1>1. TypeOK'
  BY <1>0 DEF TypeOK
<1>2. ASSUME NEW d \in Calls PROVE CallInv(d)'
  <2>1. CASE d = c BY <2>1
  <2>2. CASE d # c BY <2>2, <1>0 DEF CallInv, Predicted
  <2> QED BY <2>1, <2>2
<1>3. ASSUME NEW d \in Calls PROVE StoredInv(d)'
  BY <1>0, StoredInv(d) DEF StoredInv
<1>4. KeysUnique'
  <2>1. ASSUME NEW d \in Calls, Holds(d)', d # c
        PROVE  Holds(d) /\ call'[d] = call[d]
    BY <1>0, <2>1 DEF Holds, Inserted
  <2>2. Holds(c)' => \A d \in Calls :
          Holds(d) /\ call[d].tenant = q.tenant /\ call[d].key = q.key => d = c
    <3>1. CASE row[c] = None
      BY <3>1, <1>0 DEF Holds, Inserted
    <3>2. CASE row[c] # None
      <4>1. Holds(c)' => Holds(c)
        BY <3>2, <1>0 DEF Holds, Inserted
      <4> QED BY <4>1, <3>2 DEF KeysUnique
    <3> QED BY <3>1, <3>2
  <2>3. ASSUME NEW a \in Calls, NEW b \in Calls, Holds(a)', Holds(b)',
               call'[a].tenant = call'[b].tenant, call'[a].key = call'[b].key
        PROVE  a = b
    <3>1. CASE a = c /\ b = c BY <3>1
    <3>2. CASE a = c /\ b # c
      BY <3>2, <2>1, <2>2, <2>3, <1>0
    <3>3. CASE a # c /\ b = c
      BY <3>3, <2>1, <2>2, <2>3, <1>0
    <3>4. CASE a # c /\ b # c
      BY <3>4, <2>1, <2>3 DEF KeysUnique
    <3> QED BY <3>1, <3>2, <3>3, <3>4
  <2> QED BY <2>3 DEF KeysUnique
<1> QED BY <1>1, <1>2, <1>3, <1>4

\* A call that only changes its pc, model or answer and holds no more than before.
LEMMA AdvanceKeepsInv ==
  ASSUME IInv, NEW c \in Calls, NEW q \in CallStates,
         call' = [call EXCEPT ![c] = q], row' = row, audit' = audit,
         prod' \subseteq Models, task' \in BOOLEAN,
         CallInv(c)', row[c] = None,
         q.tenant = call[c].tenant, q.key = call[c].key,
         q.pc \in {"model", "work", "failed", "commit"} => Inserted(c)
  PROVE  IInv'
<1>1. q.pc \in {"model", "work", "failed", "commit"} /\ q.key # None =>
        \A d \in Calls : Holds(d) /\ call[d].tenant = q.tenant /\ call[d].key = q.key => d = c
  BY DEF IInv, KeysUnique, Holds
<1> QED BY <1>1, MoveKeepsInv

\* Every step keeps the invariant.
LEMMA NextInv == IInv /\ [Next]_vars => IInv'
<1> SUFFICES ASSUME IInv, [Next]_vars PROVE IInv' OBVIOUS
<1>t. TypeOK /\ (\A c \in Calls : CallInv(c) /\ StoredInv(c)) /\ prod \subseteq Models /\ task \in BOOLEAN
  BY DEF IInv, TypeOK
<1>p. \A c \in Calls : call[c] \in CallStates
  BY <1>t DEF TypeOK
<1>n. \A c \in Calls : call[c].pc # "done" => row[c] = None
  BY <1>t DEF StoredInv
<1>a. ASSUME NEW c \in Calls, NEW a \in Errors,
             call[c].pc \notin {"new", "done"}, Answer(c, a),
             row' = row, audit' = audit, prod' = prod, task' = task
      PROVE  IInv'
  <2> DEFINE q == [call[c] EXCEPT !.pc = "done", !.answer = a]
  <2>1. call[c] \in CallStates /\ row[c] = None BY <1>p, <1>n, <1>a
  <2>2. q \in CallStates /\ q.pc = "done" /\ q.tenant = call[c].tenant /\ q.key = call[c].key
        /\ q.trip = call[c].trip /\ q.answer = a
    BY <2>1 DEF CallStates, PCs
  <2>3. call' = [call EXCEPT ![c] = q] /\ call'[c] = q
    BY <1>a, <1>t DEF Answer, TypeOK
  <2>4. CallInv(c)'
    BY <2>2, <2>3, <1>t, <1>a DEF CallInv, Predicted
  <2> HIDE DEF q
  <2> QED BY <2>1, <2>2, <2>3, <2>4, <1>t, <1>a, AdvanceKeepsInv
<1>g. ASSUME NEW c \in Calls, NEW pc \in PCs \ {"new", "lookup", "work", "done"},
             call[c].pc \notin {"new", "done"}, Goto(c, pc),
             pc = "commit" => call[c].pc = "work",
             pc \in {"failed", "commit"} => Inserted(c),
             pc = "model" /\ call[c].key # None =>
               \A d \in Calls : Holds(d) /\ call[d].tenant = call[c].tenant
                                /\ call[d].key = call[c].key => d = c,
             row' = row, audit' = audit, prod' = prod, task' = task
      PROVE  IInv'
  <2> DEFINE q == [call[c] EXCEPT !.pc = pc]
  <2>1. call[c] \in CallStates /\ row[c] = None BY <1>p, <1>n, <1>g
  <2>2. q \in CallStates /\ q.pc = pc /\ q.tenant = call[c].tenant /\ q.key = call[c].key
        /\ q.trip = call[c].trip /\ q.answer = call[c].answer /\ q.model = call[c].model
    BY <2>1 DEF CallStates, PCs
  <2>3. call' = [call EXCEPT ![c] = q] /\ call'[c] = q
    BY <1>g, <1>t DEF Goto, TypeOK
  <2>4. CallInv(c)'
    BY <2>2, <2>3, <1>t, <1>g DEF CallInv, Predicted, PCs
  <2>5. q.pc \in {"model", "work", "failed", "commit"} /\ q.key # None =>
          \A d \in Calls : Holds(d) /\ call[d].tenant = q.tenant /\ call[d].key = q.key => d = c
    <3>1. CASE pc = "model" BY <3>1, <2>2, <1>g
    <3>2. CASE pc # "model" BY <3>2, <2>2, <1>g DEF IInv, KeysUnique, Holds
    <3> QED BY <3>1, <3>2
  <2> HIDE DEF q
  <2> QED BY <2>1, <2>2, <2>3, <2>4, <2>5, <1>t, <1>g, MoveKeepsInv
<1>1. ASSUME NEW c \in Calls, NEW t \in Tenants, NEW k \in Keys \cup {None}, NEW trip \in Trips,
             Send(c, t, k, trip)
      PROVE  IInv'
  <2> DEFINE q == [Unsent EXCEPT !.pc = IF k \in {None, EmptyKey} THEN "insert" ELSE "lookup",
                                 !.tenant = t, !.key = k, !.trip = trip]
  <2>1. row[c] = None BY <1>n, <1>1 DEF Send
  <2>2. q \in CallStates /\ q.pc \in {"insert", "lookup"} /\ q.tenant = t /\ q.key = k
        /\ q.trip = trip /\ q.answer = None /\ (q.pc = "lookup" => k \notin {None, EmptyKey})
    BY DEF CallStates, PCs, Unsent
  <2>3. call' = [call EXCEPT ![c] = q] /\ call'[c] = q
    BY <1>1, <1>t DEF Send, TypeOK
  <2>4. CallInv(c)'
    <3> HIDE DEF q
    <3> QED BY <2>2, <2>3 DEF CallInv, Predicted
  <2>5. row' = row /\ audit' = audit /\ prod' \subseteq Models /\ task' \in BOOLEAN
    BY <1>1, <1>t DEF Send
  <2> HIDE DEF q
  <2> QED BY <2>1, <2>2, <2>3, <2>4, <2>5, MoveKeepsInv
<1>2. ASSUME NEW c \in Calls, Lookup(c) PROVE IInv'
  <2>1. CASE Cached(c) = {} /\ Goto(c, "insert")
    <3>1. "insert" \in PCs \ {"new", "lookup", "work", "done"} BY DEF PCs
    <3> QED BY <1>2, <2>1, <3>1, <1>g DEF Lookup
  <2>2. ASSUME NEW d \in Cached(c), Answer(c, d) PROVE IInv'
    <3> DEFINE q == [call[c] EXCEPT !.pc = "done", !.answer = d]
    <3>1. call[c] \in CallStates /\ row[c] = None /\ d \in Calls /\ call[c].key \in Keys
      BY <1>p, <1>n, <1>t, <1>2 DEF Lookup, Cached, CallInv
    <3>2. q \in CallStates /\ q.pc = "done" /\ q.tenant = call[c].tenant
          /\ q.key = call[c].key /\ q.trip = call[c].trip /\ q.answer = d
      BY <3>1 DEF CallStates, PCs
    <3>3. call' = [call EXCEPT ![c] = q] /\ call'[c] = q
      BY <2>2, <1>t DEF Answer, TypeOK
    <3>4. CallInv(c)'
      <4>1. row' = row BY <1>2 DEF Lookup
      <4>2. row[d] # None /\ row[d].tenant = call[c].tenant /\ row[d].key = call[c].key
        BY DEF Cached, SameKey
      <4>3. call[c].tenant \in Tenants /\ call[c].trip \in Trips
        BY <1>t, <1>2 DEF CallInv, Lookup
      <4> HIDE DEF q
      <4> QED BY <4>1, <4>2, <4>3, <3>1, <3>2, <3>3 DEF CallInv, Predicted
    <3> HIDE DEF q
    <3> QED BY <3>1, <3>2, <3>3, <3>4, <1>t, <1>2, AdvanceKeepsInv DEF Lookup
  <2> QED BY <1>2, <2>1, <2>2 DEF Lookup
<1>3. ASSUME NEW c \in Calls, Insert(c) PROVE IInv'
  <2>0. call[c].pc = "insert" /\ row' = row /\ audit' = audit /\ prod' = prod /\ task' = task
    BY <1>3 DEF Insert
  <2>1. CASE Answer(c, "not_configured") BY <2>0, <2>1, <1>a DEF Errors
  <2>2. CASE Answer(c, "conflict") BY <2>0, <2>2, <1>a DEF Errors
  <2>3. CASE ~Pending(c) /\ ~Taken(c) /\ Goto(c, "model")
    <3>1. call[c].key # None =>
            \A d \in Calls : Holds(d) /\ call[d].tenant = call[c].tenant
                             /\ call[d].key = call[c].key => d = c
      BY <2>3, <1>t DEF Pending, Taken, Holds, SameKey, StoredInv
    <3>2. "model" \in PCs \ {"new", "lookup", "work", "done"} BY DEF PCs
    <3> QED BY <2>0, <2>3, <3>1, <3>2, <1>g
  <2> QED BY <1>3, <2>1, <2>2, <2>3 DEF Insert
<1>4. ASSUME NEW c \in Calls, ReadModel(c) PROVE IInv'
  <2>0. call[c].pc = "model" /\ row' = row /\ audit' = audit /\ prod' = prod /\ task' = task
    BY <1>4 DEF ReadModel
  <2>1. CASE Goto(c, "failed")
    <3>1. "failed" \in PCs \ {"new", "lookup", "work", "done"} BY DEF PCs
    <3> QED BY <2>0, <2>1, <3>1, <1>g DEF Inserted
  <2>2. ASSUME NEW m \in Candidates(call[c].tenant),
               call' = [call EXCEPT ![c].pc = "work", ![c].model = m]
        PROVE  IInv'
    <3> DEFINE q == [call[c] EXCEPT !.pc = "work", !.model = m]
    <3>1. call[c] \in CallStates /\ row[c] = None /\ call[c].tenant \in Tenants
      BY <1>p, <1>n, <1>t, <2>0 DEF CallInv
    <3>2. m \in Models /\ Owner[m] \in {Shared, call[c].tenant}
      BY <1>t, <2>2 DEF Candidates
    <3>3. q \in CallStates /\ q.pc = "work" /\ q.tenant = call[c].tenant
          /\ q.key = call[c].key /\ q.trip = call[c].trip /\ q.answer = call[c].answer
          /\ q.model = m
      BY <3>1, <3>2 DEF CallStates, PCs
    <3>4. call' = [call EXCEPT ![c] = q] /\ call'[c] = q
      BY <2>2, <1>t DEF TypeOK
    <3>5. CallInv(c)'
      <4> HIDE DEF q
      <4> QED BY <3>1, <3>2, <3>3, <3>4, <1>t, <2>0 DEF CallInv, Predicted
    <3> HIDE DEF q
    <3> QED BY <3>1, <3>3, <3>4, <3>5, <1>t, <2>0, AdvanceKeepsInv DEF Inserted
  <2> QED BY <1>4, <2>1, <2>2 DEF ReadModel
<1>5. ASSUME NEW c \in Calls, Work(c) PROVE IInv'
  <2>1. {"failed", "commit"} \subseteq PCs \ {"new", "lookup", "work", "done"} BY DEF PCs
  <2> QED BY <1>5, <2>1, <1>g DEF Work, Inserted
<1>6. ASSUME NEW c \in Calls, Raise(c) PROVE IInv'
  BY <1>6, <1>a DEF Raise, Errors
<1>7. ASSUME NEW c \in Calls, Abort(c) PROVE IInv'
  BY <1>7, <1>a DEF Abort, Errors
<1>8. ASSUME NEW c \in Calls, Commit(c) PROVE IInv'
  <2> DEFINE rw == [tenant |-> call[c].tenant, key |-> call[c].key, trip |-> call[c].trip,
                    model |-> call[c].model, status |-> "completed"]
  <2>1. call[c] \in CallStates /\ call[c].tenant \in Tenants /\ call[c].trip \in Trips
        /\ call[c].model \in Models /\ Owner[call[c].model] \in {Shared, call[c].tenant}
    BY <1>p, <1>t, <1>8 DEF Commit, CallInv
  <2>2. rw \in Rows /\ rw # None /\ rw.tenant = call[c].tenant /\ rw.key = call[c].key
        /\ rw.status = "completed" /\ rw.model = call[c].model
    BY <2>1 DEF Rows, CallStates
  <2>3. row' = [row EXCEPT ![c] = rw] BY <1>8 DEF Commit
  <2> HIDE DEF rw
  <2>4. PICK a \in {c, "lost"} : Answer(c, a) BY <1>8 DEF Commit
  <2>5. /\ call' = [call EXCEPT ![c] = [call[c] EXCEPT !.pc = "done", !.answer = a]]
        /\ \A d \in Calls : d # c => call'[d] = call[d] /\ row'[d] = row[d]
        /\ call'[c].pc = "done" /\ call'[c].answer = a
        /\ call'[c].tenant = call[c].tenant /\ call'[c].key = call[c].key
        /\ call'[c].trip = call[c].trip
        /\ call' \in [Calls -> CallStates] /\ row' \in [Calls -> Rows \cup {None}]
        /\ row'[c] = rw
    BY <2>1, <2>2, <2>3, <2>4, <1>t DEF Answer, TypeOK, CallStates, PCs, Errors
  <2>6. /\ audit' = audit \cup {<<c, "success">>} /\ prod' = prod /\ task' = task
        /\ row[c] = None /\ call[c].pc = "commit"
    BY <1>8, <1>n DEF Commit
  <2>7. TypeOK'
    BY <2>5, <2>6, <1>t DEF TypeOK
  <2>8. KeysUnique'
    <3>1. \A d \in Calls : Holds(d)' => Holds(d) /\ call'[d].key = call[d].key
                                        /\ call'[d].tenant = call[d].tenant
      BY <2>5, <2>6 DEF Holds, Inserted
    <3> QED BY <3>1 DEF IInv, KeysUnique
  <2>9. ASSUME NEW d \in Calls PROVE CallInv(d)' /\ StoredInv(d)'
    <3>1. CASE d = c
      <4>1. CallInv(d)'
        BY <3>1, <2>1, <2>2, <2>4, <2>5 DEF CallInv, Predicted, Errors
      <4>2. StoredInv(d)'
        BY <3>1, <2>1, <2>2, <2>5, <2>6 DEF StoredInv
      <4> QED BY <4>1, <4>2
    <3>2. CASE d # c
      <4>0. CallInv(d) /\ StoredInv(d) /\ call'[d] = call[d] /\ row'[d] = row[d]
        BY <1>t, <2>5, <3>2
      <4>1. CallInv(d)'
        <5>1. CASE ~Predicted(d)
          BY <5>1, <4>0 DEF CallInv, Predicted
        <5>2. CASE Predicted(d)
          <6>1. call[d].answer \in Calls /\ row[call[d].answer] # None
            BY <5>2, <4>0 DEF CallInv, Predicted
          <6>2. row'[call[d].answer] = row[call[d].answer]
            BY <6>1, <2>5, <2>6
          <6> QED BY <6>1, <6>2, <4>0 DEF CallInv, Predicted
        <5> QED BY <5>1, <5>2
      <4>2. StoredInv(d)'
        BY <4>0, <2>6 DEF StoredInv
      <4> QED BY <4>1, <4>2
    <3> QED BY <3>1, <3>2
  <2> QED BY <2>7, <2>8, <2>9 DEF IInv
<1>9. ASSUME UNCHANGED <<row, call, audit>>, prod' \subseteq Models, task' \in BOOLEAN
      PROVE  IInv'
  BY <1>9 DEF IInv, TypeOK, KeysUnique, Holds, Inserted, CallInv, StoredInv, Predicted
<1>10. ASSUME NEW m \in Models, ChangeStage(m) PROVE IInv'
  BY <1>9, <1>10, <1>t DEF ChangeStage
<1>11. CASE SeedTask
  BY <1>9, <1>11, <1>t DEF SeedTask
<1>12. CASE UNCHANGED vars
  BY <1>9, <1>12, <1>t DEF vars
<1> QED
  BY <1>1, <1>2, <1>3, <1>4, <1>5, <1>6, <1>7, <1>8, <1>10, <1>11, <1>12 DEF Next, Step

\* The inductive invariant holds in every reachable state of the endpoint.
THEOREM Invariance == Spec => []IInv
  BY InitInv, NextInv, PTL DEF Spec

\* The state of the endpoint keeps its type.
THEOREM TypeCorrect == Spec => []TypeOK
<1>1. IInv => TypeOK BY DEF IInv
<1> QED BY <1>1, Invariance, PTL

\* However calls race, get lost and are repeated, all the predictions returned
\* for one tenant and Idempotency-Key are the same one.
THEOREM Idempotent == Spec => []SameKeySamePrediction
<1>1. IInv => SameKeySamePrediction
  <2> SUFFICES ASSUME IInv, NEW c \in Calls, NEW d \in Calls, Predicted(c), Predicted(d),
                      call[c].key # None, call[c].key = call[d].key,
                      call[c].tenant = call[d].tenant
               PROVE  call[c].answer = call[d].answer
    BY DEF SameKeySamePrediction
  <2> DEFINE a == call[c].answer
             b == call[d].answer
  <2>1. /\ a \in Calls /\ row[a] # None /\ row[a].tenant = call[c].tenant /\ row[a].key = call[c].key
        /\ b \in Calls /\ row[b] # None /\ row[b].tenant = call[d].tenant /\ row[b].key = call[d].key
    BY DEF IInv, CallInv, Predicted
  <2> HIDE DEF a, b
  <2>2. call[a].tenant = call[b].tenant /\ call[a].key = call[b].key /\ Holds(a) /\ Holds(b)
    BY <2>1 DEF IInv, StoredInv, Holds
  <2>3. a = b BY <2>1, <2>2 DEF IInv, KeysUnique
  <2> QED BY <2>3 DEF a, b
<1> QED BY <1>1, Invariance, PTL

\* A prediction is returned only after it is stored, completed and audited,
\* and only to the tenant it belongs to.
THEOREM AnswersKept == Spec => []AnswerStored
<1>1. IInv => AnswerStored
  BY DEF IInv, AnswerStored, CallInv, StoredInv, Predicted
<1> QED BY <1>1, Invariance, PTL

\* To the client an answer ends the call, with what was asked unchanged.
LEMMA AnswerSeen ==
  ASSUME IInv, NEW c \in Calls, NEW a, call[c].pc \notin {"new", "done"}, Answer(c, a)
  PROVE  Contract!Answer(c, a)
<1> DEFINE view == [d \in Calls |-> Seen(d)]
           s == [call[c] EXCEPT !.pc = "done", !.answer = a]
<1>0. call \in [Calls -> CallStates] BY DEF IInv, TypeOK
<1>1. call' = [call EXCEPT ![c] = s] BY <1>0 DEF Answer
<1>2. /\ s.pc = "done" /\ s.answer = a
      /\ s.tenant = call[c].tenant /\ s.key = call[c].key /\ s.trip = call[c].trip
  BY <1>0 DEF CallStates
<1> HIDE DEF s
<1>3. view[c] = [status |-> "waiting", tenant |-> call[c].tenant, key |-> call[c].key,
                 trip |-> call[c].trip, answer |-> call[c].answer]
  BY <1>0 DEF Seen
<1>4. Seen(c)' = [view[c] EXCEPT !.status = "answered", !.answer = a]
  <2>1. Seen(c)' = [status |-> "answered", tenant |-> call[c].tenant, key |-> call[c].key,
                    trip |-> call[c].trip, answer |-> a]
    BY <1>0, <1>1, <1>2 DEF Seen
  <2>2. [view[c] EXCEPT !.status = "answered", !.answer = a]
          = [status |-> "answered", tenant |-> call[c].tenant, key |-> call[c].key,
             trip |-> call[c].trip, answer |-> a]
    <3> DEFINE w == [view[c] EXCEPT !.status = "answered"]
    <3>1. w = [status |-> "answered", tenant |-> call[c].tenant, key |-> call[c].key,
               trip |-> call[c].trip, answer |-> call[c].answer]
      BY <1>3
    <3>2. [view[c] EXCEPT !.status = "answered", !.answer = a] = [w EXCEPT !.answer = a]
      BY <1>3
    <3> HIDE DEF w
    <3> QED BY <3>1, <3>2
  <2> QED BY <2>1, <2>2
<1>5. \A d \in Calls : d # c => Seen(d)' = view[d]
  BY <1>0, <1>1 DEF Seen
<1>6. view' = [view EXCEPT ![c].status = "answered", ![c].answer = a]
  <2>1. view' = [view EXCEPT ![c] = [view[c] EXCEPT !.status = "answered", !.answer = a]]
    BY <1>4, <1>5
  <2> HIDE DEF view
  <2> QED BY <2>1
<1>7. view[c].status = "waiting" BY <1>3
<1> QED BY <1>6, <1>7 DEF Contract!Answer

\* A step that only moves a waiting call on is not seen.
LEMMA MoveUnseen ==
  ASSUME IInv, NEW c \in Calls, NEW q \in CallStates, call' = [call EXCEPT ![c] = q],
         call[c].pc \notin {"new", "done"}, q.pc \notin {"new", "done"},
         q.tenant = call[c].tenant, q.key = call[c].key, q.trip = call[c].trip,
         q.answer = call[c].answer
  PROVE  [d \in Calls |-> Seen(d)]' = [d \in Calls |-> Seen(d)]
<1>0. call \in [Calls -> CallStates] BY DEF IInv, TypeOK
<1>1. Seen(c)' = Seen(c) BY <1>0 DEF Seen
<1>2. \A d \in Calls : d # c => Seen(d)' = Seen(d) BY <1>0 DEF Seen
<1> QED BY <1>1, <1>2

LEMMA GotoUnseen ==
  ASSUME IInv, NEW c \in Calls, NEW pc \in PCs \ {"new", "done"},
         call[c].pc \notin {"new", "done"}, Goto(c, pc)
  PROVE  [d \in Calls |-> Seen(d)]' = [d \in Calls |-> Seen(d)]
<1> DEFINE q == [call[c] EXCEPT !.pc = pc]
<1>0. call[c] \in CallStates /\ call \in [Calls -> CallStates] BY DEF IInv, TypeOK
<1>1. /\ q \in CallStates /\ q.pc = pc
      /\ q.tenant = call[c].tenant /\ q.key = call[c].key /\ q.trip = call[c].trip
      /\ q.answer = call[c].answer
  BY <1>0 DEF CallStates, PCs
<1>2. call' = [call EXCEPT ![c] = q] BY <1>0 DEF Goto
<1> HIDE DEF q
<1> QED BY <1>1, <1>2, MoveUnseen

\* The endpoint implements the contract: a call takes effect at its commit,
\* where KeysUnique says that no other row has its tenant and key, at the answer
\* it repeats, or not at all.
THEOREM ImplementsContract == Spec => PredictionsAtomic
<1> DEFINE view == [d \in Calls |-> Seen(d)]
           Same(c) == {d \in Calls : SameKey(call[c], d)}
<1>1. Init => Contract!Init
  BY DEF Init, Seen, Unsent, Contract!Init, Contract!Unsent
<1>2. IInv /\ [Next]_vars => [Contract!Next]_(Contract!vars)
  <2> SUFFICES ASSUME IInv, [Next]_vars,
                      ~ UNCHANGED <<view, row, audit>>
               PROVE  Contract!Next
    BY DEF Contract!vars
  <2>0. /\ call \in [Calls -> CallStates] /\ row \in [Calls -> Rows \cup {None}]
        /\ prod \subseteq Models /\ \A c \in Calls : CallInv(c) /\ StoredInv(c)
    BY DEF IInv, TypeOK
  <2>s. ASSUME NEW c \in Calls, call[c].pc \notin {"new", "done"}
        PROVE  /\ view[c].status = "waiting" /\ view[c].tenant = call[c].tenant
               /\ view[c].key = call[c].key /\ view[c].trip = call[c].trip
    BY <2>s DEF Seen
  <2>m. ASSUME NEW c \in Calls, call[c].pc \notin {"new", "done"}
        PROVE  Contract!Same(c) = Same(c)
    BY <2>s, <2>m DEF Contract!Same, SameKey
  <2>r. ASSUME NEW c \in Calls, NEW e \in {"not_configured", "failed", "lost"},
               call[c].pc \notin {"new", "done"}, Answer(c, e), row' = row, audit' = audit
        PROVE  Contract!Next
    <3>1. Contract!Answer(c, e) BY <2>r, AnswerSeen
    <3>2. Contract!Refuse(c) BY <2>r, <3>1 DEF Contract!Refuse
    <3> QED BY <3>2 DEF Contract!Next
  <2>1. ASSUME NEW c \in Calls, NEW t \in Tenants, NEW k \in Keys \cup {None}, NEW trip \in Trips,
               Send(c, t, k, trip)
        PROVE  Contract!Next
    <3> DEFINE q == [Unsent EXCEPT !.pc = IF k \in {None, EmptyKey} THEN "insert" ELSE "lookup",
                                   !.tenant = t, !.key = k, !.trip = trip]
    <3>1. call' = [call EXCEPT ![c] = q] /\ call[c].pc = "new" /\ row' = row /\ audit' = audit
      BY <2>1 DEF Send
    <3>2. q.pc \in {"insert", "lookup"} /\ q.tenant = t /\ q.key = k /\ q.trip = trip
          /\ q.answer = None
      BY DEF Unsent
    <3> HIDE DEF q
    <3>3. Seen(c)' = [status |-> "waiting", tenant |-> t, key |-> k, trip |-> trip,
                      answer |-> None]
      BY <2>0, <3>1, <3>2 DEF Seen
    <3>4. \A d \in Calls : d # c => Seen(d)' = Seen(d)
      BY <2>0, <3>1 DEF Seen
    <3>5. view' = [view EXCEPT ![c] = [status |-> "waiting", tenant |-> t, key |-> k,
                                       trip |-> trip, answer |-> None]]
      BY <3>3, <3>4
    <3>6. view[c].status = "unsent" BY <3>1 DEF Seen
    <3>7. Contract!Ask(c, t, k, trip)
      BY <3>1, <3>5, <3>6 DEF Contract!Ask
    <3> QED BY <3>7 DEF Contract!Next
  <2>2. ASSUME NEW c \in Calls, Lookup(c) PROVE Contract!Next
    <3>0. call[c].pc = "lookup" /\ row' = row /\ audit' = audit
      BY <2>2 DEF Lookup
    <3>1. ~Goto(c, "insert")
      BY <3>0, GotoUnseen DEF PCs
    <3>2. PICK d \in Cached(c) : Answer(c, d)
      BY <2>2, <3>1 DEF Lookup
    <3>3. Contract!Answer(c, d) BY <3>0, <3>2, AnswerSeen
    <3>4. d \in Contract!Same(c)
      <4>1. d \in Same(c) BY DEF Cached
      <4> HIDE DEF Same
      <4> QED BY <4>1, <2>m, <3>0
    <3>5. view[c].key \notin {None, EmptyKey}
      <4>1. call[c].key \notin {None, EmptyKey} BY <2>0, <3>0 DEF CallInv
      <4> HIDE DEF view
      <4> QED BY <4>1, <2>s, <3>0
    <3>6. Contract!Repeat(c)
      BY <3>0, <3>3, <3>4, <3>5 DEF Contract!Repeat
    <3> QED BY <3>6 DEF Contract!Next
  <2>3. ASSUME NEW c \in Calls, Insert(c) PROVE Contract!Next
    <3>0. call[c].pc = "insert" /\ row' = row /\ audit' = audit
      BY <2>3 DEF Insert
    <3>1. CASE Answer(c, "not_configured") BY <3>0, <3>1, <2>r
    <3>2. CASE Taken(c) /\ Answer(c, "conflict")
      <4>1. Contract!Answer(c, "conflict") BY <3>0, <3>2, AnswerSeen
      <4>2. call[c].key # None /\ Same(c) # {} BY <3>2 DEF Taken
      <4>3. view[c].key # None /\ Contract!Same(c) # {}
        <5> HIDE DEF view, Same
        <5> QED BY <4>2, <2>s, <2>m, <3>0
      <4>4. Contract!Conflict(c) BY <3>0, <4>1, <4>3 DEF Contract!Conflict
      <4> QED BY <4>4 DEF Contract!Next
    <3>3. CASE Goto(c, "model")
      BY <3>0, <3>3, GotoUnseen DEF PCs
    <3> QED BY <2>3, <3>1, <3>2, <3>3 DEF Insert
  <2>4. ASSUME NEW c \in Calls, ReadModel(c) PROVE Contract!Next
    <3>0. call[c].pc = "model" /\ row' = row /\ audit' = audit
      BY <2>4 DEF ReadModel
    <3>1. CASE Goto(c, "failed")
      BY <3>0, <3>1, GotoUnseen DEF PCs
    <3>2. ASSUME NEW m \in Candidates(call[c].tenant),
                 call' = [call EXCEPT ![c].pc = "work", ![c].model = m]
          PROVE  FALSE
      <4> DEFINE q == [call[c] EXCEPT !.pc = "work", !.model = m]
      <4>1. m \in Models /\ call[c] \in CallStates BY <2>0 DEF Candidates
      <4>2. /\ q \in CallStates /\ q.pc = "work"
            /\ q.tenant = call[c].tenant /\ q.key = call[c].key /\ q.trip = call[c].trip
            /\ q.answer = call[c].answer
        BY <4>1 DEF CallStates, PCs
      <4>3. call' = [call EXCEPT ![c] = q] BY <2>0, <3>2
      <4> HIDE DEF q
      <4> QED BY <3>0, <4>2, <4>3, MoveUnseen
    <3> QED BY <2>4, <3>1, <3>2 DEF ReadModel
  <2>5. ASSUME NEW c \in Calls, Work(c) PROVE Contract!Next
    BY <2>5, GotoUnseen DEF Work, PCs
  <2>6. ASSUME NEW c \in Calls, Raise(c) PROVE Contract!Next
    BY <2>6, <2>r DEF Raise
  <2>7. ASSUME NEW c \in Calls, Abort(c) PROVE Contract!Next
    BY <2>7, <2>r DEF Abort
  <2>8. ASSUME NEW c \in Calls, Commit(c) PROVE Contract!Next
    <3>0. call[c].pc = "commit" /\ row[c] = None
      BY <2>0, <2>8 DEF Commit, StoredInv
    <3>1. call[c].model \in Models /\ Owner[call[c].model] \in {Shared, call[c].tenant}
      BY <2>0, <3>0 DEF CallInv
    <3>2. call[c].key = None \/ Same(c) = {}
      <4> SUFFICES ASSUME call[c].key # None, NEW d \in Calls, SameKey(call[c], d)
                   PROVE  FALSE
        OBVIOUS
      <4>1. Holds(c) BY <3>0 DEF Holds, Inserted
      <4>2. call[d].tenant = call[c].tenant /\ call[d].key = call[c].key /\ row[d] # None
        BY <2>0 DEF SameKey, StoredInv
      <4>3. d = c BY <4>1, <4>2 DEF Holds, IInv, KeysUnique
      <4> QED BY <3>0, <4>2, <4>3
    <3>3. PICK a \in {c, "lost"} : Answer(c, a) BY <2>8 DEF Commit
    <3>4. Contract!Answer(c, a) BY <3>0, <3>3, AnswerSeen
    <3>5. /\ view[c].tenant = call[c].tenant /\ view[c].key = call[c].key
          /\ view[c].trip = call[c].trip /\ Contract!Same(c) = Same(c)
      <4> HIDE DEF view, Same
      <4> QED BY <2>s, <2>m, <3>0
    <3>6. /\ row' = [row EXCEPT ![c] = [tenant |-> call[c].tenant, key |-> call[c].key,
                       trip |-> call[c].trip, model |-> call[c].model, status |-> "completed"]]
          /\ audit' = audit \cup {<<c, "success">>}
      BY <2>8 DEF Commit
    <3> HIDE DEF Same
    <3>7. Contract!Predict(c, call[c].model)
      BY <3>1, <3>2, <3>3, <3>4, <3>5, <3>6 DEF Contract!Predict
    <3> QED BY <3>1, <3>7 DEF Contract!Next
  <2>9. ASSUME UNCHANGED <<row, call, audit>> PROVE FALSE
    BY <2>9 DEF Seen
  <2> QED
    BY <2>1, <2>2, <2>3, <2>4, <2>5, <2>6, <2>7, <2>8, <2>9
    DEF Next, Step, ChangeStage, SeedTask, vars
<1> QED BY <1>1, <1>2, Invariance, PTL DEF Spec, PredictionsAtomic, Contract!Spec

\* No failed attempt uses up an Idempotency-Key.
THEOREM RetriesPossible == Spec => []RetryPossible
<1>1. IInv => RetryPossible
  BY DEF IInv, RetryPossible, StoredInv
<1> QED BY <1>1, Invariance, PTL

\* A tenant is never answered by another tenant's private model.
THEOREM ModelsAuthorised == Spec => []ModelAuthorised
<1>1. IInv => ModelAuthorised
  BY DEF IInv, ModelAuthorised, CallInv, StoredInv, Predicted
<1> QED BY <1>1, Invariance, PTL

-----------------------------------------------------------------------------
(***************************************************************************)
(* The model loader.                                                       *)
(***************************************************************************)

USE ConfigAssumption, LimitAssumption, LoaderNoneAssumption

\* The loader as __init__ leaves it.
LEMMA LoaderInitInv == LoaderInit => LoaderInv
  BY DEF LoaderInit, LoaderInv, LoaderTypeOK, BreakerInv, CacheInv, LockInv, Breakers, CircuitStates,
         LoadStates, Idle

\* What one call does to the lock: it becomes q, and holds the lock exactly when
\* q is running or in backoff.
LEMMA LoadKeepsInv ==
  ASSUME LoaderInv, LoaderTypeOK', BreakerInv', CacheInv', NEW c \in LoadCalls, NEW q \in LoadStates,
         load' = [load EXCEPT ![c] = q],
         holder' = IF q.pc \in {"running", "backoff"} THEN c ELSE None,
         holder \in {c, None},
         q.pc # "idle" => q.model \in Versions,
         q.pc \in {"running", "backoff"} =>
           q.model \notin cache' /\ q.attempt \in 1..MaxAttempts,
         q.pc = "backoff" => q.attempt < MaxAttempts,
         q.pc = "running" => breaker'.state # "open"
  PROVE  LoaderInv'
<1>1. load'[c] = q /\ \A d \in LoadCalls : d # c => load'[d] = load[d]
  BY DEF LoaderInv, LoaderTypeOK
<1>2. ASSUME NEW d \in LoadCalls PROVE LockInv(d)'
  <2>1. CASE d = c
    BY <2>1, <1>1 DEF LockInv
  <2>2. CASE d # c
    <3>1. LockInv(d) /\ holder # d /\ holder' # d /\ load'[d] = load[d]
      BY <2>2, <1>1 DEF LoaderInv
    <3> QED BY <3>1 DEF LockInv
  <2> QED BY <2>1, <2>2
<1> QED BY <1>2 DEF LoaderInv

\* Handing the lock back, in a step that keeps the breaker and the cache sound.
LEMMA ReleaseKeepsInv ==
  ASSUME LoaderInv, NEW c \in LoadCalls, holder \in {c, None}, NEW e, Release(c, e),
         breaker' \in Breakers, cache' \subseteq Versions, loads' \in [Versions -> Nat],
         streak' \in Nat, BreakerInv', CacheInv'
  PROVE  LoaderInv'
<1>1. Idle \in LoadStates /\ Idle.pc = "idle"
  BY DEF Idle, LoadStates
<1>2. LoaderTypeOK'
  BY <1>1 DEF Release, LoaderTypeOK, LoaderInv
<1> QED BY <1>1, <1>2, LoadKeepsInv DEF Release

\* An attempt that raised: the call backs off or gives up.
LEMMA RaisedKeepsInv ==
  ASSUME LoaderInv, NEW c \in LoadCalls, holder \in {c, None}, NEW n \in 1..MaxAttempts,
         NEW e \in Failures \cup {"open"}, Raised(c, n, e),
         load[c].model \in Versions, load[c].model \notin cache,
         breaker' \in Breakers, cache' = cache, loads' = loads,
         streak' \in Nat, BreakerInv'
  PROVE  LoaderInv'
<1>0. cache' \subseteq Versions /\ loads' \in [Versions -> Nat] /\ CacheInv' /\ load \in [LoadCalls -> LoadStates]
  BY DEF LoaderInv, LoaderTypeOK, CacheInv
<1>1. CASE n = MaxAttempts /\ Release(c, e)
  BY <1>0, <1>1, ReleaseKeepsInv
<1>2. CASE n < MaxAttempts /\ holder' = c
           /\ load' = [load EXCEPT ![c].pc = "backoff", ![c].attempt = n, ![c].error = e]
  <2> DEFINE q == [load[c] EXCEPT !.pc = "backoff", !.attempt = n, !.error = e]
  <2>1. load[c] \in LoadStates /\ n \in 0..MaxAttempts BY <1>0
  <2>2. q \in LoadStates /\ q.pc = "backoff" /\ q.attempt = n /\ q.model = load[c].model
    BY <2>1 DEF LoadStates
  <2>3. load' = [load EXCEPT ![c] = q]
    BY <1>2, <1>0
  <2> HIDE DEF q
  <2>4. LoaderTypeOK'
    BY <2>2, <2>3, <1>2, <1>0 DEF LoaderTypeOK
  <2> QED BY <2>2, <2>3, <2>4, <1>0, <1>2, LoadKeepsInv
<1> QED BY <1>1, <1>2 DEF Raised

\* An attempt begins: the breaker refuses it or lets it through.
LEMMA AttemptKeepsInv ==
  ASSUME LoaderInv, NEW c \in LoadCalls, holder \in {c, None}, NEW n \in 1..MaxAttempts,
         Attempt(c, n), load[c].model \in Versions, load[c].model \notin cache,
         UNCHANGED <<cache, loads, streak>>
  PROVE  LoaderInv'
<1>0. /\ breaker \in Breakers /\ cache' \subseteq Versions /\ loads' \in [Versions -> Nat]
      /\ streak' \in Nat /\ CacheInv' /\ load \in [LoadCalls -> LoadStates] /\ BreakerInv
  BY DEF LoaderInv, LoaderTypeOK, CacheInv
<1>1. CASE Raised(c, n, "open") /\ UNCHANGED breaker
  <2>1. BreakerInv' BY <1>0, <1>1 DEF BreakerInv
  <2> QED BY <2>1, <1>0, <1>1, RaisedKeepsInv
<1>2. CASE /\ Current # "open" /\ breaker' = Admitted /\ holder' = c
           /\ load' = [load EXCEPT ![c].pc = "running", ![c].attempt = n]
  <2> DEFINE q == [load[c] EXCEPT !.pc = "running", !.attempt = n]
  <2>1. load[c] \in LoadStates /\ n \in 0..MaxAttempts BY <1>0
  <2>2. q \in LoadStates /\ q.pc = "running" /\ q.attempt = n /\ q.model = load[c].model
    BY <2>1 DEF LoadStates
  <2>3. load' = [load EXCEPT ![c] = q]
    BY <1>2, <1>0
  <2> HIDE DEF q
  <2>4. breaker' \in Breakers /\ BreakerInv' /\ breaker'.state # "open"
    BY <1>0, <1>2 DEF Breakers, CircuitStates, Admitted, Current, BreakerInv
  <2>5. LoaderTypeOK'
    BY <2>2, <2>3, <2>4, <1>2, <1>0 DEF LoaderTypeOK
  <2> QED BY <2>2, <2>3, <2>4, <2>5, <1>0, <1>2, LoadKeepsInv
<1> QED BY <1>1, <1>2 DEF Attempt

\* Every step keeps the invariant.
LEMMA LoaderNextInv == LoaderInv /\ [LoaderNext]_loaderVars => LoaderInv'
<1> SUFFICES ASSUME LoaderInv, [LoaderNext]_loaderVars PROVE LoaderInv' OBVIOUS
<1>t. /\ breaker \in Breakers /\ cache \subseteq Versions /\ loads \in [Versions -> Nat]
      /\ streak \in Nat /\ load \in [LoadCalls -> LoadStates] /\ holder \in LoadCalls \cup {None}
      /\ BreakerInv /\ CacheInv /\ \A c \in LoadCalls : LockInv(c)
  BY DEF LoaderInv, LoaderTypeOK
<1>h. \A c \in LoadCalls : load[c].pc \in {"running", "backoff"} =>
        /\ holder = c /\ load[c].model \in Versions /\ load[c].model \notin cache
        /\ load[c].attempt \in 1..MaxAttempts
  BY <1>t DEF LockInv
<1>1. ASSUME NEW c \in LoadCalls, NEW m \in Versions, Request(c, m) PROVE LoaderInv'
  <2> DEFINE q == [Idle EXCEPT !.pc = "waiting", !.model = m]
  <2>0. 0 \in 0..MaxAttempts OBVIOUS
  <2>1. q \in LoadStates /\ q.pc = "waiting" /\ q.model = m
    BY <2>0 DEF Idle, LoadStates
  <2>2. load' = [load EXCEPT ![c] = q] /\ UNCHANGED <<breaker, holder, cache, loads, streak>>
        /\ holder # c
    BY <1>1, <1>t DEF Request, LockInv
  <2> HIDE DEF q
  <2>3. load'[c] = q /\ \A d \in LoadCalls : d # c => load'[d] = load[d]
    BY <2>2, <1>t
  <2>4. LoaderTypeOK' BY <2>1, <2>2, <1>t DEF LoaderTypeOK
  <2>5. ASSUME NEW d \in LoadCalls PROVE LockInv(d)'
    <3>1. CASE d = c BY <3>1, <2>1, <2>2, <2>3 DEF LockInv
    <3>2. CASE d # c BY <3>2, <2>2, <2>3, <1>t DEF LockInv
    <3> QED BY <3>1, <3>2
  <2>6. BreakerInv' /\ CacheInv' BY <2>2, <1>t DEF BreakerInv, CacheInv
  <2> QED BY <2>4, <2>5, <2>6 DEF LoaderInv
<1>2. ASSUME NEW c \in LoadCalls, Acquire(c) PROVE LoaderInv'
  <2>1. holder = None /\ load[c].model \in Versions /\ UNCHANGED <<cache, loads, streak>>
    BY <1>2, <1>t DEF Acquire, LockInv
  <2>2. CASE Release(c, "none") /\ UNCHANGED breaker
    <3>1. BreakerInv' /\ CacheInv' BY <2>1, <2>2, <1>t DEF BreakerInv, CacheInv
    <3> QED BY <2>1, <2>2, <3>1, <1>t, ReleaseKeepsInv
  <2>3. CASE load[c].model \notin cache /\ Attempt(c, 1)
    <3>1. 1 \in 1..MaxAttempts OBVIOUS
    <3> QED BY <2>1, <2>3, <3>1, AttemptKeepsInv
  <2> QED BY <1>2, <2>2, <2>3 DEF Acquire
<1>3. ASSUME NEW c \in LoadCalls, Retry(c) PROVE LoaderInv'
  <2>1. load[c].attempt + 1 \in 1..MaxAttempts
    BY <1>3, <1>t, <1>h DEF Retry, LockInv
  <2> QED BY <1>3, <2>1, <1>h, AttemptKeepsInv DEF Retry
<1>4. ASSUME NEW c \in LoadCalls, Loaded(c) PROVE LoaderInv'
  <2>1. holder = c /\ load[c].model \in Versions /\ load[c].model \notin cache
    BY <1>4, <1>h DEF Loaded
  <2>2. breaker' \in Breakers /\ BreakerInv' /\ streak' \in Nat
    BY <1>4 DEF Loaded, OnSuccess, Breakers, CircuitStates, BreakerInv
  <2>3. cache' \subseteq Versions /\ loads' \in [Versions -> Nat] /\ CacheInv'
    BY <1>4, <1>t, <2>1 DEF Loaded, CacheInv
  <2> QED BY <1>4, <2>1, <2>2, <2>3, ReleaseKeepsInv DEF Loaded
<1>5. ASSUME NEW c \in LoadCalls, NEW e \in Failures, Failed(c, e) PROVE LoaderInv'
  <2>1. /\ holder = c /\ load[c].model \in Versions /\ load[c].model \notin cache
        /\ load[c].attempt \in 1..MaxAttempts /\ breaker.state # "open"
    BY <1>5, <1>h, <1>t DEF Failed, LockInv
  <2>2. breaker.failures \in Nat /\ breaker.elapsed \in BOOLEAN /\ breaker.state \in CircuitStates
    BY <1>t DEF Breakers
  <2>3. streak' \in Nat /\ breaker' \in Breakers
    BY <1>5, <1>t, <2>2 DEF Failed, OnFailure, Breakers, CircuitStates
  <2>4. BreakerInv'
    <3>1. CASE breaker.failures + 1 >= Threshold
      <4>1. breaker'.state = "open" /\ breaker'.failures = breaker.failures + 1
            /\ breaker'.elapsed = FALSE /\ streak' = streak + 1
        BY <1>5, <3>1 DEF Failed, OnFailure
      <4>2. streak + 1 <= Threshold
        BY <1>t, <2>1, <2>2 DEF BreakerInv, CircuitStates
      <4> QED BY <4>1, <4>2, <3>1 DEF BreakerInv
    <3>2. CASE ~(breaker.failures + 1 >= Threshold)
      <4>1. breaker'.state = breaker.state /\ breaker'.failures = breaker.failures + 1
            /\ breaker'.elapsed = breaker.elapsed /\ streak' = streak + 1
        BY <1>5, <1>t, <3>2 DEF Failed, OnFailure, Breakers
      <4>2. breaker.state = "closed"
        BY <3>2, <2>2, <1>t DEF BreakerInv
      <4> QED BY <4>1, <4>2, <3>2, <2>2, <1>t DEF BreakerInv
    <3> QED BY <3>1, <3>2
  <2> QED BY <1>5, <2>1, <2>3, <2>4, RaisedKeepsInv DEF Failed
<1>6. ASSUME NEW c \in LoadCalls, Cancel(c) PROVE LoaderInv'
  <2>0. UNCHANGED <<breaker, cache, loads, streak>> /\ BreakerInv' /\ CacheInv'
    BY <1>6, <1>t DEF Cancel, BreakerInv, CacheInv
  <2>1. CASE load[c].pc = "waiting" /\ load' = [load EXCEPT ![c] = Idle] /\ UNCHANGED holder
    <3>1. Idle \in LoadStates /\ Idle.pc = "idle" BY DEF Idle, LoadStates
    <3>2. load'[c] = Idle /\ holder # c /\ \A d \in LoadCalls : d # c => load'[d] = load[d]
      BY <2>1, <1>t DEF LockInv
    <3>3. LoaderTypeOK' BY <2>0, <2>1, <3>1, <1>t DEF LoaderTypeOK
    <3>4. ASSUME NEW d \in LoadCalls PROVE LockInv(d)'
      <4>1. CASE d = c BY <4>1, <3>1, <3>2, <2>1 DEF LockInv
      <4>2. CASE d # c BY <4>2, <3>2, <2>0, <2>1, <1>t DEF LockInv
      <4> QED BY <4>1, <4>2
    <3> QED BY <2>0, <3>3, <3>4 DEF LoaderInv
  <2>2. CASE load[c].pc # "waiting" /\ Release(c, "none")
    <3>1. load[c].pc \in {"running", "backoff"}
      BY <1>6, <2>2, <1>t DEF Cancel, LoadStates
    <3>2. holder = c BY <3>1, <1>h
    <3> QED BY <2>0, <2>2, <3>2, <1>t, ReleaseKeepsInv
  <2> QED BY <1>6, <2>1, <2>2 DEF Cancel
<1>7. CASE Elapse
  <2>0. breaker' = [breaker EXCEPT !.elapsed = TRUE] /\ streak' = 0 /\ breaker.state = "open"
    BY <1>7 DEF Elapse
  <2>1. /\ breaker' \in Breakers /\ breaker'.state = breaker.state
        /\ breaker'.failures = breaker.failures /\ streak' \in Nat
    BY <2>0, <1>t DEF Breakers
  <2>1a. BreakerInv'
    BY <2>0, <2>1, <1>t DEF BreakerInv
  <2>2. UNCHANGED <<holder, load, cache, loads>> BY <1>7 DEF Elapse
  <2>3. LoaderTypeOK' /\ CacheInv' /\ \A c \in LoadCalls : LockInv(c)'
    BY <2>1, <2>2, <1>t DEF LoaderTypeOK, CacheInv, LockInv
  <2> QED BY <2>1a, <2>3 DEF LoaderInv
<1>8. CASE UNCHANGED loaderVars
  BY <1>8 DEF loaderVars, LoaderInv, LoaderTypeOK, BreakerInv, CacheInv, LockInv
<1> QED BY <1>1, <1>2, <1>3, <1>4, <1>5, <1>6, <1>7, <1>8 DEF LoaderNext, Finish

\* The inductive invariant holds in every reachable state of the loader.
THEOREM LoaderInvariance == LoaderSpec => []LoaderInv
  BY LoaderInitInv, LoaderNextInv, PTL DEF LoaderSpec

\* The state of the loader and its breaker keeps its type.
THEOREM LoaderTypeCorrect == LoaderSpec => []LoaderTypeOK
<1>1. LoaderInv => LoaderTypeOK BY DEF LoaderInv
<1> QED BY <1>1, LoaderInvariance, PTL

\* The lock lets one load run at a time: a half-open circuit tries once.
THEOREM LoadsSerialised == LoaderSpec => []OneLoadAtATime
<1>1. LoaderInv => OneLoadAtATime BY DEF LoaderInv, OneLoadAtATime, LockInv
<1> QED BY <1>1, LoaderInvariance, PTL

\* The cache is filled at most once per model version.
THEOREM CacheFilledOnce == LoaderSpec => []LoadedOnce
<1>1. LoaderInv => LoadedOnce BY DEF LoaderInv, LoadedOnce, CacheInv
<1> QED BY <1>1, LoaderInvariance, PTL

\* For any threshold and any number of calls and retries, the store sees at most
\* Threshold failing loads between two pauses.
THEOREM HammeringBounded == LoaderSpec => []NoHammering
<1>1. LoaderInv => NoHammering BY DEF LoaderInv, NoHammering, BreakerInv
<1> QED BY <1>1, LoaderInvariance, PTL

\* A failed trial reopens the circuit: the count that opened it was never reset.
THEOREM TrialsReopen == LoaderSpec => TrialFailureReopens
<1> DEFINE Reopens == breaker.state = "half_open" /\ breaker'.failures > breaker.failures =>
                        breaker'.state = "open" /\ ~breaker'.elapsed
<1>1. ASSUME LoaderInv, [LoaderNext]_loaderVars PROVE [Reopens]_loaderVars
  <2>0. breaker.failures \in Nat /\ BreakerInv
    BY <1>1 DEF LoaderInv, LoaderTypeOK, Breakers
  <2>1. ASSUME breaker' \in {breaker, Admitted, OnSuccess} \cup {[breaker EXCEPT !.elapsed = TRUE]}
        PROVE  Reopens
    <3>1. breaker'.failures \in {breaker.failures, 0}
      BY <1>1, <2>1 DEF Admitted, OnSuccess, LoaderInv, LoaderTypeOK, Breakers
    <3> QED BY <3>1, <2>0
  <2>2. ASSUME NEW c \in LoadCalls, NEW e \in Failures, Failed(c, e) PROVE Reopens
    BY <2>0, <2>2 DEF Failed, OnFailure, BreakerInv
  <2>3. ASSUME NEW c \in LoadCalls, Acquire(c) \/ Retry(c) PROVE Reopens
    BY <2>1, <2>3 DEF Acquire, Retry, Attempt
  <2>4. ASSUME NEW c \in LoadCalls, Loaded(c) \/ Cancel(c) PROVE Reopens
    BY <2>1, <2>4 DEF Loaded, Cancel
  <2>5. ASSUME NEW c \in LoadCalls, NEW m \in Versions, Request(c, m) PROVE Reopens
    BY <2>1, <2>5 DEF Request
  <2>6. CASE Elapse BY <2>1, <2>6 DEF Elapse
  <2>7. CASE UNCHANGED loaderVars BY <2>7
  <2> QED BY <1>1, <2>2, <2>3, <2>4, <2>5, <2>6, <2>7 DEF LoaderNext, Finish
<1> QED BY <1>1, LoaderInvariance, PTL DEF TrialFailureReopens, LoaderSpec

===============================================================================
