------------------------- MODULE ModelRegistryProofs -------------------------
(***************************************************************************)
(* Proofs about ModelRegistry, for any number of models, adapters,         *)
(* aliases, tenants and sessions.  The row a session has in memory is the  *)
(* committed one, an ancestor of it or, once flushed, its successor        *)
(* (ViewInv); no two sessions have flushed the same row (Exclusive), so a  *)
(* commit replaces a row by a successor of that very row.                  *)
(***************************************************************************)
EXTENDS ModelRegistry, TLAPS

USE DistinctAssumption, BoundAssumption

\* Two walks that meet are one walk.
LEMMA WalkConcat ==
  ASSUME NEW a, NEW b, NEW c, NEW s \in Seq(Moves), NEW t \in Seq(Moves),
         Walk(a, s, b), Walk(b, t, c)
  PROVE  Walk(a, s \o t, c) /\ s \o t \in Seq(Moves)
<1>1. /\ s \o t \in Seq(Moves) /\ Len(s \o t) = Len(s) + Len(t)
      /\ Len(s) \in Nat /\ Len(t) \in Nat
      /\ \A n \in 1..(Len(s) + Len(t)) :
           (s \o t)[n] = IF n <= Len(s) THEN s[n] ELSE t[n - Len(s)]
  OBVIOUS
<1>2. (s = <<>> <=> Len(s) = 0) /\ (t = <<>> <=> Len(t) = 0) OBVIOUS
<1>3. s \o t = <<>> <=> Len(s) + Len(t) = 0 BY <1>1
<1>4. ASSUME NEW n \in 1..Len(s \o t)
      PROVE  /\ (s \o t)[n].to \in ValidTransitions[(s \o t)[n].from]
             /\ (s \o t)[n].from = IF n = 1 THEN a ELSE (s \o t)[n - 1].to
  <2>1. CASE n <= Len(s)
    <3>1. (s \o t)[n] = s[n] /\ n \in 1..Len(s) BY <1>1, <2>1
    <3>2. n # 1 => (s \o t)[n - 1] = s[n - 1] BY <1>1, <2>1
    <3> QED BY <3>1, <3>2 DEF Walk
  <2>2. CASE n > Len(s)
    <3>1. (s \o t)[n] = t[n - Len(s)] /\ n - Len(s) \in 1..Len(t) BY <1>1, <2>2
    <3>2. /\ t[n - Len(s)].to \in ValidTransitions[t[n - Len(s)].from]
          /\ t[n - Len(s)].from = IF n - Len(s) = 1 THEN b ELSE t[n - Len(s) - 1].to
      BY <3>1 DEF Walk
    <3>3. CASE n - Len(s) = 1
      <4>1. n = 1 => b = a BY <3>3, <1>1, <1>2 DEF Walk
      <4>2. n # 1 => (s \o t)[n - 1] = s[Len(s)] /\ b = s[Len(s)].to
        BY <3>3, <1>1, <1>2 DEF Walk
      <4> QED BY <3>1, <3>2, <3>3, <4>1, <4>2
    <3>4. CASE n - Len(s) # 1
      <4>1. n # 1 /\ (s \o t)[n - 1] = t[n - Len(s) - 1]
        <5>1. n # 1 /\ n - 1 > Len(s) /\ n - 1 \in 1..(Len(s) + Len(t))
          BY <3>1, <3>4, <1>1, <2>2
        <5>2. (s \o t)[n - 1] = t[n - 1 - Len(s)] BY <5>1, <1>1
        <5>3. n - 1 - Len(s) = n - Len(s) - 1 BY <1>1
        <5> QED BY <5>1, <5>2, <5>3
      <4> QED BY <3>1, <3>2, <3>4, <4>1
    <3> QED BY <3>3, <3>4
  <2> QED BY <2>1, <2>2, <1>1
<1>5. c = IF s \o t = <<>> THEN a ELSE (s \o t)[Len(s \o t)].to
  <2>1. CASE t = <<>>
    <3>1. c = b /\ Len(t) = 0 BY <2>1 DEF Walk
    <3>2. CASE s = <<>> BY <3>1, <3>2, <1>2, <1>3 DEF Walk
    <3>3. CASE s # <<>>
      <4>1. (s \o t)[Len(s \o t)] = s[Len(s)] /\ s \o t # <<>> BY <3>1, <3>3, <1>1, <1>2, <1>3
      <4> QED BY <3>1, <3>3, <4>1 DEF Walk
    <3> QED BY <3>2, <3>3
  <2>2. CASE t # <<>>
    <3>1. (s \o t)[Len(s \o t)] = t[Len(t)] /\ s \o t # <<>>
      <4>1. Len(s) + Len(t) \in 1..(Len(s) + Len(t)) /\ ~(Len(s) + Len(t) <= Len(s))
        BY <2>2, <1>1, <1>2
      <4>2. Len(s) + Len(t) - Len(s) = Len(t) BY <1>1
      <4> QED BY <4>1, <4>2, <1>1, <1>3
    <3> QED BY <3>1, <2>2 DEF Walk
  <2> QED BY <2>1, <2>2
<1> QED BY <1>1, <1>4, <1>5 DEF Walk

\* The walk of no move, and of one.
LEMMA WalkShort ==
  ASSUME NEW a \in Stages
  PROVE  /\ Walk(a, <<>>, a) /\ <<>> \in Seq(Moves)
         /\ \A to \in ValidTransitions[a] :
              /\ <<[from |-> a, to |-> to]>> \in Seq(Moves)
              /\ Walk(a, <<[from |-> a, to |-> to]>>, to)
              /\ to \in Stages
<1>1. Walk(a, <<>>, a) /\ <<>> \in Seq(Moves) BY DEF Walk
<1>2. ASSUME NEW to \in ValidTransitions[a]
      PROVE  /\ <<[from |-> a, to |-> to]>> \in Seq(Moves)
             /\ Walk(a, <<[from |-> a, to |-> to]>>, to)
             /\ to \in Stages
  <2> DEFINE mv == [from |-> a, to |-> to]
  <2>1. to \in Stages BY DEF Stages, ValidTransitions
  <2>2. mv \in Moves /\ mv.from = a /\ mv.to = to BY <2>1 DEF Moves
  <2> HIDE DEF mv
  <2>3. <<mv>> \in Seq(Moves) /\ Len(<<mv>>) = 1 /\ <<mv>>[1] = mv /\ <<mv>> # <<>>
    BY <2>2
  <2>4. Walk(a, <<mv>>, to) BY <2>2, <2>3 DEF Walk
  <2> QED BY <2>1, <2>3, <2>4 DEF mv
<1> QED BY <1>1, <1>2

\* A row is later than itself, and later is transitive.
LEMMA LaterOrder ==
  ASSUME NEW i, NEW a, NEW b, NEW c
  PROVE  /\ a # None => Later(i, a, a)
         /\ Later(i, a, b) /\ Later(i, b, c) => Later(i, a, c)
  BY DEF Later

\* A pair that fits an alias still fits when its rows become later ones.
LEMMA FitsLater ==
  ASSUME NEW o, NEW m \in Models, NEW old, NEW new,
         FitsModel(o, old), Later(m, old, new)
  PROVE  /\ FitsModel(o, new)
         /\ \A a \in Adapters : \A p, r :
              FitsAdapter(o, old, p) /\ Later(a, p, r) => FitsAdapter(o, new, r)
  BY DEF FitsModel, FitsAdapter, Later, Compatible, Items

\* A step of session s that leads to record q and commits nothing.
LEMMA SessionStep ==
  ASSUME IInv, NEW s \in Sessions, NEW q \in SessionRecords, SessionInv(q),
         \A o \in Sessions \ {s} : q.written \cap ses[o].written = {},
         ses' = [ses EXCEPT ![s] = q], UNCHANGED <<item, alias, trail>>
  PROVE  IInv'
<1>0. ses'[s] = q /\ \A o \in Sessions : o # s => ses'[o] = ses[o]
  BY DEF IInv, TypeOK
<1>1. TypeOK' BY DEF IInv, TypeOK
<1>2. ItemInv' /\ AliasWithinTenant'
  BY DEF IInv, ItemInv, TrailLeadsToStage, AliasWithinTenant
<1>3. Exclusive' BY <1>0 DEF IInv, Exclusive
<1>4. ASSUME NEW o \in Sessions PROVE SessionInv(ses[o])'
  <2> DEFINE p == IF o = s THEN q ELSE ses[o]
  <2>1. SessionInv(p) /\ ses'[o] = p BY <1>0 DEF IInv
  <2> HIDE DEF p
  <2>2. \A i \in Items : ViewInv(ses[o], i)' BY <2>1 DEF SessionInv, ViewInv
  <2>3. AliasInv(ses[o])' BY <2>1 DEF SessionInv, AliasInv, FitsInside, Inside
  <2> QED BY <2>1, <2>2, <2>3 DEF SessionInv
<1> QED BY <1>1, <1>2, <1>3, <1>4 DEF IInv

\* A closed session satisfies everything.
LEMMA ClosedInv == Closed \in SessionRecords /\ SessionInv(Closed) /\ Closed.written = {}
<1>1. Closed \in SessionRecords
  <2>1. <<>> \in Seq(Moves) OBVIOUS
  <2> QED BY <2>1 DEF Closed, SessionRecords, Owners
<1>2. \A i \in Items : ViewInv(Closed, i) BY DEF Closed, ViewInv
<1>3. AliasInv(Closed) BY DEF Closed, AliasInv
<1> QED BY <1>1, <1>2, <1>3 DEF SessionInv, Closed

\* An error, a cancellation or a crash closes the session.
LEMMA EndedInv == ASSUME IInv, NEW s \in Sessions, Ended(s) PROVE IInv'
  BY ClosedInv, SessionStep DEF Ended

\* Nothing is registered at first.
LEMMA InitInv == Init => IInv
<1> SUFFICES ASSUME Init PROVE IInv OBVIOUS
<1>0. <<>> \in Seq(Moves) OBVIOUS
<1>1. TypeOK BY <1>0, ClosedInv DEF Init, TypeOK
<1>2. ItemInv /\ AliasWithinTenant
  BY DEF Init, ItemInv, TrailLeadsToStage, AliasWithinTenant
<1>3. Exclusive /\ \A s \in Sessions : SessionInv(ses[s])
  BY ClosedInv DEF Init, Exclusive
<1> QED BY <1>1, <1>2, <1>3 DEF IInv

\* Opening a session.
LEMMA OpenInv ==
  ASSUME IInv, NEW s \in Sessions, NEW t \in Owners, NEW p \in BOOLEAN, Open(s, t, p)
  PROVE  IInv'
<1> DEFINE q == [Closed EXCEPT !.pc = "open", !.tenant = t, !.promote = p]
<1>1. /\ q \in SessionRecords /\ q.pc = "open" /\ q.view = Closed.view /\ q.seen = Closed.seen
      /\ q.written = {} /\ q.log = Closed.log
  BY ClosedInv DEF SessionRecords, Closed
<1>2. ses' = [ses EXCEPT ![s] = q] /\ UNCHANGED <<item, alias, trail>> BY DEF Open
<1> HIDE DEF q
<1>3. \A i \in Items : ViewInv(q, i) BY <1>1, ClosedInv DEF SessionInv, ViewInv, Closed
<1>4. AliasInv(q) BY <1>1 DEF AliasInv, Closed
<1>5. SessionInv(q) BY <1>1, <1>3, <1>4 DEF SessionInv
<1> QED BY <1>1, <1>2, <1>5, SessionStep

\* Reading an item.
LEMMA LoadInv ==
  ASSUME IInv, NEW s \in Sessions, NEW i \in Items, Load(s, i)
  PROVE  IInv'
<1> DEFINE q == [ses[s] EXCEPT !.view[i] = item[i]]
<1>0. ses[s] \in SessionRecords /\ SessionInv(ses[s]) /\ item[i] \in ItemRows
      /\ ses \in [Sessions -> SessionRecords]
  BY DEF IInv, TypeOK, Load
<1>1. /\ q \in SessionRecords /\ q.pc = "open" /\ q.seen = ses[s].seen
      /\ q.view = [ses[s].view EXCEPT ![i] = item[i]]
      /\ q.written = ses[s].written /\ q.log = ses[s].log
  BY <1>0 DEF SessionRecords, Load
<1>2. ses' = [ses EXCEPT ![s] = q] /\ UNCHANGED <<item, alias, trail>> BY <1>0 DEF Load
<1>3. ses[s].view \in [Items -> ItemRows \cup {None}] BY <1>0 DEF SessionRecords
<1> HIDE DEF q
<1>4. ses[s].pc = "open" /\ ses[s].view[i] = None /\ item[i] # None BY DEF Load
<1>5. i \notin ses[s].written BY <1>0, <1>4 DEF SessionInv, ViewInv, Later
<1>6. q.view[i] = item[i] /\ \A j \in Items : j # i => q.view[j] = ses[s].view[j]
  BY <1>1, <1>3
<1>7. ASSUME NEW j \in Items PROVE ViewInv(q, j)
  <2>1. CASE j = i
    <3>1. Later(i, item[i], item[i]) BY <1>4, LaterOrder
    <3>2. item[i].version <= item[i].version BY <1>0 DEF ItemRows
    <3> QED BY <2>1, <1>0, <1>1, <1>5, <1>6, <3>1, <3>2 DEF ViewInv, SessionInv
  <2>2. CASE j # i BY <2>2, <1>0, <1>1, <1>6 DEF ViewInv, SessionInv
  <2> QED BY <2>1, <2>2
<1>8. AliasInv(q)
  <2>1. \A j \in Items : Inside(q, j) = Inside(ses[s], j) BY <1>1, <1>5, <1>6 DEF Inside
  <2>2. ASSUME NEW k \in AliasIds, k \in ses[s].written
        PROVE  FitsInside(q, q.seen[k].owner, q.seen[k].model, q.seen[k].adapter)
    <3>1. ses[s].seen[k] \in AliasRows
      BY <1>0, <2>2 DEF SessionInv, AliasInv, SessionRecords
    <3>2. ses[s].seen[k].model \in Items /\ ses[s].seen[k].adapter \in Items \cup {None}
      BY <3>1 DEF AliasRows, Items
    <3> QED BY <3>2, <2>1, <2>2, <1>0, <1>1 DEF SessionInv, AliasInv, FitsInside
  <2> QED BY <2>2, <1>0, <1>1, <1>4 DEF SessionInv, AliasInv
<1>9. SessionInv(q) BY <1>1, <1>7, <1>8 DEF SessionInv
<1>10. \A o \in Sessions \ {s} : q.written \cap ses[o].written = {}
  BY <1>1 DEF IInv, Exclusive
<1> QED BY <1>1, <1>2, <1>9, <1>10, SessionStep

\* The rows a pair inside a transaction consists of.
LEMMA FitsInsideLater ==
  ASSUME NEW q, NEW p, NEW o, NEW m, NEW a \in Adapters \cup {None},
         FitsInside(q, o, m, a),
         \A j \in Items : Inside(q, j) # None => Later(j, Inside(q, j), Inside(p, j))
  PROVE  FitsInside(p, o, m, a)
<1>1. m \in Models /\ m \in Items /\ FitsModel(o, Inside(q, m)) BY DEF FitsInside, Items
<1>2. Later(m, Inside(q, m), Inside(p, m)) BY <1>1 DEF FitsModel
<1>3. FitsModel(o, Inside(p, m)) BY <1>1, <1>2, FitsLater
<1>4. ASSUME a # None PROVE FitsAdapter(o, Inside(p, m), Inside(p, a))
  <2>1. a \in Adapters /\ a \in Items BY <1>4 DEF Items
  <2>2. FitsAdapter(o, Inside(q, m), Inside(q, a)) BY <1>4 DEF FitsInside
  <2>3. Later(a, Inside(q, a), Inside(p, a)) BY <2>1, <2>2 DEF FitsAdapter
  <2> QED BY <1>1, <1>2, <2>1, <2>2, <2>3, FitsLater
<1> QED BY <1>1, <1>3, <1>4 DEF FitsInside

\* The flush of an item: the session now has a successor of the committed row.
LEMMA UpdateInv ==
  ASSUME IInv, NEW s \in Sessions, NEW i \in Items,
         NEW row \in ItemRows, NEW moves \in Seq(Moves),
         ses[s].pc = "open", ses[s].view[i] # None, row.version = ses[s].view[i].version,
         Later(i, ses[s].view[i], row), Walk(ses[s].view[i].stage, moves, row.stage),
         Update(s, i, row, moves)
  PROVE  IInv'
<1> DEFINE old == ses[s]
           new == [row EXCEPT !.version = @ + 1]
           q == [old EXCEPT !.view[i] = new, !.written = @ \cup {i}, !.log[i] = @ \o moves]
<1>1. CASE ~FreshItem(old, i) BY <1>1, EndedInv DEF Update
<1>2. CASE FreshItem(old, i)
  <2>0. /\ old \in SessionRecords /\ SessionInv(old) /\ ses \in [Sessions -> SessionRecords]
        /\ old.view \in [Items -> ItemRows \cup {None}] /\ old.log \in [Items -> Seq(Moves)]
        /\ old.seen \in [AliasIds -> AliasRows \cup {None}]
        /\ item \in [Items -> ItemRows \cup {None}]
    BY DEF IInv, TypeOK, SessionRecords
  <2>1. /\ new \in ItemRows /\ new.version = row.version + 1 /\ new.stage = row.stage
        /\ new.owner = row.owner /\ new.contract = row.contract /\ new.active = row.active
        /\ new # None /\ row.version \in Nat
    <3>1. row.version \in Nat \ {0} /\ row.version + 1 \in Nat \ {0} BY DEF ItemRows
    <3>2. new \in ItemRows BY <3>1 DEF ItemRows
    <3> QED BY <3>1, <3>2 DEF ItemRows
  <2>2. ses' = [ses EXCEPT ![s] = q] /\ UNCHANGED <<item, alias, trail>>
    BY <1>2, <2>0 DEF Update
  <2> HIDE DEF new
  <2>3. /\ q.pc = "open" /\ q.seen = old.seen /\ q.written = old.written \cup {i}
        /\ q.view = [old.view EXCEPT ![i] = new]
        /\ q.log = [old.log EXCEPT ![i] = old.log[i] \o moves]
    BY <2>0 DEF SessionRecords
  <2>4. old.log[i] \in Seq(Moves) /\ old.log[i] \o moves \in Seq(Moves) BY <2>0
  <2>5. q \in SessionRecords
    <3>1. q.view \in [Items -> ItemRows \cup {None}] BY <2>0, <2>1, <2>3
    <3>2. q.log \in [Items -> Seq(Moves)] BY <2>0, <2>3, <2>4
    <3>3. q.written \in SUBSET (Items \cup AliasIds) BY <2>0, <2>3 DEF SessionRecords
    <3> QED BY <3>1, <3>2, <3>3, <2>0, <2>3 DEF SessionRecords
  <2>6. /\ q.view[i] = new /\ q.log[i] = old.log[i] \o moves
        /\ \A j \in Items : j # i => q.view[j] = old.view[j] /\ q.log[j] = old.log[j]
    BY <2>0, <2>3
  <2> HIDE DEF q
  <2>7. Later(i, old.view[i], new) BY <2>1 DEF Later
  <2>8. /\ Later(i, item[i], new) /\ new.version > item[i].version
        /\ Walk(item[i].stage, old.log[i] \o moves, new.stage)
        /\ Later(i, Inside(old, i), new)
    <3>1. CASE i \in old.written
      <4>1. /\ Later(i, item[i], old.view[i]) /\ old.view[i].version > item[i].version
            /\ Walk(item[i].stage, old.log[i], old.view[i].stage)
        BY <3>1, <2>0 DEF SessionInv, ViewInv
      <4>2. item[i] \in ItemRows BY <4>1, <2>0 DEF Later
      <4>3. new.version > item[i].version BY <4>1, <4>2, <2>1 DEF ItemRows
      <4>4. Walk(item[i].stage, old.log[i] \o moves, new.stage)
        BY <4>1, <2>1, <2>4, WalkConcat
      <4>5. Inside(old, i) = old.view[i] BY <3>1 DEF Inside
      <4> QED BY <4>1, <4>3, <4>4, <4>5, <2>7, LaterOrder
    <3>2. CASE i \notin old.written
      <4>1. item[i].version = old.view[i].version BY <1>2, <3>2 DEF FreshItem
      <4>2. old.view[i] = item[i] /\ old.log[i] = <<>> BY <4>1, <3>2, <2>0 DEF SessionInv, ViewInv
      <4>3. old.log[i] \o moves = moves BY <4>2
      <4>4. Inside(old, i) = old.view[i] BY <3>2, <4>2 DEF Inside
      <4> QED BY <4>1, <4>2, <4>3, <4>4, <2>1, <2>7
    <3> QED BY <3>1, <3>2
  <2>9. ASSUME NEW j \in Items PROVE ViewInv(q, j)
    <3>1. CASE j = i BY <3>1, <2>3, <2>6, <2>8 DEF ViewInv
    <3>2. CASE j # i BY <3>2, <2>0, <2>3, <2>6 DEF ViewInv, SessionInv
    <3> QED BY <3>1, <3>2
  <2>10. AliasInv(q)
    <3>1. ASSUME NEW j \in Items, Inside(old, j) # None
          PROVE  Later(j, Inside(old, j), Inside(q, j))
      <4>1. CASE j = i BY <4>1, <2>3, <2>6, <2>8 DEF Inside
      <4>2. CASE j # i BY <4>2, <3>1, <2>3, <2>6, LaterOrder DEF Inside
      <4> QED BY <4>1, <4>2
    <3>2. ASSUME NEW k \in AliasIds, k \in old.written
          PROVE  FitsInside(q, q.seen[k].owner, q.seen[k].model, q.seen[k].adapter)
      <4>1. old.seen[k] \in AliasRows BY <3>2, <2>0 DEF SessionInv, AliasInv
      <4>2. old.seen[k].adapter \in Adapters \cup {None} BY <4>1 DEF AliasRows
      <4>3. FitsInside(old, old.seen[k].owner, old.seen[k].model, old.seen[k].adapter)
        BY <3>2, <2>0 DEF SessionInv, AliasInv
      <4> QED BY <3>1, <4>2, <4>3, <2>3, FitsInsideLater
    <3>3. \A k \in AliasIds : k \in q.written <=> k \in old.written BY <2>3
    <3> QED BY <3>2, <3>3, <2>0, <2>3 DEF SessionInv, AliasInv
  <2>11. SessionInv(q) BY <2>3, <2>9, <2>10 DEF SessionInv
  <2>12. \A o \in Sessions \ {s} : q.written \cap ses[o].written = {}
    BY <2>3 DEF IInv, Exclusive, Update
  <2> QED BY <2>2, <2>5, <2>11, <2>12, SessionStep
<1> QED BY <1>1, <1>2

\* A stage move, a deactivation and the sharing of a base model are such
\* flushes.
LEMMA ItemStepInv ==
  ASSUME IInv, NEW s \in Sessions, NEW i \in Items,
         \/ \E to \in Stages : TransitionStage(s, i, to)
         \/ Deactivate(s, i)
         \/ i \in Models /\ Share(s, i)
  PROVE  IInv'
<1> DEFINE v == ses[s].view[i]
<1>0. ses[s].view \in [Items -> ItemRows \cup {None}] /\ ses[s].pc = "open" /\ v # None
  <2>1. ses[s].view \in [Items -> ItemRows \cup {None}] BY DEF IInv, TypeOK, SessionRecords
  <2>2. ses[s].pc = "open" BY DEF TransitionStage, Deactivate, Share
  <2>3. v # None BY DEF TransitionStage, Deactivate, Share, MayMove, Reaches
  <2> QED BY <2>1, <2>2, <2>3
<1>1. v \in ItemRows /\ v.stage \in Stages BY <1>0 DEF ItemRows
<1>2. ASSUME NEW to \in Stages, TransitionStage(s, i, to) PROVE IInv'
  <2> DEFINE row == [v EXCEPT !.stage = to]
             moves == <<[from |-> v.stage, to |-> to]>>
  <2>1. to \in ValidTransitions[v.stage] /\ Update(s, i, row, moves)
    BY <1>2 DEF TransitionStage, MayMove
  <2>2. moves \in Seq(Moves) /\ Walk(v.stage, moves, to) BY <1>1, <2>1, WalkShort
  <2>3. /\ row \in ItemRows /\ row.stage = to /\ row.version = v.version /\ row.owner = v.owner
        /\ row.contract = v.contract /\ row.active = v.active /\ row # None
    BY <1>1 DEF ItemRows
  <2> HIDE DEF row, moves
  <2>4. Later(i, v, row) BY <1>0, <2>3 DEF Later
  <2>5. Walk(v.stage, moves, row.stage) BY <2>2, <2>3
  <2> QED BY <1>0, <2>1, <2>2, <2>3, <2>4, <2>5, UpdateInv
<1>3. <<>> \in Seq(Moves) /\ Walk(v.stage, <<>>, v.stage) BY <1>1, WalkShort
<1>4. ASSUME Deactivate(s, i) PROVE IInv'
  <2> DEFINE row == [v EXCEPT !.active = FALSE]
  <2>1. Update(s, i, row, <<>>) BY <1>4 DEF Deactivate
  <2>2. /\ row \in ItemRows /\ row.stage = v.stage /\ row.version = v.version
        /\ row.owner = v.owner /\ row.contract = v.contract /\ ~row.active /\ row # None
    BY <1>1 DEF ItemRows
  <2> HIDE DEF row
  <2>3. Later(i, v, row) BY <1>0, <2>2 DEF Later
  <2>4. Walk(v.stage, <<>>, row.stage) BY <2>2, <1>3
  <2> QED BY <1>0, <1>3, <2>1, <2>2, <2>3, <2>4, UpdateInv
<1>5. ASSUME i \in Models, Share(s, i) PROVE IInv'
  <2> DEFINE row == [v EXCEPT !.owner = Shared]
  <2>1. Update(s, i, row, <<>>) BY <1>5 DEF Share
  <2>2. /\ row \in ItemRows /\ row.stage = v.stage /\ row.version = v.version
        /\ row.owner = Shared /\ row.contract = v.contract /\ row.active = v.active
        /\ row # None
    BY <1>1 DEF ItemRows, Owners
  <2> HIDE DEF row
  <2>3. Later(i, v, row) BY <1>0, <1>5, <2>2 DEF Later
  <2>4. Walk(v.stage, <<>>, row.stage) BY <2>2, <1>3
  <2> QED BY <1>0, <1>3, <2>1, <2>2, <2>3, <2>4, UpdateInv
<1> QED BY <1>2, <1>4, <1>5

\* A step of an open session that leaves its items alone.
LEMMA AliasStep ==
  ASSUME IInv, NEW s \in Sessions, NEW q \in SessionRecords,
         q.pc # "closed", q.view = ses[s].view, q.log = ses[s].log,
         \A i \in Items : i \in q.written <=> i \in ses[s].written,
         AliasInv(q), \A o \in Sessions \ {s} : q.written \cap ses[o].written = {},
         ses' = [ses EXCEPT ![s] = q], UNCHANGED <<item, alias, trail>>
  PROVE  IInv'
<1>1. \A i \in Items : ViewInv(q, i) BY DEF IInv, SessionInv, ViewInv
<1>2. SessionInv(q) BY <1>1 DEF SessionInv
<1> QED BY <1>2, SessionStep

\* Such a step keeps what fits.
LEMMA FitsKept ==
  ASSUME NEW q, NEW p, q.view = p.view, \A i \in Items : i \in q.written <=> i \in p.written,
         NEW o, NEW m, NEW a \in Adapters \cup {None}, FitsInside(p, o, m, a)
  PROVE  FitsInside(q, o, m, a)
<1>1. \A j \in Items : Inside(q, j) = Inside(p, j) BY DEF Inside
<1>2. m \in Items /\ (a # None => a \in Items) BY DEF FitsInside, Items
<1> QED BY <1>1, <1>2 DEF FitsInside

\* What _point_alias checks in memory holds of the rows of the transaction.
LEMMA PointFits ==
  ASSUME IInv, NEW s \in Sessions, NEW m \in Models, NEW a \in Adapters \cup {None},
         MayServe(ses[s], m), a # None => MayCombine(ses[s], m, a)
  PROVE  FitsInside(ses[s], ses[s].tenant, m, a)
<1> DEFINE q == ses[s]
<1>1. ASSUME NEW j \in Items, q.view[j] # None PROVE Later(j, q.view[j], Inside(q, j))
  BY <1>1, LaterOrder DEF IInv, SessionInv, ViewInv, Inside
<1>2. m \in Items /\ q.view[m] # None /\ FitsModel(q.tenant, q.view[m])
  BY DEF MayServe, FitsModel, Items
<1>3. Later(m, q.view[m], Inside(q, m)) BY <1>1, <1>2
<1>4. FitsModel(q.tenant, Inside(q, m)) BY <1>2, <1>3, FitsLater
<1>5. ASSUME a # None PROVE FitsAdapter(q.tenant, Inside(q, m), Inside(q, a))
  <2>1. a \in Adapters /\ a \in Items /\ q.view[a] # None BY <1>5 DEF MayCombine, Items
  <2>2. FitsAdapter(q.tenant, q.view[m], q.view[a]) BY <1>5 DEF MayCombine, FitsAdapter
  <2>3. Later(a, q.view[a], Inside(q, a)) BY <2>1, <1>1
  <2> QED BY <1>2, <1>3, <2>1, <2>2, <2>3, FitsLater
<1> QED BY <1>4, <1>5 DEF FitsInside

\* set_alias and rollback_alias up to the result of find.
LEMMA PointAliasInv ==
  ASSUME IInv, NEW s \in Sessions, NEW m \in Models, NEW a \in Adapters \cup {None},
         PointAlias(s, m, a)
  PROVE  IInv'
<1> DEFINE old == ses[s]
           found == Find(s, old.tenant)
           g == [model |-> m, adapter |-> a]
<1>0. /\ old \in SessionRecords /\ SessionInv(old) /\ ses \in [Sessions -> SessionRecords]
      /\ old.seen \in [AliasIds -> AliasRows \cup {None}] /\ old.pc = "open"
      /\ alias \in [AliasIds -> AliasRows \cup {None}]
      /\ old.written \subseteq Items \cup AliasIds
  BY DEF IInv, TypeOK, SessionRecords, PointAlias
<1>1. FitsInside(old, old.tenant, m, a) BY PointFits DEF PointAlias
<1>2. g \in [model : Models \cup {None}, adapter : Adapters \cup {None}]
      /\ g.model = m /\ g.adapter = a
  OBVIOUS
<1>3. \A k \in AliasIds : k \in old.written => old.seen[k] \in AliasRows
  BY <1>0 DEF SessionInv, AliasInv
<1>4. \A k \in AliasIds : k \in old.written => old.seen[k].adapter \in Adapters \cup {None}
  BY <1>3 DEF AliasRows
<1>5. \A o \in Sessions \ {s} : old.written \cap ses[o].written = {} BY DEF IInv, Exclusive
<1>6. CASE /\ found = {}
           /\ ses' = [ses EXCEPT ![s] = [old EXCEPT !.pc = "alias", !.target = None, !.goal = g]]
           /\ UNCHANGED <<item, alias, trail>>
  <2> DEFINE q == [old EXCEPT !.pc = "alias", !.target = None, !.goal = g]
  <2>1. /\ q \in SessionRecords /\ q.pc = "alias" /\ q.target = None /\ q.goal = g
        /\ q.view = old.view /\ q.log = old.log /\ q.written = old.written
        /\ q.seen = old.seen /\ q.tenant = old.tenant
    BY <1>0, <1>2 DEF SessionRecords
  <2>2. ses' = [ses EXCEPT ![s] = q] BY <1>6
  <2> HIDE DEF q, g
  <2>3. FitsInside(q, q.tenant, q.goal.model, q.goal.adapter) BY <1>1, <1>2, <2>1, FitsKept
  <2>4. \A k \in AliasIds : k \in q.written =>
          FitsInside(q, q.seen[k].owner, q.seen[k].model, q.seen[k].adapter)
    BY <1>0, <1>4, <2>1, FitsKept DEF SessionInv, AliasInv
  <2>5. AliasInv(q) BY <1>0, <2>1, <2>3, <2>4 DEF SessionInv, AliasInv
  <2> QED BY <1>5, <1>6, <2>1, <2>2, <2>5, AliasStep
<1>7. ASSUME NEW k \in found, found = {k},
             ses' = [ses EXCEPT ![s] =
               [old EXCEPT !.pc = "alias", !.target = k, !.goal = g,
                           !.seen[k] = IF @ = None THEN alias[k] ELSE @]],
             UNCHANGED <<item, alias, trail>>
      PROVE  IInv'
  <2> DEFINE r == IF old.seen[k] = None THEN alias[k] ELSE old.seen[k]
             q == [old EXCEPT !.pc = "alias", !.target = k, !.goal = g, !.seen[k] = r]
  <2>0. /\ k \in AliasIds /\ k \in old.written => old.seen[k].owner = old.tenant
        /\ k \notin old.written => alias[k] # None /\ alias[k].owner = old.tenant
    BY <1>7 DEF Find
  <2>1. r \in AliasRows /\ r.owner = old.tenant /\ r # None
        /\ (alias[k] # None => r.owner = alias[k].owner)
        /\ (k \in old.written => r = old.seen[k])
    <3>0. k \in AliasIds BY <1>7 DEF Find
    <3>1. CASE k \in old.written
      BY <3>0, <3>1, <2>0, <1>0, <1>3 DEF SessionInv, AliasInv
    <3>2. CASE k \notin old.written
      BY <3>0, <3>2, <2>0, <1>0 DEF SessionInv, AliasInv
    <3> QED BY <3>1, <3>2
  <2>2. ses' = [ses EXCEPT ![s] = q] BY <1>7, <1>0
  <2> HIDE DEF r
  <2>3. /\ q \in SessionRecords /\ q.pc = "alias" /\ q.target = k /\ q.goal = g
        /\ q.view = old.view /\ q.log = old.log /\ q.written = old.written
        /\ q.seen = [old.seen EXCEPT ![k] = r] /\ q.tenant = old.tenant
    <3>0. k \in AliasIds BY <1>7 DEF Find
    <3>1. [old.seen EXCEPT ![k] = r] \in [AliasIds -> AliasRows \cup {None}] BY <1>0, <2>1
    <3> QED BY <3>0, <3>1, <1>0, <1>2 DEF SessionRecords
  <2>4. k \in AliasIds BY <1>7 DEF Find
  <2>5. q.seen[k] = r /\ \A j \in AliasIds : j # k => q.seen[j] = old.seen[j]
    BY <1>0, <2>3, <2>4
  <2> HIDE DEF q, g
  <2>6. FitsInside(q, q.tenant, q.goal.model, q.goal.adapter) BY <1>1, <1>2, <2>3, FitsKept
  <2>7. \A j \in AliasIds : j \in q.written => q.seen[j] = old.seen[j]
    BY <2>1, <2>3, <2>5
  <2>8. \A j \in AliasIds : j \in q.written => q.seen[j] # None /\
          FitsInside(q, q.seen[j].owner, q.seen[j].model, q.seen[j].adapter)
    BY <1>0, <1>4, <2>3, <2>7, FitsKept DEF SessionInv, AliasInv
  <2>9. ASSUME NEW j \in AliasIds
        PROVE  /\ j \notin q.written /\ q.seen[j] # None => alias[j] # None
               /\ q.seen[j] # None /\ alias[j] # None => q.seen[j].owner = alias[j].owner
    <3>1. CASE j = k BY <3>1, <2>0, <2>1, <2>3, <2>5
    <3>2. CASE j # k BY <3>2, <1>0, <2>3, <2>5 DEF SessionInv, AliasInv
    <3> QED BY <3>1, <3>2
  <2>10. AliasInv(q) BY <2>1, <2>3, <2>4, <2>5, <2>6, <2>8, <2>9 DEF AliasInv
  <2> QED BY <1>5, <1>7, <2>2, <2>3, <2>10, AliasStep
<1>8. CASE Ended(s) BY <1>8, EndedInv
<1> QED BY <1>6, <1>7, <1>8 DEF PointAlias

\* A session stores alias row r of its own tenant, which fits, under k.
LEMMA WriteAliasInv ==
  ASSUME IInv, NEW s \in Sessions, NEW k \in AliasIds, NEW r \in AliasRows,
         ses[s].pc = "alias", \A o \in Sessions \ {s} : k \notin ses[o].written,
         FitsInside(ses[s], r.owner, r.model, r.adapter),
         alias[k] # None => r.owner = alias[k].owner,
         ses' = [ses EXCEPT ![s] = [ses[s] EXCEPT !.pc = "open", !.written = @ \cup {k},
                                                  !.seen[k] = r]],
         UNCHANGED <<item, alias, trail>>
  PROVE  IInv'
<1> DEFINE old == ses[s]
           q == [old EXCEPT !.pc = "open", !.written = @ \cup {k}, !.seen[k] = r]
<1>0. /\ old \in SessionRecords /\ SessionInv(old)
      /\ old.seen \in [AliasIds -> AliasRows \cup {None}]
      /\ old.written \subseteq Items \cup AliasIds
  BY DEF IInv, TypeOK, SessionRecords
<1>1. [old.seen EXCEPT ![k] = r] \in [AliasIds -> AliasRows \cup {None}] BY <1>0
<1>2. /\ q \in SessionRecords /\ q.pc = "open" /\ q.written = old.written \cup {k}
      /\ q.view = old.view /\ q.log = old.log /\ q.seen = [old.seen EXCEPT ![k] = r]
  BY <1>0, <1>1 DEF SessionRecords
<1>3. ses' = [ses EXCEPT ![s] = q] OBVIOUS
<1> HIDE DEF q
<1>4. q.seen[k] = r /\ \A j \in AliasIds : j # k => q.seen[j] = old.seen[j] BY <1>0, <1>2
<1>5. \A i \in Items : i \in q.written <=> i \in old.written BY <1>2
<1>6. r # None /\ r.adapter \in Adapters \cup {None} BY DEF AliasRows
<1>7. ASSUME NEW j \in AliasIds
      PROVE  /\ j \in q.written => q.seen[j] # None
                  /\ FitsInside(q, q.seen[j].owner, q.seen[j].model, q.seen[j].adapter)
             /\ j \notin q.written /\ q.seen[j] # None => alias[j] # None
             /\ q.seen[j] # None /\ alias[j] # None => q.seen[j].owner = alias[j].owner
  <2>1. CASE j = k
    <3>1. FitsInside(q, r.owner, r.model, r.adapter) BY <1>2, <1>5, <1>6, FitsKept
    <3> QED BY <2>1, <3>1, <1>2, <1>4, <1>6
  <2>2. CASE j # k
    <3>1. q.seen[j] = old.seen[j] /\ (j \in q.written <=> j \in old.written)
      BY <2>2, <1>2, <1>4
    <3>2. ASSUME j \in old.written
          PROVE  FitsInside(q, old.seen[j].owner, old.seen[j].model, old.seen[j].adapter)
      <4>1. old.seen[j] \in AliasRows BY <3>2, <1>0 DEF SessionInv, AliasInv
      <4>2. old.seen[j].adapter \in Adapters \cup {None} BY <4>1 DEF AliasRows
      <4>3. FitsInside(old, old.seen[j].owner, old.seen[j].model, old.seen[j].adapter)
        BY <3>2, <1>0 DEF SessionInv, AliasInv
      <4> QED BY <4>2, <4>3, <1>2, <1>5, FitsKept
    <3> QED BY <3>1, <3>2, <1>0 DEF SessionInv, AliasInv
  <2> QED BY <2>1, <2>2
<1>8. AliasInv(q) BY <1>2, <1>7 DEF AliasInv
<1>9. \A o \in Sessions \ {s} : q.written \cap ses[o].written = {}
  BY <1>2 DEF IInv, Exclusive
<1> QED BY <1>2, <1>3, <1>5, <1>8, <1>9, AliasStep

\* The flush of a new alias row.
LEMMA InsertAliasInv ==
  ASSUME IInv, NEW s \in Sessions, NEW k \in AliasIds, InsertAlias(s, k)
  PROVE  IInv'
<1> DEFINE q == ses[s]
           r == [owner |-> q.tenant, model |-> q.goal.model,
                 adapter |-> q.goal.adapter, version |-> 1]
<1>1. FitsInside(q, q.tenant, q.goal.model, q.goal.adapter) /\ q \in SessionRecords
  BY DEF IInv, TypeOK, SessionInv, AliasInv, InsertAlias
<1>2. q.goal.model \in Models /\ q.goal.adapter \in Adapters \cup {None} /\ q.tenant \in Owners
  BY <1>1 DEF FitsInside, SessionRecords
<1>3. /\ r \in AliasRows /\ r.owner = q.tenant /\ r.model = q.goal.model
      /\ r.adapter = q.goal.adapter
  BY <1>2 DEF AliasRows
<1>4. /\ ses' = [ses EXCEPT ![s] = [q EXCEPT !.pc = "open", !.written = @ \cup {k},
                                             !.seen[k] = r]]
      /\ q.pc = "alias" /\ alias[k] = None /\ \A o \in Sessions : k \notin ses[o].written
      /\ UNCHANGED <<item, alias, trail>>
  BY DEF InsertAlias
<1> HIDE DEF r
<1>5. FitsInside(q, r.owner, r.model, r.adapter) BY <1>1, <1>3
<1> QED BY <1>3, <1>4, <1>5, WriteAliasInv

\* The flush of a repointed alias row.
LEMMA UpdateAliasInv ==
  ASSUME IInv, NEW s \in Sessions, NEW k \in AliasIds, UpdateAlias(s, k)
  PROVE  IInv'
<1> DEFINE q == ses[s]
           r == Repointed(q, k)
<1>0. /\ q \in SessionRecords /\ SessionInv(q) /\ q.pc = "alias" /\ q.target = k
      /\ q.seen \in [AliasIds -> AliasRows \cup {None}] /\ k # None
  BY DEF IInv, TypeOK, SessionRecords, UpdateAlias
<1>1. /\ FitsInside(q, q.tenant, q.goal.model, q.goal.adapter)
      /\ q.seen[k] # None /\ q.seen[k].owner = q.tenant
      /\ (alias[k] # None => q.seen[k].owner = alias[k].owner)
  BY <1>0 DEF SessionInv, AliasInv
<1>2. CASE Ended(s) BY <1>2, EndedInv
<1>3. CASE ses' = [ses EXCEPT ![s] = [q EXCEPT !.pc = "open"]] /\ UNCHANGED <<item, alias, trail>>
  <2> DEFINE p == [q EXCEPT !.pc = "open"]
  <2>1. /\ p \in SessionRecords /\ p.pc = "open" /\ p.view = q.view /\ p.log = q.log
        /\ p.written = q.written /\ p.seen = q.seen
    BY <1>0 DEF SessionRecords
  <2>2. ses' = [ses EXCEPT ![s] = p] BY <1>3
  <2> HIDE DEF p
  <2>3. ASSUME NEW j \in AliasIds, j \in q.written
        PROVE  FitsInside(p, q.seen[j].owner, q.seen[j].model, q.seen[j].adapter)
    <3>1. q.seen[j] \in AliasRows BY <2>3, <1>0 DEF SessionInv, AliasInv
    <3>2. q.seen[j].adapter \in Adapters \cup {None} BY <3>1 DEF AliasRows
    <3>3. FitsInside(q, q.seen[j].owner, q.seen[j].model, q.seen[j].adapter)
      BY <2>3, <1>0 DEF SessionInv, AliasInv
    <3> QED BY <3>2, <3>3, <2>1, FitsKept
  <2>4. AliasInv(p) BY <2>1, <2>3, <1>0 DEF SessionInv, AliasInv
  <2>5. \A o \in Sessions \ {s} : p.written \cap ses[o].written = {}
    BY <2>1 DEF IInv, Exclusive
  <2> QED BY <1>3, <2>1, <2>2, <2>4, <2>5, AliasStep
<1>4. CASE /\ \A o \in Sessions \ {s} : k \notin ses[o].written
           /\ ses' = [ses EXCEPT ![s] = [q EXCEPT !.pc = "open", !.written = @ \cup {k},
                                                  !.seen[k] = r]]
           /\ UNCHANGED <<item, alias, trail>>
  <2>1. q.seen[k] \in AliasRows BY <1>0, <1>1
  <2>2. q.goal.model \in Models /\ q.goal.adapter \in Adapters \cup {None}
    BY <1>0, <1>1 DEF FitsInside, SessionRecords
  <2>3. q.seen[k].version + 1 \in Nat \ {0} BY <2>1 DEF AliasRows
  <2>4. /\ r \in AliasRows /\ r.owner = q.tenant /\ r.model = q.goal.model
        /\ r.adapter = q.goal.adapter
    BY <1>1, <2>1, <2>2, <2>3 DEF AliasRows, Repointed
  <2> HIDE DEF r
  <2>5. FitsInside(q, r.owner, r.model, r.adapter) BY <1>1, <2>4
  <2>6. alias[k] # None => r.owner = alias[k].owner BY <1>1, <2>4
  <2> QED BY <1>0, <1>4, <2>4, <2>5, <2>6, WriteAliasInv
<1> QED BY <1>2, <1>3, <1>4 DEF UpdateAlias

\* What another session knows survives when items become later ones.
LEMMA OthersKept ==
  ASSUME TypeOK, NEW o \in Sessions, SessionInv(ses[o]), ses'[o] = ses[o],
         \A i \in Items : item[i] # None =>
           \/ item'[i] = item[i]
           \/ /\ i \notin ses[o].written /\ item'[i] \in ItemRows
              /\ Later(i, item[i], item'[i]) /\ item'[i].version > item[i].version,
         \A k \in AliasIds : ses[o].seen[k] # None =>
           /\ alias[k] # None => alias'[k] # None
           /\ alias'[k] # None => ses[o].seen[k].owner = alias'[k].owner
  PROVE  SessionInv(ses[o])'
<1> DEFINE q == ses[o]
<1>0. /\ q.view \in [Items -> ItemRows \cup {None}] /\ q \in SessionRecords
      /\ q.seen \in [AliasIds -> AliasRows \cup {None}]
      /\ item \in [Items -> ItemRows \cup {None}]
  BY DEF TypeOK, SessionRecords
<1>1. \A i \in Items : ViewInv(q, i) BY DEF SessionInv
<1>2. ASSUME NEW i \in Items PROVE ViewInv(ses[o], i)'
  <2>1. CASE i \in q.written
    <3>1. item[i] # None BY <1>1, <2>1 DEF ViewInv, Later
    <3>2. item'[i] = item[i] BY <2>1, <3>1
    <3> QED BY <1>1, <2>1, <3>2 DEF ViewInv
  <2>2. CASE i \notin q.written /\ q.view[i] = None BY <1>1, <2>2 DEF ViewInv
  <2>3. CASE i \notin q.written /\ q.view[i] # None
    <3>1. /\ Later(i, q.view[i], item[i]) /\ q.view[i].version <= item[i].version
          /\ q.view[i].version = item[i].version => q.view[i] = item[i]
          /\ q.log[i] = <<>>
      BY <1>1, <2>3 DEF ViewInv
    <3>2. item[i] # None BY <3>1 DEF Later
    <3>3. CASE item'[i] = item[i] BY <3>1, <3>3, <2>3 DEF ViewInv
    <3>4. CASE /\ item'[i] \in ItemRows /\ Later(i, item[i], item'[i])
               /\ item'[i].version > item[i].version
      <4>1. q.view[i] \in ItemRows /\ item[i] \in ItemRows BY <1>0, <2>3, <3>2
      <4>2. /\ q.view[i].version \in Nat /\ item[i].version \in Nat
            /\ item'[i].version \in Nat
        BY <3>4, <4>1 DEF ItemRows
      <4>3. Later(i, q.view[i], item'[i]) BY <3>1, <3>4, LaterOrder
      <4>4. q.view[i].version <= item'[i].version /\ q.view[i].version # item'[i].version
        BY <3>1, <3>4, <4>2
      <4> QED BY <2>3, <3>1, <4>3, <4>4 DEF ViewInv
    <3> QED BY <3>2, <3>3, <3>4
  <2> QED BY <2>1, <2>2, <2>3
<1>3. ASSUME NEW j \in Items, Inside(q, j) # None
      PROVE  Later(j, Inside(q, j), Inside(ses[o], j)')
  BY <1>3, LaterOrder DEF Inside
<1>4. ASSUME NEW t, NEW m, NEW a \in Adapters \cup {None}, FitsInside(q, t, m, a)
      PROVE  /\ m \in Models /\ FitsModel(t, Inside(ses[o], m)')
             /\ a # None => FitsAdapter(t, Inside(ses[o], m)', Inside(ses[o], a)')
  <2>1. m \in Models /\ m \in Items /\ FitsModel(t, Inside(q, m)) /\ Inside(q, m) # None
    BY <1>4 DEF FitsInside, FitsModel, Items
  <2>2. Later(m, Inside(q, m), Inside(ses[o], m)') BY <2>1, <1>3
  <2>3. FitsModel(t, Inside(ses[o], m)') BY <2>1, <2>2, FitsLater
  <2>4. ASSUME a # None PROVE FitsAdapter(t, Inside(ses[o], m)', Inside(ses[o], a)')
    <3>1. a \in Adapters /\ a \in Items /\ FitsAdapter(t, Inside(q, m), Inside(q, a))
          /\ Inside(q, a) # None
      BY <1>4, <2>4 DEF FitsInside, FitsAdapter, Items
    <3>2. Later(a, Inside(q, a), Inside(ses[o], a)') BY <3>1, <1>3
    <3> QED BY <2>1, <2>2, <3>1, <3>2, FitsLater
  <2> QED BY <2>1, <2>3, <2>4
<1>5. AliasInv(ses[o])'
  <2>1. ASSUME NEW k \in AliasIds, k \in q.written
        PROVE  /\ q.seen[k] # None /\ q.seen[k].model \in Models
               /\ FitsModel(q.seen[k].owner, Inside(ses[o], q.seen[k].model)')
               /\ q.seen[k].adapter # None =>
                    FitsAdapter(q.seen[k].owner, Inside(ses[o], q.seen[k].model)',
                                Inside(ses[o], q.seen[k].adapter)')
    <3>1. q.seen[k] # None
          /\ FitsInside(q, q.seen[k].owner, q.seen[k].model, q.seen[k].adapter)
      BY <2>1 DEF SessionInv, AliasInv
    <3>2. q.seen[k] \in AliasRows BY <3>1, <1>0
    <3>3. q.seen[k].adapter \in Adapters \cup {None} BY <3>2 DEF AliasRows
    <3> QED BY <3>1, <3>3, <1>4
  <2>2. ASSUME q.pc = "alias"
        PROVE  /\ q.goal.model \in Models
               /\ FitsModel(q.tenant, Inside(ses[o], q.goal.model)')
               /\ q.goal.adapter # None =>
                    FitsAdapter(q.tenant, Inside(ses[o], q.goal.model)',
                                Inside(ses[o], q.goal.adapter)')
               /\ q.target # None => q.seen[q.target] # None /\ q.seen[q.target].owner = q.tenant
    <3>1. FitsInside(q, q.tenant, q.goal.model, q.goal.adapter)
          /\ (q.target # None => q.seen[q.target] # None /\ q.seen[q.target].owner = q.tenant)
      BY <2>2 DEF SessionInv, AliasInv
    <3>2. q.goal.adapter \in Adapters \cup {None} BY <1>0 DEF SessionRecords
    <3> QED BY <3>1, <3>2, <1>4
  <2>3. \A k \in AliasIds :
          /\ k \notin q.written /\ q.seen[k] # None => alias'[k] # None
          /\ q.seen[k] # None /\ alias'[k] # None => q.seen[k].owner = alias'[k].owner
    BY DEF SessionInv, AliasInv
  <2> QED BY <2>1, <2>2, <2>3 DEF AliasInv, FitsInside, Inside
<1> QED BY <1>2, <1>5 DEF SessionInv

\* Registration makes a row out of nothing, which nobody knows of.
LEMMA RegisterInv ==
  ASSUME IInv, NEW i \in Items, item[i] = None,
         NEW r \in ItemRows, r.stage = "candidate",
         item' = [item EXCEPT ![i] = r], UNCHANGED <<alias, trail, ses>>
  PROVE  IInv'
<1>0. /\ item \in [Items -> ItemRows \cup {None}] /\ r # None
      /\ item'[i] = r /\ \A j \in Items : item[j] # None => item'[j] = item[j]
      /\ \A j \in Items : j # i => item'[j] = item[j]
  BY DEF IInv, TypeOK
<1>1. TypeOK' BY <1>0 DEF IInv, TypeOK
<1>2. ItemInv'
  <2>1. trail[i] = <<>> BY DEF IInv, ItemInv
  <2>2. Walk("candidate", trail[i], r.stage) BY <2>1, WalkShort DEF Stages
  <2> QED BY <1>0, <2>2 DEF IInv, ItemInv, TrailLeadsToStage
<1>3. AliasWithinTenant'
  <2> SUFFICES ASSUME NEW k \in AliasIds, alias[k] # None
               PROVE  /\ FitsModel(alias[k].owner, item'[alias[k].model])
                      /\ alias[k].adapter # None =>
                           FitsAdapter(alias[k].owner, item'[alias[k].model],
                                       item'[alias[k].adapter])
    BY DEF AliasWithinTenant
  <2>1. alias[k] \in AliasRows BY DEF IInv, TypeOK
  <2>2. alias[k].model \in Items /\ alias[k].adapter \in Items \cup {None}
    BY <2>1 DEF AliasRows, Items
  <2>3. /\ FitsModel(alias[k].owner, item[alias[k].model])
        /\ alias[k].adapter # None =>
             FitsAdapter(alias[k].owner, item[alias[k].model], item[alias[k].adapter])
    BY DEF IInv, AliasWithinTenant
  <2>4. item'[alias[k].model] = item[alias[k].model]
    BY <1>0, <2>2, <2>3 DEF FitsModel
  <2>5. alias[k].adapter # None => item'[alias[k].adapter] = item[alias[k].adapter]
    BY <1>0, <2>2, <2>3 DEF FitsAdapter
  <2> QED BY <2>3, <2>4, <2>5
<1>4. Exclusive' BY DEF IInv, Exclusive
<1>5. ASSUME NEW o \in Sessions PROVE SessionInv(ses[o])'
  <2>1. TypeOK /\ SessionInv(ses[o]) BY DEF IInv
  <2>2. \A k \in AliasIds : ses[o].seen[k] # None =>
          /\ alias[k] # None => alias'[k] # None
          /\ alias'[k] # None => ses[o].seen[k].owner = alias'[k].owner
    BY <2>1 DEF SessionInv, AliasInv
  <2> QED BY <1>0, <2>1, <2>2, OthersKept
<1> QED BY <1>1, <1>2, <1>3, <1>4, <1>5 DEF IInv

\* What a commit does to the items: each is kept or replaced by a successor.
LEMMA CommitItems ==
  ASSUME IInv, NEW s \in Sessions, Commit(s), NEW i \in Items
  PROVE  /\ i \notin ses[s].written => item'[i] = item[i]
         /\ i \in ses[s].written =>
              /\ item[i] # None /\ item'[i] = ses[s].view[i] /\ item'[i] \in ItemRows
              /\ Later(i, item[i], item'[i]) /\ item'[i].version > item[i].version
         /\ item'[i] = Inside(ses[s], i)
<1>0. ses[s].view \in [Items -> ItemRows \cup {None}] /\ SessionInv(ses[s])
  BY DEF IInv, TypeOK, SessionRecords
<1>1. item'[i] = IF i \in ses[s].written THEN ses[s].view[i] ELSE item[i] BY DEF Commit
<1>2. i \in ses[s].written =>
        /\ Later(i, item[i], ses[s].view[i]) /\ ses[s].view[i].version > item[i].version
  BY <1>0 DEF SessionInv, ViewInv
<1> QED BY <1>0, <1>1, <1>2 DEF Later, Inside

\* session.commit.
LEMMA CommitInv == ASSUME IInv, NEW s \in Sessions, Commit(s) PROVE IInv'
<1> DEFINE q == ses[s]
<1>0. /\ q \in SessionRecords /\ SessionInv(q) /\ ses \in [Sessions -> SessionRecords]
      /\ q.view \in [Items -> ItemRows \cup {None}] /\ q.log \in [Items -> Seq(Moves)]
      /\ q.seen \in [AliasIds -> AliasRows \cup {None}]
      /\ item \in [Items -> ItemRows \cup {None}] /\ trail \in [Items -> Seq(Moves)]
      /\ alias \in [AliasIds -> AliasRows \cup {None}]
  BY DEF IInv, TypeOK, SessionRecords
<1>1. /\ item' = [i \in Items |-> IF i \in q.written THEN q.view[i] ELSE item[i]]
      /\ alias' = [k \in AliasIds |-> IF k \in q.written THEN q.seen[k] ELSE alias[k]]
      /\ trail' = [i \in Items |-> trail[i] \o q.log[i]]
      /\ ses' = [ses EXCEPT ![s] = Closed]
  BY DEF Commit
<1>2. ses'[s] = Closed /\ \A o \in Sessions : o # s => ses'[o] = ses[o] BY <1>0, <1>1
<1>3. TypeOK'
  <2>1. item' \in [Items -> ItemRows \cup {None}] BY <1>0, <1>1
  <2>2. alias' \in [AliasIds -> AliasRows \cup {None}] BY <1>0, <1>1
  <2>3. trail' \in [Items -> Seq(Moves)]
    <3>1. \A i \in Items : trail[i] \in Seq(Moves) /\ q.log[i] \in Seq(Moves) BY <1>0
    <3>2. \A i \in Items : trail[i] \o q.log[i] \in Seq(Moves) BY <3>1
    <3> QED BY <1>1, <3>2
  <2>4. ses' \in [Sessions -> SessionRecords] BY <1>0, <1>1, ClosedInv
  <2> QED BY <2>1, <2>2, <2>3, <2>4 DEF TypeOK
<1>4. ItemInv'
  <2>1. ASSUME NEW i \in Items
        PROVE  /\ item'[i] # None => Walk("candidate", trail'[i], item'[i].stage)
               /\ item'[i] = None => trail'[i] = <<>>
    <3>1. /\ trail'[i] = trail[i] \o q.log[i] /\ trail[i] \in Seq(Moves)
          /\ q.log[i] \in Seq(Moves)
      BY <1>0, <1>1
    <3>2. CASE i \in q.written
      <4>1. item[i] # None /\ item'[i] = q.view[i] /\ item'[i] # None
        BY <3>2, CommitItems DEF Later
      <4>2. Walk("candidate", trail[i], item[i].stage) BY <4>1 DEF IInv, ItemInv, TrailLeadsToStage
      <4>3. Walk(item[i].stage, q.log[i], q.view[i].stage) BY <3>2, <1>0 DEF SessionInv, ViewInv
      <4> QED BY <3>1, <4>1, <4>2, <4>3, WalkConcat
    <3>3. CASE i \notin q.written
      <4>1. item'[i] = item[i] BY <3>3, CommitItems
      <4>2. q.log[i] = <<>> BY <3>3, <1>0 DEF SessionInv, ViewInv
      <4>3. trail'[i] = trail[i] BY <3>1, <4>2
      <4> QED BY <4>1, <4>3 DEF IInv, ItemInv, TrailLeadsToStage
    <3> QED BY <3>2, <3>3
  <2> QED BY <2>1 DEF ItemInv, TrailLeadsToStage
<1>5. AliasWithinTenant'
  <2> SUFFICES ASSUME NEW k \in AliasIds, alias'[k] # None
               PROVE  /\ FitsModel(alias'[k].owner, item'[alias'[k].model])
                      /\ alias'[k].adapter # None =>
                           FitsAdapter(alias'[k].owner, item'[alias'[k].model],
                                       item'[alias'[k].adapter])
    BY DEF AliasWithinTenant
  <2>1. CASE k \in q.written
    <3>1. alias'[k] = q.seen[k] /\ q.seen[k] \in AliasRows BY <2>1, <1>0, <1>1
    <3>2. FitsInside(q, q.seen[k].owner, q.seen[k].model, q.seen[k].adapter)
      BY <2>1, <1>0 DEF SessionInv, AliasInv
    <3>3. q.seen[k].model \in Items /\ q.seen[k].adapter \in Items \cup {None}
      BY <3>1 DEF AliasRows, Items
    <3>4. \A i \in Items : item'[i] = Inside(q, i) BY CommitItems
    <3> QED BY <3>1, <3>2, <3>3, <3>4 DEF FitsInside
  <2>2. CASE k \notin q.written
    <3>1. alias'[k] = alias[k] /\ alias[k] \in AliasRows BY <2>2, <1>0, <1>1
    <3>2. alias[k].model \in Models /\ alias[k].adapter \in Adapters \cup {None}
      BY <3>1 DEF AliasRows
    <3>3. /\ FitsModel(alias[k].owner, item[alias[k].model])
          /\ alias[k].adapter # None =>
               FitsAdapter(alias[k].owner, item[alias[k].model], item[alias[k].adapter])
      BY <3>1 DEF IInv, AliasWithinTenant
    <3>4. \A i \in Items : item[i] # None => Later(i, item[i], item'[i])
      BY CommitItems, LaterOrder
    <3>5. Later(alias[k].model, item[alias[k].model], item'[alias[k].model])
      BY <3>2, <3>3, <3>4 DEF FitsModel, Items
    <3>6. alias[k].adapter # None =>
            Later(alias[k].adapter, item[alias[k].adapter], item'[alias[k].adapter])
      BY <3>2, <3>3, <3>4 DEF FitsAdapter, Items
    <3> QED BY <3>1, <3>2, <3>3, <3>5, <3>6, FitsLater
  <2> QED BY <2>1, <2>2
<1>6. Exclusive' BY <1>2, ClosedInv DEF IInv, Exclusive
<1>7. ASSUME NEW o \in Sessions PROVE SessionInv(ses[o])'
  <2>1. CASE o = s
    <3>1. \A i \in Items : ViewInv(ses[s], i)' BY <1>2 DEF ViewInv, Closed
    <3>2. AliasInv(ses[s])' BY <1>2 DEF AliasInv, Closed
    <3> QED BY <2>1, <3>1, <3>2, <1>2 DEF SessionInv
  <2>2. CASE o # s
    <3>1. TypeOK /\ SessionInv(ses[o]) /\ ses'[o] = ses[o]
          /\ q.written \cap ses[o].written = {}
      BY <2>2, <1>2 DEF IInv, Exclusive
    <3>2. ASSUME NEW i \in Items, item[i] # None
          PROVE  \/ item'[i] = item[i]
                 \/ /\ i \notin ses[o].written /\ item'[i] \in ItemRows
                    /\ Later(i, item[i], item'[i]) /\ item'[i].version > item[i].version
      BY <3>1, CommitItems
    <3>3. ASSUME NEW k \in AliasIds, ses[o].seen[k] # None
          PROVE  /\ alias[k] # None => alias'[k] # None
                 /\ alias'[k] # None => ses[o].seen[k].owner = alias'[k].owner
      <4>1. CASE k \in q.written
        <5>1. k \notin ses[o].written BY <4>1, <3>1
        <5>2. alias[k] # None /\ ses[o].seen[k].owner = alias[k].owner
          BY <5>1, <3>1, <3>3 DEF SessionInv, AliasInv
        <5>3. q.seen[k] # None /\ q.seen[k].owner = alias[k].owner
          BY <4>1, <5>2, <1>0 DEF SessionInv, AliasInv
        <5> QED BY <4>1, <5>2, <5>3, <1>1
      <4>2. CASE k \notin q.written
        <5>1. alias'[k] = alias[k] BY <4>2, <1>1
        <5> QED BY <5>1, <3>1, <3>3 DEF SessionInv, AliasInv
      <4> QED BY <4>1, <4>2
    <3> QED BY <3>1, <3>2, <3>3, OthersKept
  <2> QED BY <2>1, <2>2
<1> QED BY <1>3, <1>4, <1>5, <1>6, <1>7 DEF IInv

\* Every step keeps the invariant.
LEMMA NextInv == IInv /\ [Next]_vars => IInv'
<1> SUFFICES ASSUME IInv, [Next]_vars PROVE IInv' OBVIOUS
<1>1. ASSUME NEW m \in Models, NEW o \in Owners, NEW c \in Contracts, RegisterModel(m, o, c)
      PROVE  IInv'
  <2> DEFINE r == Candidate(o, c, None)
  <2>1. r \in ItemRows /\ r.stage = "candidate" BY DEF Candidate, ItemRows, Stages
  <2>2. m \in Items BY DEF Items
  <2> QED BY <1>1, <2>1, <2>2, RegisterInv DEF RegisterModel
<1>2. ASSUME NEW a \in Adapters, NEW t \in Tenants, NEW m \in Models, NEW c \in Contracts,
             RegisterAdapter(a, t, m, c)
      PROVE  IInv'
  <2> DEFINE r == Candidate(t, c, m)
  <2>1. r \in ItemRows /\ r.stage = "candidate" BY DEF Candidate, ItemRows, Stages, Owners
  <2>2. a \in Items BY DEF Items
  <2> QED BY <1>2, <2>1, <2>2, RegisterInv DEF RegisterAdapter
<1>3. ASSUME NEW s \in Sessions, NEW i \in Items,
             Load(s, i) \/ (\E to \in Stages : TransitionStage(s, i, to)) \/ Deactivate(s, i)
      PROVE  IInv'
  BY <1>3, LoadInv, ItemStepInv
<1>4. ASSUME NEW s \in Sessions, NEW m \in Models, Share(s, m) PROVE IInv'
  <2>1. m \in Items BY DEF Items
  <2> QED BY <1>4, <2>1, ItemStepInv
<1>5. CASE UNCHANGED vars
  <2>1. ASSUME NEW o \in Sessions PROVE SessionInv(ses[o])'
    BY <1>5 DEF vars, IInv, SessionInv, ViewInv, AliasInv, FitsInside, Inside
  <2> QED BY <1>5, <2>1 DEF vars, IInv, TypeOK, ItemInv, TrailLeadsToStage,
          AliasWithinTenant, Exclusive
<1>6. CASE Next
  BY <1>1, <1>2, <1>3, <1>4, <1>6, OpenInv, PointAliasInv, InsertAliasInv, UpdateAliasInv,
     CommitInv, EndedInv DEF Next, Rollback
<1> QED BY <1>5, <1>6

\* The inductive invariant holds in every reachable state of the registry.
THEOREM Invariance == Spec => []IInv
  BY InitInv, NextInv, PTL DEF Spec

\* The state of the registry keeps its type.
THEOREM TypeCorrect == Spec => []TypeOK
<1>1. IInv => TypeOK BY DEF IInv
<1> QED BY <1>1, Invariance, PTL

\* However many sessions move a model or an adapter, its audit trail is one
\* walk along the valid transitions that ends in its stage.
THEOREM TrailSound == Spec => []TrailLeadsToStage
<1>1. IInv => TrailLeadsToStage BY DEF IInv, ItemInv
<1> QED BY <1>1, Invariance, PTL

\* No alias ever leaves its tenant or pairs an incompatible adapter.
THEOREM AliasesWithinTenant == Spec => []AliasWithinTenant
<1>1. IInv => AliasWithinTenant BY DEF IInv
<1> QED BY <1>1, Invariance, PTL

\* No interleaving brings a deactivated model or adapter back.
THEOREM DeactivationsKept == Spec => DeactivationKept
<1> DEFINE Kept == \A i \in Items : item[i] # None /\ ~item[i].active =>
                     item'[i] # None /\ ~item'[i].active
<1>1. ASSUME IInv, [Next]_vars PROVE [Kept]_vars
  <2>1. ASSUME item' = item PROVE Kept BY <2>1
  <2>2. ASSUME NEW s \in Sessions, Commit(s) PROVE Kept
    BY <1>1, <2>2, CommitItems DEF Later
  <2>3. ASSUME NEW j \in Items, item[j] = None, NEW r, item' = [item EXCEPT ![j] = r] PROVE Kept
    BY <1>1, <2>3 DEF IInv, TypeOK
  <2>4. CASE Next
    <3>1. ASSUME NEW m \in Models, NEW o \in Owners, NEW c \in Contracts,
                 RegisterModel(m, o, c)
          PROVE  Kept
      BY <2>3, <3>1 DEF RegisterModel, Items
    <3>2. ASSUME NEW a \in Adapters, NEW t \in Tenants, NEW m \in Models,
                 NEW c \in Contracts, RegisterAdapter(a, t, m, c)
          PROVE  Kept
      BY <2>3, <3>2 DEF RegisterAdapter, Items
    <3>3. ASSUME NEW s \in Sessions, NEW i \in Items, NEW r, NEW mv, Update(s, i, r, mv)
          PROVE  item' = item
      BY <3>3 DEF Update, Ended
    <3>4. ASSUME NEW s \in Sessions, NEW i \in Items,
                 \/ Load(s, i)
                 \/ \E to \in Stages : TransitionStage(s, i, to)
                 \/ Deactivate(s, i)
                 \/ Share(s, i)
          PROVE  item' = item
      BY <3>3, <3>4 DEF Load, TransitionStage, Deactivate, Share
    <3>5. ASSUME NEW s \in Sessions, NEW m \in Models, Share(s, m) PROVE item' = item
      BY <3>4, <3>5 DEF Items
    <3>6. ASSUME NEW s \in Sessions,
                 \/ \E o \in Owners, p \in BOOLEAN : Open(s, o, p)
                 \/ \E m \in Models, a \in Adapters \cup {None} : PointAlias(s, m, a)
                 \/ \E k \in AliasIds : InsertAlias(s, k) \/ UpdateAlias(s, k)
                 \/ Rollback(s)
          PROVE  item' = item
      BY <3>6 DEF Open, PointAlias, InsertAlias, UpdateAlias, Rollback, Ended
    <3> QED BY <2>1, <2>2, <2>4, <3>1, <3>2, <3>4, <3>5, <3>6 DEF Next
  <2>5. CASE UNCHANGED vars BY <2>5
  <2> QED BY <1>1, <2>4, <2>5
<1> QED BY <1>1, Invariance, PTL DEF DeactivationKept, Spec

=============================================================================
