-------------------------- MODULE TenantRequestsProofs --------------------------
(***************************************************************************)
(* Proofs about TenantRequests, for any number of tenants, connections,    *)
(* requests and rows.  The invariant has two halves.  SessionInv ties the  *)
(* setting of every connection to the session that holds it: a connection  *)
(* is held by one session, shows the tenant bound by it, and is nobody's   *)
(* once free.  RecordInv follows an outcome from the read of its row to    *)
(* its commit: a request that stayed alone for its tenant commits exactly  *)
(* the labels it published.                                                *)
(***************************************************************************)
EXTENDS TenantRequests, TLAPS

USE OwnerAssumption, NoneAssumption, SettingAssumption

ConnInv == Exclusive /\ SettingInv

\* The idle request is a request.
LEMMA IdleType == Idle \in Requests
BY DEF Idle, Requests, Kinds, PCs, Opt

\* A step of one request that keeps its connections and what is bound on them.
LEMMA MoveKeepsConns ==
  ASSUME ConnInv, req \in [Reqs -> Requests], NEW r \in Reqs, NEW q,
         req' = [req EXCEPT ![r] = q], guc' = guc,
         q.conn = req[r].conn, q.conn # None => q.bound = req[r].bound
  PROVE  ConnInv'
<1>1. \A s \in Reqs : /\ req'[s].conn = req[s].conn
                      /\ req[s].conn # None => req'[s].bound = req[s].bound
  OBVIOUS
<1>2. Exclusive'
  BY <1>1 DEF ConnInv, Exclusive, Holds
<1>3. \A k : Free(k)' = Free(k)
  BY <1>1 DEF Free, Held
<1>4. SettingInv'
  BY <1>1, <1>3 DEF ConnInv, SettingInv, Shows
<1> QED BY <1>2, <1>4 DEF ConnInv

\* The end of a session: its connection becomes free and nobody's.
LEMMA EndKeepsConns ==
  ASSUME ConnInv, req \in [Reqs -> Requests], guc \in [Conns -> Settings],
         NEW r \in Reqs, NEW q \in Requests, q.conn = None,
         req' = [req EXCEPT ![r] = q], guc' = Reset(req[r].conn)
  PROVE  ConnInv' /\ guc' \in [Conns -> Settings] /\ req' \in [Reqs -> Requests]
<1>1. \A s \in Reqs : req'[s] = IF s = r THEN q ELSE req[s]
  OBVIOUS
<1>2. /\ guc' \in [Conns -> Settings]
      /\ \A k \in Conns : k = req[r].conn => guc'[k] \notin Tenants
      /\ \A k \in Conns : k # req[r].conn => guc'[k] = guc[k]
  BY DEF Reset, Settings
<1>3. \A s \in Reqs : s # r => req'[s] = req[s]
  BY <1>1
<1>4. req'[r].conn = None
  BY <1>1
<1>5. Exclusive'
  BY <1>3, <1>4 DEF ConnInv, Exclusive, Holds
<1>6. \A s \in Reqs : req[s].conn # None => req[s].conn \in Conns
  BY DEF Requests, Opt
<1>7. ASSUME NEW s \in Reqs, req'[s].conn # None
      PROVE  Shows(req[s].conn, req[s].bound)' /\ s # r
  <2>1. s # r BY <1>7, <1>4
  <2>2. req[s].conn # None BY <2>1, <1>3, <1>7
  <2>3. req[s].conn # req[r].conn
    BY <2>1, <2>2, <1>6 DEF ConnInv, Exclusive, Holds
  <2> QED BY <2>1, <2>2, <2>3, <1>2, <1>3, <1>6 DEF ConnInv, SettingInv, Shows
<1>8. ASSUME NEW k \in Conns, Free(k)' PROVE Shows(k, None)'
  <2>1. CASE k = req[r].conn BY <2>1, <1>2 DEF Shows
  <2>2. CASE k # req[r].conn
    <3>1. Free(k) BY <2>2, <1>8, <1>3 DEF Free, Held
    <3> QED BY <3>1, <2>2, <1>2 DEF ConnInv, SettingInv, Shows
  <2> QED BY <2>1, <2>2
<1>9. SettingInv'
  BY <1>7, <1>8 DEF SettingInv
<1> QED BY <1>5, <1>9, <1>2 DEF ConnInv

\* Binding a tenant on a free connection makes the setting that tenant, or nobody's.
LEMMA BindShows ==
  ASSUME guc \in [Conns -> Settings], NEW k \in Conns, NEW t \in Opt(Tenants),
         Shows(k, None), guc' = [guc EXCEPT ![k] = Bind(k, t)]
  PROVE  /\ guc' \in [Conns -> Settings] /\ Shows(k, t)'
         /\ \A j \in Conns : j # k => guc'[j] = guc[j]
BY DEF Shows, Bind, Settings, Opt

\* A session takes a free connection and binds its tenant on it.
LEMMA TakeKeepsConns ==
  ASSUME ConnInv, req \in [Reqs -> Requests], guc \in [Conns -> Settings],
         req' \in [Reqs -> Requests],
         NEW r \in Reqs, NEW k \in Conns, Free(k), NEW t \in Opt(Tenants),
         guc' = [guc EXCEPT ![k] = Bind(k, t)],
         \A s \in Reqs : s # r => req'[s].conn = req[s].conn /\ req'[s].bound = req[s].bound,
         req[r].conn = None, req'[r].conn = k, req'[r].bound = t
  PROVE  ConnInv' /\ guc' \in [Conns -> Settings]
<1>1. Shows(k, None) BY DEF ConnInv, SettingInv
<1>2. /\ guc' \in [Conns -> Settings] /\ Shows(k, t)'
      /\ \A j \in Conns : j # k => guc'[j] = guc[j]
  BY <1>1, BindShows
<1>3. k # None BY DEF Opt
<1>4. \A s \in Reqs : req[s].conn # k
  BY DEF Free, Held
<1>5. \A j \in Conns : \A s \in Reqs : Holds(req[s], j)' =>
         Holds(req[s], j) \/ (s = r /\ j = k)
  BY <1>3 DEF Holds
<1>6. Exclusive'
  BY <1>4, <1>5 DEF ConnInv, Exclusive, Holds
<1>7. \A s \in Reqs : req[s].conn # None => req[s].conn \in Conns /\ req[s].conn # k
  BY <1>4 DEF Requests, Opt
<1>8. ASSUME NEW s \in Reqs, req'[s].conn # None PROVE Shows(req[s].conn, req[s].bound)'
  <2>1. CASE s # r
    BY <2>1, <1>2, <1>7, <1>8 DEF ConnInv, SettingInv, Shows
  <2>2. CASE s = r
    BY <2>2, <1>2 DEF Shows
  <2> QED BY <2>1, <2>2
<1>9. ASSUME NEW j \in Conns, Free(j)' PROVE Shows(j, None)'
  <2>1. \A s \in Reqs : req'[s].conn # j BY <1>9 DEF Free, Held
  <2>2. j # k BY <2>1
  <2>3. j \in Conns /\ \A s \in Reqs : req[s].conn # j BY <2>1, <1>3
  <2>4. Free(j) BY <2>3 DEF Free, Held
  <2> QED BY <2>2, <2>4, <1>2 DEF ConnInv, SettingInv, Shows
<1>10. SettingInv' BY <1>8, <1>9 DEF SettingInv
<1> QED BY <1>2, <1>6, <1>10 DEF ConnInv

-----------------------------------------------------------------------------
(***************************************************************************)
(* Sessions: types, what each request knows, and the connections.          *)
(***************************************************************************)

SessionInv == TypeOK /\ (\A r \in Reqs : RequestInv(req[r])) /\ ConnInv

\* The initial state: no request, every connection fresh.
LEMMA InitSession == Init => SessionInv
<1> SUFFICES ASSUME Init PROVE SessionInv OBVIOUS
<1>1. TypeOK BY IdleType DEF Init, TypeOK, Settings, Opt
<1>2. \A r \in Reqs : RequestInv(req[r]) BY DEF Init, RequestInv, Idle, Working
<1>3. \A r \in Reqs : req[r].conn = None BY DEF Init, Idle
<1>4. Exclusive BY <1>3 DEF Exclusive, Holds
<1>5. SettingInv BY <1>3 DEF Init, SettingInv, Shows
<1> QED BY <1>1, <1>2, <1>4, <1>5 DEF SessionInv, ConnInv

\* A request that only moves on, keeping its connections, its tenant and its binding.
LEMMA MoveKeepsSession ==
  ASSUME SessionInv, NEW r \in Reqs, NEW q \in Requests, RequestInv(q),
         req' = [req EXCEPT ![r] = q], guc' = guc,
         q.conn = req[r].conn, q.conn # None => q.bound = req[r].bound
  PROVE  /\ req' \in [Reqs -> Requests] /\ guc' \in [Conns -> Settings]
         /\ \A s \in Reqs : RequestInv(req'[s])
         /\ ConnInv'
<1>1. req \in [Reqs -> Requests] /\ guc \in [Conns -> Settings] BY DEF SessionInv, TypeOK
<1>2. ConnInv' BY <1>1, MoveKeepsConns DEF SessionInv
<1>3. \A s \in Reqs : req'[s] = IF s = r THEN q ELSE req[s] BY <1>1
<1>4. \A s \in Reqs : RequestInv(req'[s]) BY <1>3 DEF SessionInv
<1> QED BY <1>1, <1>2, <1>4

\* A session ends and its connection is given back.
LEMMA EndKeepsSession ==
  ASSUME SessionInv, NEW r \in Reqs, NEW q \in Requests, RequestInv(q), q.conn = None,
         req' = [req EXCEPT ![r] = q], guc' = Reset(req[r].conn)
  PROVE  /\ req' \in [Reqs -> Requests] /\ guc' \in [Conns -> Settings]
         /\ \A s \in Reqs : RequestInv(req'[s])
         /\ ConnInv'
<1>1. req \in [Reqs -> Requests] /\ guc \in [Conns -> Settings] BY DEF SessionInv, TypeOK
<1>2. ConnInv' /\ guc' \in [Conns -> Settings] /\ req' \in [Reqs -> Requests]
  BY <1>1, EndKeepsConns DEF SessionInv
<1>3. \A s \in Reqs : req'[s] = IF s = r THEN q ELSE req[s] BY <1>1
<1>4. \A s \in Reqs : RequestInv(req'[s]) BY <1>3 DEF SessionInv
<1> QED BY <1>2, <1>4

\* A request ends.
LEMMA CloseKeepsSession ==
  ASSUME SessionInv, NEW r \in Reqs, Close(r)
  PROVE  /\ req' \in [Reqs -> Requests] /\ guc' \in [Conns -> Settings]
         /\ \A s \in Reqs : RequestInv(req'[s])
         /\ ConnInv'
<1>1. RequestInv(Idle) /\ Idle.conn = None BY DEF RequestInv, Idle, Working
<1> QED BY <1>1, IdleType, EndKeepsSession DEF Close

\* What an exception handler is given to begin with.
LEMMA RefusedRequest ==
  ASSUME NEW t \in Opt(Tenants)
  PROVE  LET q == Opened("denied", t, None, FALSE, None) IN
         /\ q \in Requests /\ RequestInv(q) /\ q.conn = None
         /\ q.kind = "denied" /\ q.pc = "handler"
<1> DEFINE q == Opened("denied", t, None, FALSE, None)
<1>1. q \in Requests BY DEF Opened, Idle, Requests, PCs, Kinds, Opt
<1>2. q.kind = "denied" /\ q.pc = "handler" /\ q.conn = None /\ q.got = {} /\ q.bound = q.tenant
  BY DEF Opened, Idle
<1>3. RequestInv(q) BY <1>2 DEF RequestInv, Working
<1> QED BY <1>1, <1>2, <1>3

\* A request is refused: its session ends and its handler begins.
LEMMA RefuseKeepsSession ==
  ASSUME SessionInv, NEW r \in Reqs, Refuse(r)
  PROVE  /\ req' \in [Reqs -> Requests] /\ guc' \in [Conns -> Settings]
         /\ \A s \in Reqs : RequestInv(req'[s])
         /\ ConnInv'
<1> DEFINE q == Opened("denied", req[r].tenant, None, FALSE, None)
<1>1. req[r].tenant \in Opt(Tenants) BY DEF SessionInv, TypeOK, Requests
<1>2. q \in Requests /\ RequestInv(q) /\ q.conn = None BY <1>1, RefusedRequest
<1>3. req' = [req EXCEPT ![r] = q] /\ guc' = Reset(req[r].conn) BY DEF Refuse
<1> HIDE DEF q
<1> QED BY <1>2, <1>3, EndKeepsSession

\* A request arrives.
LEMMA OpenKeepsSession ==
  ASSUME SessionInv, NEW r \in Reqs, NEW kind \in Kinds, NEW t \in Opt(Tenants),
         NEW x \in Objects, NEW l \in BOOLEAN, NEW k \in Conns, Open(r, kind, t, x, l, k)
  PROVE  SessionInv'
<1> DEFINE q == Opened(kind, t, x, l, k)
<1>1. req \in [Reqs -> Requests] /\ guc \in [Conns -> Settings] BY DEF SessionInv, TypeOK
<1>2. q \in Requests
  BY DEF Opened, Idle, Requests, PCs, Kinds, Opt
<1>3. /\ q.kind = kind /\ q.tenant = t /\ q.bound = t /\ q.conn = k
      /\ q.got = {} /\ q.object = (IF kind = "summary" THEN None ELSE x)
      /\ q.pc = CASE kind \in {"outcome", "get"} -> "require"
                  [] kind = "summary" -> "list"
                  [] kind = "exchange" -> "find"
                  [] OTHER -> "handler"
  BY DEF Opened, Idle
<1>4. RequestInv(q)
  BY <1>3 DEF Open, RequestInv, Working, Opt, Kinds
<1>5. \A s \in Reqs : s # r => req'[s] = req[s] \/ req'[s] = [req[s] EXCEPT !.alone = FALSE]
  BY DEF Open
<1>6. req'[r] = q BY DEF Open
<1>7. ASSUME NEW s \in Reqs, s # r
      PROVE  /\ req'[s] \in Requests /\ req'[s].conn = req[s].conn
             /\ req'[s].bound = req[s].bound /\ req'[s].tenant = req[s].tenant
             /\ req'[s].pc = req[s].pc /\ req'[s].got = req[s].got /\ req'[s].kind = req[s].kind
             /\ req'[s].object = req[s].object
  <2>1. req[s] \in Requests BY <1>1
  <2>2. CASE req'[s] = req[s] BY <2>1, <2>2
  <2>3. CASE req'[s] = [req[s] EXCEPT !.alone = FALSE] BY <2>1, <2>3 DEF Requests
  <2> QED BY <2>2, <2>3, <1>5, <1>7
<1>8. req' \in [Reqs -> Requests]
  BY <1>2, <1>6, <1>7 DEF Open
<1>9. \A s \in Reqs : RequestInv(req'[s])
  BY <1>4, <1>6, <1>7 DEF SessionInv, RequestInv
<1>10. req[r].conn = None
  BY DEF Open, SessionInv, RequestInv
<1>11. ConnInv' /\ guc' \in [Conns -> Settings]
  <2>1. Free(k) /\ guc' = [guc EXCEPT ![k] = Bind(k, t)] BY DEF Open
  <2>2. req'[r].conn = k /\ req'[r].bound = t BY <1>3, <1>6
  <2>3. \A s \in Reqs : s # r =>
          req'[s].conn = req[s].conn /\ req'[s].bound = req[s].bound
    BY <1>7
  <2>4. ConnInv BY DEF SessionInv
  <2> HIDE DEF q
  <2> QED BY <2>1, <2>2, <2>3, <2>4, <1>1, <1>8, <1>10, TakeKeepsConns
<1> QED BY <1>8, <1>9, <1>11 DEF SessionInv, TypeOK, Open, Rows

\* A request with a bad token goes straight to the handler.
LEMMA BadTokenKeepsSession ==
  ASSUME SessionInv, NEW r \in Reqs, BadToken(r)
  PROVE  SessionInv'
<1> DEFINE q == Opened("denied", None, None, FALSE, None)
<1>1. req[r].conn = None BY DEF SessionInv, RequestInv, BadToken
<1>2. q \in Requests /\ RequestInv(q) /\ q.conn = None
  BY RefusedRequest DEF Opt
<1>3. req' = [req EXCEPT ![r] = q] /\ guc' = guc BY DEF BadToken
<1> HIDE DEF q
<1>4. /\ req' \in [Reqs -> Requests] /\ guc' \in [Conns -> Settings]
      /\ \A s \in Reqs : RequestInv(req'[s])
      /\ ConnInv'
  BY <1>1, <1>2, <1>3, MoveKeepsSession
<1> QED BY <1>4 DEF SessionInv, TypeOK, BadToken, Rows

\* A change of the point a request is at.
LEMMA GotoKeepsSession ==
  ASSUME SessionInv, NEW r \in Reqs, NEW pc \in PCs, Goto(r, pc), guc' = guc,
         RequestInv([req[r] EXCEPT !.pc = pc])
  PROVE  /\ req' \in [Reqs -> Requests] /\ guc' \in [Conns -> Settings]
         /\ \A s \in Reqs : RequestInv(req'[s])
         /\ ConnInv'
<1> DEFINE q == [req[r] EXCEPT !.pc = pc]
<1>1. req \in [Reqs -> Requests] BY DEF SessionInv, TypeOK
<1>2. req[r] \in Requests BY <1>1
<1>3. q \in Requests /\ q.conn = req[r].conn
      /\ q.bound = req[r].bound /\ q.tenant = req[r].tenant
  BY <1>2 DEF Requests
<1>4. req' = [req EXCEPT ![r] = q] BY <1>1 DEF Goto
<1> HIDE DEF q
<1> QED BY <1>3, <1>4, MoveKeepsSession DEF q

\* What row-level security lets a working request do: its tenant is the one bound.
LEMMA BoundTenant ==
  ASSUME SessionInv, NEW r \in Reqs, req[r].pc \in Working
  PROVE  /\ req[r].tenant \in Tenants /\ req[r].conn \in Conns
         /\ EventAdmitted(req[r].tenant, req[r].conn)
<1>1. req[r] \in Requests BY DEF SessionInv, TypeOK
<1>2. RequestInv(req[r]) BY DEF SessionInv
<1>3. req[r].tenant \in Tenants /\ req[r].conn \in Conns
  BY <1>1, <1>2 DEF RequestInv, Requests, Opt
<1>4. req[r].bound = req[r].tenant BY <1>2, <1>3 DEF RequestInv, Working
<1>5. guc[req[r].conn] = req[r].tenant
  BY <1>3, <1>4 DEF SessionInv, ConnInv, SettingInv, Shows
<1> QED BY <1>3, <1>5 DEF EventAdmitted, Audit, Strict, Current

\* Reads.
LEMMA ReadsKeepSession ==
  ASSUME SessionInv, NEW r \in Reqs,
         MissingScope(r) \/ GetById(r) \/ GetPrediction(r) \/ List(r) \/ EndRead(r)
  PROVE  SessionInv'
<1>1. req \in [Reqs -> Requests] BY DEF SessionInv, TypeOK
<1>2. req[r] \in Requests /\ RequestInv(req[r]) BY <1>1 DEF SessionInv
<1>3. SUFFICES /\ req' \in [Reqs -> Requests] /\ guc' \in [Conns -> Settings]
               /\ \A s \in Reqs : RequestInv(req'[s])
               /\ ConnInv'
  BY DEF SessionInv, TypeOK, MissingScope, GetById, GetPrediction, List, EndRead, Rows
<1>4. ASSUME Refuse(r) PROVE <1>3!1
  BY <1>4, RefuseKeepsSession
<1>5. ASSUME req[r].pc = "require", Found(req[r]), NEW pc \in {"commit", "lookup"}, Given(r, pc),
             guc' = guc
      PROVE  <1>3!1
  <2> DEFINE q == [req[r] EXCEPT !.pc = pc, !.got = {Owner[req[r].object]}]
  <2>1. req[r].object \in Objects /\ Owner[req[r].object] = req[r].tenant
    BY <1>2, <1>5 DEF RequestInv, Requests, Opt, Found
  <2>2. q \in Requests /\ q.conn = req[r].conn
        /\ q.bound = req[r].bound /\ q.tenant = req[r].tenant
    BY <1>2, <2>1 DEF Requests, PCs, Opt
  <2>3. RequestInv(q) BY <1>2, <1>5, <2>1 DEF RequestInv, Requests, Working
  <2>4. req' = [req EXCEPT ![r] = q] BY <1>1, <1>5 DEF Given
  <2> HIDE DEF q
  <2> QED BY <1>5, <2>2, <2>3, <2>4, MoveKeepsSession
<1>6. ASSUME Close(r) PROVE <1>3!1
  BY <1>6, CloseKeepsSession
<1>7. CASE List(r)
  <2> DEFINE q == [req[r] EXCEPT !.pc = "commit", !.got = EventsOf(req[r].tenant, req[r].conn)]
  <2>1. EventsOf(req[r].tenant, req[r].conn) \subseteq {req[r].tenant} BY DEF EventsOf
  <2>2. q \in Requests /\ q.conn = req[r].conn
        /\ q.bound = req[r].bound /\ q.tenant = req[r].tenant
    BY <1>2, <2>1 DEF Requests, PCs, Opt
  <2>3. RequestInv(q) BY <1>2, <1>7, <2>1 DEF RequestInv, Requests, Working, List
  <2>4. req' = [req EXCEPT ![r] = q] /\ guc' = guc BY <1>1, <1>7 DEF List
  <2> HIDE DEF q
  <2> QED BY <2>2, <2>3, <2>4, MoveKeepsSession
<1> QED BY <1>4, <1>5, <1>6, <1>7 DEF MissingScope, GetById, GetPrediction, EndRead

\* The recording of an outcome.
LEMMA OutcomeKeepsSession ==
  ASSUME SessionInv, NEW r \in Reqs, req[r].object # None => req[r].object \in Objects,
         Lookup(r) \/ Write(r) \/ Publish(r) \/ CommitOutcome(r)
  PROVE  SessionInv'
<1>1. req \in [Reqs -> Requests] /\ outcome \in [Objects -> Opt(BOOLEAN)]
      /\ writer \in [Objects -> Opt(Reqs)]
  BY DEF SessionInv, TypeOK
<1>2. req[r] \in Requests /\ RequestInv(req[r]) BY <1>1 DEF SessionInv
<1> DEFINE Sessions == /\ req' \in [Reqs -> Requests] /\ guc' \in [Conns -> Settings]
                       /\ \A s \in Reqs : RequestInv(req'[s])
                       /\ ConnInv'
<1>3. ASSUME NEW pc \in {"publish", "commit"}, Goto(r, pc), guc' = guc,
             req[r].pc \in {"write", "publish"}
      PROVE  Sessions
  <2>1. RequestInv([req[r] EXCEPT !.pc = pc])
    BY <1>2, <1>3 DEF RequestInv, Requests, Working
  <2> QED BY <1>3, <2>1, GotoKeepsSession DEF PCs
<1>4. CASE Lookup(r)
  <2> DEFINE q == [req[r] EXCEPT !.pc = "write", !.existing = outcome[req[r].object]]
  <2>1. req[r].object \in Objects
    BY <1>2, <1>4 DEF RequestInv, Requests, Opt, Lookup
  <2>2. q \in Requests /\ q.conn = req[r].conn
        /\ q.bound = req[r].bound /\ q.tenant = req[r].tenant
    BY <1>1, <1>2, <2>1 DEF Requests, PCs, Opt
  <2>3. RequestInv(q) BY <1>2, <1>4, <2>1 DEF RequestInv, Requests, Working, Lookup
  <2>4. req' = [req EXCEPT ![r] = q] /\ guc' = guc BY <1>1, <1>4 DEF Lookup
  <2> HIDE DEF q
  <2>5. Sessions BY <2>2, <2>3, <2>4, MoveKeepsSession
  <2> QED BY <1>4, <2>5 DEF Lookup, SessionInv, TypeOK, Rows
<1>5. CASE Write(r)
  <2>1. Sessions
    BY <1>5, <1>3, CloseKeepsSession DEF Write
  <2>2. writer' \in [Objects -> Opt(Reqs)]
    BY <1>5, <1>1 DEF Write, Opt
  <2> QED BY <1>5, <2>1, <2>2 DEF Write, SessionInv, TypeOK
<1>6. CASE Publish(r)
  <2>1. req[r].pc \in Working /\ req[r].pc = "publish" BY <1>6 DEF Publish, Working
  <2>2. req[r].tenant \in Tenants /\ EventAdmitted(req[r].tenant, req[r].conn)
    BY <2>1, BoundTenant
  <2>3. Sessions BY <1>6, <1>3, <2>1, <2>2 DEF Publish
  <2>4. req[r].object \in Objects /\ req[r].label \in BOOLEAN
    BY <1>2, <2>1 DEF RequestInv, Requests, Opt
  <2>5. Published(r) \subseteq Objects \X BOOLEAN
    BY <1>1, <2>4 DEF Published, Labels, Pairs, Opt
  <2>6. gauge' \in [Tenants -> SUBSET (Objects \X BOOLEAN)]
    BY <1>6, <2>2, <2>5 DEF Publish, SessionInv, TypeOK
  <2> QED BY <1>6, <2>3, <2>6 DEF Publish, SessionInv, TypeOK
<1>7. CASE CommitOutcome(r)
  <2>1. Sessions BY <1>7, CloseKeepsSession DEF CommitOutcome
  <2>2. req[r].label \in BOOLEAN /\ req[r].alone \in BOOLEAN /\ req[r].tenant \in Opt(Tenants)
    BY <1>2 DEF Requests
  <2>3. outcome' \in [Objects -> Opt(BOOLEAN)] /\ writer' \in [Objects -> Opt(Reqs)]
    BY <1>1, <1>7, <2>2 DEF CommitOutcome, Release, Opt
  <2>4. trail' \subseteq Opt(Tenants) /\ clean' \in [Tenants -> BOOLEAN]
    BY <1>7, <2>2 DEF CommitOutcome, SessionInv, TypeOK
  <2> QED BY <1>7, <2>1, <2>3, <2>4 DEF CommitOutcome, SessionInv, TypeOK
<1> QED BY <1>4, <1>5, <1>6, <1>7

\* The exchange: on a connection with nobody's setting the credential is found, and
\* binding its tenant admits its event.
LEMMA ExchangeKeepsSession ==
  ASSUME SessionInv, NEW r \in Reqs,
         FindCredential(r) \/ DenyExchange(r) \/ CommitExchange(r)
  PROVE  SessionInv'
<1>1. req \in [Reqs -> Requests] /\ guc \in [Conns -> Settings]
  BY DEF SessionInv, TypeOK
<1>2. req[r] \in Requests /\ RequestInv(req[r]) BY <1>1 DEF SessionInv
<1>3. CASE FindCredential(r)
  <2> DEFINE t == Owner[req[r].object]
             k == req[r].conn
             q == [req[r] EXCEPT !.pc = "event", !.bound = t]
  <2>1. /\ req[r].object \in Objects /\ t \in Tenants /\ k \in Conns
        /\ req[r].bound = None
    BY <1>2, <1>3 DEF RequestInv, Requests, Opt, FindCredential
  <2>2. Shows(k, None) BY <2>1 DEF SessionInv, ConnInv, SettingInv, Shows
  <2>3. CredentialFound(t, k)
    BY <1>1, <2>1, <2>2 DEF CredentialFound, Credential, Shows, Settings
  <2>4. req' = [req EXCEPT ![r] = q] /\ guc' = [guc EXCEPT ![k] = Bind(k, t)]
    BY <1>1, <1>3, <2>3 DEF FindCredential
  <2>5. q \in Requests /\ q.conn = k /\ q.bound = t /\ q.pc = "event"
    BY <1>2, <2>1 DEF Requests, PCs, Opt
  <2>6. RequestInv(q)
    BY <1>2, <1>3, <2>1 DEF RequestInv, Requests, Working, FindCredential
  <2>7. \A s \in Reqs : req'[s] = IF s = r THEN q ELSE req[s] BY <1>1, <2>4
  <2>8. req' \in [Reqs -> Requests] /\ \A s \in Reqs : RequestInv(req'[s])
    BY <1>1, <2>4, <2>5, <2>6, <2>7 DEF SessionInv
  <2>9. /\ guc' \in [Conns -> Settings] /\ guc'[k] = t
        /\ \A j \in Conns : j # k => guc'[j] = guc[j]
    BY <1>1, <2>1, <2>4 DEF Bind, Settings
  <2> HIDE DEF q, t, k
  <2>10. k = req[r].conn BY DEF k
  <2>11. \A s \in Reqs : req'[s].conn = req[s].conn
    BY <2>1, <2>5, <2>7, <2>10
  <2>12. Exclusive' BY <2>11 DEF SessionInv, ConnInv, Exclusive, Holds
  <2>13. ASSUME NEW s \in Reqs, req'[s].conn # None PROVE Shows(req[s].conn, req[s].bound)'
    <3>1. CASE s = r BY <3>1, <2>1, <2>5, <2>7, <2>9 DEF Shows
    <3>2. CASE s # r
      <4>1. req[s] \in Requests /\ req'[s] = req[s] BY <1>1, <2>7, <3>2
      <4>2. req[s].conn # k
        BY <2>1, <2>10, <3>2 DEF SessionInv, ConnInv, Exclusive, Holds
      <4>3. req[s].conn \in Conns
        BY <4>1, <2>13 DEF Requests, Opt
      <4> QED BY <2>13, <4>1, <4>2, <4>3, <2>9 DEF SessionInv, ConnInv, SettingInv, Shows
    <3> QED BY <3>1, <3>2
  <2>14. ASSUME NEW j \in Conns, Free(j)' PROVE Shows(j, None)'
    <3>1. Free(j) BY <2>14, <2>11 DEF Free, Held
    <3>2. j # k BY <3>1, <2>10 DEF Free, Held
    <3> QED BY <3>1, <3>2, <2>9 DEF SessionInv, ConnInv, SettingInv, Shows
  <2>15. SettingInv' BY <2>13, <2>14 DEF SettingInv
  <2> QED BY <1>3, <2>8, <2>9, <2>12, <2>15
          DEF SessionInv, ConnInv, TypeOK, FindCredential, Rows
<1>4. ASSUME req[r].pc \in {"find", "event"}
      PROVE  req[r].bound \in Opt(Tenants) /\ EventAdmitted(req[r].bound, req[r].conn)
  <2>1. req[r].conn \in Conns /\ req[r].bound \in Opt(Tenants)
    BY <1>2, <1>4 DEF RequestInv, Requests, Opt
  <2>2. Shows(req[r].conn, req[r].bound)
    BY <2>1 DEF SessionInv, ConnInv, SettingInv
  <2> QED BY <2>1, <2>2 DEF EventAdmitted, Audit, Strict, Current, Shows, Opt
<1>5. CASE DenyExchange(r)
  <2>1. Refuse(r) BY <1>4, <1>5 DEF DenyExchange
  <2> QED BY <1>5, <2>1, RefuseKeepsSession DEF SessionInv, TypeOK, DenyExchange, Rows
<1>6. CASE CommitExchange(r)
  <2>1. Close(r) /\ trail' = trail \cup {req[r].bound} BY <1>4, <1>6 DEF CommitExchange
  <2>2. trail' \subseteq Opt(Tenants) BY <1>4, <1>6, <2>1 DEF SessionInv, TypeOK, CommitExchange
  <2> QED BY <1>6, <2>1, <2>2, CloseKeepsSession DEF SessionInv, TypeOK, CommitExchange
<1> QED BY <1>3, <1>5, <1>6

\* The handler's session, and a failure of the database.
LEMMA HandlerKeepsSession ==
  ASSUME SessionInv, NEW r \in Reqs,
         \/ \E k \in Conns : HandlerSession(r, k)
         \/ DropEvent(r) \/ HandlerInsert(r) \/ Fail(r)
  PROVE  SessionInv'
<1>1. req \in [Reqs -> Requests] /\ guc \in [Conns -> Settings]
      /\ writer \in [Objects -> Opt(Reqs)] /\ clean \in [Tenants -> BOOLEAN]
  BY DEF SessionInv, TypeOK
<1>2. req[r] \in Requests /\ RequestInv(req[r]) BY <1>1 DEF SessionInv
<1>3. ASSUME NEW k \in Conns, HandlerSession(r, k) PROVE SessionInv'
  <2> DEFINE q == [req[r] EXCEPT !.pc = "insert", !.conn = k]
  <2>1. q \in Requests /\ q.conn = k /\ q.bound = req[r].bound
    BY <1>2 DEF Requests, PCs, Opt
  <2>2. RequestInv(q)
    BY <1>2, <1>3 DEF RequestInv, Requests, Working, HandlerSession
  <2>3. req[r].conn = None /\ req[r].bound = req[r].tenant
    BY <1>2, <1>3 DEF RequestInv, HandlerSession
  <2>4. req' = [req EXCEPT ![r] = q] /\ guc' = [guc EXCEPT ![k] = Bind(k, req[r].tenant)]
        /\ Free(k)
    BY <1>1, <1>3 DEF HandlerSession
  <2>5. \A s \in Reqs : req'[s] = IF s = r THEN q ELSE req[s] BY <1>1, <2>4
  <2>6. req' \in [Reqs -> Requests] /\ \A s \in Reqs : RequestInv(req'[s])
    BY <1>1, <2>1, <2>2, <2>4, <2>5 DEF SessionInv
  <2>7. req[r].tenant \in Opt(Tenants) BY <1>2 DEF Requests
  <2>8. ConnInv BY DEF SessionInv
  <2> HIDE DEF q
  <2>9. ConnInv' /\ guc' \in [Conns -> Settings]
    BY <1>1, <2>1, <2>3, <2>4, <2>5, <2>6, <2>7, <2>8, TakeKeepsConns
  <2> QED BY <1>3, <2>6, <2>9 DEF SessionInv, TypeOK, HandlerSession, Rows
<1>4. CASE DropEvent(r)
  BY <1>4, CloseKeepsSession DEF DropEvent, SessionInv, TypeOK, Rows
<1>5. CASE HandlerInsert(r)
  <2>1. /\ req[r].conn \in Conns /\ req[r].tenant \in Opt(Tenants)
        /\ req[r].bound = req[r].tenant
    BY <1>2, <1>5 DEF RequestInv, Requests, Opt, HandlerInsert
  <2>2. Shows(req[r].conn, req[r].tenant)
    BY <2>1 DEF SessionInv, ConnInv, SettingInv
  <2>3. EventAdmitted(req[r].tenant, req[r].conn)
    BY <2>1, <2>2 DEF EventAdmitted, Audit, Strict, Current, Shows, Opt
  <2>4. Close(r) /\ trail' = trail \cup {req[r].tenant} BY <1>5, <2>3 DEF HandlerInsert
  <2>5. trail' \subseteq Opt(Tenants) BY <2>1, <2>4 DEF SessionInv, TypeOK
  <2> QED BY <1>5, <2>4, <2>5, CloseKeepsSession DEF SessionInv, TypeOK, HandlerInsert
<1>6. CASE Fail(r)
  <2>1. writer' \in [Objects -> Opt(Reqs)] /\ clean' \in [Tenants -> BOOLEAN]
    BY <1>1, <1>6 DEF Fail, Release, Opt
  <2> QED BY <1>6, <2>1, CloseKeepsSession DEF SessionInv, TypeOK, Fail
<1> QED BY <1>3, <1>4, <1>5, <1>6

\* Every step keeps the session invariant.
LEMMA NextKeepsSession == SessionInv /\ [Next]_vars => SessionInv'
<1> SUFFICES ASSUME SessionInv, [Next]_vars PROVE SessionInv' OBVIOUS
<1>1. ASSUME NEW r \in Reqs PROVE req[r].object # None => req[r].object \in Objects
  BY DEF SessionInv, TypeOK, Requests, Opt
<1>2. CASE UNCHANGED vars
  BY <1>2 DEF vars, SessionInv, ConnInv, TypeOK, Exclusive, SettingInv, Shows, Free, Held, RequestInv
<1>3. ASSUME NEW r \in Reqs, Step(r) PROVE SessionInv'
  BY <1>1, <1>3, ReadsKeepSession, OutcomeKeepsSession, ExchangeKeepsSession, HandlerKeepsSession
     DEF Step
<1>4. ASSUME NEW r \in Reqs, BadToken(r) \/ Write(r) \/ Fail(r) PROVE SessionInv'
  BY <1>1, <1>4, BadTokenKeepsSession, OutcomeKeepsSession, HandlerKeepsSession
<1> QED BY <1>2, <1>3, <1>4, OpenKeepsSession DEF Next

-----------------------------------------------------------------------------
(***************************************************************************)
(* Outcomes: what is recorded and what the gauges show.                    *)
(***************************************************************************)

RecordInv == (\A r \in Reqs : OutcomeInv(r)) /\ WriterInv /\ GaugeInv

\* A request under way that records an outcome.
Records(q) == q.kind = "outcome" /\ q.pc # "idle"

\* The initial state: no outcome is recorded, so the empty gauges are current.
LEMMA InitRecord == Init => RecordInv
<1> SUFFICES ASSUME Init PROVE RecordInv OBVIOUS
<1>1. \A r \in Reqs : req[r].pc = "idle" /\ req[r].kind = "denied" BY DEF Init, Idle
<1>2. \A r \in Reqs : OutcomeInv(r) BY <1>1 DEF OutcomeInv
<1>3. WriterInv BY DEF Init, WriterInv
<1>4. \A t \in Tenants : Labels(t) = {} BY DEF Init, Labels, Pairs
<1>5. GaugeInv BY <1>4 DEF Init, GaugeInv
<1> QED BY <1>2, <1>3, <1>5 DEF RecordInv

\* A step of one request that writes nothing and publishes nothing: it ends, it is not
\* about an outcome, or it is on the way to the write.
LEMMA QuietKeepsRecord ==
  ASSUME SessionInv, RecordInv, NEW r \in Reqs, NEW q, req' = [req EXCEPT ![r] = q],
         outcome' = outcome, writer' = writer, gauge' = gauge, clean' = clean,
         ~(req[r].kind = "outcome" /\ req[r].pc \in {"publish", "commit"}),
         \/ ~Records(q) /\ q.pc \notin {"lookup", "write", "publish"}
         \/ /\ Records(q) /\ Records(req[r]) /\ q.tenant = req[r].tenant /\ q.alone = req[r].alone
            /\ q.pc \notin {"commit", "list", "find", "event"}
            /\ q.pc \in {"lookup", "write", "publish"} => q.object # None /\ Owner[q.object] = q.tenant
            /\ q.alone /\ q.pc = "write" => q.existing = outcome[q.object]
            /\ q.alone /\ q.pc = "publish" => outcome[q.object] = q.label
  PROVE  RecordInv'
<1>1. req \in [Reqs -> Requests] BY DEF SessionInv, TypeOK
<1>2. \A s \in Reqs : req'[s] = IF s = r THEN q ELSE req[s] BY <1>1
<1>3. \A x \in Objects : writer[x] # r \/ r = None BY DEF RecordInv, WriterInv
<1>4. \A t : /\ Recording(t)' \subseteq Recording(t) /\ Recording(t) \subseteq Recording(t)' \cup {r}
  BY <1>2 DEF Recording, Records
<1>5. \A t : Labels(t)' = Labels(t) BY DEF Labels, Pairs
<1>6. ASSUME NEW s \in Reqs, s # r PROVE OutcomeInv(s)'
  <2>1. req'[s] = req[s] /\ OutcomeInv(s) BY <1>2, <1>6 DEF RecordInv
  <2>2. Published(s)' = Published(s) BY <2>1, <1>5 DEF Published
  <2>3. ASSUME Recording(req[s].tenant) = {s}, Records(req[s]) PROVE Recording(req[s].tenant)' = {s}
    BY <1>2, <1>4, <1>6, <2>1, <2>3 DEF Recording, Records
  <2> QED BY <2>1, <2>2, <2>3 DEF OutcomeInv, Records
<1>7. OutcomeInv(r)'
  <2>1. req'[r] = q /\ OutcomeInv(r) BY <1>2 DEF RecordInv
  <2>2. CASE ~Records(q) BY <2>1, <2>2 DEF OutcomeInv, Records
  <2>3. CASE Records(q)
    <3>1. Recording(q.tenant) = {r} => Recording(q.tenant)' = {r}
      BY <1>2, <1>4, <2>3 DEF Recording, Records
    <3> QED BY <2>1, <2>3, <3>1 DEF OutcomeInv, Records
  <2> QED BY <2>2, <2>3
<1>8. WriterInv'
  <2>1. ASSUME NEW x \in Objects, writer[x] # None PROVE writer[x] \in Reqs /\ writer[x] # r
    BY <1>3, <2>1 DEF SessionInv, TypeOK, Opt
  <2> QED BY <1>2, <2>1 DEF RecordInv, WriterInv
<1>9. GaugeInv'
  <2>1. ASSUME NEW t \in Tenants, \A s \in Recording(t)' : req'[s].pc # "commit", NEW s \in Recording(t)
        PROVE  req[s].pc # "commit"
    BY <1>2, <1>4, <2>1 DEF Recording
  <2> QED BY <1>5, <2>1 DEF RecordInv, GaugeInv
<1> QED BY <1>6, <1>7, <1>8, <1>9 DEF RecordInv

\* A request arrives: the requests that record for the same tenant are no longer alone.
LEMMA OpenKeepsRecord ==
  ASSUME SessionInv, RecordInv, NEW r \in Reqs, NEW kind \in Kinds, NEW t \in Opt(Tenants),
         NEW x \in Objects, NEW l \in BOOLEAN, NEW k \in Conns, Open(r, kind, t, x, l, k)
  PROVE  RecordInv'
<1> DEFINE q == Opened(kind, t, x, l, k)
<1>1. req \in [Reqs -> Requests] BY DEF SessionInv, TypeOK
<1>2. /\ q.kind = kind /\ q.tenant = t /\ q.alone = (kind = "outcome" => Recording(t) = {})
      /\ q.pc \in {"require", "list", "find", "handler"}
      /\ kind = "outcome" => q.pc = "require"
  BY DEF Opened, Idle
<1>3. req'[r] = q /\ req[r].pc = "idle" BY DEF Open
<1>4. ASSUME NEW s \in Reqs, s # r
      PROVE  req'[s] = IF kind = "outcome" /\ s \in Recording(t)
                       THEN [req[s] EXCEPT !.alone = FALSE] ELSE req[s]
  BY <1>4 DEF Open
<1>5. ASSUME NEW s \in Reqs, s # r
      PROVE  /\ req'[s].kind = req[s].kind /\ req'[s].pc = req[s].pc
             /\ req'[s].tenant = req[s].tenant /\ req'[s].object = req[s].object
             /\ req'[s].existing = req[s].existing /\ req'[s].label = req[s].label
             /\ req'[s].alone => req[s].alone /\ ~(kind = "outcome" /\ s \in Recording(t))
  <2>1. req[s] \in Requests BY <1>1
  <2> QED BY <1>4, <1>5, <2>1 DEF Requests
<1>6. UNCHANGED <<outcome, writer, gauge, clean>> BY DEF Open, Rows
<1> HIDE DEF q
<1>7. \A u : Recording(u)' = Recording(u) \cup (IF kind = "outcome" /\ u = t THEN {r} ELSE {})
  BY <1>2, <1>3, <1>5 DEF Recording
<1>8. \A u : Labels(u)' = Labels(u) BY <1>6 DEF Labels, Pairs
<1>9. ASSUME NEW s \in Reqs PROVE OutcomeInv(s)'
  <2>1. CASE s = r
    BY <2>1, <1>2, <1>3, <1>7 DEF OutcomeInv
  <2>2. CASE s # r
    <3>1. OutcomeInv(s) BY DEF RecordInv
    <3>2. Published(s)' = Published(s) BY <2>2, <1>5, <1>8 DEF Published
    <3>3. req'[s].alone /\ Recording(req[s].tenant) = {s} => Recording(req[s].tenant)' = {s}
      <4> SUFFICES ASSUME req'[s].alone, Recording(req[s].tenant) = {s}
                   PROVE  Recording(req[s].tenant)' = {s}
        OBVIOUS
      <4>1. req'[s].tenant = req[s].tenant /\ ~(kind = "outcome" /\ s \in Recording(t))
        BY <2>2, <1>5
      <4>2. ~(kind = "outcome" /\ req[s].tenant = t) BY <4>1
      <4> QED BY <4>1, <4>2, <1>7
    <3> QED BY <2>2, <1>5, <1>6, <3>1, <3>2, <3>3 DEF OutcomeInv
  <2> QED BY <2>1, <2>2
<1>10. WriterInv'
  <2>1. ASSUME NEW y \in Objects, writer[y] # None PROVE writer[y] \in Reqs /\ writer[y] # r
    BY <1>3, <2>1 DEF SessionInv, TypeOK, Opt, RecordInv, WriterInv
  <2> QED BY <1>5, <1>6, <2>1 DEF RecordInv, WriterInv
<1>11. GaugeInv'
  <2>1. ASSUME NEW u \in Tenants, \A s \in Recording(u)' : req'[s].pc # "commit", NEW s \in Recording(u)
        PROVE  req[s].pc # "commit"
    <3>1. s \in Reqs /\ s # r BY <1>3 DEF Recording
    <3> QED BY <1>5, <1>7, <2>1, <3>1
  <2> QED BY <1>6, <1>8, <2>1 DEF RecordInv, GaugeInv
<1> QED BY <1>9, <1>10, <1>11 DEF RecordInv

\* The write of an outcome, when nobody else has written the row.
LEMMA WriteKeepsRecord ==
  ASSUME SessionInv, RecordInv, NEW r \in Reqs, req[r].pc = "write", Goto(r, "publish"),
         writer[req[r].object] = None, writer' = [writer EXCEPT ![req[r].object] = r],
         UNCHANGED <<outcome, gauge, clean>>
  PROVE  RecordInv'
<1> DEFINE x == req[r].object
<1>1. req \in [Reqs -> Requests] /\ writer \in [Objects -> Opt(Reqs)] BY DEF SessionInv, TypeOK
<1>2. req[r] \in Requests /\ OutcomeInv(r) BY <1>1 DEF RecordInv
<1>3. req[r].kind = "outcome" /\ x \in Objects /\ Owner[x] = req[r].tenant
  BY <1>2 DEF OutcomeInv, Requests, Opt
<1>4. \A s \in Reqs : s # r => req'[s] = req[s] BY <1>1 DEF Goto
<1>5. /\ req'[r].pc = "publish" /\ req'[r].kind = "outcome" /\ req'[r].tenant = req[r].tenant
      /\ req'[r].object = x /\ req'[r].alone = req[r].alone
  BY <1>1, <1>2, <1>3 DEF Goto, Requests
<1>6. \A t : Recording(t)' = Recording(t) BY <1>3, <1>4, <1>5 DEF Recording
<1>7. \A t : Labels(t)' = Labels(t) BY DEF Labels, Pairs
<1> HIDE DEF x
<1>8. ASSUME NEW s \in Reqs PROVE OutcomeInv(s)'
  <2>1. CASE s = r
    BY <2>1, <1>1, <1>2, <1>3, <1>5, <1>6 DEF OutcomeInv, x
  <2>2. CASE s # r
    <3>1. OutcomeInv(s) /\ req'[s] = req[s] BY <2>2, <1>4 DEF RecordInv
    <3>2. Published(s)' = Published(s) BY <3>1, <1>7 DEF Published
    <3>3. Recording(req[s].tenant)' = Recording(req[s].tenant) BY <1>6, <3>1
    <3>4. req[s].object \in Objects /\ writer[req[s].object] = s => writer'[req[s].object] = s
      BY <1>1, <1>3 DEF x
    <3>5. req[s].object # None => req[s].object \in Objects BY <1>1 DEF Requests, Opt
    <3> QED BY <3>1, <3>2, <3>3, <3>4, <3>5 DEF OutcomeInv
  <2> QED BY <2>1, <2>2
<1>9. WriterInv'
  <2>1. ASSUME NEW y \in Objects, writer'[y] # None
        PROVE  LET q == req'[writer'[y]] IN
               q.kind = "outcome" /\ q.pc \in {"publish", "commit"} /\ q.object = y
    <3>1. CASE y = x BY <3>1, <1>1, <1>5 DEF x
    <3>2. CASE y # x
      <4>1. writer'[y] = writer[y] BY <3>2, <1>1 DEF x
      <4>2. writer[y] \in Reqs BY <4>1, <2>1, <1>1 DEF Opt
      <4>3. writer[y] # r BY <2>1, <4>1 DEF RecordInv, WriterInv
      <4> QED BY <2>1, <4>1, <4>2, <4>3, <1>4 DEF RecordInv, WriterInv
    <3> QED BY <3>1, <3>2
  <2> QED BY <2>1 DEF WriterInv
<1>10. GaugeInv'
  <2>1. ASSUME NEW t \in Tenants, \A s \in Recording(t)' : req'[s].pc # "commit", NEW s \in Recording(t)
        PROVE  req[s].pc # "commit"
    BY <1>4, <1>6, <2>1 DEF Recording
  <2> QED BY <1>7, <2>1 DEF RecordInv, GaugeInv
<1> QED BY <1>8, <1>9, <1>10 DEF RecordInv

\* The gauges are set: nobody else of the tenant can rely on them.
LEMMA PublishKeepsRecord ==
  ASSUME SessionInv, RecordInv, NEW r \in Reqs, req[r].pc = "publish", Goto(r, "commit"),
         req[r].tenant \in Tenants,
         gauge' = [gauge EXCEPT ![req[r].tenant] = Published(r)],
         UNCHANGED <<outcome, writer, clean>>
  PROVE  RecordInv'
<1>1. req \in [Reqs -> Requests] /\ gauge \in [Tenants -> SUBSET (Objects \X BOOLEAN)]
  BY DEF SessionInv, TypeOK
<1>2. req[r] \in Requests /\ OutcomeInv(r) BY <1>1 DEF RecordInv
<1>3. req[r].kind = "outcome" BY <1>2 DEF OutcomeInv
<1>4. \A s \in Reqs : s # r => req'[s] = req[s] BY <1>1 DEF Goto
<1>5. /\ req'[r].pc = "commit" /\ req'[r].kind = "outcome" /\ req'[r].tenant = req[r].tenant
      /\ req'[r].object = req[r].object /\ req'[r].label = req[r].label
      /\ req'[r].alone = req[r].alone
  BY <1>1, <1>2, <1>3 DEF Goto, Requests
<1>6. \A t : Recording(t)' = Recording(t) BY <1>3, <1>4, <1>5 DEF Recording
<1>7. r \in Recording(req[r].tenant) BY <1>3 DEF Recording
<1>8. \A t : Labels(t)' = Labels(t) BY DEF Labels, Pairs
<1>9. ASSUME NEW s \in Reqs PROVE OutcomeInv(s)'
  <2>1. CASE s = r
    <3>1. Published(r)' = Published(r) BY <1>5, <1>8 DEF Published
    <3>2. gauge'[req[r].tenant] = Published(r) BY <1>1
    <3> QED BY <2>1, <3>1, <3>2, <1>2, <1>3, <1>5, <1>6 DEF OutcomeInv
  <2>2. CASE s # r
    <3>1. OutcomeInv(s) /\ req'[s] = req[s] BY <2>2, <1>4 DEF RecordInv
    <3>2. Published(s)' = Published(s) BY <3>1, <1>8 DEF Published
    <3>3. Recording(req[s].tenant)' = Recording(req[s].tenant) BY <1>6, <3>1
    <3>4. Recording(req[s].tenant) = {s} => gauge'[req[s].tenant] = gauge[req[s].tenant]
      BY <1>1, <1>7, <2>2
    <3> QED BY <3>1, <3>2, <3>3, <3>4 DEF OutcomeInv
  <2> QED BY <2>1, <2>2
<1>10. WriterInv'
  <2>1. ASSUME NEW y \in Objects, writer[y] # None
        PROVE  LET q == req'[writer[y]] IN
               q.kind = "outcome" /\ q.pc \in {"publish", "commit"} /\ q.object = y
    <3>1. writer[y] \in Reqs BY <2>1 DEF SessionInv, TypeOK, Opt
    <3> QED BY <2>1, <3>1, <1>4, <1>5 DEF RecordInv, WriterInv
  <2> QED BY <2>1 DEF WriterInv
<1>11. GaugeInv'
  <2>1. ASSUME NEW t \in Tenants, clean[t], \A s \in Recording(t)' : req'[s].pc # "commit"
        PROVE  gauge'[t] = Labels(t)
    <3>1. t # req[r].tenant BY <2>1, <1>5, <1>6, <1>7
    <3>2. \A s \in Recording(t) : s # r BY <3>1 DEF Recording
    <3>3. \A s \in Recording(t) : req[s].pc # "commit" BY <2>1, <3>2, <1>4, <1>6 DEF Recording
    <3> QED BY <2>1, <3>1, <3>3, <1>1 DEF RecordInv, GaugeInv
  <2> QED BY <2>1, <1>8 DEF GaugeInv
<1> QED BY <1>9, <1>10, <1>11 DEF RecordInv

\* A request that recorded an outcome ends, by its commit or by a rollback: a writer is
\* released, and the outcomes of other tenants stay what they were.
LEMMA EndKeepsRecord ==
  ASSUME SessionInv, RecordInv, NEW r \in Reqs, req[r].kind = "outcome", req[r].pc # "idle",
         NEW t \in Tenants, req[r].tenant = t,
         req' = [req EXCEPT ![r] = Idle], Release(r), gauge' = gauge,
         \A x \in Objects : outcome'[x] = outcome[x] \/ Owner[x] = t,
         \A u \in Tenants : u # t => clean'[u] = clean[u],
         clean'[t] => gauge[t] = Labels(t)'
  PROVE  RecordInv'
<1>1. req \in [Reqs -> Requests] /\ writer \in [Objects -> Opt(Reqs)] BY DEF SessionInv, TypeOK
<1>2. \A s \in Reqs : s # r => req'[s] = req[s] BY <1>1
<1>3. req'[r].pc = "idle" /\ req'[r].kind = "denied" BY <1>1 DEF Idle
<1>4. \A u : Recording(u)' = Recording(u) \ {r} BY <1>2, <1>3 DEF Recording
<1>5. r \in Recording(t) BY DEF Recording
<1>6. \A u : u # t => Labels(u)' = Labels(u) BY DEF Labels, Pairs
<1>7. ASSUME NEW s \in Reqs PROVE OutcomeInv(s)'
  <2>1. CASE s = r BY <2>1, <1>3 DEF OutcomeInv
  <2>2. CASE s # r
    <3>1. OutcomeInv(s) /\ req'[s] = req[s] /\ req[s] \in Requests
      BY <2>2, <1>1, <1>2 DEF RecordInv
    <3>2. CASE ~(req[s].kind = "outcome" /\ req[s].pc # "idle" /\ req[s].alone)
      BY <3>1, <3>2 DEF OutcomeInv
    <3>3. CASE req[s].kind = "outcome" /\ req[s].pc # "idle" /\ req[s].alone
      <4>1. Recording(req[s].tenant) = {s} BY <3>1, <3>3 DEF OutcomeInv
      <4>2. req[s].tenant # t BY <4>1, <1>5, <2>2
      <4>3. Recording(req[s].tenant)' = {s} BY <4>1, <3>1, <2>2, <1>4
      <4>4. Published(s)' = Published(s) BY <3>1, <4>2, <1>6 DEF Published
      <4>5. req[s].object \in Objects /\ Owner[req[s].object] = req[s].tenant =>
              /\ outcome'[req[s].object] = outcome[req[s].object]
              /\ writer[req[s].object] = s => writer'[req[s].object] = s
        BY <4>2, <2>2, <1>1 DEF Release
      <4>6. req[s].object # None => req[s].object \in Objects BY <3>1 DEF Requests, Opt
      <4> QED BY <3>1, <3>3, <4>3, <4>4, <4>5, <4>6 DEF OutcomeInv
    <3> QED BY <3>2, <3>3
  <2> QED BY <2>1, <2>2
<1>8. WriterInv'
  <2>1. ASSUME NEW y \in Objects, writer'[y] # None
        PROVE  LET q == req'[writer'[y]] IN
               q.kind = "outcome" /\ q.pc \in {"publish", "commit"} /\ q.object = y
    <3>1. writer'[y] = writer[y] /\ writer[y] # r BY <2>1 DEF Release
    <3>2. writer[y] \in Reqs BY <2>1, <3>1, <1>1 DEF Opt
    <3> QED BY <2>1, <3>1, <3>2, <1>2 DEF RecordInv, WriterInv
  <2> QED BY <2>1 DEF WriterInv
<1>9. GaugeInv'
  <2>1. ASSUME NEW u \in Tenants, u # t, clean'[u], \A s \in Recording(u)' : req'[s].pc # "commit"
        PROVE  gauge[u] = Labels(u)'
    <3>1. \A s \in Recording(u) : s # r BY <2>1 DEF Recording
    <3>2. \A s \in Recording(u) : req[s].pc # "commit" BY <2>1, <3>1, <1>2, <1>4 DEF Recording
    <3> QED BY <2>1, <3>2, <1>6 DEF RecordInv, GaugeInv
  <2> QED BY <2>1 DEF GaugeInv
<1> QED BY <1>7, <1>8, <1>9 DEF RecordInv

\* The commit of an outcome: a request that ran alone published exactly what it commits.
LEMMA CommitKeepsRecord ==
  ASSUME SessionInv, RecordInv, NEW r \in Reqs, CommitOutcome(r)
  PROVE  RecordInv'
<1> DEFINE x == req[r].object
           l == req[r].label
<1>1. /\ req[r] \in Requests /\ RequestInv(req[r]) /\ OutcomeInv(r)
      /\ outcome \in [Objects -> Opt(BOOLEAN)] /\ clean \in [Tenants -> BOOLEAN]
  BY DEF SessionInv, TypeOK, RecordInv
<1>2. req[r].kind = "outcome" /\ req[r].pc = "commit" BY DEF CommitOutcome
<1>3. PICK t \in Tenants : t = req[r].tenant
  BY <1>1, <1>2 DEF RequestInv, Requests, Opt
<1>4. x \in Objects /\ Owner[x] = t /\ l \in BOOLEAN
  BY <1>1, <1>2, <1>3 DEF OutcomeInv, Requests, Opt
<1>5. \A y \in Objects : writer[y] = r => y = x
  BY <1>2 DEF RecordInv, WriterInv
<1>6. \A y \in Objects : outcome'[y] = IF writer[y] = r THEN l ELSE outcome[y]
  BY DEF CommitOutcome
<1>7. \A y \in Objects : outcome'[y] = outcome[y] \/ Owner[y] = t
  BY <1>4, <1>5, <1>6
<1>8. clean' = [clean EXCEPT ![t] = req[r].alone] BY <1>3 DEF CommitOutcome
<1>9. ASSUME clean'[t] PROVE gauge[t] = Labels(t)'
  <2>1. req[r].alone BY <1>9, <1>8, <1>1
  <2>2. gauge[t] = Published(r) /\ (writer[x] = r \/ outcome[x] = l)
    BY <2>1, <1>1, <1>2, <1>3 DEF OutcomeInv
  <2>3. outcome'[x] = l /\ \A y \in Objects : y # x => outcome'[y] = outcome[y]
    BY <2>2, <1>4, <1>5, <1>6
  <2>4. Published(r) = {p \in Labels(t) : p[1] # x} \cup {<<x, l>>}
    BY <1>3 DEF Published
  <2> HIDE DEF x, l
  <2>5. l # None BY <1>4
  <2>6. Labels(t)' = {p \in Labels(t) : p[1] # x} \cup {<<x, l>>}
    <3>1. ASSUME NEW p \in Labels(t)' PROVE p \in {e \in Labels(t) : e[1] # x} \cup {<<x, l>>}
      BY <2>3, <3>1 DEF Labels, Pairs
    <3>2. ASSUME NEW p \in Labels(t), p[1] # x PROVE p \in Labels(t)'
      BY <2>3, <3>2 DEF Labels, Pairs
    <3>3. <<x, l>> \in Labels(t)' BY <2>3, <2>5, <1>4 DEF Labels, Pairs
    <3> QED BY <3>1, <3>2, <3>3
  <2> QED BY <2>2, <2>4, <2>6
<1>10. req' = [req EXCEPT ![r] = Idle] /\ Release(r) /\ gauge' = gauge
  BY DEF CommitOutcome, Close
<1>11. \A u \in Tenants : u # t => clean'[u] = clean[u] BY <1>8
<1> QED BY <1>2, <1>3, <1>7, <1>9, <1>10, <1>11, EndKeepsRecord

\* The end of a request that has written and published nothing.
LEMMA CloseKeepsRecord ==
  ASSUME SessionInv, RecordInv, NEW r \in Reqs, Close(r),
         UNCHANGED <<outcome, writer, gauge, clean>>,
         ~(req[r].kind = "outcome" /\ req[r].pc \in {"publish", "commit"})
  PROVE  RecordInv'
<1>1. req' = [req EXCEPT ![r] = Idle] /\ ~Records(Idle)
      /\ Idle.pc \notin {"lookup", "write", "publish"}
  BY DEF Close, Records, Idle
<1> QED BY <1>1, QuietKeepsRecord

\* A step of a request from one point to another that is not a write.
LEMMA StepKeepsRecord ==
  ASSUME SessionInv, RecordInv, NEW r \in Reqs, Step(r) \/ BadToken(r)
  PROVE  RecordInv'
<1>1. req \in [Reqs -> Requests] BY DEF SessionInv, TypeOK
<1>2. req[r] \in Requests /\ RequestInv(req[r]) /\ OutcomeInv(r) BY <1>1 DEF SessionInv, RecordInv
<1>3. CASE BadToken(r)
  <2> DEFINE q == Opened("denied", None, None, FALSE, None)
  <2>1. req' = [req EXCEPT ![r] = q] /\ UNCHANGED <<outcome, writer, gauge, clean>>
        /\ req[r].pc = "idle"
    BY <1>3 DEF BadToken, Rows
  <2>2. q.kind = "denied" /\ q.pc = "handler" BY RefusedRequest DEF Opt
  <2> HIDE DEF q
  <2> QED BY <2>1, <2>2, QuietKeepsRecord DEF Records
<1>4. ASSUME req[r].pc \in {"require", "list", "find", "event"}, Refuse(r),
             UNCHANGED <<outcome, writer, gauge, clean>>
      PROVE  RecordInv'
  <2> DEFINE q == Opened("denied", req[r].tenant, None, FALSE, None)
  <2>1. req' = [req EXCEPT ![r] = q] BY <1>4 DEF Refuse
  <2>2. req[r].tenant \in Opt(Tenants) BY <1>2 DEF Requests
  <2>3. q.kind = "denied" /\ q.pc = "handler" BY <2>2, RefusedRequest
  <2> HIDE DEF q
  <2> QED BY <1>4, <2>1, <2>3, QuietKeepsRecord DEF Records
<1>5. CASE MissingScope(r) BY <1>4, <1>5 DEF MissingScope, Rows
<1>6. ASSUME req[r].pc = "require", Found(req[r]), NEW pc \in {"commit", "lookup"}, Given(r, pc),
             req[r].kind = "outcome" <=> pc = "lookup", UNCHANGED <<outcome, writer, gauge, clean>>
      PROVE  RecordInv'
  <2> DEFINE q == [req[r] EXCEPT !.pc = pc, !.got = {Owner[req[r].object]}]
  <2>1. req' = [req EXCEPT ![r] = q] BY <1>1, <1>6 DEF Given
  <2>2. q.pc = pc /\ q.kind = req[r].kind /\ q.tenant = req[r].tenant
        /\ q.alone = req[r].alone /\ q.object = req[r].object
    BY <1>2 DEF Requests
  <2>3. req[r].object # None /\ Owner[req[r].object] = req[r].tenant
    BY <1>2, <1>6 DEF RequestInv, Found
  <2> HIDE DEF q
  <2> QED BY <1>6, <2>1, <2>2, <2>3, QuietKeepsRecord DEF Records
<1>7. CASE GetById(r) BY <1>4, <1>6, <1>7 DEF GetById, Rows
<1>8. CASE GetPrediction(r)
  <2>1. CASE ~Found(req[r]) /\ Close(r) BY <1>8, <2>1, CloseKeepsRecord DEF GetPrediction, Rows
  <2>2. CASE Found(req[r]) /\ Given(r, "lookup") BY <1>6, <1>8, <2>2 DEF GetPrediction, Rows
  <2> QED BY <1>8, <2>1, <2>2 DEF GetPrediction
<1>9. CASE List(r)
  <2> DEFINE q == [req[r] EXCEPT !.pc = "commit", !.got = EventsOf(req[r].tenant, req[r].conn)]
  <2>1. req' = [req EXCEPT ![r] = q] /\ UNCHANGED <<outcome, writer, gauge, clean>>
    BY <1>1, <1>9 DEF List, Rows
  <2>2. q.pc = "commit" /\ q.kind = req[r].kind BY <1>2 DEF Requests
  <2>3. req[r].kind # "outcome" /\ req[r].pc = "list" BY <1>2, <1>9 DEF List, OutcomeInv
  <2> HIDE DEF q
  <2> QED BY <2>1, <2>2, <2>3, QuietKeepsRecord DEF Records
<1>10. CASE EndRead(r) BY <1>10, CloseKeepsRecord DEF EndRead, Rows
<1>11. CASE Lookup(r)
  <2> DEFINE q == [req[r] EXCEPT !.pc = "write", !.existing = outcome[req[r].object]]
  <2>1. req' = [req EXCEPT ![r] = q] /\ UNCHANGED <<outcome, writer, gauge, clean>>
    BY <1>1, <1>11 DEF Lookup, Rows
  <2>2. q.pc = "write" /\ q.kind = req[r].kind /\ q.tenant = req[r].tenant
        /\ q.alone = req[r].alone /\ q.object = req[r].object
        /\ q.existing = outcome[req[r].object]
    BY <1>2 DEF Requests
  <2>3. req[r].kind = "outcome" /\ req[r].object # None /\ Owner[req[r].object] = req[r].tenant
        /\ req[r].pc = "lookup"
    BY <1>2, <1>11 DEF OutcomeInv, Lookup
  <2> HIDE DEF q
  <2> QED BY <2>1, <2>2, <2>3, QuietKeepsRecord DEF Records
<1>12. CASE Publish(r)
  <2>1. req[r].pc \in Working BY <1>12 DEF Publish, Working
  <2> QED BY <1>12, <2>1, BoundTenant, PublishKeepsRecord DEF Publish
<1>13. CASE CommitOutcome(r) BY <1>13, CommitKeepsRecord
<1>14. ASSUME req[r].pc \in {"find", "event", "insert"}, NEW pc \in {"unknown", "refused"},
              Goto(r, pc), UNCHANGED <<outcome, writer, gauge, clean>>
       PROVE  RecordInv'
  <2> DEFINE q == [req[r] EXCEPT !.pc = pc]
  <2>1. req' = [req EXCEPT ![r] = q] BY <1>1, <1>14 DEF Goto
  <2>2. q.pc = pc /\ q.kind = req[r].kind /\ q.tenant = req[r].tenant
        /\ q.alone = req[r].alone
    BY <1>2 DEF Requests
  <2> HIDE DEF q
  <2> QED BY <1>14, <2>1, <2>2, QuietKeepsRecord DEF Records
<1>15. CASE FindCredential(r) \/ DenyExchange(r) \/ CommitExchange(r) \/ HandlerInsert(r)
  <2>1. CASE CommitExchange(r) BY <2>1, <1>14, CloseKeepsRecord DEF CommitExchange
  <2>2. CASE HandlerInsert(r) BY <2>2, <1>14, CloseKeepsRecord DEF HandlerInsert
  <2>3. CASE FindCredential(r)
    <3> DEFINE q == [req[r] EXCEPT !.pc = "event", !.bound = Owner[req[r].object]]
    <3>1. /\ req[r].pc = "find" /\ UNCHANGED <<outcome, writer, gauge, clean>>
          /\ Goto(r, "unknown") \/ req' = [req EXCEPT ![r] = q]
      BY <1>1, <2>3 DEF FindCredential, Rows
    <3>2. q.pc = "event" /\ q.kind = req[r].kind BY <1>2 DEF Requests
    <3>3. req[r].kind # "outcome" BY <1>2, <3>1 DEF OutcomeInv
    <3> HIDE DEF q
    <3>4. CASE req' = [req EXCEPT ![r] = q]
      BY <3>1, <3>2, <3>3, <3>4, QuietKeepsRecord DEF Records
    <3> QED BY <1>14, <3>1, <3>4
  <2>4. CASE DenyExchange(r) BY <2>4, <1>4, <1>14 DEF DenyExchange, Rows
  <2> QED BY <1>15, <2>1, <2>2, <2>3, <2>4
<1>16. CASE DropEvent(r) BY <1>16, CloseKeepsRecord DEF DropEvent, Rows
<1>17. ASSUME NEW k \in Conns, HandlerSession(r, k) PROVE RecordInv'
  <2> DEFINE q == [req[r] EXCEPT !.pc = "insert", !.conn = k]
  <2>1. req' = [req EXCEPT ![r] = q] /\ UNCHANGED <<outcome, writer, gauge, clean>>
        /\ req[r].pc = "handler"
    BY <1>1, <1>17 DEF HandlerSession, Rows
  <2>2. q.pc = "insert" /\ q.kind = req[r].kind /\ q.tenant = req[r].tenant
        /\ q.alone = req[r].alone
    BY <1>2 DEF Requests
  <2> HIDE DEF q
  <2> QED BY <2>1, <2>2, QuietKeepsRecord DEF Records
<1> QED BY <1>3, <1>5, <1>7, <1>8, <1>9, <1>10, <1>11, <1>12, <1>13, <1>15, <1>16, <1>17 DEF Step

\* Every step keeps the outcomes and the gauges consistent.
LEMMA NextKeepsRecord == SessionInv /\ RecordInv /\ [Next]_vars => RecordInv'
<1> SUFFICES ASSUME SessionInv, RecordInv, [Next]_vars PROVE RecordInv' OBVIOUS
<1>1. CASE UNCHANGED vars
  BY <1>1 DEF vars, RecordInv, OutcomeInv, WriterInv, GaugeInv, Recording, Published, Labels, Pairs
<1>2. ASSUME NEW r \in Reqs, Write(r) PROVE RecordInv'
  <2>1. req \in [Reqs -> Requests] /\ req[r] \in Requests /\ OutcomeInv(r)
    BY DEF SessionInv, TypeOK, RecordInv
  <2>2. req[r].pc = "write" /\ req[r].kind = "outcome" BY <1>2, <2>1 DEF Write, OutcomeInv
  <2>3. CASE req[r].existing = req[r].label /\ Goto(r, "publish") /\ writer' = writer
    <3> DEFINE q == [req[r] EXCEPT !.pc = "publish"]
    <3>1. req' = [req EXCEPT ![r] = q] BY <2>1, <2>3 DEF Goto
    <3>2. q.pc = "publish" /\ q.kind = req[r].kind /\ q.tenant = req[r].tenant
          /\ q.alone = req[r].alone /\ q.object = req[r].object /\ q.label = req[r].label
      BY <2>1 DEF Requests
    <3>3. /\ req[r].object # None /\ Owner[req[r].object] = req[r].tenant
          /\ req[r].alone => outcome[req[r].object] = req[r].label
      BY <2>1, <2>2, <2>3 DEF OutcomeInv
    <3>4. UNCHANGED <<outcome, gauge, clean>> BY <1>2 DEF Write
    <3> HIDE DEF q
    <3> QED BY <2>2, <2>3, <3>1, <3>2, <3>3, <3>4, QuietKeepsRecord DEF Records
  <2>4. CASE writer[req[r].object] = None /\ Goto(r, "publish")
             /\ writer' = [writer EXCEPT ![req[r].object] = r]
    BY <1>2, <2>2, <2>4, WriteKeepsRecord DEF Write
  <2>5. CASE Close(r) /\ writer' = writer
    BY <1>2, <2>2, <2>5, CloseKeepsRecord DEF Write
  <2> QED BY <1>2, <2>3, <2>4, <2>5 DEF Write
<1>3. ASSUME NEW r \in Reqs, Fail(r) PROVE RecordInv'
  <2>1. /\ req[r] \in Requests /\ RequestInv(req[r]) /\ writer \in [Objects -> Opt(Reqs)]
        /\ clean \in [Tenants -> BOOLEAN]
    BY DEF SessionInv, TypeOK
  <2>2. CASE req[r].kind = "outcome"
    <3>1. PICK t \in Tenants : t = req[r].tenant
      BY <1>3, <2>1, <2>2 DEF Fail, RequestInv, Requests, Opt
    <3>2. /\ req[r].pc # "idle" /\ req' = [req EXCEPT ![r] = Idle] /\ Release(r)
          /\ gauge' = gauge /\ outcome' = outcome /\ clean' = [clean EXCEPT ![t] = FALSE]
      BY <1>3, <2>2, <3>1 DEF Fail, Close
    <3>3. ~clean'[t] /\ \A u \in Tenants : u # t => clean'[u] = clean[u] BY <2>1, <3>2
    <3> QED BY <2>2, <3>1, <3>2, <3>3, EndKeepsRecord
  <2>3. CASE req[r].kind # "outcome"
    <3>1. \A x \in Objects : writer[x] # r
      BY <2>3 DEF RecordInv, WriterInv
    <3>2. writer' = writer BY <1>3, <2>1, <3>1 DEF Fail, Release
    <3> QED BY <1>3, <2>3, <3>2, CloseKeepsRecord DEF Fail
  <2> QED BY <2>2, <2>3
<1> QED BY <1>1, <1>2, <1>3, OpenKeepsRecord, StepKeepsRecord DEF Next

-----------------------------------------------------------------------------
(***************************************************************************)
(* The theorems.                                                           *)
(***************************************************************************)

\* The inductive invariant holds in every state.
THEOREM Invariance == Spec => []IInv
<1>1. IInv <=> SessionInv /\ RecordInv
  BY DEF IInv, SessionInv, ConnInv, RecordInv
<1>2. Init => SessionInv /\ RecordInv BY InitSession, InitRecord
<1>3. SessionInv /\ RecordInv /\ [Next]_vars => (SessionInv /\ RecordInv)'
  BY NextKeepsSession, NextKeepsRecord
<1> QED BY <1>1, <1>2, <1>3, PTL DEF Spec

\* Requests, connections, outcomes and gauges keep their shape under every request.
THEOREM TypeCorrect == Spec => []TypeOK
<1>1. IInv => TypeOK BY DEF IInv
<1> QED BY <1>1, Invariance, PTL

\* Row-level security alone shows a session the rows of the tenant it was bound to, and an
\* unbound session none, for any sequence of requests over any pool
\* (common/tenant_session.py).
THEOREM RowSecurityHolds == Spec => []RowSecurity
<1>1. IInv => RowSecurity
  <2> SUFFICES ASSUME IInv, NEW r \in Reqs, NEW t \in Tenants
               PROVE  req[r].conn # None /\ Strict(t, req[r].conn) => t = req[r].bound
    BY DEF RowSecurity
  <2>1. req[r].conn # None => Shows(req[r].conn, req[r].bound)
    BY DEF IInv, SettingInv
  <2> QED BY <2>1 DEF Strict, Current, Shows
<1> QED BY <1>1, Invariance, PTL

\* A request is only ever given rows of its own tenant, whether or not the database role
\* bypasses row-level security (common/repository.py).
THEOREM OwnRowsReturnedHolds == Spec => []OwnRowsReturned
<1>1. IInv => OwnRowsReturned BY DEF IInv, RequestInv, OwnRowsReturned
<1> QED BY <1>1, Invariance, PTL

\* The exchange finds every existing credential on every pooled connection (migration
\* f94e2a13d107).
THEOREM CredentialsFoundHolds == Spec => []CredentialsFound
<1>1. IInv => CredentialsFound BY DEF IInv, RequestInv, CredentialsFound
<1> QED BY <1>1, Invariance, PTL

\* Row-level security refuses none of the audit events of the requests and of the exception
\* handlers (migration b48a21a99ef0).
THEOREM EventsAdmittedHolds == Spec => []EventsAdmitted
<1>1. IInv => EventsAdmitted BY DEF IInv, RequestInv, EventsAdmitted
<1> QED BY <1>1, Invariance, PTL

\* Both barriers between tenants hold, each on its own (common/tenant_session.py,
\* common/repository.py).
THEOREM TenantIsolationHolds == Spec => []TenantIsolation
<1>1. RowSecurity /\ OwnRowsReturned => TenantIsolation BY DEF TenantIsolation
<1> QED BY <1>1, RowSecurityHolds, OwnRowsReturnedHolds, PTL

\* The policies admit every credential lookup and every audit event of the platform
\* (migrations f94e2a13d107 and b48a21a99ef0).
THEOREM PoliciesAdmitHolds == Spec => []PoliciesAdmit
<1>1. CredentialsFound /\ EventsAdmitted => PoliciesAdmit BY DEF PoliciesAdmit
<1> QED BY <1>1, CredentialsFoundHolds, EventsAdmittedHolds, PTL

\* The quality gauges agree with the committed labels once the last outcome was recorded by
\* a request that ran alone (monitoring/outcomes.py).
THEOREM GaugeCurrentHolds == Spec => []GaugeCurrent
<1>1. IInv => GaugeCurrent BY DEF IInv, GaugeInv, GaugeCurrent
<1> QED BY <1>1, Invariance, PTL

\* A request waits on the unique index only for one of its own tenant that itself waits
\* for no row, with a role that bypasses row-level security too (monitoring/outcomes.py).
THEOREM WaitsForWorkerHolds == Spec => []WaitsForWorker
<1>1. IInv => WaitsForWorker
  <2> SUFFICES ASSUME IInv, NEW r \in Reqs, req[r].pc = "write", writer[req[r].object] # None
               PROVE  LET w == writer[req[r].object] IN
                      /\ w \in Reqs \ {r} /\ req[w].pc \in {"publish", "commit"}
                      /\ req[w].tenant = req[r].tenant
    BY DEF WaitsForWorker
  <2> DEFINE x == req[r].object
             w == writer[x]
  <2>1. req[r] \in Requests /\ req[r].kind = "outcome" /\ x # None /\ Owner[x] = req[r].tenant
    BY DEF IInv, TypeOK, OutcomeInv
  <2>2. x \in Objects /\ w \in Reqs
    BY <2>1 DEF IInv, TypeOK, Requests, Opt
  <2>3. req[w].kind = "outcome" /\ req[w].pc \in {"publish", "commit"} /\ req[w].object = x
    BY <2>2 DEF IInv, WriterInv
  <2>4. Owner[x] = req[w].tenant
    BY <2>2, <2>3 DEF IInv, OutcomeInv
  <2> QED BY <2>1, <2>2, <2>3, <2>4
<1> QED BY <1>1, Invariance, PTL

=============================================================================
