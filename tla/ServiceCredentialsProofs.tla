------------------------ MODULE ServiceCredentialsProofs ------------------------
(***************************************************************************)
(* Proofs about ServiceCredentials, for any number of credentials,         *)
(* tenants, requests and addresses and any lifetime, tolerance and window. *)
(* Three things are followed through the requests in flight: that a token  *)
(* never carries a scope that manages credentials, so a person is behind   *)
(* every change of a row; that a row once dead stays dead, so an exchange  *)
(* that began late is refused when its row is checked; and that after a    *)
(* revocation no exchange overlapped, every row read is a revoked one.     *)
(***************************************************************************)
EXTENDS ServiceCredentials, TLAPS

USE TimeAssumption, InputAssumption, NoneAssumption, KeyAssumption, RowAssumption

\* The initial state: no credential, no token, no request.
LEMMA InitInv == Init => IInv
<1> SUFFICES ASSUME Init PROVE IInv OBVIOUS
<1>1. 0 \in Times BY DEF Times
<1>2. Idle \in Requests BY DEF Idle, Requests, PCs, Opt
<1>3. TypeOK
  BY <1>1, <1>2 DEF Init, TypeOK, Keys, Opt
<1>4. \A c \in Creds : RowInv(c) /\ RevokedInv(c) /\ (used[c] # None => used[c] <= clock)
  BY DEF Init, RowInv, RevokedInv
<1>5. \A r \in Reqs : RequestInv(req[r]) BY DEF Init, RequestInv, Idle
<1>6. \A tok \in tokens : TokenInv(tok) BY DEF Init
<1> QED BY <1>3, <1>4, <1>5, <1>6 DEF IInv

\* A token in use never manages credentials: who does is a person of the tenant.
LEMMA ManagerIsHuman ==
  ASSUME IInv, NEW tok \in Callers, Authorized(tok, "service_credential:manage")
  PROVE  tok.tenant \in Tenants /\ By(tok) = Human(tok.tenant)
<1>1. CASE tok \in tokens
  BY <1>1 DEF IInv, TokenInv, Authorized, Grantable
<1>2. CASE \E t \in Tenants : tok = HumanToken(t)
  BY <1>2 DEF HumanToken, SignedToken, By, Human
<1> QED BY <1>1, <1>2 DEF Callers

\* A revoked or expired row stays so.
LEMMA DeadStays ==
  ASSUME NEW a, NEW b, clock \in Times, clock' \in Times, clock <= clock',
         Dead(a), b # None, ~a.active => ~b.active, b.expires = a.expires,
         a.expires # None => a.expires \in Int
  PROVE  Dead(b)'
BY DEF Dead, Times

\* The clock moves.
LEMMA TickInv == ASSUME IInv, Tick PROVE IInv'
<1>1. clock \in Times /\ clock' \in Times /\ clock' = clock + 1 /\ clock \in Nat
  BY DEF IInv, TypeOK, Tick, Times
<1>2. UNCHANGED <<cred, lock, req, tokens, windows, admitted, used, overlap>> BY DEF Tick
<1>3. TypeOK' BY <1>1, <1>2 DEF IInv, TypeOK
<1>4. ASSUME NEW c \in Creds PROVE RowInv(c)' /\ RevokedInv(c)' /\ (used'[c] # None => used'[c] <= clock')
  <2>1. cred \in [Creds -> Opt(Rows)] /\ used \in [Creds -> Opt(Times)] BY DEF IInv, TypeOK
  <2>2. cred[c] # None => cred[c].revokedOn \in Opt(Times) BY <2>1 DEF Rows, Opt
  <2>3. RowInv(c)' BY <1>1, <1>2, <2>2 DEF IInv, RowInv, Times, Opt
  <2>4. RevokedInv(c)' BY <1>2 DEF IInv, RevokedInv
  <2>5. used'[c] # None => used'[c] <= clock' BY <1>1, <1>2, <2>1 DEF IInv, Times, Opt
  <2> QED BY <2>3, <2>4, <2>5
<1>5. ASSUME NEW tok \in tokens' PROVE TokenInv(tok)'
  <2>1. tok \in Tokens BY <1>2, <1>5 DEF IInv, TypeOK
  <2> QED BY <1>1, <1>2, <1>5, <2>1 DEF IInv, TokenInv, Tokens
<1>6. ASSUME NEW r \in Reqs PROVE RequestInv(req[r])'
  <2>1. \A row \in Opt(Rows) : Dead(row) => Dead(row)'
    BY <1>1, DeadStays DEF Dead, Rows, Opt
  <2>2. req[r].row \in Opt(Rows) BY DEF IInv, TypeOK, Requests
  <2>3. req[r].pc # "idle" => cred[req[r].cred] \in Opt(Rows) BY DEF IInv, TypeOK, RequestInv
  <2> QED BY <1>2, <2>1, <2>2, <2>3 DEF IInv, RequestInv
<1> QED BY <1>3, <1>4, <1>5, <1>6 DEF IInv

\* A step of one request that changes no row, no token and no use.
LEMMA MoveInv ==
  ASSUME IInv, NEW r \in Reqs, NEW q \in Requests, RequestInv(q),
         req' = [req EXCEPT ![r] = q], UNCHANGED <<clock, cred, tokens, used, overlap>>,
         lock' \in [Creds -> Opt(Reqs)],
         windows' \in [Keys -> [start : Times, count : Nat]],
         \A c \in Creds : windows'[c].count <= MaxPerClient + 1,
         \A ip \in Ips : windows'[ip].count <= MaxPerIp + 1,
         admitted' \in [Keys -> Seq(Times)],
         \A c \in Creds : Reading(q, c) /\ cred[c] # None /\ ~cred[c].active /\ ~overlap[c] =>
           q.pc = "check" /\ q.row # None /\ ~q.row.active
  PROVE  IInv'
<1>1. req \in [Reqs -> Requests] BY DEF IInv, TypeOK
<1>2. \A s \in Reqs : req'[s] = IF s = r THEN q ELSE req[s] BY <1>1
<1>3. TypeOK' BY <1>1 DEF IInv, TypeOK
<1>4. ASSUME NEW s \in Reqs PROVE RequestInv(req[s])'
  <2>1. RequestInv(req'[s]) BY <1>2 DEF IInv
  <2> QED BY <2>1 DEF RequestInv, Dead
<1>5. ASSUME NEW c \in Creds PROVE RowInv(c)' /\ RevokedInv(c)' /\ (used'[c] # None => used'[c] <= clock')
  <2>1. RowInv(c)' BY DEF IInv, RowInv
  <2>2. RevokedInv(c)' BY <1>2 DEF IInv, RevokedInv
  <2> QED BY <2>1, <2>2 DEF IInv
<1>6. \A tok \in tokens' : TokenInv(tok)' BY DEF IInv, TokenInv
<1> QED BY <1>3, <1>4, <1>5, <1>6 DEF IInv

\* The rest of the types, when the limiters are not asked.
LEMMA QuietMoveInv ==
  ASSUME IInv, NEW r \in Reqs, NEW q \in Requests, RequestInv(q),
         req' = [req EXCEPT ![r] = q],
         UNCHANGED <<clock, cred, tokens, used, overlap, windows, admitted>>,
         lock' \in [Creds -> Opt(Reqs)],
         \A c \in Creds : Reading(q, c) /\ cred[c] # None /\ ~cred[c].active /\ ~overlap[c] =>
           q.pc = "check" /\ q.row # None /\ ~q.row.active
  PROVE  IInv'
<1>1. /\ windows' \in [Keys -> [start : Times, count : Nat]]
      /\ \A c \in Creds : windows'[c].count <= MaxPerClient + 1
      /\ \A ip \in Ips : windows'[ip].count <= MaxPerIp + 1
      /\ admitted' \in [Keys -> Seq(Times)]
  BY DEF IInv, TypeOK
<1> QED BY <1>1, MoveInv

\* The idle request.
LEMMA IdleInv == Idle \in Requests /\ RequestInv(Idle) /\ \A c : ~Reading(Idle, c)
BY DEF Idle, Requests, PCs, Opt, RequestInv, Reading

\* One more call of check keeps a counter within one of its limit.
LEMMA CheckBound ==
  ASSUME NEW w \in [start : Times, count : Nat], NEW max \in Nat, w.count <= max + 1,
         clock \in Times
  PROVE  /\ Check(w, max).w \in [start : Times, count : Nat]
         /\ Check(w, max).w.count <= max + 1
<1> DEFINE fresh == IF clock - w.start >= Window THEN [start |-> clock, count |-> 0] ELSE w
           more  == IF fresh.count > max THEN fresh.count ELSE fresh.count + 1
<1>1. fresh \in [start : Times, count : Nat] /\ fresh.count <= max + 1 BY DEF Times
<1>2. Check(w, max).w = [fresh EXCEPT !.count = more] BY DEF Check
<1> HIDE DEF fresh
<1>3. more \in Nat /\ more <= max + 1 BY <1>1
<1> QED BY <1>1, <1>2, <1>3

\* The beginning of an exchange.
LEMMA ExchangeInv ==
  ASSUME IInv, NEW r \in Reqs, NEW c \in Creds, NEW ip \in Ips, NEW secret \in BOOLEAN,
         Exchange(r, c, ip, secret)
  PROVE  IInv'
<1>1. /\ clock \in Times /\ req \in [Reqs -> Requests] /\ lock \in [Creds -> Opt(Reqs)]
      /\ windows \in [Keys -> [start : Times, count : Nat]]
      /\ admitted \in [Keys -> Seq(Times)] /\ cred \in [Creds -> Opt(Rows)]
  BY DEF IInv, TypeOK
<1>2. c \in Keys /\ ip \in Keys /\ c # ip BY DEF Keys
<1>3. \A d \in Creds : windows[d].count <= MaxPerClient + 1 BY DEF IInv, TypeOK
<1>4. \A j \in Ips : windows[j].count <= MaxPerIp + 1 BY DEF IInv, TypeOK
<1>5. ClientCheck(c).w \in [start : Times, count : Nat] /\ ClientCheck(c).w.count <= MaxPerClient + 1
  BY <1>1, <1>2, <1>3, CheckBound DEF ClientCheck
<1>6. IpCheck(ip).w \in [start : Times, count : Nat] /\ IpCheck(ip).w.count <= MaxPerIp + 1
  BY <1>1, <1>2, <1>4, CheckBound DEF IpCheck
<1>7. \A k \in Keys : windows'[k] = IF k = c THEN ClientCheck(c).w
                        ELSE IF k = ip /\ ClientCheck(c).ok THEN IpCheck(ip).w ELSE windows[k]
  BY <1>2 DEF Exchange
<1>8. windows' \in [Keys -> [start : Times, count : Nat]]
  <2>1. \A k \in Keys : windows'[k] \in [start : Times, count : Nat] BY <1>1, <1>5, <1>6, <1>7
  <2>2. DOMAIN windows' = Keys /\ windows' = [k \in Keys |-> windows'[k]] BY DEF Exchange
  <2> QED BY <2>1, <2>2
<1>9. /\ \A d \in Creds : windows'[d].count <= MaxPerClient + 1
      /\ \A j \in Ips : windows'[j].count <= MaxPerIp + 1
  BY <1>3, <1>4, <1>5, <1>6, <1>7 DEF Keys
<1>10. UNCHANGED <<clock, cred, lock, tokens, used, overlap>> BY DEF Exchange
<1>11. CASE Allowed(c, ip)
  <2> DEFINE q == [Idle EXCEPT !.pc = "find", !.cred = c, !.secret = secret, !.late = Dead(cred[c])]
  <2>1. req' = [req EXCEPT ![r] = q] BY <1>11 DEF Exchange
  <2>2. Dead(cred[c]) \in BOOLEAN BY <1>1 DEF Dead, Rows, Opt
  <2>3. q \in Requests /\ q.pc = "find" /\ q.cred = c /\ q.late = Dead(cred[c])
    BY <2>2 DEF Idle, Requests, PCs, Opt
  <2> HIDE DEF q
  <2>4. RequestInv(q) /\ \A d : ~Reading(q, d) BY <2>3 DEF RequestInv, Reading
  <2>5. admitted' \in [Keys -> Seq(Times)]
    <3>1. admitted' = [k \in Keys |-> IF k \in {c, ip} THEN Append(admitted[k], clock)
                                                     ELSE admitted[k]]
      BY <1>11 DEF Exchange
    <3>2. \A k \in Keys : admitted[k] \in Seq(Times) /\ Append(admitted[k], clock) \in Seq(Times)
      BY <1>1
    <3> QED BY <3>1, <3>2
  <2> QED BY <1>1, <1>8, <1>9, <1>10, <2>1, <2>3, <2>4, <2>5, MoveInv
<1>12. CASE ~Allowed(c, ip)
  <2>1. UNCHANGED <<admitted, req>> BY <1>12 DEF Exchange
  <2>2. req' = [req EXCEPT ![r] = req[r]] /\ req[r] \in Requests /\ RequestInv(req[r])
    BY <1>1, <2>1 DEF IInv
  <2>3. req[r].pc = "idle" BY DEF Exchange
  <2>4. \A d : ~Reading(req[r], d) BY <2>3 DEF Reading
  <2> QED BY <1>1, <1>8, <1>9, <1>10, <2>1, <2>2, <2>4, MoveInv
<1> QED BY <1>11, <1>12

\* The rest of an exchange up to its commit, and of a revocation up to its commit.
LEMMA RequestStepInv ==
  ASSUME IInv, NEW r \in Reqs,
         Find(r) \/ Authenticate(r) \/ Flush(r) \/ FlushRevoke(r) \/ Abort(r)
  PROVE  IInv'
<1>1. /\ clock \in Times /\ req \in [Reqs -> Requests] /\ lock \in [Creds -> Opt(Reqs)]
      /\ cred \in [Creds -> Opt(Rows)]
  BY DEF IInv, TypeOK
<1>2. req[r] \in Requests /\ RequestInv(req[r]) BY <1>1 DEF IInv
<1>3. UNCHANGED <<clock, cred, tokens, used, overlap, windows, admitted>>
  BY DEF Find, Authenticate, Flush, FlushRevoke, Abort
<1>4. lock' \in [Creds -> Opt(Reqs)]
  BY <1>1 DEF Find, Authenticate, Flush, FlushRevoke, Abort, Unlock, Opt
<1>5. ASSUME End(r) PROVE IInv'
  BY <1>3, <1>4, <1>5, IdleInv, QuietMoveInv DEF End
<1>6. CASE Find(r)
  <2> DEFINE row == cred[req[r].cred]
             q == [req[r] EXCEPT !.pc = "check", !.row = row]
  <2>1. req' = [req EXCEPT ![r] = q] /\ req[r].pc = "find" BY <1>1, <1>6 DEF Find
  <2>2. req[r].cred \in Creds /\ row \in Opt(Rows) BY <1>1, <1>2, <2>1 DEF RequestInv
  <2>3. q \in Requests /\ q.pc = "check" /\ q.row = row /\ q.cred = req[r].cred
        /\ q.late = req[r].late
    BY <1>2, <2>2 DEF Requests, PCs
  <2>4. row # None => row.scopes \subseteq Grantable BY <2>2 DEF IInv, RowInv
  <2> HIDE DEF q
  <2>5. RequestInv(q) BY <1>2, <2>1, <2>2, <2>3, <2>4 DEF RequestInv
  <2>6. \A c \in Creds : Reading(q, c) /\ cred[c] # None /\ ~cred[c].active =>
          q.pc = "check" /\ q.row # None /\ ~q.row.active
    BY <2>3 DEF Reading
  <2> QED BY <1>3, <1>4, <2>1, <2>3, <2>5, <2>6, QuietMoveInv
<1>7. ASSUME NEW pc \in PCs, Goto(r, pc), RequestInv([req[r] EXCEPT !.pc = pc]),
             pc \in {"flush", "issue"} =>
               /\ req[r].pc \in {"check", "flush"} /\ req[r].row.active
               /\ req[r].row # None,
             pc # "check"
      PROVE  IInv'
  <2> DEFINE q == [req[r] EXCEPT !.pc = pc]
  <2>1. req' = [req EXCEPT ![r] = q] BY <1>1, <1>7 DEF Goto
  <2>2. q \in Requests /\ q.pc = pc /\ q.cred = req[r].cred BY <1>2 DEF Requests
  <2>3. ASSUME NEW c \in Creds, Reading(q, c), cred[c] # None, ~cred[c].active, ~overlap[c]
        PROVE  FALSE
    <3>1. Reading(req[r], c) BY <1>7, <2>2, <2>3 DEF Reading
    <3>2. ~req[r].row.active BY <2>3, <3>1 DEF IInv, RevokedInv
    <3> QED BY <1>7, <2>2, <2>3, <3>2 DEF Reading
  <2> HIDE DEF q
  <2> QED BY <1>3, <1>4, <1>7, <2>1, <2>2, <2>3, QuietMoveInv DEF q
<1>8. CASE Authenticate(r)
  <2>1. CASE ~Accepts(req[r]) /\ Deny(r) BY <2>1, <1>5 DEF Deny
  <2>2. CASE Accepts(req[r]) /\ Goto(r, "flush")
    <3>1. req[r].pc = "check" /\ req[r].row # None /\ req[r].row.active
      BY <1>8, <2>2 DEF Authenticate, Accepts
    <3>2. ~Dead(req[r].row)
      <4>1. req[r].row \in Rows BY <1>2, <3>1 DEF Requests, Opt
      <4> QED BY <1>1, <2>2, <4>1 DEF Accepts, Dead, Rows, Opt, Times
    <3>3. RequestInv([req[r] EXCEPT !.pc = "flush"])
      BY <1>2, <3>1, <3>2 DEF RequestInv, Requests
    <3> QED BY <2>2, <3>1, <3>3, <1>7 DEF PCs
  <2> QED BY <1>8, <2>1, <2>2 DEF Authenticate
<1>9. CASE Flush(r)
  <2>1. req[r].pc = "flush" /\ Goto(r, "issue") BY <1>9 DEF Flush
  <2>2. RequestInv([req[r] EXCEPT !.pc = "issue"])
    BY <1>2, <2>1 DEF RequestInv, Requests
  <2>3. req[r].row # None /\ req[r].row.active BY <1>2, <2>1 DEF RequestInv
  <2> QED BY <2>1, <2>2, <2>3, <1>7 DEF PCs
<1>10. CASE FlushRevoke(r)
  <2>1. req[r].pc = "rFlush" /\ Goto(r, "rCommit") BY <1>10 DEF FlushRevoke
  <2>2. RequestInv([req[r] EXCEPT !.pc = "rCommit"])
    BY <1>2, <2>1 DEF RequestInv, Requests
  <2> QED BY <2>1, <2>2, <1>7 DEF PCs
<1> QED BY <1>5, <1>6, <1>8, <1>9, <1>10 DEF Abort

\* A revocation begins: its caller is a person of the credential's tenant.
LEMMA RevokeInv ==
  ASSUME IInv, NEW r \in Reqs, NEW c \in Creds, NEW tok \in Callers, Revoke(r, c, tok)
  PROVE  IInv'
<1> DEFINE q == [Idle EXCEPT !.pc = "rFlush", !.cred = c, !.row = cred[c], !.by = By(tok)]
<1>1. req' = [req EXCEPT ![r] = q] /\ Revokable(c, tok) BY DEF Revoke
<1>2. tok.tenant \in Tenants /\ By(tok) = Human(tok.tenant) BY ManagerIsHuman DEF Revoke
<1>3. cred[c] \in Opt(Rows) /\ cred[c] # None /\ cred[c].tenant = tok.tenant
  BY <1>1 DEF IInv, TypeOK, Revokable
<1>4. q \in Requests /\ q.pc = "rFlush" /\ q.cred = c /\ q.by = Human(cred[c].tenant)
  <2>1. By(tok) \in Principals BY <1>2 DEF Human, Principals
  <2>2. q \in Requests BY <1>3, <2>1 DEF Idle, Requests, PCs, Opt
  <2>3. q.pc = "rFlush" /\ q.cred = c /\ q.by = By(tok) BY DEF Idle
  <2> QED BY <1>2, <1>3, <2>2, <2>3
<1> HIDE DEF q
<1>5. RequestInv(q) /\ \A d : ~Reading(q, d) BY <1>3, <1>4 DEF RequestInv, Reading
<1>6. lock' \in [Creds -> Opt(Reqs)]
      /\ UNCHANGED <<clock, cred, tokens, used, overlap, windows, admitted>>
  BY DEF Revoke, IInv, TypeOK
<1> QED BY <1>1, <1>4, <1>5, <1>6, QuietMoveInv

\* A token is used.
LEMMA UseInv == ASSUME IInv, NEW tok \in tokens, Use(tok) PROVE IInv'
<1>1. /\ clock \in Times /\ used \in [Creds -> Opt(Times)] /\ tok \in Tokens /\ TokenInv(tok)
      /\ cred \in [Creds -> Opt(Rows)] /\ clock \in Int
  BY DEF IInv, TypeOK, Times
<1>2. used' = [used EXCEPT ![tok.sub] = clock] /\ tok.sub \in Creds
  BY <1>1 DEF Use, TokenInv
<1>3. clock < tok.exp + Leeway /\ tok.exp \in Int BY <1>1 DEF Use, Verify, Tokens
<1>4. UNCHANGED <<clock, cred, lock, req, tokens, windows, admitted, overlap>> BY DEF Use
<1>5. TypeOK' BY <1>1, <1>2, <1>4 DEF IInv, TypeOK, Opt
<1>6. ASSUME NEW c \in Creds PROVE RowInv(c)' /\ RevokedInv(c)' /\ (used'[c] # None => used'[c] <= clock')
  <2>1. RowInv(c)' BY <1>4 DEF IInv, RowInv
  <2>2. used'[c] = IF c = tok.sub THEN clock ELSE used[c] BY <1>1, <1>2
  <2>3. used'[c] # None => used'[c] <= clock' BY <1>1, <1>4, <2>2 DEF IInv
  <2>4. RevokedInv(c)'
    <3>1. CASE c # tok.sub BY <3>1, <1>4, <2>2 DEF IInv, RevokedInv
    <3>2. CASE c = tok.sub
      <4>1. ASSUME cred[c] # None, ~cred[c].active, ~overlap[c]
            PROVE  clock < cred[c].revokedOn + TTL + Leeway
        <5>1. cred[c].revokedOn \in Times BY <4>1, <1>1 DEF IInv, RowInv, Rows, Opt
        <5>2. tok.exp <= cred[c].revokedOn + TTL BY <4>1, <3>2 DEF IInv, RevokedInv
        <5> QED BY <5>1, <5>2, <1>1, <1>3 DEF Times
      <4> QED BY <4>1, <3>2, <1>4, <2>2 DEF IInv, RevokedInv
    <3> QED BY <3>1, <3>2
  <2> QED BY <2>1, <2>3, <2>4
<1>7. \A u \in tokens' : TokenInv(u)' BY <1>4 DEF IInv, TokenInv
<1>8. \A r \in Reqs : RequestInv(req[r])' BY <1>4 DEF IInv, RequestInv, Dead
<1> QED BY <1>5, <1>6, <1>7, <1>8 DEF IInv

\* A change of one row that keeps its scopes, tenant and expiry and never makes it active
\* again disturbs no request in flight.
LEMMA RowChangeRequests ==
  ASSUME IInv, NEW c \in Creds, NEW row \in Rows, cred[c] # None,
         row.tenant = cred[c].tenant, row.expires = cred[c].expires,
         ~cred[c].active => ~row.active,
         cred' = [cred EXCEPT ![c] = row], clock' = clock,
         NEW s \in Reqs, req'[s] = req[s]
  PROVE  RequestInv(req[s])'
<1>1. /\ clock \in Times /\ cred \in [Creds -> Opt(Rows)] /\ cred[c] \in Rows
      /\ RequestInv(req[s])
  BY DEF IInv, TypeOK, Opt
<1>2. \A d \in Creds : cred'[d] = IF d = c THEN row ELSE cred[d] BY <1>1
<1>3. Dead(cred[c]) => Dead(row)' BY <1>1, DeadStays DEF Rows, Opt, Times
<1>4. \A d \in Creds : cred[d] # None =>
        cred'[d] # None /\ cred'[d].tenant = cred[d].tenant /\ (Dead(cred[d]) => Dead(cred[d])')
  BY <1>2, <1>3 DEF Dead
<1>5. \A d \in Creds : Dead(cred[d]) => cred[d] # None BY DEF Dead
<1>6. Dead(req[s].row) => Dead(req[s].row)' BY DEF Dead
<1> QED BY <1>1, <1>4, <1>5, <1>6 DEF RequestInv

\* A credential is created, by a person and with grantable scopes.
LEMMA CreateInv ==
  ASSUME IInv, NEW c \in Creds, NEW tok \in Callers, NEW scopes \in ScopeSets,
         NEW e \in Opt(Expiries), Create(c, tok, scopes, e)
  PROVE  IInv'
<1> DEFINE row == NewRow(tok, scopes, e)
<1>1. cred[c] = None /\ cred' = [cred EXCEPT ![c] = row] /\ scopes \subseteq Grantable
  BY DEF Create, MayIssue
<1>2. tok.tenant \in Tenants /\ By(tok) = Human(tok.tenant) BY ManagerIsHuman DEF Create
<1>3. By(tok) \in Principals BY <1>2 DEF Human, Principals
<1>4. row \in Rows BY <1>2, <1>3 DEF NewRow, Rows, Opt
<1>5. /\ row.scopes = scopes /\ row.tenant = tok.tenant /\ row.createdBy = By(tok)
      /\ row.revokedBy = None /\ row.active = TRUE /\ row.revokedOn = None
  BY DEF NewRow
<1>6. row # None BY <1>4
<1>7. UNCHANGED <<clock, lock, req, tokens, windows, admitted, used, overlap>> BY DEF Create
<1>8. cred \in [Creds -> Opt(Rows)] BY DEF IInv, TypeOK
<1> HIDE DEF row
<1>9. \A d \in Creds : cred'[d] = IF d = c THEN row ELSE cred[d] BY <1>1, <1>8
<1>10. TypeOK' BY <1>1, <1>4, <1>7 DEF IInv, TypeOK, Opt
<1>11. ASSUME NEW d \in Creds PROVE RowInv(d)' /\ RevokedInv(d)' /\ (used'[d] # None => used'[d] <= clock')
  <2>1. CASE d = c
    BY <2>1, <1>1, <1>2, <1>5, <1>6, <1>7, <1>9 DEF IInv, RowInv, RevokedInv
  <2>2. CASE d # c
    BY <2>2, <1>7, <1>9 DEF IInv, RowInv, RevokedInv
  <2> QED BY <2>1, <2>2
<1>12. \A u \in tokens' : TokenInv(u)' BY <1>7 DEF IInv, TokenInv
<1>13. ASSUME NEW r \in Reqs PROVE RequestInv(req[r])'
  <2>1. RequestInv(req[r]) BY DEF IInv
  <2>2. req[r].pc # "idle" => req[r].cred \in Creds BY <2>1 DEF RequestInv
  <2>3. CASE req[r].pc # "idle" /\ req[r].cred = c
    BY <1>1, <1>7, <2>1, <2>3 DEF RequestInv, Dead
  <2>4. CASE ~(req[r].pc # "idle" /\ req[r].cred = c)
    BY <1>7, <1>9, <2>1, <2>2, <2>4 DEF RequestInv, Dead
  <2> QED BY <2>3, <2>4
<1> QED BY <1>10, <1>11, <1>12, <1>13 DEF IInv

\* A token is issued: the exchange read an active row, so the credential was not revoked
\* without overlapping it.
LEMMA IssueInv == ASSUME IInv, NEW r \in Reqs, Issue(r) PROVE IInv'
<1> DEFINE c == req[r].cred
           old == req[r].row
           tok == ServiceToken(c, old, req[r].late)
<1>1. /\ clock \in Times /\ clock \in Int /\ req \in [Reqs -> Requests] /\ lock \in [Creds -> Opt(Reqs)]
      /\ cred \in [Creds -> Opt(Rows)] /\ req[r] \in Requests /\ RequestInv(req[r])
  BY DEF IInv, TypeOK, Times
<1>2. req[r].pc = "issue" BY DEF Issue
<1>3. /\ c \in Creds /\ old \in Rows /\ old.active /\ old.scopes \subseteq Grantable
      /\ ~req[r].late /\ cred[c] # None /\ cred[c] \in Rows
  BY <1>1, <1>2 DEF RequestInv, Requests, Opt
<1>4. PICK row \in Rows :
        /\ cred' = [cred EXCEPT ![c] = row]
        /\ row.tenant = cred[c].tenant /\ row.scopes = cred[c].scopes
        /\ row.expires = cred[c].expires /\ row.active = cred[c].active
        /\ row.revokedOn = cred[c].revokedOn /\ row.createdBy = cred[c].createdBy
        /\ row.revokedBy = cred[c].revokedBy
  <2>1. Touched(r) \in Rows BY <1>3 DEF Touched, Rows
  <2> QED BY <1>3, <2>1 DEF Issue, Touched, Rows
<1>5. row # None OBVIOUS
<1>6. tokens' = tokens \cup {tok} BY DEF Issue
<1>7. tok \in Tokens /\ tok.sub = c /\ tok.principal = "service" /\ tok.scopes = old.scopes
      /\ ~tok.late /\ tok.exp = clock + TTL
  <2>1. old.tenant \in Tenants /\ old.scopes \in SUBSET ScopeName /\ clock + TTL \in Int
    BY <1>1, <1>3 DEF Rows
  <2>2. c \in Opt(Creds) /\ req[r].late = FALSE BY <1>1, <1>3 DEF Requests, Opt
  <2>3. tok = [sub |-> c, tenant |-> old.tenant, scopes |-> old.scopes, principal |-> "service",
               exp |-> clock + TTL, late |-> FALSE]
    BY <2>2 DEF ServiceToken, SignedToken
  <2> HIDE DEF c, old, tok
  <2> QED BY <2>1, <2>2, <2>3 DEF Tokens
<1>8. req' = [req EXCEPT ![r] = Idle] /\ lock' \in [Creds -> Opt(Reqs)]
      /\ UNCHANGED <<clock, windows, admitted, used, overlap>>
  BY <1>1 DEF Issue, End, Unlock, Opt
<1>9. ~(~cred[c].active /\ ~overlap[c])
  BY <1>2, <1>3 DEF IInv, RevokedInv, Reading
<1> HIDE DEF c, old, tok
<1>10. \A d \in Creds : cred'[d] = IF d = c THEN row ELSE cred[d] BY <1>1, <1>3, <1>4
<1>11. \A s \in Reqs : req'[s] = IF s = r THEN Idle ELSE req[s] BY <1>1, <1>8
<1>12. TypeOK'
  BY <1>3, <1>4, <1>6, <1>7, <1>8, IdleInv DEF IInv, TypeOK, Opt
<1>13. ASSUME NEW d \in Creds PROVE RowInv(d)' /\ RevokedInv(d)' /\ (used'[d] # None => used'[d] <= clock')
  <2>1. CASE d = c
    <3>1. RowInv(d)' BY <2>1, <1>3, <1>4, <1>5, <1>8, <1>10 DEF IInv, RowInv
    <3>2. RevokedInv(d)' BY <2>1, <1>4, <1>8, <1>9, <1>10 DEF RevokedInv
    <3> QED BY <3>1, <3>2, <1>8 DEF IInv
  <2>2. CASE d # c
    <3>1. RowInv(d)' BY <2>2, <1>8, <1>10 DEF IInv, RowInv
    <3>2. RevokedInv(d)'
      BY <2>2, <1>6, <1>7, <1>8, <1>10, <1>11, IdleInv DEF IInv, RevokedInv
    <3> QED BY <3>1, <3>2, <1>8 DEF IInv
  <2> QED BY <2>1, <2>2
<1>14. ASSUME NEW u \in tokens' PROVE TokenInv(u)'
  BY <1>1, <1>3, <1>6, <1>7, <1>8, <1>14 DEF IInv, TokenInv
<1>15. ASSUME NEW s \in Reqs PROVE RequestInv(req[s])'
  <2>1. CASE s = r BY <2>1, <1>11 DEF RequestInv, Idle
  <2>2. CASE s # r BY <2>2, <1>3, <1>4, <1>8, <1>11, RowChangeRequests
  <2> QED BY <2>1, <2>2
<1> QED BY <1>12, <1>13, <1>14, <1>15 DEF IInv

\* A revocation is committed.
LEMMA CommitRevokeInv == ASSUME IInv, NEW r \in Reqs, CommitRevoke(r) PROVE IInv'
<1> DEFINE c == req[r].cred
<1>1. /\ clock \in Times /\ clock \in Int /\ req \in [Reqs -> Requests] /\ lock \in [Creds -> Opt(Reqs)]
      /\ cred \in [Creds -> Opt(Rows)] /\ req[r] \in Requests /\ RequestInv(req[r])
      /\ overlap \in [Creds -> BOOLEAN] /\ used \in [Creds -> Opt(Times)] /\ tokens \subseteq Tokens
  BY DEF IInv, TypeOK, Times
<1>2. req[r].pc = "rCommit" BY DEF CommitRevoke
<1>3. c \in Creds /\ cred[c] # None /\ cred[c] \in Rows /\ req[r].by = Human(cred[c].tenant)
      /\ req[r].by \in Opt(Principals)
  BY <1>1, <1>2 DEF RequestInv, Requests, Opt
<1>4. PICK row \in Rows :
        /\ cred' = [cred EXCEPT ![c] = row]
        /\ row.tenant = cred[c].tenant /\ row.scopes = cred[c].scopes
        /\ row.expires = cred[c].expires /\ row.active = FALSE
        /\ row.revokedOn = (IF cred[c].active THEN clock ELSE cred[c].revokedOn)
        /\ row.createdBy = cred[c].createdBy /\ row.revokedBy = req[r].by
  <2> DEFINE new == [cred[c] EXCEPT !.active = FALSE, !.revokedBy = req[r].by,
                                    !.revokedOn = IF cred[c].active THEN clock ELSE @]
  <2>1. new \in Rows BY <1>1, <1>3 DEF Rows, Opt
  <2>2. cred' = [cred EXCEPT ![c] = new] BY <1>1, <1>3 DEF CommitRevoke
  <2> QED BY <1>3, <2>1, <2>2 DEF Rows
<1>5. row # None OBVIOUS
<1>6. /\ req' = [req EXCEPT ![r] = Idle] /\ lock' \in [Creds -> Opt(Reqs)]
      /\ UNCHANGED <<clock, tokens, windows, admitted, used>>
      /\ overlap' = [overlap EXCEPT ![c] = @ \/ \E q \in Reqs : Reading(req[q], c)]
  BY <1>1 DEF CommitRevoke, End, Unlock, Opt
<1> HIDE DEF c
<1>7. \A d \in Creds : cred'[d] = IF d = c THEN row ELSE cred[d] BY <1>1, <1>3, <1>4
<1>8. \A s \in Reqs : req'[s] = IF s = r THEN Idle ELSE req[s] BY <1>1, <1>6
<1>9. /\ overlap' \in [Creds -> BOOLEAN] /\ \A d \in Creds : d # c => overlap'[d] = overlap[d]
      /\ ~overlap'[c] => ~overlap[c] /\ \A q \in Reqs : ~Reading(req[q], c)
  BY <1>1, <1>3, <1>6
<1>10. TypeOK' BY <1>1, <1>3, <1>4, <1>6, <1>9, IdleInv DEF IInv, TypeOK, Opt
<1>11. ASSUME NEW d \in Creds PROVE RowInv(d)' /\ RevokedInv(d)' /\ (used'[d] # None => used'[d] <= clock')
  <2>1. CASE d = c
    <3>1. RowInv(c) /\ RevokedInv(c) /\ (used[c] # None => used[c] <= clock) BY <1>3 DEF IInv
    <3>2. row.revokedOn \in Times /\ row.revokedOn <= clock
      BY <1>1, <1>3, <1>4, <3>1 DEF RowInv, Rows, Opt, Times
    <3>3. row.revokedOn # None BY <3>2 DEF Times
    <3>4. RowInv(d)' BY <2>1, <1>3, <1>4, <1>6, <1>7, <3>1, <3>2, <3>3 DEF RowInv
    <3>5. ASSUME ~overlap'[c]
          PROVE  /\ \A tok \in tokens : tok.sub = c => tok.exp <= row.revokedOn + TTL
                 /\ used[c] # None => used[c] < row.revokedOn + TTL + Leeway
      <4>1. CASE cred[c].active
        <5>1. row.revokedOn = clock BY <4>1, <1>4
        <5>2. \A tok \in tokens : tok.exp <= clock + TTL BY DEF IInv, TokenInv
        <5>3. used[c] # None => used[c] \in Int /\ used[c] <= clock BY <1>1, <1>3, <3>1 DEF Opt, Times
        <5> QED BY <5>1, <5>2, <5>3, <1>1
      <4>2. CASE ~cred[c].active
        BY <4>2, <1>3, <1>4, <1>9, <3>1, <3>5 DEF RevokedInv
      <4> QED BY <4>1, <4>2
    <3>6. ~overlap'[c] => \A s \in Reqs : ~Reading(req'[s], c)
      <4>1. ~Reading(Idle, c) BY IdleInv
      <4> QED BY <1>8, <1>9, <4>1 DEF Reading
    <3>7. RevokedInv(d)'
      BY <2>1, <1>3, <1>6, <1>7, <3>5, <3>6 DEF RevokedInv, Reading
    <3> QED BY <2>1, <3>1, <3>4, <3>7, <1>6
  <2>2. CASE d # c
    <3>1. RowInv(d)' BY <2>2, <1>6, <1>7 DEF IInv, RowInv
    <3>2. RevokedInv(d)'
      BY <2>2, <1>6, <1>7, <1>8, <1>9, IdleInv DEF IInv, RevokedInv
    <3> QED BY <3>1, <3>2, <1>6 DEF IInv
  <2> QED BY <2>1, <2>2
<1>12. \A u \in tokens' : TokenInv(u)' BY <1>6 DEF IInv, TokenInv
<1>13. ASSUME NEW s \in Reqs PROVE RequestInv(req[s])'
  <2>1. CASE s = r BY <2>1, <1>8 DEF RequestInv, Idle
  <2>2. CASE s # r BY <2>2, <1>3, <1>4, <1>6, <1>8, RowChangeRequests
  <2> QED BY <2>1, <2>2
<1> QED BY <1>10, <1>11, <1>12, <1>13 DEF IInv

-----------------------------------------------------------------------------
(***************************************************************************)
(* The limiters.  WindowInv places the admissions of a key against the     *)
(* window that is open: when a new one opens, those of the last one are at *)
(* most a limit, and all before them are a whole window older.             *)
(***************************************************************************)

\* The part of the invariant that is about one key, of its window and admissions as values.
Places(w, s, max) ==
  LET open == IF w.count < max THEN w.count ELSE max
  IN  /\ \A i \in 1..Len(s) : s[i] < w.start + Window
      /\ \A i \in 1..(Len(s) - open) : s[i] < w.start
      /\ \A i \in 1..(Len(s) - open - max) : s[i] + Window <= w.start

Spread(s, max) == \A i, j \in 1..Len(s) : j - i >= 2 * max => s[j] - s[i] >= Window

\* One call of check: when it returns, one more admission keeps the bound; when it raises,
\* or the other limiter does, the admissions stay placed.
LEMMA CheckPlaces ==
  ASSUME NEW w \in [start : Times, count : Nat], NEW max \in Nat \ {0}, NEW s \in Seq(Times),
         clock \in Times, w.start <= clock, Places(w, s, max), Spread(s, max)
  PROVE  /\ Check(w, max).w.start <= clock
         /\ Places(Check(w, max).w, s, max)
         /\ Check(w, max).ok => /\ Places(Check(w, max).w, Append(s, clock), max)
                                /\ Spread(Append(s, clock), max)
<1> DEFINE fresh == IF clock - w.start >= Window THEN [start |-> clock, count |-> 0] ELSE w
           more  == IF fresh.count > max THEN fresh.count ELSE fresh.count + 1
           t == Append(s, clock)
<1>1. fresh \in [start : Times, count : Nat] /\ fresh.start <= clock /\ clock < fresh.start + Window
  BY DEF Times
<1>2. Len(s) \in Nat /\ \A i \in 1..Len(s) : s[i] \in Int BY DEF Times
<1>3. Places(fresh, s, max)
  <2>1. CASE clock - w.start >= Window
    <3>1. fresh.start = clock /\ fresh.count = 0 BY <2>1
    <3>2. ASSUME NEW i \in 1..Len(s) PROVE s[i] < clock
      BY <1>2, <2>1 DEF Places, Times
    <3>3. ASSUME NEW i \in 1..(Len(s) - max) PROVE s[i] + Window <= clock
      <4> DEFINE open == IF w.count < max THEN w.count ELSE max
      <4>1. open \in Nat /\ open <= max OBVIOUS
      <4>2. i \in 1..(Len(s) - open) BY <1>2, <4>1
      <4>3. s[i] < w.start BY <4>2 DEF Places
      <4> QED BY <1>2, <2>1, <4>1, <4>2, <4>3, SMTT(40) DEF Times
    <3>4. \A i \in 1..(Len(s) - 0 - max) : s[i] + Window <= clock BY <1>2, <3>3
    <3> HIDE DEF fresh
    <3>5. (IF fresh.count < max THEN fresh.count ELSE max) = 0 BY <3>1
    <3>6. \A i \in 1..(Len(s) - 0) : s[i] < clock BY <1>2, <3>2
    <3>7. \A i \in 1..Len(s) : s[i] < clock + Window BY <1>2, <3>2 DEF Times
    <3> QED BY <3>1, <3>4, <3>5, <3>6, <3>7 DEF Places
  <2>2. CASE ~(clock - w.start >= Window) BY <2>2
  <2> QED BY <2>1, <2>2
<1>4. /\ Check(w, max).w = [fresh EXCEPT !.count = more]
      /\ Check(w, max).ok = (more <= max)
  BY DEF Check
<1> HIDE DEF fresh
<1>5. /\ Check(w, max).w.start = fresh.start /\ Check(w, max).w.count = more
      /\ more \in Nat /\ more >= fresh.count
  BY <1>1, <1>4
<1> DEFINE old == IF fresh.count < max THEN fresh.count ELSE max
           new == IF more < max THEN more ELSE max
<1>6. /\ \A i \in 1..Len(s) : s[i] < fresh.start + Window
      /\ \A i \in 1..(Len(s) - old) : s[i] < fresh.start
      /\ \A i \in 1..(Len(s) - old - max) : s[i] + Window <= fresh.start
  BY <1>3 DEF Places
<1>7. old \in Nat /\ new \in Nat /\ old <= new BY <1>1, <1>5
<1>8. Places(Check(w, max).w, s, max)
  <2>1. \A i \in 1..(Len(s) - new) : i \in 1..(Len(s) - old) BY <1>2, <1>7
  <2>2. \A i \in 1..(Len(s) - new - max) : i \in 1..(Len(s) - old - max) BY <1>2, <1>7
  <2> HIDE DEF more, old
  <2>3. \A i \in 1..(Len(s) - new) : s[i] < fresh.start BY <1>6, <2>1
  <2>4. \A i \in 1..(Len(s) - new - max) : s[i] + Window <= fresh.start BY <1>6, <2>2
  <2>5. new = IF Check(w, max).w.count < max THEN Check(w, max).w.count ELSE max BY <1>5
  <2> HIDE DEF new
  <2> QED BY <1>5, <1>6, <2>3, <2>4, <2>5 DEF Places
<1>9. ASSUME Check(w, max).ok
      PROVE  Places(Check(w, max).w, t, max) /\ Spread(t, max)
  <2>1. old = fresh.count /\ new = old + 1 /\ new <= max
    <3>1. more <= max BY <1>4, <1>9
    <3>2. more = fresh.count + 1 BY <1>1, <3>1
    <3> QED BY <1>1, <3>1, <3>2
  <2>2. /\ Len(t) = Len(s) + 1 /\ t[Len(s) + 1] = clock
        /\ \A i \in 1..Len(s) : t[i] = s[i]
    OBVIOUS
  <2> HIDE DEF t, more, old
  <2>3. Places(Check(w, max).w, t, max)
    <3>1. \A i \in 1..Len(t) : t[i] < fresh.start + Window
      BY <1>1, <1>2, <1>6, <2>2
    <3>2. \A i \in 1..(Len(t) - new) : t[i] < fresh.start
      <4>1. Len(t) - new = Len(s) - old /\ Len(s) - old <= Len(s) BY <1>2, <1>7, <2>1, <2>2
      <4>2. \A i \in 1..(Len(s) - old) : i \in 1..Len(s) BY <1>2, <1>7
      <4> QED BY <1>6, <2>2, <4>1, <4>2
    <3>3. \A i \in 1..(Len(t) - new - max) : t[i] + Window <= fresh.start
      <4>1. Len(t) - new - max = Len(s) - old - max BY <1>2, <1>7, <2>1, <2>2, SMTT(40)
      <4>2. \A i \in 1..(Len(s) - old - max) : i \in 1..Len(s) BY <1>2, <1>7
      <4> QED BY <1>6, <2>2, <4>1, <4>2
    <3>4. new = IF Check(w, max).w.count < max THEN Check(w, max).w.count ELSE max BY <1>5
    <3> HIDE DEF new
    <3> QED BY <1>5, <3>1, <3>2, <3>3, <3>4 DEF Places
  <2>4. Spread(t, max)
    <3> SUFFICES ASSUME NEW i \in 1..Len(t), NEW j \in 1..Len(t), j - i >= 2 * max
                 PROVE  t[j] - t[i] >= Window
      BY DEF Spread
    <3>1. CASE j <= Len(s)
      <4>1. i \in 1..Len(s) /\ j \in 1..Len(s) BY <1>2, <2>2, <3>1
      <4> QED BY <2>2, <4>1 DEF Spread
    <3>2. CASE j = Len(s) + 1
      <4>1. i \in 1..(Len(s) - old - max) /\ i \in 1..Len(s) BY <1>2, <1>7, <2>1, <2>2, <3>2, SMTT(40)
      <4>2. s[i] + Window <= fresh.start /\ t[i] = s[i] /\ s[i] \in Int BY <1>2, <1>6, <2>2, <4>1
      <4>3. t[j] = clock BY <2>2, <3>2
      <4>4. clock \in Int /\ fresh.start \in Int /\ Window \in Int BY <1>1 DEF Times
      <4>5. clock - s[i] >= Window BY <1>1, <4>2, <4>4
      <4> QED BY <4>2, <4>3, <4>5
    <3> QED BY <1>2, <2>2, <3>1, <3>2, SMTT(40)
  <2> QED BY <2>3, <2>4
<1> QED BY <1>1, <1>5, <1>8, <1>9

\* The two forms of the invariant.
LEMMA RateInvForm ==
  RateInv <=> \A k \in Keys : /\ windows[k].start <= clock
                              /\ Places(windows[k], admitted[k], Limit(k))
                              /\ Spread(admitted[k], Limit(k))
BY DEF RateInv, RateBound, WindowInv, Open, Places, Spread

LEMMA RateInit == Init => RateInv
<1> SUFFICES ASSUME Init PROVE RateInv OBVIOUS
<1>1. \A k \in Keys : windows[k] = [start |-> 0, count |-> 0] /\ admitted[k] = <<>> /\ clock = 0
  BY DEF Init
<1>2. \A k \in Keys : Limit(k) \in Nat \ {0} BY DEF Limit
<1>3. ASSUME NEW k \in Keys
      PROVE  Places(windows[k], admitted[k], Limit(k)) /\ Spread(admitted[k], Limit(k))
  BY <1>1, <1>2 DEF Places, Spread
<1> QED BY <1>1, <1>3, RateInvForm

LEMMA RateExchange ==
  ASSUME IInv, RateInv, NEW r \in Reqs, NEW c \in Creds, NEW ip \in Ips, NEW secret \in BOOLEAN,
         Exchange(r, c, ip, secret)
  PROVE  RateInv'
<1>1. /\ clock \in Times /\ windows \in [Keys -> [start : Times, count : Nat]]
      /\ admitted \in [Keys -> Seq(Times)]
  BY DEF IInv, TypeOK
<1>2. c \in Keys /\ ip \in Keys /\ c # ip /\ Limit(c) = MaxPerClient /\ Limit(ip) = MaxPerIp
  BY DEF Keys, Limit
<1>3. \A k \in Keys : windows'[k] = IF k = c THEN ClientCheck(c).w
                        ELSE IF k = ip /\ ClientCheck(c).ok THEN IpCheck(ip).w ELSE windows[k]
  BY <1>2 DEF Exchange
<1>4. \A k \in Keys : admitted'[k] = IF Allowed(c, ip) /\ k \in {c, ip}
                                     THEN Append(admitted[k], clock) ELSE admitted[k]
  BY DEF Exchange
<1>5. clock' = clock BY DEF Exchange
<1>6. \A k \in Keys : /\ windows[k].start <= clock
                      /\ Places(windows[k], admitted[k], Limit(k))
                      /\ Spread(admitted[k], Limit(k))
  BY RateInvForm
<1>7. ASSUME NEW k \in {c, ip}
      PROVE  LET a == Check(windows[k], Limit(k)) IN
             /\ a.w.start <= clock /\ Places(a.w, admitted[k], Limit(k))
             /\ a.ok => /\ Places(a.w, Append(admitted[k], clock), Limit(k))
                        /\ Spread(Append(admitted[k], clock), Limit(k))
  <2>1. k \in Keys /\ Limit(k) \in Nat \ {0} BY <1>2
  <2>2. windows[k] \in [start : Times, count : Nat] /\ admitted[k] \in Seq(Times) BY <1>1, <2>1
  <2> QED BY <1>1, <1>6, <2>1, <2>2, CheckPlaces
<1>8. ASSUME NEW k \in Keys
      PROVE  /\ windows'[k].start <= clock'
             /\ Places(windows'[k], admitted'[k], Limit(k))
             /\ Spread(admitted'[k], Limit(k))
  <2>1. CASE k = c
    <3>1. windows'[c] = Check(windows[c], Limit(c)).w BY <1>2, <1>3 DEF ClientCheck
    <3>2. Allowed(c, ip) => Check(windows[c], Limit(c)).ok BY <1>2 DEF Allowed, ClientCheck
    <3>3. admitted'[c] = IF Allowed(c, ip) THEN Append(admitted[c], clock) ELSE admitted[c]
      BY <1>2, <1>4
    <3> QED BY <1>2, <1>5, <1>6, <1>7, <2>1, <3>1, <3>2, <3>3
  <2>2. CASE k = ip
    <3>1. windows'[ip] = IF ClientCheck(c).ok THEN Check(windows[ip], Limit(ip)).w ELSE windows[ip]
      BY <1>2, <1>3 DEF IpCheck
    <3>2. Allowed(c, ip) => Check(windows[ip], Limit(ip)).ok /\ ClientCheck(c).ok
      BY <1>2 DEF Allowed, IpCheck
    <3>3. admitted'[ip] = IF Allowed(c, ip) THEN Append(admitted[ip], clock) ELSE admitted[ip]
      BY <1>2, <1>4
    <3> QED BY <1>2, <1>5, <1>6, <1>7, <2>2, <3>1, <3>2, <3>3
  <2>3. CASE k # c /\ k # ip BY <1>3, <1>4, <1>5, <1>6, <2>3
  <2> QED BY <2>1, <2>2, <2>3
<1> QED BY <1>8, RateInvForm DEF RateInv, RateBound, WindowInv, Open, Places, Spread, Limit

-----------------------------------------------------------------------------
(***************************************************************************)
(* The theorems.                                                           *)
(***************************************************************************)

\* The inductive invariant holds in every state.
THEOREM Invariance == Spec => []IInv
<1>1. IInv /\ [Next]_vars => IInv'
  <2> SUFFICES ASSUME IInv, [Next]_vars PROVE IInv' OBVIOUS
  <2>1. CASE UNCHANGED vars
    BY <2>1 DEF vars, IInv, TypeOK, RowInv, RevokedInv, TokenInv, RequestInv, Dead, Reading
  <2> QED BY <2>1, TickInv, CreateInv, UseInv, ExchangeInv, RequestStepInv, IssueInv, RevokeInv,
             CommitRevokeInv DEF Next
<1> QED BY <1>1, InitInv, PTL DEF Spec

\* Rows, requests, tokens and counters keep their shape, and a counter of the limiters
\* stays within one of its limit.
THEOREM TypeCorrect == Spec => []TypeOK
<1>1. IInv => TypeOK BY DEF IInv
<1> QED BY <1>1, Invariance, PTL

\* No chain of credentials and tokens manages a credential: people of its own tenant do
\* (auth/service.py, _GRANTABLE_SCOPES).
THEOREM HumansManageHolds == Spec => []HumansManage
<1>1. IInv => HumansManage BY DEF IInv, RowInv, HumansManage, Human
<1> QED BY <1>1, Invariance, PTL

\* An exchange that begins after the revocation or the expiry of its credential never gets a
\* token (auth/service.py, authenticate).
THEOREM NoLateTokenHolds == Spec => []NoLateToken
<1>1. IInv => NoLateToken BY DEF IInv, TokenInv, NoLateToken
<1> QED BY <1>1, Invariance, PTL

\* When no exchange was under way at the revocation, no token of the credential is accepted
\* after one lifetime and the tolerance (auth/tokens.py, auth/service.py).
THEOREM BlastRadiusHolds == Spec => []BlastRadius
<1>1. IInv => BlastRadius BY DEF IInv, RevokedInv, BlastRadius
<1> QED BY <1>1, Invariance, PTL

\* However the windows fall, any more than twice the limit of exchanges let through take at
\* least a window, per client and per address (auth/rate_limit.py, check).
THEOREM RateBoundHolds == Spec => []RateBound
<1>1. IInv /\ RateInv /\ [Next]_vars => RateInv'
  <2> SUFFICES ASSUME IInv, RateInv, [Next]_vars PROVE RateInv' OBVIOUS
  <2>1. CASE UNCHANGED <<windows, admitted>> /\ clock' \in Times /\ clock <= clock'
    <3>1. \A k \in Keys : windows[k].start \in Times BY DEF IInv, TypeOK
    <3>2. clock \in Times BY DEF IInv, TypeOK
    <3> QED BY <2>1, <3>1, <3>2 DEF RateInv, RateBound, WindowInv, Open, Limit, Times
  <2>2. clock \in Times BY DEF IInv, TypeOK
  <2>3. CASE UNCHANGED <<windows, admitted, clock>> BY <2>1, <2>2, <2>3 DEF Times
  <2>4. CASE Tick BY <2>1, <2>2, <2>4 DEF Tick, Times
  <2>5. CASE \E c \in Creds, tok \in Callers, scopes \in ScopeSets, e \in Opt(Expiries) :
               Create(c, tok, scopes, e)
    BY <2>3, <2>5 DEF Create
  <2>6. CASE \E r \in Reqs : Find(r) \/ Authenticate(r) \/ Flush(r) \/ Issue(r)
    BY <2>3, <2>6 DEF Find, Authenticate, Flush, Issue
  <2>7. CASE \E r \in Reqs : FlushRevoke(r) \/ CommitRevoke(r) \/ Abort(r)
    BY <2>3, <2>7 DEF FlushRevoke, CommitRevoke, Abort
  <2>8. CASE (\E tok \in tokens : Use(tok))
             \/ (\E r \in Reqs, c \in Creds, tok \in Callers : Revoke(r, c, tok))
    BY <2>3, <2>8 DEF Use, Revoke
  <2>9. CASE UNCHANGED vars BY <2>3, <2>9 DEF vars
  <2> QED BY <2>4, <2>5, <2>6, <2>7, <2>8, <2>9, RateExchange DEF Next
<1>2. RateInv => RateBound BY DEF RateInv
<1> QED BY <1>1, <1>2, RateInit, Invariance, PTL DEF Spec

\* A committed revocation is final, and so is its time (auth/service.py, revoke).
THEOREM RevocationFinalHolds == Spec => RevocationFinal
<1> DEFINE Final == \A c \in Creds : cred[c] # None /\ ~cred[c].active =>
             cred'[c] # None /\ ~cred'[c].active /\ cred'[c].revokedOn = cred[c].revokedOn
<1>1. IInv /\ [Next]_vars => [Final]_vars
  <2> SUFFICES ASSUME IInv, Next, NEW c \in Creds, cred[c] # None, ~cred[c].active
               PROVE  cred'[c] # None /\ ~cred'[c].active /\ cred'[c].revokedOn = cred[c].revokedOn
    OBVIOUS
  <2>1. cred \in [Creds -> Opt(Rows)] /\ cred[c] \in Rows BY DEF IInv, TypeOK, Opt
  <2>2. CASE cred' = cred BY <2>2
  <2>3. ASSUME NEW d \in Creds, NEW tok \in Callers, NEW scopes \in ScopeSets,
               NEW e \in Opt(Expiries), Create(d, tok, scopes, e)
        PROVE  cred'[c] = cred[c]
    BY <2>1, <2>3 DEF Create
  <2>4. ASSUME NEW r \in Reqs, Issue(r)
        PROVE  cred'[c] # None /\ ~cred'[c].active /\ cred'[c].revokedOn = cred[c].revokedOn
    <3>1. CASE req[r].cred # c BY <2>1, <2>4, <3>1 DEF Issue
    <3>2. CASE req[r].cred = c
      <4>1. cred'[c] = [cred[c] EXCEPT !.lastUsed = TRUE]
        BY <2>1, <2>4, <3>2 DEF Issue, Touched
      <4>2. cred'[c] \in Rows BY <2>1, <4>1 DEF Rows
      <4> QED BY <2>1, <4>1, <4>2 DEF Rows
    <3> QED BY <3>1, <3>2
  <2>5. ASSUME NEW r \in Reqs, CommitRevoke(r)
        PROVE  cred'[c] # None /\ ~cred'[c].active /\ cred'[c].revokedOn = cred[c].revokedOn
    <3>1. CASE req[r].cred # c BY <2>1, <2>5, <3>1 DEF CommitRevoke
    <3>2. CASE req[r].cred = c
      <4>1. cred'[c] = [cred[c] EXCEPT !.active = FALSE, !.revokedBy = req[r].by,
                                       !.revokedOn = cred[c].revokedOn]
        BY <2>1, <2>5, <3>2 DEF CommitRevoke
      <4>2. req[r].by \in Opt(Principals) BY DEF IInv, TypeOK, Requests
      <4>3. cred'[c] \in Rows BY <2>1, <4>1, <4>2 DEF Rows
      <4> QED BY <2>1, <4>1, <4>3 DEF Rows
    <3> QED BY <3>1, <3>2
  <2>6. CASE Tick \/ (\E tok \in tokens : Use(tok)) BY <2>2, <2>6 DEF Tick, Use
  <2>7. CASE \E r \in Reqs, d \in Creds, ip \in Ips, secret \in BOOLEAN : Exchange(r, d, ip, secret)
    BY <2>2, <2>7 DEF Exchange
  <2>8. CASE \E r \in Reqs : Find(r) \/ Authenticate(r) \/ Flush(r) \/ FlushRevoke(r) \/ Abort(r)
    BY <2>2, <2>8 DEF Find, Authenticate, Flush, FlushRevoke, Abort
  <2>9. CASE \E r \in Reqs, d \in Creds, tok \in Callers : Revoke(r, d, tok)
    BY <2>2, <2>9 DEF Revoke
  <2> QED BY <2>3, <2>4, <2>5, <2>6, <2>7, <2>8, <2>9 DEF Next
<1> QED BY <1>1, Invariance, PTL DEF Spec, RevocationFinal

=============================================================================
