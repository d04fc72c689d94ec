--------------------------- MODULE ServiceCredentials ---------------------------
(***************************************************************************)
(* Service credentials: how a partner outside the platform obtains tokens. *)
(* A tenant's administrator creates and revokes credentials; a partner     *)
(* exchanges client_id and client_secret for a signed token, rate limited  *)
(* in the process, and uses the token until it expires.                    *)
(*                                                                         *)
(* An exchange and a revocation are transactions on the credential's row:  *)
(* they read it, flush an UPDATE of the columns they changed, which locks  *)
(* the row, and commit.  Tokens are bearer tokens: verified by signature   *)
(* and expiry, never looked up.  Time is a clock of whole ticks.           *)
(***************************************************************************)
EXTENDS Integers, FiniteSets, Sequences

CONSTANTS
  Creds,         \* credentials, by id and by client_id
  Tenants,
  Reqs,          \* request slots: exchanges and revocations in flight
  Ips,           \* source addresses
  None,          \* the absent value
  ScopeSets,     \* the scopes a create request may ask for
  Expiries,      \* the expires_at a create request may ask for
  TTL,           \* service_token_ttl_seconds
  Leeway,        \* jwt_leeway_seconds
  Window,        \* window_seconds of both limiters
  MaxPerClient,  \* max_requests of _client_rate_limiter
  MaxPerIp,      \* max_requests of _ip_rate_limiter
  MaxClock,      \* bound: the clock
  MaxTokens      \* bound: tokens outstanding

ScopeName == {"prediction:execute", "tenant:admin", "service_credential:manage"}

ASSUME TimeAssumption ==
  /\ TTL \in Nat \ {0} /\ Leeway \in Nat /\ Window \in Nat \ {0}
  /\ MaxPerClient \in Nat \ {0} /\ MaxPerIp \in Nat \ {0}
  /\ MaxClock \in Nat /\ MaxTokens \in Nat
ASSUME InputAssumption == ScopeSets \subseteq SUBSET ScopeName /\ Expiries \subseteq Int
ASSUME NoneAssumption == None \notin Creds \cup Tenants \cup Reqs \cup Int
ASSUME KeyAssumption == Creds \cap Ips = {}

VARIABLES
  clock,
  cred,      \* cred[c]: the committed row of service_credentials, or None
  lock,      \* lock[c]: the request whose transaction has updated the row, or None
  req,       \* req[r]: the request in slot r
  tokens,    \* the service tokens handed out
  windows,   \* windows[k]: the limiters' (window_start, count) of a client or an address
  admitted,  \* admitted[k]: when exchanges of key k were let past the limiters, in order
  used,      \* used[c]: when a token of c was last accepted, or None
  overlap    \* overlap[c]: an exchange of c had read the row when its revocation was committed

vars == <<clock, cred, lock, req, tokens, windows, admitted, used, overlap>>

Times == 0..MaxClock
Opt(S) == S \cup {None}
Keys == Creds \cup Ips

\* _GRANTABLE_SCOPES
Grantable == ScopeName \ {"tenant:admin", "service_credential:manage"}

Principals == [principal : {"human", "service"}, tenant : Tenants]

\* A row, without its two time stamps; createdBy and revokedBy are the principals of its
\* audit events, and revokedOn is when its first revocation was committed.
Rows == [tenant : Tenants, scopes : SUBSET ScopeName, active : BOOLEAN,
         expires : Opt(Int), lastUsed : BOOLEAN,
         revokedOn : Opt(Times), createdBy : Principals, revokedBy : Opt(Principals)]
ASSUME RowAssumption == None \notin Rows

\* TokenClaims.  sub is None for a person; late says the exchange began when the
\* credential was already revoked or expired.
Tokens == [sub : Opt(Creds), tenant : Tenants, scopes : SUBSET ScopeName,
           principal : {"human", "service"}, exp : Int, late : BOOLEAN]

PCs == {"idle", "find", "check", "flush", "issue", "rFlush", "rCommit"}
Requests == [pc : PCs, cred : Opt(Creds), secret : BOOLEAN, row : Opt(Rows),
             by : Opt(Principals), late : BOOLEAN]
Idle == [pc |-> "idle", cred |-> None, secret |-> FALSE, row |-> None,
         by |-> None, late |-> FALSE]

Init ==
  /\ clock = 0
  /\ cred = [c \in Creds |-> None]
  /\ lock = [c \in Creds |-> None]
  /\ req = [r \in Reqs |-> Idle]
  /\ tokens = {}
  /\ windows = [k \in Keys |-> [start |-> 0, count |-> 0]]
  /\ admitted = [k \in Keys |-> <<>>]
  /\ used = [c \in Creds |-> None]
  /\ overlap = [c \in Creds |-> FALSE]

Tick ==
  /\ clock < MaxClock
  /\ clock' = clock + 1
  /\ UNCHANGED <<cred, lock, req, tokens, windows, admitted, used, overlap>>

Goto(r, pc) == req' = [req EXCEPT ![r].pc = pc]
End(r) == req' = [req EXCEPT ![r] = Idle]
Unlock(r) == lock' = [c \in Creds |-> IF lock[c] = r THEN None ELSE lock[c]]

-----------------------------------------------------------------------------
(***************************************************************************)
(* Tokens.                                                                 *)
(***************************************************************************)

\* build_signed_token; late is not in the token.
SignedToken(sub, tenant, scopes, principal, ttl, late) ==
  [sub |-> sub, tenant |-> tenant, scopes |-> scopes, principal |-> principal,
   exp |-> clock + ttl, late |-> late]

\* issue_service_token: the credential's tenant and scopes, the platform's lifetime.
ServiceToken(c, row, late) == SignedToken(c, row.tenant, row.scopes, "service", TTL, late)

\* issue_dev_token: an administrator of the tenant with a fresh token.
HumanToken(t) == SignedToken(None, t, ScopeName, "human", 1, FALSE)

\* Mutant: a token is still good when its time is up.
VerifyInclusive(tok) == tok.exp >= clock - Leeway

\* LocalDevTokenVerifier.verify of a token with a good signature.
Verify(tok) == tok.exp > clock - Leeway

\* Who may present a token, and whether require_scopes lets them in.
Callers == tokens \cup {HumanToken(t) : t \in Tenants}
Authorized(tok, scope) == Verify(tok) /\ scope \in tok.scopes

By(tok) == [principal |-> tok.principal, tenant |-> tok.tenant]

\* Any route a service may call: the request is let in.
Use(tok) ==
  /\ tok \in tokens /\ Verify(tok)
  /\ used' = [used EXCEPT ![tok.sub] = clock]
  /\ UNCHANGED <<clock, cred, lock, req, tokens, windows, admitted, overlap>>

-----------------------------------------------------------------------------
(***************************************************************************)
(* create_service_credential.                                              *)
(***************************************************************************)

\* issue_credential: UngrantableScopeError, ExpiryInThePastError.
MayIssue(scopes, expires) ==
  /\ scopes \subseteq Grantable
  /\ expires # None => expires > clock

NewRow(tok, scopes, expires) ==
  [tenant |-> tok.tenant, scopes |-> scopes, active |-> TRUE, expires |-> expires,
   lastUsed |-> FALSE, revokedOn |-> None, createdBy |-> By(tok),
   revokedBy |-> None]

Create(c, tok, scopes, expires) ==
  /\ cred[c] = None
  /\ Authorized(tok, "service_credential:manage")
  /\ MayIssue(scopes, expires)
  /\ cred' = [cred EXCEPT ![c] = NewRow(tok, scopes, expires)]
  /\ UNCHANGED <<clock, lock, req, tokens, windows, admitted, used, overlap>>

-----------------------------------------------------------------------------
(***************************************************************************)
(* exchange_service_token.                                                 *)
(***************************************************************************)

\* Mutant: one request more than the limit.
CheckLenient(w, max) ==
  LET fresh == IF clock - w.start >= Window THEN [start |-> clock, count |-> 0] ELSE w
      more  == IF fresh.count > max THEN fresh.count ELSE fresh.count + 1
  IN  [w |-> [fresh EXCEPT !.count = more], ok |-> fresh.count <= max]

\* InMemoryFixedWindowRateLimiter.check: the window it stores and whether it returns.
\* Counts beyond the limit are all refused, so they are kept at one more than it.
Check(w, max) ==
  LET fresh == IF clock - w.start >= Window THEN [start |-> clock, count |-> 0] ELSE w
      more  == IF fresh.count > max THEN fresh.count ELSE fresh.count + 1
  IN  [w |-> [fresh EXCEPT !.count = more], ok |-> more <= max]

ClientCheck(c) == Check(windows[c], MaxPerClient)
IpCheck(ip) == Check(windows[ip], MaxPerIp)
Allowed(c, ip) == ClientCheck(c).ok /\ IpCheck(ip).ok

\* The credential is revoked or expired.
Dead(row) == row # None /\ (~row.active \/ (row.expires # None /\ row.expires <= clock))

\* The client's limiter comes first; the address is charged only when it lets through.
\* A refused request is answered 429 and ends.
Exchange(r, c, ip, secret) ==
  /\ req[r].pc = "idle"
  /\ windows' = [k \in Keys |-> CASE k = c -> ClientCheck(c).w
                                  [] k = ip /\ ClientCheck(c).ok -> IpCheck(ip).w
                                  [] OTHER -> windows[k]]
  /\ \/ /\ Allowed(c, ip)
        /\ admitted' = [k \in Keys |-> IF k \in {c, ip} THEN Append(admitted[k], clock)
                                                        ELSE admitted[k]]
        /\ req' = [req EXCEPT ![r] = [Idle EXCEPT !.pc = "find", !.cred = c, !.secret = secret,
                                        !.late = Dead(cred[c])]]
     \/ ~Allowed(c, ip) /\ UNCHANGED <<admitted, req>>
  /\ UNCHANGED <<clock, cred, lock, tokens, used, overlap>>

\* find_by_client_id.
Find(r) ==
  /\ req[r].pc = "find"
  /\ req' = [req EXCEPT ![r].pc = "check", ![r].row = cred[req[r].cred]]
  /\ UNCHANGED <<clock, cred, lock, tokens, windows, admitted, used, overlap>>

\* What authenticate accepts: a known client, its secret, active, not expired.
Accepts(q) ==
  /\ q.row # None /\ q.secret /\ q.row.active
  /\ q.row.expires # None => q.row.expires > clock

\* AuthenticationError: the session is rolled back, authenticate's DENIED event with it,
\* and the handler answers 401.
Deny(r) == End(r)

\* authenticate after its lookup.
Authenticate(r) ==
  /\ req[r].pc = "check"
  /\ \/ Accepts(req[r]) /\ Goto(r, "flush")
     \/ ~Accepts(req[r]) /\ Deny(r)
  /\ UNCHANGED <<clock, cred, lock, tokens, windows, admitted, used, overlap>>

\* The UPDATE of last_used_at, flushed before the audit event, waits for the row.
Flush(r) ==
  /\ req[r].pc = "flush"
  /\ lock[req[r].cred] = None
  /\ lock' = [lock EXCEPT ![req[r].cred] = r]
  /\ Goto(r, "issue")
  /\ UNCHANGED <<clock, cred, tokens, windows, admitted, used, overlap>>

\* Mutant: the UPDATE writes the whole row as it was read.
WritesWholeRow(r) == [req[r].row EXCEPT !.lastUsed = TRUE]

\* The row after the exchange's UPDATE of the one column it changed.
Touched(r) == [cred[req[r].cred] EXCEPT !.lastUsed = TRUE]

\* issue_service_token, session.commit and the answer.
Issue(r) ==
  /\ req[r].pc = "issue"
  /\ Cardinality(tokens) < MaxTokens
  /\ cred' = [cred EXCEPT ![req[r].cred] = Touched(r)]
  /\ tokens' = tokens \cup {ServiceToken(req[r].cred, req[r].row, req[r].late)}
  /\ Unlock(r) /\ End(r)
  /\ UNCHANGED <<clock, windows, admitted, used, overlap>>

-----------------------------------------------------------------------------
(***************************************************************************)
(* revoke_service_credential.                                              *)
(***************************************************************************)

\* TenantScopedRepository.require: another tenant's credential is not found.
Revokable(c, tok) == cred[c] # None /\ cred[c].tenant = tok.tenant

\* revoke reads the row and takes the time; its UPDATE is flushed with the audit event.
Revoke(r, c, tok) ==
  /\ req[r].pc = "idle"
  /\ Authorized(tok, "service_credential:manage")
  /\ Revokable(c, tok)
  /\ req' = [req EXCEPT ![r] = [Idle EXCEPT !.pc = "rFlush", !.cred = c, !.row = cred[c],
                                  !.by = By(tok)]]
  /\ UNCHANGED <<clock, cred, lock, tokens, windows, admitted, used, overlap>>

FlushRevoke(r) ==
  /\ req[r].pc = "rFlush"
  /\ lock[req[r].cred] = None
  /\ lock' = [lock EXCEPT ![req[r].cred] = r]
  /\ Goto(r, "rCommit")
  /\ UNCHANGED <<clock, cred, tokens, windows, admitted, used, overlap>>

\* An exchange of c that has read the row and not ended.
Reading(q, c) == q.cred = c /\ q.pc \in {"check", "flush", "issue"}

\* session.commit of the revocation.
CommitRevoke(r) ==
  LET c == req[r].cred
  IN  /\ req[r].pc = "rCommit"
      /\ cred' = [cred EXCEPT ![c].active = FALSE, ![c].revokedBy = req[r].by,
                              ![c].revokedOn = IF cred[c].active THEN clock ELSE @]
      /\ overlap' = [overlap EXCEPT ![c] = @ \/ \E q \in Reqs : Reading(req[q], c)]
      /\ Unlock(r) /\ End(r)
      /\ UNCHANGED <<clock, tokens, windows, admitted, used>>

\* The database or the client goes away: the transaction is rolled back.
Abort(r) ==
  /\ req[r].pc # "idle"
  /\ Unlock(r) /\ End(r)
  /\ UNCHANGED <<clock, cred, tokens, windows, admitted, used, overlap>>

-----------------------------------------------------------------------------
Next ==
  \/ Tick
  \/ \E c \in Creds, tok \in Callers, scopes \in ScopeSets, e \in Opt(Expiries) :
       Create(c, tok, scopes, e)
  \/ \E tok \in tokens : Use(tok)
  \/ \E r \in Reqs, c \in Creds, ip \in Ips, secret \in BOOLEAN : Exchange(r, c, ip, secret)
  \/ \E r \in Reqs : Find(r) \/ Authenticate(r) \/ Flush(r) \/ Issue(r)
  \/ \E r \in Reqs, c \in Creds, tok \in Callers : Revoke(r, c, tok)
  \/ \E r \in Reqs : FlushRevoke(r) \/ CommitRevoke(r) \/ Abort(r)

Spec == Init /\ [][Next]_vars

-----------------------------------------------------------------------------
(***************************************************************************)
(* Properties.                                                             *)
(***************************************************************************)

\* Rows, requests, tokens and limiters have their shape; a counter never passes its
\* limit by more than one.
TypeOK ==
  /\ clock \in Times
  /\ cred \in [Creds -> Opt(Rows)]
  /\ lock \in [Creds -> Opt(Reqs)]
  /\ req \in [Reqs -> Requests]
  /\ tokens \subseteq Tokens
  /\ windows \in [Keys -> [start : Times, count : Nat]]
  /\ \A c \in Creds : windows[c].count <= MaxPerClient + 1
  /\ \A ip \in Ips : windows[ip].count <= MaxPerIp + 1
  /\ admitted \in [Keys -> Seq(Times)]
  /\ used \in [Creds -> Opt(Times)]
  /\ overlap \in [Creds -> BOOLEAN]

\* Credentials are created and revoked by people of their own tenant: no chain of
\* credentials and tokens lets a machine manage one (auth/service.py:28, "must never be
\* able to mint or manage other credentials").
HumansManage ==
  \A c \in Creds : cred[c] # None =>
    /\ cred[c].createdBy = [principal |-> "human", tenant |-> cred[c].tenant]
    /\ cred[c].revokedBy \in {None, [principal |-> "human", tenant |-> cred[c].tenant]}

\* An exchange that begins after its credential was revoked or had expired gets no
\* token, whatever it overlaps with (routers/auth.py:161).
NoLateToken == \A tok \in tokens : ~tok.late

\* A token outlives the revocation of its credential by less than its lifetime and the
\* clock tolerance, when no exchange was under way (docs/AUTHENTICATION.md, section 5a,
\* "bounded blast radius").
BlastRadius ==
  \A c \in Creds : cred[c] # None /\ ~cred[c].active /\ ~overlap[c] /\ used[c] # None =>
    used[c] < cred[c].revokedOn + TTL + Leeway

\* The max_requests of the limiter a key is charged to.
Limit(k) == IF k \in Creds THEN MaxPerClient ELSE MaxPerIp

\* Any more than twice the limit of exchanges that are let through, per client and per
\* address, take at least a window, although the limiter only counts within windows that
\* begin when it is asked (auth/rate_limit.py:37).
RateBound ==
  \A k \in Keys : \A i, j \in 1..Len(admitted[k]) :
    j - i >= 2 * Limit(k) => admitted[k][j] - admitted[k][i] >= Window

\* A committed revocation is never undone: an exchange that read the row before it
\* writes no column of it back (auth/service.py:179, 195).
RevocationFinal ==
  [][\A c \in Creds : cred[c] # None /\ ~cred[c].active =>
       cred'[c] # None /\ ~cred'[c].active /\ cred'[c].revokedOn = cred[c].revokedOn]_vars

-----------------------------------------------------------------------------
(***************************************************************************)
(* The inductive invariant: what the rows, the tokens and the requests in  *)
(* flight say of each other.                                               *)
(***************************************************************************)

Human(t) == [principal |-> "human", tenant |-> t]

\* A row has only grantable scopes, a person behind it, and a time of revocation exactly
\* when it is revoked.
RowInv(c) ==
  cred[c] # None =>
    /\ cred[c].scopes \subseteq Grantable
    /\ cred[c].createdBy = Human(cred[c].tenant)
    /\ cred[c].revokedBy \in {None, Human(cred[c].tenant)}
    /\ cred[c].active = (cred[c].revokedOn = None)
    /\ cred[c].revokedOn # None => cred[c].revokedOn <= clock

\* A token is a service's, of grantable scopes, and expires within one lifetime.
TokenInv(tok) ==
  /\ tok.sub \in Creds /\ tok.principal = "service" /\ tok.scopes \subseteq Grantable
  /\ ~tok.late /\ tok.exp <= clock + TTL

\* An exchange that began too late is refused when its row is checked; a revocation is a
\* person's.
RequestInv(q) ==
  /\ q.pc # "idle" => q.cred \in Creds
  /\ q.pc = "find" /\ q.late => Dead(cred[q.cred])
  /\ q.pc \in {"check", "flush", "issue"} /\ q.row # None =>
       cred[q.cred] # None /\ q.row.scopes \subseteq Grantable
  /\ q.pc = "check" /\ q.late => Dead(q.row)
  /\ q.pc \in {"flush", "issue"} => q.row # None /\ q.row.active /\ ~q.late
  /\ q.pc \in {"rFlush", "rCommit"} =>
       cred[q.cred] # None /\ q.by = Human(cred[q.cred].tenant)

\* Once a credential was revoked with no exchange under way, its tokens are those of
\* before, and every exchange that reads the row finds it revoked.
RevokedInv(c) ==
  cred[c] # None /\ ~cred[c].active /\ ~overlap[c] =>
    /\ \A tok \in tokens : tok.sub = c => tok.exp <= cred[c].revokedOn + TTL
    /\ \A r \in Reqs : Reading(req[r], c) =>
         req[r].pc = "check" /\ req[r].row # None /\ ~req[r].row.active
    /\ used[c] # None => used[c] < cred[c].revokedOn + TTL + Leeway

IInv ==
  /\ TypeOK
  /\ \A c \in Creds : RowInv(c) /\ RevokedInv(c) /\ (used[c] # None => used[c] <= clock)
  /\ \A tok \in tokens : TokenInv(tok)
  /\ \A r \in Reqs : RequestInv(req[r])

\* How many of the last admissions may belong to the window that is open: requests the
\* other limiter refused are counted too.
Open(k) == IF windows[k].count < Limit(k) THEN windows[k].count ELSE Limit(k)

\* What the open window says of the admissions: none comes after its end, the older ones
\* came before its start, and those older by another limit a whole window before it.
WindowInv(k) ==
  LET w == windows[k]
      n == Len(admitted[k])
  IN  /\ w.start <= clock
      /\ \A i \in 1..n : admitted[k][i] < w.start + Window
      /\ \A i \in 1..(n - Open(k)) : admitted[k][i] < w.start
      /\ \A i \in 1..(n - Open(k) - Limit(k)) : admitted[k][i] + Window <= w.start

RateInv == (\A k \in Keys : WindowInv(k)) /\ RateBound
=============================================================================
