---------------------------- MODULE ModelRegistry ----------------------------
(***************************************************************************)
(* The model registry: ModelVersion and TenantModelAdapter rows with their *)
(* stage and active flag, ModelAlias rows that point at a pair of them,    *)
(* and the operations of ModelRegistryService.                             *)
(*                                                                         *)
(* The callers are scripts that do several operations in one session and   *)
(* commit at the end.  A session keeps the rows it has read, flushes an    *)
(* UPDATE with its audit record in every operation, and other sessions run *)
(* between a read, a flush and the commit.  All three tables have a        *)
(* version counter that an UPDATE compares; an INSERT compares nothing.    *)
(*                                                                         *)
(* The model has one task and one alias name: rows of different tasks or   *)
(* names never meet in a query.                                            *)
(***************************************************************************)
EXTENDS Naturals, Sequences, FiniteSets

CONSTANTS
  Models,     \* ids of model versions
  Adapters,   \* ids of tenant adapters
  AliasIds,   \* ids of alias rows
  Tenants,
  Contracts,  \* pairs of ontology version and feature contract version
  Sessions,
  Shared,     \* tenant_id NULL: a shared row, or a caller without a context
  None,       \* the absent value
  MaxVersion  \* bound: no session writes a row past this version

Items == Models \cup Adapters
Owners == Tenants \cup {Shared}
Stages == {"candidate", "staging", "production", "archived"}

ItemRows == [owner : Owners, contract : Contracts, base : Models \cup {None},
             stage : Stages, active : BOOLEAN, version : Nat \ {0}]
AliasRows == [owner : Owners, model : Models, adapter : Adapters \cup {None},
              version : Nat \ {0}]
Moves == [from : Stages, to : Stages]

ASSUME DistinctAssumption ==
  /\ Models \cap Adapters = {} /\ Items \cap AliasIds = {} /\ Shared \notin Tenants
  /\ None \notin Items \cup AliasIds \cup ItemRows \cup AliasRows
ASSUME BoundAssumption == MaxVersion \in Nat

VARIABLES
  item,   \* item[i]: the committed model version or adapter
  alias,  \* alias[k]: the committed alias row
  trail,  \* trail[i]: the committed audit records of the stage moves of i
  ses     \* ses[s]: the session

vars == <<item, alias, trail, ses>>

SessionRecords ==
  [pc : {"closed", "open", "alias"},
   tenant : Owners, promote : BOOLEAN,         \* the caller, and its model:promote
   view : [Items -> ItemRows \cup {None}],     \* the items it has in memory
   seen : [AliasIds -> AliasRows \cup {None}], \* the aliases it has in memory
   written : SUBSET (Items \cup AliasIds),     \* rows flushed and not committed
   log : [Items -> Seq(Moves)],                \* their audit records
   goal : [model : Models \cup {None}, adapter : Adapters \cup {None}],
   target : AliasIds \cup {None}]              \* what find returned
Closed ==
  [pc |-> "closed", tenant |-> Shared, promote |-> FALSE,
   view |-> [i \in Items |-> None], seen |-> [k \in AliasIds |-> None],
   written |-> {}, log |-> [i \in Items |-> <<>>],
   goal |-> [model |-> None, adapter |-> None], target |-> None]

TypeOK ==
  /\ item \in [Items -> ItemRows \cup {None}]
  /\ alias \in [AliasIds -> AliasRows \cup {None}]
  /\ trail \in [Items -> Seq(Moves)]
  /\ ses \in [Sessions -> SessionRecords]

Init ==
  /\ item = [i \in Items |-> None]
  /\ alias = [k \in AliasIds |-> None]
  /\ trail = [i \in Items |-> <<>>]
  /\ ses = [s \in Sessions |-> Closed]

-----------------------------------------------------------------------------

Candidate(owner, contract, base) ==
  [owner |-> owner, contract |-> contract, base |-> base,
   stage |-> "candidate", active |-> TRUE, version |-> 1]

\* register_candidate and the trainer's commit: nobody can see the row before.
RegisterModel(m, owner, contract) ==
  /\ item[m] = None
  /\ item' = [item EXCEPT ![m] = Candidate(owner, contract, None)]
  /\ UNCHANGED <<alias, trail, ses>>

\* _ensure_compatible.
Compatible(base, adapter) == base.contract = adapter.contract

\* register_adapter_candidate and the trainer's commit.
RegisterAdapter(a, tenant, m, contract) ==
  LET row == Candidate(tenant, contract, m) IN
  /\ item[a] = None /\ item[m] # None
  /\ Compatible(item[m], row)
  /\ item' = [item EXCEPT ![a] = row]
  /\ UNCHANGED <<alias, trail, ses>>

-----------------------------------------------------------------------------

\* A caller without a context is the system and needs no scope.
Open(s, tenant, promote) ==
  /\ ses[s].pc = "closed"
  /\ ses' = [ses EXCEPT ![s] = [Closed EXCEPT !.pc = "open", !.tenant = tenant,
                                              !.promote = promote]]
  /\ UNCHANGED <<item, alias, trail>>

\* session.get: a row already in memory is not read again.
Load(s, i) ==
  /\ ses[s].pc = "open"
  /\ ses[s].view[i] = None /\ item[i] # None
  /\ ses' = [ses EXCEPT ![s].view[i] = item[i]]
  /\ UNCHANGED <<item, alias, trail>>

\* An exception, a cancellation or a crash.
Ended(s) ==
  /\ ses' = [ses EXCEPT ![s] = Closed]
  /\ UNCHANGED <<item, alias, trail>>

Rollback(s) == ses[s].pc # "closed" /\ Ended(s)

\* _get_for_stage_mutation and TenantScopedRepository.require.
Reaches(q, i) ==
  /\ q.view[i] # None
  /\ IF q.tenant = Shared THEN i \in Models
     ELSE q.view[i].owner \in {Shared, q.tenant}

\* _require_promotion_authorization.
Authorized(q) == q.tenant = Shared \/ q.promote

\* _VALID_TRANSITIONS.
ValidTransitions ==
  [candidate |-> {"staging", "archived"},
   staging |-> {"production", "candidate", "archived"},
   production |-> {"archived", "staging"},
   archived |-> {}]
PromotionStages == {"staging", "production"}

\* The checks of transition_stage and transition_adapter_stage.
MayMove(q, i, to) ==
  /\ Reaches(q, i)
  /\ to \in ValidTransitions[q.view[i].stage]
  /\ to \in PromotionStages => Authorized(q)

\* The UPDATE finds the version the session has read, or its own.
FreshItem(q, i) == i \in q.written \/ item[i].version = q.view[i].version

\* The flush of an item in audit.record.  It waits for a row another session
\* has updated and fails with StaleDataError if that one has committed.
Update(s, i, row, moves) ==
  LET q == ses[s] IN
  /\ q.view[i].version < MaxVersion
  /\ \A o \in Sessions \ {s} : i \notin ses[o].written
  /\ IF FreshItem(q, i)
     THEN /\ ses' = [ses EXCEPT ![s] =
               [q EXCEPT !.view[i] = [row EXCEPT !.version = @ + 1],
                         !.written = @ \cup {i},
                         !.log[i] = @ \o moves]]
          /\ UNCHANGED <<item, alias, trail>>
     ELSE Ended(s)

\* Mutant: the stage to record is read after the assignment.
TransitionReadLate(s, i, to) ==
  LET q == ses[s] IN
  /\ q.pc = "open"
  /\ MayMove(q, i, to)
  /\ Update(s, i, [q.view[i] EXCEPT !.stage = to], <<[from |-> to, to |-> to]>>)

\* transition_stage and transition_adapter_stage.
TransitionStage(s, i, to) ==
  LET q == ses[s] IN
  /\ q.pc = "open"
  /\ MayMove(q, i, to)
  /\ Update(s, i, [q.view[i] EXCEPT !.stage = to],
            <<[from |-> q.view[i].stage, to |-> to]>>)

\* deactivate_model_version and deactivate_adapter.  When the row in memory is
\* inactive already there is no UPDATE.
Deactivate(s, i) ==
  LET q == ses[s] IN
  /\ q.pc = "open"
  /\ Reaches(q, i) /\ q.view[i].active
  /\ Update(s, i, [q.view[i] EXCEPT !.active = FALSE], <<>>)

\* The trainer makes a base model trained for one tenant a shared one.
Share(s, m) ==
  LET q == ses[s] IN
  /\ q.pc = "open" /\ q.tenant = Shared
  /\ q.view[m] # None /\ q.view[m].owner # Shared /\ q.view[m].stage = "candidate"
  /\ Update(s, m, [q.view[m] EXCEPT !.owner = Shared], <<>>)

-----------------------------------------------------------------------------

\* Mutant: a caller without a context may alias any model.
MayServeAny(q, m) ==
  /\ q.view[m] # None /\ q.view[m].active /\ q.view[m].stage # "archived"
  /\ q.tenant # Shared => q.view[m].owner \in {Shared, q.tenant}

\* What _point_alias asks of the model version, as the session has it.
MayServe(q, m) ==
  /\ q.view[m] # None /\ q.view[m].active /\ q.view[m].stage # "archived"
  /\ q.view[m].owner \in {Shared, q.tenant}

\* What it asks of the adapter.
MayCombine(q, m, a) ==
  /\ q.tenant # Shared
  /\ q.view[a] # None /\ q.view[a].owner = q.tenant
  /\ Compatible(q.view[m], q.view[a])

\* ModelAliasRepository.find: the rows of an owner that session s can see.
Find(s, owner) ==
  {k \in AliasIds :
     LET row == IF k \in ses[s].written THEN ses[s].seen[k] ELSE alias[k]
     IN  row # None /\ row.owner = owner}

\* set_alias and rollback_alias up to the result of find, which raises
\* MultipleResultsFound when there are two rows.
PointAlias(s, m, a) ==
  LET q == ses[s]
      found == Find(s, q.tenant) IN
  /\ q.pc = "open"
  /\ Authorized(q) /\ MayServe(q, m)
  /\ a # None => MayCombine(q, m, a)
  /\ \/ /\ found = {}
        /\ ses' = [ses EXCEPT ![s] =
             [q EXCEPT !.pc = "alias", !.target = None,
                       !.goal = [model |-> m, adapter |-> a]]]
        /\ UNCHANGED <<item, alias, trail>>
     \/ \E k \in found :
          /\ found = {k}
          /\ ses' = [ses EXCEPT ![s] =
               [q EXCEPT !.pc = "alias", !.target = k,
                         !.goal = [model |-> m, adapter |-> a],
                         !.seen[k] = IF @ = None THEN alias[k] ELSE @]]
          /\ UNCHANGED <<item, alias, trail>>
     \/ /\ Cardinality(found) > 1
        /\ Ended(s)

\* No row of the owner: the flush of a new one.
InsertAlias(s, k) ==
  LET q == ses[s] IN
  /\ q.pc = "alias" /\ q.target = None
  /\ alias[k] = None /\ \A o \in Sessions : k \notin ses[o].written
  /\ ses' = [ses EXCEPT ![s] =
       [q EXCEPT !.pc = "open", !.written = @ \cup {k},
                 !.seen[k] = [owner |-> q.tenant, model |-> q.goal.model,
                              adapter |-> q.goal.adapter, version |-> 1]]]
  /\ UNCHANGED <<item, alias, trail>>

Repointed(q, k) ==
  [q.seen[k] EXCEPT !.model = q.goal.model, !.adapter = q.goal.adapter,
                    !.version = @ + 1]

\* One row: the flush of its UPDATE, if it changes anything.
UpdateAlias(s, k) ==
  LET q == ses[s]
      same == q.seen[k].model = q.goal.model /\ q.seen[k].adapter = q.goal.adapter IN
  /\ q.pc = "alias" /\ q.target = k
  /\ q.seen[k].version < MaxVersion
  /\ IF same
     THEN /\ ses' = [ses EXCEPT ![s] = [q EXCEPT !.pc = "open"]]
          /\ UNCHANGED <<item, alias, trail>>
     ELSE /\ \A o \in Sessions \ {s} : k \notin ses[o].written
          /\ IF k \in q.written \/ alias[k].version = q.seen[k].version
             THEN /\ ses' = [ses EXCEPT ![s] =
                       [q EXCEPT !.pc = "open", !.written = @ \cup {k},
                                 !.seen[k] = Repointed(q, k)]]
                  /\ UNCHANGED <<item, alias, trail>>
             ELSE Ended(s)

-----------------------------------------------------------------------------

Commit(s) ==
  LET q == ses[s] IN
  /\ q.pc = "open"
  /\ item' = [i \in Items |-> IF i \in q.written THEN q.view[i] ELSE item[i]]
  /\ alias' = [k \in AliasIds |-> IF k \in q.written THEN q.seen[k] ELSE alias[k]]
  /\ trail' = [i \in Items |-> trail[i] \o q.log[i]]
  /\ ses' = [ses EXCEPT ![s] = Closed]

Next ==
  \/ \E m \in Models, o \in Owners, c \in Contracts : RegisterModel(m, o, c)
  \/ \E a \in Adapters, t \in Tenants, m \in Models, c \in Contracts :
       RegisterAdapter(a, t, m, c)
  \/ \E s \in Sessions :
       \/ \E o \in Owners, p \in BOOLEAN : Open(s, o, p)
       \/ \E i \in Items :
            \/ Load(s, i)
            \/ \E to \in Stages : TransitionStage(s, i, to)
            \/ Deactivate(s, i)
       \/ \E m \in Models :
            \/ Share(s, m)
            \/ \E a \in Adapters \cup {None} : PointAlias(s, m, a)
       \/ \E k \in AliasIds : InsertAlias(s, k) \/ UpdateAlias(s, k)
       \/ Commit(s)
       \/ Rollback(s)

Spec == Init /\ [][Next]_vars

-----------------------------------------------------------------------------
(***************************************************************************)
(* Lookups.                                                                *)
(***************************************************************************)

AliasesOf(owner) == {k \in AliasIds : alias[k] # None /\ alias[k].owner = owner}

\* resolve_for_tenant: the tenant's alias, else the shared one.
Resolve(t) == IF AliasesOf(t) # {} THEN AliasesOf(t) ELSE AliasesOf(Shared)

\* get_active_for_base_model.
ServingAdapters(m, t) ==
  {a \in Adapters : /\ item[a] # None
                    /\ item[a].base = m /\ item[a].owner = t
                    /\ item[a].stage = "production" /\ item[a].active}

-----------------------------------------------------------------------------
(***************************************************************************)
(* Safety.                                                                 *)
(***************************************************************************)

\* moves leads from stage a to stage b along the valid transitions.
Walk(a, moves, b) ==
  /\ \A n \in 1..Len(moves) :
       /\ moves[n].to \in ValidTransitions[moves[n].from]
       /\ moves[n].from = IF n = 1 THEN a ELSE moves[n - 1].to
  /\ b = IF moves = <<>> THEN a ELSE moves[Len(moves)].to

\* The audit trail of a model or an adapter, which the rollback runbook reads
\* to find the previous version, is one unbroken walk along the valid
\* transitions from candidate to the stage the row has, whatever interleaves.
TrailLeadsToStage ==
  \A i \in Items : item[i] # None => Walk("candidate", trail[i], item[i].stage)

\* A deactivated model or adapter is never active again: no transition that
\* read it before the deactivation brings it back.
DeactivationKept ==
  [][\A i \in Items : item[i] # None /\ ~item[i].active =>
       item'[i] # None /\ ~item'[i].active]_vars

\* What an alias of an owner may point at.
FitsModel(owner, model) == model # None /\ model.owner \in {Shared, owner}
FitsAdapter(owner, model, adapter) ==
  adapter # None /\ adapter.owner = owner /\ Compatible(model, adapter)

\* An alias points at a shared model or one of its own tenant, and combines it
\* with no adapter or a compatible one of its own tenant.
AliasWithinTenant ==
  \A k \in AliasIds : alias[k] # None =>
    /\ FitsModel(alias[k].owner, item[alias[k].model])
    /\ alias[k].adapter # None =>
         FitsAdapter(alias[k].owner, item[alias[k].model], item[alias[k].adapter])

-----------------------------------------------------------------------------
(***************************************************************************)
(* The inductive invariant behind the safety properties.                   *)
(***************************************************************************)

\* new is what row old of item i may become: the contract stays, a private
\* model may become shared, an inactive row stays inactive.
Later(i, old, new) ==
  /\ old # None /\ new # None
  /\ new.contract = old.contract
  /\ new.owner = old.owner \/ (i \in Models /\ new.owner = Shared)
  /\ ~old.active => ~new.active

\* What a session has in memory of an item: the committed row or an older one,
\* which the version tells apart, or its own successor of the committed row.
ViewInv(q, i) ==
  /\ i \in q.written =>
       /\ Later(i, item[i], q.view[i])
       /\ q.view[i].version > item[i].version
       /\ Walk(item[i].stage, q.log[i], q.view[i].stage)
  /\ i \notin q.written =>
       /\ q.log[i] = <<>>
       /\ q.view[i] # None =>
            /\ Later(i, q.view[i], item[i])
            /\ q.view[i].version <= item[i].version
            /\ q.view[i].version = item[i].version => q.view[i] = item[i]

\* The row of an item inside the transaction of a session.
Inside(q, i) == IF i \in q.written THEN q.view[i] ELSE item[i]

FitsInside(q, owner, m, a) ==
  /\ m \in Models /\ FitsModel(owner, Inside(q, m))
  /\ a # None => FitsAdapter(owner, Inside(q, m), Inside(q, a))

\* The aliases a session has in memory keep their owner; what it is about to
\* write fits the items as the transaction has them.
AliasInv(q) ==
  /\ \A k \in AliasIds :
       /\ k \in q.written =>
            q.seen[k] # None /\ FitsInside(q, q.seen[k].owner, q.seen[k].model, q.seen[k].adapter)
       /\ k \notin q.written /\ q.seen[k] # None => alias[k] # None
       /\ q.seen[k] # None /\ alias[k] # None => q.seen[k].owner = alias[k].owner
  /\ q.pc = "alias" =>
       /\ FitsInside(q, q.tenant, q.goal.model, q.goal.adapter)
       /\ q.target # None => q.seen[q.target] # None /\ q.seen[q.target].owner = q.tenant

SessionInv(q) ==
  /\ q.pc = "closed" => q = Closed
  /\ \A i \in Items : ViewInv(q, i)
  /\ AliasInv(q)

Exclusive == \A s, o \in Sessions : s # o => ses[s].written \cap ses[o].written = {}

\* A row that does not exist has no trail.
ItemInv ==
  /\ TrailLeadsToStage
  /\ \A i \in Items : item[i] = None => trail[i] = <<>>

IInv ==
  /\ TypeOK
  /\ ItemInv
  /\ AliasWithinTenant
  /\ Exclusive
  /\ \A s \in Sessions : SessionInv(ses[s])

-----------------------------------------------------------------------------
(***************************************************************************)
(* What the documentation says and the code does not do.                   *)
(***************************************************************************)

\* set_alias: one row per tenant, task and name, kept by an upsert.  Two
\* sessions that find no row both insert one, and no version is compared.
AliasUnique == \A o \in Owners : Cardinality(AliasesOf(o)) <= 1

\* is_active is checked by every serving lookup.  resolve_alias checks neither
\* it nor the stage.
ResolvedActive ==
  \A t \in Tenants : \A k \in Resolve(t) : item[alias[k].model].active

\* Demoting needs no scope.  A production model goes back to staging, and
\* staging is a promotion stage.
DemotionUngated ==
  \A s \in Sessions, i \in Items :
    LET q == ses[s] IN
    q.pc = "open" /\ Reaches(q, i) /\ q.view[i].stage = "production" =>
      MayMove(q, i, "staging")

\* get_active_for_base_model: the one adapter of a tenant that serves with a
\* base model.  Nothing keeps a second one out of production.
OneServingAdapter ==
  \A m \in Models, t \in Tenants : Cardinality(ServingAdapters(m, t)) <= 1

=============================================================================
