--------------------------- MODULE TrainingPipeline ---------------------------
(***************************************************************************)
(* The trainer (apps/trainer/main.py) and the services its commands drive: *)
(* provisioning of the synthetic tenants, the baseline, pretraining,       *)
(* transformer and adapter training services, the comparison report and    *)
(* the promotions.                                                         *)
(*                                                                         *)
(* Each process runs one command against a control plane of its own (an    *)
(* in-memory database), but its files live in a directory named only after *)
(* the command and the code revision: two processes started at the same    *)
(* revision, or one started again after a crash, meet there.  The steps of *)
(* different processes interleave; a process may be killed between two.    *)
(* What is trained is abstracted to the name of its weights: which process *)
(* produced them, and in which training of its script.                     *)
(***************************************************************************)
EXTENDS Naturals, Sequences, Common

CONSTANTS
  Procs,      \* trainer processes
  Revisions,  \* code revisions: what `git rev-parse` answers
  Scores      \* values of pr_auc

ASSUME ScoresAssumption == Scores \subseteq Nat /\ Scores # {}

Commands == {"baselines", "hermes-rpt", "pretrain", "adapt"}
Slugs == {"alpha", "beta"}
Baselines == {"logistic_regression", "gradient_boosted_trees", "mlp"}
Kinds == Baselines \cup {"pretrain", "scratch", "pretrained", "base"} \cup Slugs

\* What a training produced.  An MLflow run is named the same way.
Weights == Procs \X Kinds
\* A tenant row gets a fresh id in each process, whatever its slug.
Tenants == Procs \X Slugs

\* The run directory, and a file in it.
Dirs == Commands \X Revisions
Folders == {"checkpoints", "pretrain-checkpoints", "finetune-scratch",
            "finetune-pretrained", "shared-base", "adapters"}
Paths == Dirs \X Folders \X (Tenants \cup {None})

Stages == {"candidate", "staging", "production"}
ModelRows == [kind : Kinds, tenant : Tenants \cup {None}, stage : Stages,
              checksum : Weights, score : Scores]
AdapterRows == [tenant : Tenants, base : Weights, uri : Paths, stage : Stages,
                checksum : Weights, score : Scores]

VARIABLES
  proc,      \* the local state of each process
  models,    \* the ModelVersion rows of its control plane
  adapters,  \* the TenantModelAdapter rows of its control plane
  aliases,   \* its alias rows: tenant (None: shared), base weights, adapter
  tables,    \* the tenant databases whose tables exist, as <<dir, slug>>
  loaded,    \* which processes' rows each tenant database holds
  files,     \* the weights in each checkpoint file
  store      \* the weights MLflow keeps for each run

vars == <<proc, models, adapters, aliases, tables, loaded, files, store>>
disk == <<tables, loaded, files, store>>
rows == <<models, adapters, aliases>>

-------------------------------------------------------------------------------
(* The commands as the steps they take, in order.                            *)

Step(op, arg, folder) == [op |-> op, arg |-> arg, folder |-> folder]

\* provision_and_build_dataset
Provision(slug) ==
  <<Step("schema", slug, None), Step("load", slug, None), Step("build", slug, None)>>

\* _train_baselines: the model types in the order of the enumeration
TrainBaselines ==
  <<Step("baseline", "logistic_regression", None),
    Step("baseline", "gradient_boosted_trees", None), Step("baseline", "mlp", None)>>

\* HermesRPTTrainingService.train: the checkpoint is saved, then logged, then
\* what was stored is hashed and registered.
Transformer(kind, folder) ==
  <<Step("save", kind, folder), Step("log", kind, folder), Step("register", kind, folder)>>

\* _train_and_promote_adapter
TrainAdapter(slug) ==
  <<Step("adapter", slug, "adapters"), Step("promoteAdapter", slug, None)>>

BaselinesPlan == Provision("alpha") \o TrainBaselines

HermesPlan ==
  Provision("alpha") \o TrainBaselines \o Transformer("scratch", "checkpoints")
    \o <<Step("promote", "scratch", None)>>

PretrainPlan ==
  Provision("alpha") \o TrainBaselines
    \o <<Step("pretrain", "pretrain", "pretrain-checkpoints")>>
    \o Transformer("scratch", "finetune-scratch")
    \o Transformer("pretrained", "finetune-pretrained")

AdaptPlan ==
  Provision("alpha") \o Provision("beta") \o Transformer("base", "shared-base")
    \o <<Step("share", "base", None), Step("loadBackbone", "base", "shared-base")>>
    \o TrainAdapter("alpha") \o TrainAdapter("beta")
    \o <<Step("isolation", "beta", None)>>

Plan(command) ==
  CASE command = "baselines"  -> BaselinesPlan
    [] command = "hermes-rpt" -> HermesPlan
    [] command = "pretrain"   -> PretrainPlan
    [] command = "adapt"      -> AdaptPlan

-------------------------------------------------------------------------------
(* Local state and its moves.                                                *)

Statuses == {"idle", "running", "done", "failed", "killed"}

\* The local state of a process.  data: whose rows each dataset was built from; backbone: what torch.load
\* returned; weights: the model in memory, its score beside it.
Locals ==
  [command : Commands \cup {None}, revision : Revisions \cup {None}, promote : BOOLEAN,
   status : Statuses, at : Nat, data : [Slugs -> {None} \cup SUBSET Procs],
   weights : Weights \cup {None}, score : Scores \cup {None}, backbone : Weights \cup {None}]
Idle == [command |-> None, revision |-> None, promote |-> FALSE, status |-> "idle",
         at |-> 1, data |-> [s \in Slugs |-> None], weights |-> None,
         score |-> None, backbone |-> None]

Dir(p) == <<proc[p].command, proc[p].revision>>
Current(p) == Plan(proc[p].command)[proc[p].at]

At(p, op) == proc[p].status = "running" /\ Current(p).op = op

AdvancedAlways(p) == [proc[p] EXCEPT !.at = @ + 1]

\* The process with its step done; after the last one it prints and exits.
Advanced(p) ==
  IF proc[p].at = Len(Plan(proc[p].command))
  THEN [proc[p] EXCEPT !.status = "done"]
  ELSE [proc[p] EXCEPT !.at = @ + 1]

Advance(p) == proc' = [proc EXCEPT ![p] = Advanced(p)]
Raise(p) == proc' = [proc EXCEPT ![p].status = "failed"]

\* main: the command line
Start(p) ==
  /\ proc[p].status = "idle"
  /\ \E c \in Commands, r \in Revisions, b \in BOOLEAN :
       /\ b => c = "hermes-rpt"
       /\ proc' = [proc EXCEPT ![p].command = c, ![p].revision = r,
                               ![p].promote = b, ![p].status = "running"]
  /\ UNCHANGED <<rows, disk>>

\* External: the process is killed.  Its control plane goes with it, its files
\* stay.
Kill(p) ==
  /\ proc[p].status = "running"
  /\ proc' = [proc EXCEPT ![p] = [Idle EXCEPT !.status = "killed"]]
  /\ models' = [models EXCEPT ![p] = {}]
  /\ adapters' = [adapters EXCEPT ![p] = {}]
  /\ aliases' = [aliases EXCEPT ![p] = {}]
  /\ UNCHANGED disk

-------------------------------------------------------------------------------
(* Provisioning and training.                                                *)

\* CREATE TABLE, without IF NOT EXISTS: raises when the file of an earlier or a
\* concurrent process is there.
CreateIfMissing(dir, slug) == FALSE
CreateFails(dir, slug) == <<dir, slug>> \in tables

CreateSchema(p) ==
  /\ At(p, "schema")
  /\ LET slug == Current(p).arg IN
       IF CreateFails(Dir(p), slug)
       THEN Raise(p) /\ UNCHANGED tables
       ELSE Advance(p) /\ tables' = tables \cup {<<Dir(p), slug>>}
  /\ UNCHANGED <<rows, loaded, files, store>>

\* load_fleet_data: one transaction
LoadData(p) ==
  /\ At(p, "load")
  /\ loaded' = [loaded EXCEPT ![<<Dir(p), Current(p).arg>>] = @ \cup {p}]
  /\ Advance(p)
  /\ UNCHANGED <<rows, tables, files, store>>

\* The mappings are activated and the dataset is built from what the file holds.
BuildDataset(p) ==
  /\ At(p, "build")
  /\ LET slug == Current(p).arg IN
       proc' = [proc EXCEPT ![p] =
                  [Advanced(p) EXCEPT !.data[slug] = loaded[<<Dir(p), slug>>]]]
  /\ UNCHANGED <<rows, disk>>

\* register_candidate: a new row is a candidate of the tenant it was trained for.
Candidate(p, kind, score) ==
  [kind |-> kind, tenant |-> <<p, "alpha">>, stage |-> "candidate",
   checksum |-> store'[<<p, kind>>], score |-> score]

\* BaselineTrainingService.train: the estimator goes from memory to its run.
TrainBaseline(p) ==
  /\ At(p, "baseline")
  /\ \E score \in Scores :
       LET kind == Current(p).arg IN
         /\ store' = [store EXCEPT ![<<p, kind>>] = <<p, kind>>]
         /\ models' = [models EXCEPT ![p] = @ \cup {Candidate(p, kind, score)}]
  /\ Advance(p)
  /\ UNCHANGED <<adapters, aliases, tables, loaded, files>>

CheckpointPath(p) == <<Dir(p), Current(p).folder, None>>

\* HermesRPTPretrainingService.pretrain: the backbone is handed on in memory;
\* the file is only logged, and nothing is registered.
Pretrain(p) ==
  /\ At(p, "pretrain")
  /\ files' = [files EXCEPT ![CheckpointPath(p)] = <<p, "pretrain">>]
  /\ store' = [store EXCEPT ![<<p, "pretrain">>] = <<p, "pretrain">>]
  /\ Advance(p)
  /\ UNCHANGED <<rows, tables, loaded>>

\* HermesRPTTrainingService.train up to torch.save
SaveCheckpoint(p) ==
  /\ At(p, "save")
  /\ \E score \in Scores :
       proc' = [proc EXCEPT ![p] = [Advanced(p) EXCEPT
                  !.weights = <<p, Current(p).arg>>, !.score = score]]
  /\ files' = [files EXCEPT ![CheckpointPath(p)] = <<p, Current(p).arg>>]
  /\ UNCHANGED <<rows, tables, loaded, store>>

\* mlflow.log_artifact copies what the file holds now.
LogCheckpoint(p) ==
  /\ At(p, "log")
  /\ store' = [store EXCEPT ![<<p, Current(p).arg>>] = files[CheckpointPath(p)]]
  /\ Advance(p)
  /\ UNCHANGED <<rows, tables, loaded, files>>

\* compute_artifact_checksum of the stored copy, register_candidate, commit
RegisterModel(p) ==
  /\ At(p, "register")
  /\ UNCHANGED disk
  /\ models' = [models EXCEPT ![p] = @ \cup {Candidate(p, Current(p).arg, proc[p].score)}]
  /\ Advance(p)
  /\ UNCHANGED <<adapters, aliases>>

-------------------------------------------------------------------------------
(* Comparison and promotion.                                                 *)

\* Python's max keeps the first of equals, and the results of the baselines
\* come before the transformer's.
WinnerOnTie(p, row) == \A other \in models[p] \ {row} : other.score <= row.score
Winner(p, row) == \A other \in models[p] \ {row} : other.score < row.score

\* --promote-if-winner
PromoteWinner(p) ==
  /\ At(p, "promote")
  /\ LET row == CHOOSE m \in models[p] : m.kind = Current(p).arg IN
       models' = IF proc[p].promote /\ Winner(p, row)
                 THEN [models EXCEPT ![p] = (@ \ {row}) \cup
                         {[row EXCEPT !.stage = "production"]}]
                 ELSE models
  /\ Advance(p)
  /\ UNCHANGED <<adapters, aliases, disk>>

\* _run_adapt: the base becomes shared, serves, and is the shared alias.
\* _point_alias takes no tenant's own model from a caller without a tenant, so
\* tenant_id is set to None first.
ShareBase(p) ==
  /\ At(p, "share")
  /\ LET row == CHOOSE m \in models[p] : m.kind = "base" IN
       /\ models' = [models EXCEPT ![p] = (@ \ {row}) \cup
                        {[row EXCEPT !.tenant = None, !.stage = "production"]}]
       /\ aliases' = [aliases EXCEPT ![p] = @ \cup
                        {[tenant |-> None, base |-> row.checksum, adapter |-> None]}]
  /\ Advance(p)
  /\ UNCHANGED <<adapters, disk>>

\* torch.load of the base's checkpoint file, not of the registered artifact
LoadBackbone(p) ==
  /\ At(p, "loadBackbone")
  /\ proc' = [proc EXCEPT ![p] =
                [Advanced(p) EXCEPT !.backbone = files[CheckpointPath(p)]]]
  /\ UNCHANGED <<rows, disk>>

\* The adapter's file: a directory per tenant.
AdapterPathShared(p, slug) == <<Dir(p), "adapters", None>>
AdapterPath(p, slug) == <<Dir(p), "adapters", <<p, slug>>>>

\* TenantAdapterTrainingService.train and register_adapter_candidate: the row
\* names the local file, and its checksum is the file's.
TrainTenantAdapter(p) ==
  /\ At(p, "adapter")
  /\ \E score \in Scores :
       LET slug == Current(p).arg IN
         /\ files' = [files EXCEPT ![AdapterPath(p, slug)] = <<p, slug>>]
         /\ store' = [store EXCEPT ![<<p, slug>>] = <<p, slug>>]
         /\ adapters' = [adapters EXCEPT ![p] = @ \cup
              {[tenant |-> <<p, slug>>, base |-> proc[p].backbone,
                uri |-> AdapterPath(p, slug), stage |-> "candidate",
                checksum |-> <<p, slug>>, score |-> score]}]
  /\ Advance(p)
  /\ UNCHANGED <<models, aliases, tables, loaded>>

\* The scopes of the tenants' contexts: provisioning gives none, _run_adapt
\* builds them anew with the one a promotion requires.
Scopes == {"model:promote"}

\* TenantScopedRepository.get
VisibleToAll(row, tenant) == TRUE
Visible(row, tenant) == row.tenant = tenant

\* transition_adapter_stage twice and set_alias, in the tenant's context
PromoteAdapter(p) ==
  /\ At(p, "promoteAdapter")
  /\ LET tenant == <<p, Current(p).arg>>
         row == CHOOSE a \in adapters[p] : a.tenant = tenant
         base == CHOOSE m \in models[p] : m.kind = "base"
     IN IF "model:promote" \in Scopes /\ Visible(row, tenant)
        THEN /\ adapters' = [adapters EXCEPT ![p] = (@ \ {row}) \cup
                               {[row EXCEPT !.stage = "production"]}]
             /\ aliases' = [aliases EXCEPT ![p] = @ \cup
                  {[tenant |-> tenant, base |-> base.checksum, adapter |-> row.checksum]}]
             /\ Advance(p)
        ELSE Raise(p) /\ UNCHANGED <<adapters, aliases>>
  /\ UNCHANGED <<models, disk>>

\* The two assertions: Alpha neither fetches Beta's adapter nor points an alias
\* at it.
CheckIsolation(p) ==
  /\ At(p, "isolation")
  /\ IF \E row \in adapters[p] : row.tenant = <<p, "beta">> /\ Visible(row, <<p, "alpha">>)
     THEN Raise(p)
     ELSE Advance(p)
  /\ UNCHANGED <<rows, disk>>

-------------------------------------------------------------------------------
Init ==
  /\ proc = [p \in Procs |-> Idle]
  /\ models = [p \in Procs |-> {}]
  /\ adapters = [p \in Procs |-> {}]
  /\ aliases = [p \in Procs |-> {}]
  /\ tables = {}
  /\ loaded = [f \in Dirs \X Slugs |-> {}]
  /\ files = [f \in Paths |-> None]
  /\ store = [r \in Weights |-> None]

Script(p) ==
  \/ CreateSchema(p) \/ LoadData(p) \/ BuildDataset(p)
  \/ TrainBaseline(p) \/ Pretrain(p)
  \/ SaveCheckpoint(p) \/ LogCheckpoint(p) \/ RegisterModel(p)
  \/ PromoteWinner(p) \/ ShareBase(p) \/ LoadBackbone(p)
  \/ TrainTenantAdapter(p) \/ PromoteAdapter(p) \/ CheckIsolation(p)

Next == \E p \in Procs : Start(p) \/ Kill(p) \/ Script(p)

\* A started script runs on until it exits or is killed.
Spec == Init /\ [][Next]_vars /\ \A p \in Procs : WF_vars(Script(p))

-------------------------------------------------------------------------------
\* The types of the state; a script never runs past its last step.
TypeOK ==
  /\ proc \in [Procs -> Locals]
  /\ \A p \in Procs :
       proc[p].command # None => proc[p].at \in 1 .. Len(Plan(proc[p].command))
  /\ models \in [Procs -> SUBSET ModelRows]
  /\ adapters \in [Procs -> SUBSET AdapterRows]
  /\ aliases \in [Procs -> SUBSET [tenant : Tenants \cup {None}, base : Weights,
                                   adapter : Weights \cup {None}]]
  /\ tables \subseteq Dirs \X Slugs
  /\ loaded \in [Dirs \X Slugs -> SUBSET Procs]
  /\ files \in [Paths -> Weights \cup {None}]
  /\ store \in [Weights -> Weights \cup {None}]

\* A process works only on what it made itself, although every file name it uses
\* is the same in each process of the command at this revision: its datasets hold
\* no row of another process, the models it registers are the ones it trained,
\* and its adapters sit on the backbone it registered as the base.  What keeps
\* the processes apart is the CREATE TABLE of provisioning, which fails in all
\* but the first (synthetic/schemas.py ddl, apps/trainer/main.py torch.load:
\* "this process wrote the file itself, moments earlier").
OwnWork ==
  \A p \in Procs :
    /\ \A s \in Slugs : proc[p].data[s] \in {None, {p}}
    /\ \A m \in models[p] : m.checksum = <<p, m.kind>>
    /\ \A a \in adapters[p] :
         \E m \in models[p] : m.kind = "base" /\ m.tenant = None /\ a.base = m.checksum

\* Every registered artifact can be loaded: what its URI names still hashes to
\* the checksum of its row, after all the trainings that follow, the next
\* tenant's adapter included (compute_artifact_checksum, adapter_training.py).
ArtifactsMatch ==
  \A p \in Procs :
    /\ \A m \in models[p] : store[<<p, m.kind>>] = m.checksum
    /\ \A a \in adapters[p] : files[a.uri] = a.checksum

\* The option --promote-if-winner "never promotes a loser" (apps/trainer/main.py):
\* a transformer serves only when it beat each baseline, and no baseline or
\* pretrained model is ever promoted by the trainer.
OnlyWinnersServe ==
  \A p \in Procs : \A m \in models[p] :
    m.stage # "candidate" /\ m.kind # "base" =>
      /\ proc[p].promote /\ m.kind = "scratch"
      /\ \A b \in models[p] : b.kind \in Baselines => b.score < m.score

\* Once a script has created its first table nothing stops it but a kill: no
\* later table is in its way, every promotion is permitted, the base is shared
\* when it is aliased, and the isolation assertions hold.
Completes ==
  \A p \in Procs :
    proc[p].status = "running" /\ proc[p].at > 1 ~> proc[p].status \in {"done", "killed"}

-------------------------------------------------------------------------------
(* The inductive invariant.                                                  *)

\* A process past its first step has created the first table of its directory,
\* and no other process of that directory gets so far.
Active(p) == proc[p].status \in {"running", "done", "failed"}
Past(p) == Active(p) /\ proc[p].at > 1

Exclusive == \A p, q \in Procs : Past(p) /\ Past(q) /\ Dir(p) = Dir(q) => p = q

\* Rows are only loaded into a directory whose first table exists.
LoadedInv == \A d \in Dirs, s \in Slugs : loaded[<<d, s>>] # {} => <<d, "alpha">> \in tables

\* A process that runs or ran has a command and is at one of its steps; the others
\* have nothing.
LocalInv(p) ==
  /\ Active(p) => /\ proc[p].command \in Commands /\ proc[p].revision \in Revisions
                  /\ proc[p].at \in 1 .. Len(Plan(proc[p].command))
  /\ ~Active(p) => /\ proc[p].command = None /\ proc[p].at = 1
                   /\ models[p] = {} /\ adapters[p] = {}
  /\ Past(p) => /\ <<Dir(p), "alpha">> \in tables
                /\ \A s \in Slugs : loaded[<<Dir(p), s>>] \subseteq {p}
  /\ \A s \in Slugs : proc[p].data[s] \in {None, {p}}

SharedBase(p) == \E m \in models[p] : m.kind = "base" /\ m.tenant = None
HasModel(p, kind) == \E m \in models[p] : m.kind = kind

\* What the steps a running process has taken guarantee to the one it is at.
StepInv(p) ==
  LET step == Current(p) IN
  /\ step.op = "build" => p \in loaded[<<Dir(p), step.arg>>]
  /\ step.op \in {"log", "register"} =>
       /\ files[<<Dir(p), step.folder, None>>] = <<p, step.arg>>
       /\ proc[p].score \in Scores
  /\ step.op = "register" => store[<<p, step.arg>>] = <<p, step.arg>>
  /\ step.op \in {"share", "loadBackbone"} =>
       files[<<Dir(p), "shared-base", None>>] = <<p, "base">>
  /\ step.op \in {"share", "promote"} => HasModel(p, step.arg)
  /\ step.op \in {"loadBackbone", "adapter", "promoteAdapter"} => SharedBase(p)
  /\ step.op \in {"adapter", "promoteAdapter"} => proc[p].backbone = <<p, "base">>
  /\ step.op = "promoteAdapter" => \E a \in adapters[p] : a.tenant = <<p, step.arg>>

\* The models of a process are about its own weights, stored as they were
\* registered; until the script has ended only the base may serve.
ModelInv(p) ==
  \A m \in models[p] :
    /\ m.checksum = <<p, m.kind>> /\ store[<<p, m.kind>>] = <<p, m.kind>>
    /\ proc[p].status # "done" /\ m.kind # "base" => m.stage = "candidate"
    /\ m.stage # "candidate" /\ m.kind # "base" =>
         /\ proc[p].promote /\ m.kind = "scratch"
         /\ \A b \in models[p] : b.kind \in Baselines => b.score < m.score

\* So are its adapters, and they sit on its base.
AdapterInv(p) ==
  /\ \A a \in adapters[p] : \E s \in Slugs :
       /\ a.tenant = <<p, s>> /\ a.base = <<p, "base">> /\ a.checksum = <<p, s>>
       /\ a.uri = <<Dir(p), "adapters", <<p, s>>>> /\ files[a.uri] = <<p, s>>
  /\ adapters[p] # {} => Past(p) /\ SharedBase(p)

ProcInv(p) ==
  /\ LocalInv(p) /\ ModelInv(p) /\ AdapterInv(p)
  /\ proc[p].status = "running" => StepInv(p)

IInv == TypeOK /\ Exclusive /\ LoadedInv /\ \A p \in Procs : ProcInv(p)

\* A script fails only at its first step, the CREATE TABLE of its first database: what
\* Completes says without its fairness.
FailsOnlyAtStart == \A p \in Procs : proc[p].status = "failed" => proc[p].at = 1

\* The second database is created after the first, in the adapt script's fourth step.
TablesInv ==
  /\ \A d \in Dirs : <<d, "beta">> \in tables => <<d, "alpha">> \in tables
  /\ \A p \in Procs : Past(p) /\ <<Dir(p), "beta">> \in tables => proc[p].at > 4

FailInv == IInv /\ TablesInv /\ FailsOnlyAtStart
===============================================================================
