---------------------------- MODULE TrainingProofs ----------------------------
(***************************************************************************)
(* Proofs about training: the trainer, for any number of processes,        *)
(* revisions and scores and with kills anywhere; the dataset build, for    *)
(* any number of trips, vehicles, mappings and changes to them; and the    *)
(* pure rules both rest on, for any input.                                 *)
(*                                                                         *)
(* The trainer.  The properties speak of whole scripts, the steps only of  *)
(* the one a process is at.  IInv closes the gap: StepInv says what the    *)
(* steps taken guarantee to the next one, and the plan lemmas below reduce *)
(* the scripts to which step comes before which (Follows).  That no other  *)
(* process disturbs these guarantees rests on Exclusive: a process past    *)
(* its first CREATE TABLE is the only such process of its directory        *)
(* (OthersInv), and what one step changes stays in its own directory, runs *)
(* and rows (MoveInv).  Each action then has a lemma about its own process *)
(* only.                                                                   *)
(*                                                                         *)
(* The dataset build.  DatasetInv says what the build has read that cannot *)
(* change any more: a row with a label is of a trip whose outcome is final *)
(* (RawInv), the dataset follows the enumerated rows (OutInv), and a       *)
(* feature over appended rows is worth what it was when it was served,     *)
(* because no row appended since is dated before that time and the queries *)
(* compare strictly (ServedInv, HistoryKept).  The own outcome needs no    *)
(* history: the row of the trip departs at the prediction time, where      *)
(* every query over trips stops that compares the departure (OwnOutcome).  *)
(*                                                                         *)
(* The rules.  RulesInv says that the output is what the operator of the   *)
(* rule gives, or the part of it that the rounds so far have computed; the *)
(* rest is what the operators compute.  What picks the best of finitely    *)
(* many candidates has one to pick (FirstExists: inclusion is well-founded *)
(* on finite sets, which takes the place of an induction over data), the   *)
(* first places of a ranking are all taken (RankCut), and a slot of the    *)
(* encoding has one position (PositionFor).  A trip of the fleet is one    *)
(* the generator makes, so its label is what was remembered of it          *)
(* (TripLabel), and four completed trips have each of the first four       *)
(* places (FirstFour).  A node of an expression has a value when its       *)
(* operands have one (EntryOf), and the strongest pair left is no stronger *)
(* than those before it (StrongestFirst).                                  *)
(***************************************************************************)
EXTENDS TrainingPipeline, DatasetBuild, DataAlgorithms,
        FiniteSetTheorems, SequenceTheorems, TLAPS

-----------------------------------------------------------------------------
(***************************************************************************)
(* The scripts.                                                            *)
(***************************************************************************)

\* baselines: the baseline models only.
LEMMA BaselinesPlanSteps ==
  /\ Len(BaselinesPlan) = 6
  /\ BaselinesPlan[1] = Step("schema", "alpha", None)
  /\ BaselinesPlan[2] = Step("load", "alpha", None)
  /\ BaselinesPlan[3] = Step("build", "alpha", None)
  /\ BaselinesPlan[4] = Step("baseline", "logistic_regression", None)
  /\ BaselinesPlan[5] = Step("baseline", "gradient_boosted_trees", None)
  /\ BaselinesPlan[6] = Step("baseline", "mlp", None)
BY DEF BaselinesPlan, Provision, TrainBaselines, Transformer, TrainAdapter

\* hermes-rpt: a transformer beside the baselines, then the promotion.
LEMMA HermesPlanSteps ==
  /\ Len(HermesPlan) = 10
  /\ HermesPlan[1] = Step("schema", "alpha", None)
  /\ HermesPlan[2] = Step("load", "alpha", None)
  /\ HermesPlan[3] = Step("build", "alpha", None)
  /\ HermesPlan[4] = Step("baseline", "logistic_regression", None)
  /\ HermesPlan[5] = Step("baseline", "gradient_boosted_trees", None)
  /\ HermesPlan[6] = Step("baseline", "mlp", None)
  /\ HermesPlan[7] = Step("save", "scratch", "checkpoints")
  /\ HermesPlan[8] = Step("log", "scratch", "checkpoints")
  /\ HermesPlan[9] = Step("register", "scratch", "checkpoints")
  /\ HermesPlan[10] = Step("promote", "scratch", None)
BY DEF HermesPlan, Provision, TrainBaselines, Transformer, TrainAdapter

\* pretrain: the transformer from scratch and from the pretrained backbone.
LEMMA PretrainPlanSteps ==
  /\ Len(PretrainPlan) = 13
  /\ PretrainPlan[1] = Step("schema", "alpha", None)
  /\ PretrainPlan[2] = Step("load", "alpha", None)
  /\ PretrainPlan[3] = Step("build", "alpha", None)
  /\ PretrainPlan[4] = Step("baseline", "logistic_regression", None)
  /\ PretrainPlan[5] = Step("baseline", "gradient_boosted_trees", None)
  /\ PretrainPlan[6] = Step("baseline", "mlp", None)
  /\ PretrainPlan[7] = Step("pretrain", "pretrain", "pretrain-checkpoints")
  /\ PretrainPlan[8] = Step("save", "scratch", "finetune-scratch")
  /\ PretrainPlan[9] = Step("log", "scratch", "finetune-scratch")
  /\ PretrainPlan[10] = Step("register", "scratch", "finetune-scratch")
  /\ PretrainPlan[11] = Step("save", "pretrained", "finetune-pretrained")
  /\ PretrainPlan[12] = Step("log", "pretrained", "finetune-pretrained")
  /\ PretrainPlan[13] = Step("register", "pretrained", "finetune-pretrained")
BY DEF PretrainPlan, Provision, TrainBaselines, Transformer, TrainAdapter

\* adapt: the shared base and an adapter for each of two tenants.
LEMMA AdaptPlanSteps ==
  /\ Len(AdaptPlan) = 16
  /\ AdaptPlan[1] = Step("schema", "alpha", None)
  /\ AdaptPlan[2] = Step("load", "alpha", None)
  /\ AdaptPlan[3] = Step("build", "alpha", None)
  /\ AdaptPlan[4] = Step("schema", "beta", None)
  /\ AdaptPlan[5] = Step("load", "beta", None)
  /\ AdaptPlan[6] = Step("build", "beta", None)
  /\ AdaptPlan[7] = Step("save", "base", "shared-base")
  /\ AdaptPlan[8] = Step("log", "base", "shared-base")
  /\ AdaptPlan[9] = Step("register", "base", "shared-base")
  /\ AdaptPlan[10] = Step("share", "base", None)
  /\ AdaptPlan[11] = Step("loadBackbone", "base", "shared-base")
  /\ AdaptPlan[12] = Step("adapter", "alpha", "adapters")
  /\ AdaptPlan[13] = Step("promoteAdapter", "alpha", None)
  /\ AdaptPlan[14] = Step("adapter", "beta", "adapters")
  /\ AdaptPlan[15] = Step("promoteAdapter", "beta", None)
  /\ AdaptPlan[16] = Step("isolation", "beta", None)
BY DEF AdaptPlan, Provision, TrainBaselines, Transformer, TrainAdapter

-----------------------------------------------------------------------------
\* The argument and the folder of a step.
Shape(s) ==
  /\ s.op \in {"schema", "load", "build", "adapter", "promoteAdapter", "isolation"} =>
       s.arg \in Slugs
  /\ s.op = "baseline" => s.arg \in Baselines
  /\ s.op \in {"save", "log", "register"} =>
       s.arg \in {"scratch", "pretrained", "base"} /\ s.folder \in Folders \ {"adapters"}
  /\ s.op = "pretrain" => s.folder \in Folders \ {"adapters"}
  /\ s.op = "promote" => s.arg = "scratch"
  /\ s.op = "share" => s.arg = "base"
  /\ s.op = "loadBackbone" => s.folder = "shared-base"

\* What comes before a step.
Follows(s, t) ==
  /\ s.op = "build" => t.op = "load" /\ t.arg = s.arg
  /\ s.op = "log" => t.op = "save" /\ t.arg = s.arg /\ t.folder = s.folder
  /\ s.op = "register" => t.op = "log" /\ t.arg = s.arg /\ t.folder = s.folder
  /\ s.op \in {"share", "promote"} => t.op = "register" /\ t.arg = s.arg
  /\ s.op = "share" => t.folder = "shared-base"
  /\ s.op = "loadBackbone" => t.op = "share"
  /\ s.op = "adapter" => t.op \in {"loadBackbone", "promoteAdapter"}
  /\ s.op = "promoteAdapter" => t.op = "adapter" /\ t.arg = s.arg

\* What all scripts have in common.
Script0(plan) ==
  /\ Len(plan) \in Nat /\ Len(plan) > 1
  /\ plan[1] = Step("schema", "alpha", None)
  /\ \A k \in 1 .. Len(plan) :
       /\ Shape(plan[k])
       /\ k > 1 => Follows(plan[k], plan[k - 1])
       /\ plan[k].op = "promote" => k = Len(plan)

\* Every script has these things.
LEMMA PlanSteps == \A c \in Commands : Script0(Plan(c))
<1> USE DEF Shape, Follows, Step, Slugs, Baselines, Folders
<1>1. Script0(BaselinesPlan) BY BaselinesPlanSteps DEF Script0
<1>2. Script0(HermesPlan) BY HermesPlanSteps DEF Script0
<1>3. Script0(PretrainPlan) BY PretrainPlanSteps DEF Script0
<1>4. Script0(AdaptPlan) BY AdaptPlanSteps DEF Script0
<1> HIDE DEF Shape, Follows, Step, Slugs, Baselines, Folders
<1> QED BY <1>1, <1>2, <1>3, <1>4 DEF Plan, Commands

-----------------------------------------------------------------------------
(***************************************************************************)
(* The steps.                                                              *)
(***************************************************************************)

\* Where a running process is.
LEMMA RunningFacts ==
  ASSUME IInv, NEW p \in Procs, proc[p].status = "running"
  PROVE  /\ proc[p] \in Locals /\ Active(p)
         /\ proc[p].command \in Commands /\ proc[p].revision \in Revisions /\ Dir(p) \in Dirs
         /\ proc[p].at \in 1 .. Len(Plan(proc[p].command))
         /\ Script0(Plan(proc[p].command))
         /\ Shape(Current(p))
         /\ Current(p).op # "schema" => Past(p)
         /\ StepInv(p)
<1>1. proc[p] \in Locals /\ ProcInv(p) BY DEF IInv, TypeOK
<1>2. Active(p) BY DEF Active
<1>3. /\ proc[p].command \in Commands /\ proc[p].revision \in Revisions
      /\ proc[p].at \in 1 .. Len(Plan(proc[p].command))
  BY <1>1, <1>2 DEF ProcInv, LocalInv
<1>4. Script0(Plan(proc[p].command)) BY <1>3, PlanSteps
<1>5. Shape(Current(p)) BY <1>3, <1>4 DEF Script0, Current
<1>6. Current(p).op # "schema" => Past(p) BY <1>2, <1>3, <1>4 DEF Script0, Current, Past, Step
<1> QED BY <1>1, <1>2, <1>3, <1>4, <1>5, <1>6 DEF ProcInv, Dir, Dirs

\* The local state v of a process whose step is done: at the next step, or done after the
\* last one.
Moved(p, v) ==
  /\ v \in Locals
  /\ v.command = proc[p].command /\ v.revision = proc[p].revision /\ v.promote = proc[p].promote
  /\ v.at \in 1 .. Len(Plan(v.command)) /\ v.at > 1
  /\ \/ v.status = "done"
     \/ /\ v.status = "running" /\ Current(p).op # "promote"
        /\ Follows(Plan(v.command)[v.at], Current(p))

\* What Advanced changes, and what it keeps.
LEMMA AdvancedFacts ==
  ASSUME IInv, NEW p \in Procs, proc[p].status = "running"
  PROVE  /\ Moved(p, Advanced(p))
         /\ \A f \in {"data", "weights", "score", "backbone"} : Advanced(p)[f] = proc[p][f]
         /\ Current(p).op = "promote" => Advanced(p).status = "done"
<1>1. /\ proc[p] \in Locals /\ Script0(Plan(proc[p].command))
      /\ proc[p].at \in 1 .. Len(Plan(proc[p].command))
  BY RunningFacts
<1>2. CASE proc[p].at = Len(Plan(proc[p].command))
  <2>1. Advanced(p) = [proc[p] EXCEPT !.status = "done"] BY <1>2 DEF Advanced
  <2> QED BY <1>1, <1>2, <2>1 DEF Moved, Locals, Statuses, Script0
<1>3. CASE proc[p].at # Len(Plan(proc[p].command))
  <2>1. Advanced(p) = [proc[p] EXCEPT !.at = @ + 1] BY <1>3 DEF Advanced
  <2>2. /\ proc[p].at + 1 \in 1 .. Len(Plan(proc[p].command)) /\ proc[p].at + 1 > 1
        /\ (proc[p].at + 1) - 1 = proc[p].at
    BY <1>1, <1>3 DEF Script0
  <2>3. Follows(Plan(proc[p].command)[proc[p].at + 1], Current(p))
    BY <1>1, <2>2 DEF Script0, Current
  <2>4. Current(p).op # "promote" BY <1>1, <1>3 DEF Script0, Current
  <2>5. Advanced(p) \in Locals /\ Advanced(p).at = proc[p].at + 1 BY <1>1, <2>1, <2>2 DEF Locals
  <2>6. Advanced(p).status = "running" BY <1>1, <2>1 DEF Locals
  <2>7. \A f \in {"command", "revision", "promote", "data", "weights", "score", "backbone"} :
          Advanced(p)[f] = proc[p][f]
    BY <1>1, <2>1 DEF Locals
  <2>8. /\ Advanced(p).command = proc[p].command /\ Advanced(p).revision = proc[p].revision
        /\ Advanced(p).promote = proc[p].promote
    BY <2>7
  <2> QED BY <2>2, <2>3, <2>4, <2>5, <2>6, <2>7, <2>8 DEF Moved
<1> QED BY <1>2, <1>3

\* The state apart from the processes keeps its type.
DataOK ==
  /\ models \in [Procs -> SUBSET ModelRows]
  /\ adapters \in [Procs -> SUBSET AdapterRows]
  /\ aliases \in [Procs -> SUBSET [tenant : Tenants \cup {None}, base : Weights,
                                   adapter : Weights \cup {None}]]
  /\ tables \subseteq Dirs \X Slugs
  /\ loaded \in [Dirs \X Slugs -> SUBSET Procs]
  /\ files \in [Paths -> Weights \cup {None}]
  /\ store \in [Weights -> Weights \cup {None}]

\* No other process of the directory is past its first step.
Alone(p) == \A q \in Procs : q # p /\ Past(q) => Dir(q) # Dir(p)

\* A process that keeps to its own directory, runs and rows leaves the others alone.
LEMMA OthersInv ==
  ASSUME IInv, NEW p \in Procs, NEW q \in Procs, q # p, Past(q) => Dir(q) # Dir(p),
         proc'[q] = proc[q], models'[q] = models[q], adapters'[q] = adapters[q],
         tables \subseteq tables',
         \A d \in Dirs, s \in Slugs : d # Dir(p) => loaded'[<<d, s>>] = loaded[<<d, s>>],
         \A d \in Dirs, f \in Folders, t \in Tenants \cup {None} :
           d # Dir(p) => files'[<<d, f, t>>] = files[<<d, f, t>>],
         \A k \in Kinds : store'[<<q, k>>] = store[<<q, k>>]
  PROVE  ProcInv(q)'
<1>1. ProcInv(q) /\ Dir(q)' = Dir(q) /\ Active(q)' = Active(q) /\ Past(q)' = Past(q)
      /\ Current(q)' = Current(q) /\ SharedBase(q)' = SharedBase(q)
      /\ \A k : HasModel(q, k)' = HasModel(q, k)
  BY DEF IInv, Dir, Active, Past, Current, SharedBase, HasModel
<1>2. Past(q) => Dir(q) \in Dirs /\ Dir(q) # Dir(p) BY <1>1 DEF ProcInv, LocalInv, Past, Dir, Dirs
<1>3. LocalInv(q)'
  BY <1>1, <1>2 DEF ProcInv, LocalInv
<1>4. ASSUME proc[q].status = "running" PROVE StepInv(q)'
  <2>1. StepInv(q) /\ Shape(Current(q)) /\ (Current(q).op # "schema" => Past(q))
    BY <1>4, RunningFacts
  <2>2. CASE Current(q).op = "schema" BY <1>1, <2>1, <2>2 DEF StepInv
  <2>3. CASE Current(q).op # "schema"
    <3>1. Dir(q) \in Dirs /\ Dir(q) # Dir(p) BY <1>2, <2>1, <2>3
    <3>2. Current(q).op = "build" => loaded'[<<Dir(q), Current(q).arg>>] = loaded[<<Dir(q), Current(q).arg>>]
      BY <2>1, <3>1 DEF Shape
    <3>3. Current(q).op \in {"log", "register"} =>
             files'[<<Dir(q), Current(q).folder, None>>] = files[<<Dir(q), Current(q).folder, None>>]
      BY <2>1, <3>1 DEF Shape
    <3>4. files'[<<Dir(q), "shared-base", None>>] = files[<<Dir(q), "shared-base", None>>]
      BY <3>1 DEF Folders
    <3>5. Current(q).op = "register" => store'[<<q, Current(q).arg>>] = store[<<q, Current(q).arg>>]
      BY <2>1 DEF Shape, Kinds
    <3> QED BY <1>1, <2>1, <3>2, <3>3, <3>4, <3>5 DEF StepInv
  <2> QED BY <2>2, <2>3
<1>5. ModelInv(q)'
  <2>1. models[q] \subseteq ModelRows BY DEF IInv, TypeOK
  <2>2. \A m \in models[q] : store'[<<q, m.kind>>] = store[<<q, m.kind>>] BY <2>1 DEF ModelRows
  <2> QED BY <1>1, <2>2 DEF ProcInv, ModelInv
<1>6. AdapterInv(q)'
  <2>1. AdapterInv(q) BY <1>1 DEF ProcInv
  <2>2. ASSUME NEW a \in adapters[q], NEW s \in Slugs, a.uri = <<Dir(q), "adapters", <<q, s>>>>
        PROVE  files'[a.uri] = files[a.uri]
    <3>1. Past(q) BY <2>1 DEF AdapterInv
    <3> QED BY <1>2, <3>1, <2>2 DEF Folders, Tenants
  <2> QED BY <1>1, <2>1, <2>2 DEF AdapterInv
<1> QED BY <1>3, <1>4, <1>5, <1>6 DEF ProcInv

\* A step of a script that is done: what is left to show is about its own process.
LEMMA MoveInv ==
  ASSUME IInv, NEW p \in Procs, proc[p].status = "running", Alone(p),
         NEW v, Moved(p, v), proc' = [proc EXCEPT ![p] = v], DataOK',
         \A q \in Procs : q # p => models'[q] = models[q] /\ adapters'[q] = adapters[q],
         tables \subseteq tables', <<Dir(p), "alpha">> \in tables',
         \A d \in Dirs, s \in Slugs : d # Dir(p) => loaded'[<<d, s>>] = loaded[<<d, s>>],
         \A s \in Slugs : loaded'[<<Dir(p), s>>] \subseteq {p},
         \A d \in Dirs, f \in Folders, t \in Tenants \cup {None} :
           d # Dir(p) => files'[<<d, f, t>>] = files[<<d, f, t>>],
         \A q \in Procs, k \in Kinds : q # p => store'[<<q, k>>] = store[<<q, k>>],
         \A s \in Slugs : v.data[s] \in {None, {p}},
         v.status = "running" => StepInv(p)', ModelInv(p)', AdapterInv(p)'
  PROVE  IInv'
<1>1. proc \in [Procs -> Locals] /\ v \in Locals BY DEF IInv, TypeOK, Moved
<1>2. proc'[p] = v /\ proc' \in [Procs -> Locals] /\ \A q \in Procs : q # p => proc'[q] = proc[q]
  BY <1>1
<1>3. proc[p].command \in Commands /\ proc[p].revision \in Revisions BY RunningFacts
<1>4. Dir(p)' = Dir(p) /\ Past(p)' /\ Active(p)'
  BY <1>2 DEF Dir, Past, Active, Moved
<1>5. \A q \in Procs : q # p => ProcInv(q)'
  BY <1>2, OthersInv DEF Alone
<1>6. ProcInv(p)'
  BY <1>2, <1>3, <1>4 DEF ProcInv, LocalInv, Moved
<1>7. TypeOK'
  <2>1. \A q \in Procs : proc'[q].command # None => proc'[q].at \in 1 .. Len(Plan(proc'[q].command))
    BY <1>2 DEF IInv, TypeOK, Moved
  <2> QED BY <1>2, <2>1 DEF TypeOK, DataOK
<1>8. Exclusive'
  <2>1. \A q \in Procs : q # p => (Past(q)' <=> Past(q)) /\ Dir(q)' = Dir(q)
    BY <1>2 DEF Past, Active, Dir
  <2> QED BY <1>4, <2>1 DEF IInv, Exclusive, Alone
<1>9. LoadedInv' BY DEF IInv, LoadedInv
<1> QED BY <1>5, <1>6, <1>7, <1>8, <1>9 DEF IInv

\* Past its first step a process is alone in its directory.
LEMMA PastAlone ==
  ASSUME IInv, NEW p \in Procs, Past(p)
  PROVE  /\ Alone(p) /\ <<Dir(p), "alpha">> \in tables
         /\ \A s \in Slugs : loaded[<<Dir(p), s>>] \subseteq {p}
BY DEF IInv, Exclusive, Alone, ProcInv, LocalInv

\* The models stay sound when a step adds none.
LEMMA OwnModels ==
  ASSUME IInv, NEW p \in Procs, proc[p].status = "running", NEW v, Moved(p, v),
         proc' = [proc EXCEPT ![p] = v], models'[p] = models[p],
         \A k \in Kinds : store'[<<p, k>>] \in {store[<<p, k>>], <<p, k>>}
  PROVE  ModelInv(p)' /\ SharedBase(p)' = SharedBase(p) /\ \A k : HasModel(p, k)' = HasModel(p, k)
<1>1. ModelInv(p) /\ models[p] \subseteq ModelRows /\ proc'[p] = v
  BY DEF IInv, TypeOK, ProcInv
<1>2. \A m \in models[p] : store'[<<p, m.kind>>] = <<p, m.kind>>
  BY <1>1 DEF ModelInv, ModelRows
<1>3. v.promote = proc[p].promote BY DEF Moved
<1> QED BY <1>1, <1>2, <1>3 DEF ModelInv, SharedBase, HasModel

\* The adapters stay sound when a step adds none.
LEMMA OwnAdapters ==
  ASSUME IInv, NEW p \in Procs, proc[p].status = "running", NEW v, Moved(p, v),
         proc' = [proc EXCEPT ![p] = v], adapters'[p] = adapters[p],
         SharedBase(p) => SharedBase(p)',
         \A s \in Slugs : files'[<<Dir(p), "adapters", <<p, s>>>>]
                            \in {files[<<Dir(p), "adapters", <<p, s>>>>], <<p, s>>}
  PROVE  AdapterInv(p)'
<1>1. AdapterInv(p) /\ proc'[p] = v BY DEF IInv, TypeOK, ProcInv
<1>2. Dir(p)' = Dir(p) /\ Past(p)' BY <1>1 DEF Moved, Dir, Past, Active
<1> QED BY <1>1, <1>2 DEF AdapterInv

\* Facts every action lemma starts from.
LEMMA Starting ==
  ASSUME IInv, NEW p \in Procs, proc[p].status = "running"
  PROVE  /\ DataOK /\ proc \in [Procs -> Locals] /\ Dir(p) \in Dirs
         /\ \A s \in Slugs : Advanced(p).data[s] \in {None, {p}}
         /\ ModelInv(p) /\ AdapterInv(p) /\ StepInv(p) /\ Shape(Current(p))
<1>1. Advanced(p)["data"] = proc[p]["data"] BY AdvancedFacts
<1>2. \A s \in Slugs : proc[p].data[s] \in {None, {p}} BY DEF IInv, ProcInv, LocalInv
<1> QED BY <1>1, <1>2, RunningFacts DEF IInv, TypeOK, DataOK, ProcInv

\* The step a process comes to.
LEMMA NextStep ==
  ASSUME IInv, NEW p \in Procs, NEW v, Moved(p, v), proc' = [proc EXCEPT ![p] = v]
  PROVE  /\ proc'[p] = v /\ Dir(p)' = Dir(p)
         /\ v.status = "running" => Follows(Current(p)', Current(p))
BY DEF IInv, TypeOK, Current, Dir, Moved

\* After a step that nothing relies on, nothing is to be shown of the next one.
LEMMA QuietStep ==
  ASSUME IInv, NEW p \in Procs, NEW v, Moved(p, v), proc' = [proc EXCEPT ![p] = v],
         v.status = "running",
         Current(p).op \in {"schema", "build", "baseline", "pretrain", "isolation"}
  PROVE  StepInv(p)'
<1>1. Follows(Current(p)', Current(p)) BY NextStep
<1> QED BY <1>1 DEF StepInv, Follows

\* load_fleet_data: the rows are this process's own.
LEMMA LoadDataInv ==
  ASSUME IInv, NEW p \in Procs, LoadData(p)
  PROVE  IInv'
<1>1. proc[p].status = "running" /\ Current(p).op = "load" BY DEF LoadData, At
<1> DEFINE v == Advanced(p)
<1>2. Moved(p, v) BY <1>1, AdvancedFacts
<1>3. Past(p) /\ Alone(p) /\ <<Dir(p), "alpha">> \in tables
      /\ \A s \in Slugs : loaded[<<Dir(p), s>>] \subseteq {p}
  BY <1>1, RunningFacts, PastAlone
<1>4. DataOK /\ Dir(p) \in Dirs /\ Current(p).arg \in Slugs
  BY <1>1, Starting DEF Shape
<1>5. /\ proc' = [proc EXCEPT ![p] = v] /\ UNCHANGED <<models, adapters, aliases, tables, files, store>>
      /\ loaded' = [loaded EXCEPT ![<<Dir(p), Current(p).arg>>] = @ \cup {p}]
  BY DEF LoadData, Advance, rows
<1>6. \A s \in Slugs : v.data[s] \in {None, {p}} BY <1>1, Starting
<1> HIDE DEF v
<1>7. /\ loaded' \in [Dirs \X Slugs -> SUBSET Procs]
      /\ \A d \in Dirs, s \in Slugs :
           loaded'[<<d, s>>] = IF d = Dir(p) /\ s = Current(p).arg
                               THEN loaded[<<d, s>>] \cup {p} ELSE loaded[<<d, s>>]
  BY <1>4, <1>5 DEF DataOK
<1>8. DataOK' BY <1>4, <1>5, <1>7 DEF DataOK
<1>9. ModelInv(p)' /\ AdapterInv(p)' BY <1>1, <1>2, <1>5, OwnModels, OwnAdapters
<1>10. ASSUME v.status = "running" PROVE StepInv(p)'
  <2>1. Follows(Current(p)', Current(p)) /\ Dir(p)' = Dir(p) BY <1>2, <1>5, <1>10, NextStep
  <2>2. (Current(p).op = "build")' => p \in loaded'[<<Dir(p), Current(p)'.arg>>]
    BY <1>4, <1>7, <2>1 DEF Follows
  <2> QED BY <1>1, <2>1, <2>2 DEF StepInv, Follows
<1>11. /\ \A s \in Slugs : loaded'[<<Dir(p), s>>] \subseteq {p}
       /\ \A d \in Dirs, s \in Slugs : d # Dir(p) => loaded'[<<d, s>>] = loaded[<<d, s>>]
  BY <1>3, <1>4, <1>7
<1> QED BY <1>1, <1>2, <1>3, <1>5, <1>6, <1>8, <1>9, <1>10, <1>11, MoveInv

\* A statement raises: the process stops where it is.
LEMMA RaiseInv ==
  ASSUME IInv, NEW p \in Procs, proc[p].status = "running", Raise(p),
         UNCHANGED <<models, adapters, aliases, tables, loaded, files, store>>
  PROVE  IInv'
<1>1. proc \in [Procs -> Locals] /\ proc[p] \in Locals BY DEF IInv, TypeOK
<1>2. /\ proc' \in [Procs -> Locals] /\ proc'[p].status = "failed"
      /\ \A f \in {"command", "revision", "promote", "at", "data", "backbone", "score"} :
           proc'[p][f] = proc[p][f]
      /\ \A q \in Procs : q # p => proc'[q] = proc[q]
  BY <1>1 DEF Raise, Locals, Statuses
<1>3. /\ proc'[p].command = proc[p].command /\ proc'[p].revision = proc[p].revision
      /\ proc'[p].promote = proc[p].promote /\ proc'[p].at = proc[p].at
      /\ proc'[p].data = proc[p].data
  BY <1>2
<1>4. \A q \in Procs : Active(q)' = Active(q) /\ Past(q)' = Past(q) /\ Dir(q)' = Dir(q)
                       /\ Current(q)' = Current(q) /\ SharedBase(q)' = SharedBase(q)
                       /\ \A k : HasModel(q, k)' = HasModel(q, k)
  BY <1>2, <1>3 DEF Active, Past, Dir, Current, SharedBase, HasModel
<1>5. TypeOK' BY <1>2, <1>3 DEF IInv, TypeOK
<1>6. Exclusive' /\ LoadedInv' BY <1>4 DEF IInv, Exclusive, LoadedInv
<1>7. ASSUME NEW q \in Procs PROVE ProcInv(q)'
  <2>1. ProcInv(q) BY DEF IInv
  <2>2. CASE q = p
    <3>1. LocalInv(p)' BY <1>3, <1>4, <2>1, <2>2 DEF ProcInv, LocalInv
    <3>2. ModelInv(p)' BY <1>2, <1>3, <2>1, <2>2 DEF ProcInv, ModelInv
    <3>3. AdapterInv(p)' BY <1>4, <2>1, <2>2 DEF ProcInv, AdapterInv
    <3> QED BY <1>2, <2>2, <3>1, <3>2, <3>3 DEF ProcInv
  <2>3. CASE q # p
    <3>1. LocalInv(q)' BY <1>2, <1>4, <2>1, <2>3 DEF ProcInv, LocalInv
    <3>2. ModelInv(q)' /\ AdapterInv(q)'
      BY <1>2, <1>4, <2>1, <2>3, SMTT(40) DEF ProcInv, ModelInv, AdapterInv
    <3>3. (proc[q].status = "running" => StepInv(q))'
      BY <1>2, <1>4, <2>1, <2>3 DEF ProcInv, StepInv
    <3> QED BY <3>1, <3>2, <3>3 DEF ProcInv
  <2> QED BY <2>2, <2>3
<1> QED BY <1>5, <1>6, <1>7 DEF IInv

\* CREATE TABLE: it succeeds for the first process of the directory only.
LEMMA CreateSchemaInv ==
  ASSUME IInv, NEW p \in Procs, CreateSchema(p)
  PROVE  IInv'
<1>1. proc[p].status = "running" /\ Current(p).op = "schema" BY DEF CreateSchema, At
<1>2. CASE CreateFails(Dir(p), Current(p).arg)
  BY <1>1, <1>2, RaiseInv DEF CreateSchema, rows
<1>3. CASE ~CreateFails(Dir(p), Current(p).arg)
  <2> DEFINE v == Advanced(p)
  <2>1. Moved(p, v) BY <1>1, AdvancedFacts
  <2>2. DataOK /\ Dir(p) \in Dirs /\ Current(p).arg \in Slugs BY <1>1, Starting DEF Shape
  <2>3. /\ proc' = [proc EXCEPT ![p] = v] /\ UNCHANGED <<models, adapters, aliases, loaded, files, store>>
        /\ tables' = tables \cup {<<Dir(p), Current(p).arg>>}
    BY <1>3 DEF CreateSchema, Advance, rows
  <2>4. \A s \in Slugs : v.data[s] \in {None, {p}} BY <1>1, Starting
  <2> HIDE DEF v
  <2>5. DataOK' BY <2>2, <2>3 DEF DataOK
  <2>6. ModelInv(p)' /\ AdapterInv(p)' BY <1>1, <2>1, <2>3, OwnModels, OwnAdapters
  <2>7. /\ Alone(p) /\ <<Dir(p), "alpha">> \in tables'
        /\ \A s \in Slugs : loaded[<<Dir(p), s>>] \subseteq {p}
    <3>1. CASE Past(p) BY <2>3, <3>1, PastAlone
    <3>2. CASE ~Past(p)
      <4>1. proc[p].at = 1 /\ Current(p) = Step("schema", "alpha", None)
        BY <1>1, <3>2, RunningFacts DEF Past, Script0, Current
      <4>2. <<Dir(p), "alpha">> \notin tables BY <1>3, <4>1 DEF CreateFails, Step
      <4>3. Alone(p) BY <4>2 DEF Alone, IInv, ProcInv, LocalInv
      <4>4. \A s \in Slugs : loaded[<<Dir(p), s>>] = {} BY <2>2, <4>2 DEF IInv, LoadedInv
      <4> QED BY <2>3, <4>1, <4>3, <4>4 DEF Step
    <3> QED BY <3>1, <3>2
  <2>8. v.status = "running" => StepInv(p)' BY <1>1, <2>1, <2>3, QuietStep
  <2> QED BY <1>1, <2>1, <2>3, <2>4, <2>5, <2>6, <2>7, <2>8, MoveInv
<1> QED BY <1>2, <1>3

\* The dataset is built from the rows of this process alone.
LEMMA BuildDatasetInv ==
  ASSUME IInv, NEW p \in Procs, BuildDataset(p)
  PROVE  IInv'
<1>1. proc[p].status = "running" /\ Current(p).op = "build" BY DEF BuildDataset, At
<1> DEFINE slug == Current(p).arg
           v == [Advanced(p) EXCEPT !.data[slug] = loaded[<<Dir(p), slug>>]]
<1>2. Past(p) /\ Alone(p) /\ <<Dir(p), "alpha">> \in tables
      /\ \A s \in Slugs : loaded[<<Dir(p), s>>] \subseteq {p}
  BY <1>1, RunningFacts, PastAlone
<1>3. DataOK /\ Dir(p) \in Dirs /\ slug \in Slugs /\ StepInv(p)
  BY <1>1, Starting DEF Shape
<1>4. loaded[<<Dir(p), slug>>] = {p} BY <1>1, <1>2, <1>3 DEF StepInv
<1>5. Moved(p, Advanced(p)) /\ Advanced(p) \in Locals
      /\ \A s \in Slugs : Advanced(p).data[s] \in {None, {p}}
  BY <1>1, AdvancedFacts, Starting DEF Moved
<1>6. v \in Locals /\ \A s \in Slugs : v.data[s] \in {None, {p}}
  BY <1>3, <1>4, <1>5 DEF Locals
<1>7. Moved(p, v)
  <2>1. \A f \in {"command", "revision", "promote", "at", "status"} : v[f] = Advanced(p)[f]
    BY <1>5 DEF Locals
  <2>2. v.command = Advanced(p).command /\ v.revision = Advanced(p).revision
        /\ v.promote = Advanced(p).promote /\ v.at = Advanced(p).at /\ v.status = Advanced(p).status
    BY <2>1
  <2> HIDE DEF v
  <2> QED BY <1>5, <1>6, <2>2 DEF Moved
<1>8. /\ proc' = [proc EXCEPT ![p] = v]
      /\ UNCHANGED <<models, adapters, aliases, tables, loaded, files, store>>
  BY DEF BuildDataset, rows, disk
<1> HIDE DEF v, slug
<1>9. DataOK' BY <1>3, <1>8 DEF DataOK
<1>10. ModelInv(p)' /\ AdapterInv(p)' BY <1>1, <1>7, <1>8, OwnModels, OwnAdapters
<1>11. v.status = "running" => StepInv(p)' BY <1>1, <1>7, <1>8, QuietStep
<1> QED BY <1>1, <1>2, <1>6, <1>7, <1>8, <1>9, <1>10, <1>11, MoveInv

-----------------------------------------------------------------------------
(***************************************************************************)
(* The trainings and the promotions.                                       *)
(***************************************************************************)

\* A step past provisioning: tables and rows stay, files are written in the process's
\* own directory and runs under its own name.
LEMMA WorkInv ==
  ASSUME IInv, NEW p \in Procs, proc[p].status = "running", Current(p).op # "schema",
         NEW v, Moved(p, v), proc' = [proc EXCEPT ![p] = v], DataOK',
         \A q \in Procs : q # p => models'[q] = models[q] /\ adapters'[q] = adapters[q],
         UNCHANGED <<tables, loaded>>,
         \A d \in Dirs, f \in Folders, t \in Tenants \cup {None} :
           d # Dir(p) => files'[<<d, f, t>>] = files[<<d, f, t>>],
         \A q \in Procs, k \in Kinds : q # p => store'[<<q, k>>] = store[<<q, k>>],
         \A s \in Slugs : v.data[s] \in {None, {p}},
         v.status = "running" => StepInv(p)', ModelInv(p)', AdapterInv(p)'
  PROVE  IInv'
<1>1. Past(p) /\ Alone(p) /\ <<Dir(p), "alpha">> \in tables
      /\ \A s \in Slugs : loaded[<<Dir(p), s>>] \subseteq {p}
  BY RunningFacts, PastAlone
<1> QED BY <1>1, MoveInv

\* A file of the process's directory is written.
LEMMA FileWritten ==
  ASSUME DataOK, NEW p \in Procs, Dir(p) \in Dirs, NEW folder \in Folders,
         NEW t \in Tenants \cup {None}, NEW w \in Weights,
         files' = [files EXCEPT ![<<Dir(p), folder, t>>] = w]
  PROVE  /\ files' \in [Paths -> Weights \cup {None}]
         /\ files'[<<Dir(p), folder, t>>] = w
         /\ \A d \in Dirs, f \in Folders, u \in Tenants \cup {None} :
              <<d, f, u>> # <<Dir(p), folder, t>> => files'[<<d, f, u>>] = files[<<d, f, u>>]
BY DEF DataOK, Paths

\* A run of the process is stored.
LEMMA RunStored ==
  ASSUME DataOK, NEW p \in Procs, NEW kind \in Kinds, NEW w \in Weights,
         store' = [store EXCEPT ![<<p, kind>>] = w]
  PROVE  /\ store' \in [Weights -> Weights \cup {None}]
         /\ store'[<<p, kind>>] = w
         /\ \A q \in Procs, k \in Kinds :
              <<q, k>> # <<p, kind>> => store'[<<q, k>>] = store[<<q, k>>]
BY DEF DataOK, Weights

\* A candidate is registered for what the store holds of the process's own weights.
LEMMA CandidateInv ==
  ASSUME IInv, NEW p \in Procs, proc[p].status = "running", NEW v, Moved(p, v),
         proc' = [proc EXCEPT ![p] = v], Current(p).op # "promote",
         NEW kind \in Kinds, NEW score \in Scores,
         store' \in [Weights -> Weights \cup {None}], store'[<<p, kind>>] = <<p, kind>>,
         \A k \in Kinds : store'[<<p, k>>] \in {store[<<p, k>>], <<p, k>>},
         models' = [models EXCEPT ![p] = @ \cup {Candidate(p, kind, score)}]
  PROVE  /\ models' \in [Procs -> SUBSET ModelRows]
         /\ \A q \in Procs : q # p => models'[q] = models[q]
         /\ ModelInv(p)' /\ (\E m \in models'[p] : m.kind = kind) /\ (SharedBase(p) => SharedBase(p)')
<1> DEFINE row == [kind |-> kind, tenant |-> <<p, "alpha">>, stage |-> "candidate",
                   checksum |-> <<p, kind>>, score |-> score]
<1>1. Candidate(p, kind, score) = row BY DEF Candidate
<1>2. row \in ModelRows BY DEF ModelRows, Weights, Tenants, Slugs, Stages
<1>3. models \in [Procs -> SUBSET ModelRows] BY DEF IInv, TypeOK
<1>4. /\ row.kind = kind /\ row.stage = "candidate" /\ row.checksum = <<p, kind>>
  OBVIOUS
<1> HIDE DEF row
<1>5. /\ models' \in [Procs -> SUBSET ModelRows] /\ models'[p] = models[p] \cup {row}
      /\ \A q \in Procs : q # p => models'[q] = models[q]
  BY <1>1, <1>2, <1>3
<1>6. ModelInv(p) /\ proc'[p] = v /\ v.promote = proc[p].promote /\ models[p] \subseteq ModelRows
  BY <1>3 DEF IInv, TypeOK, ProcInv, Moved
<1>7. \A m \in models[p] : m.stage = "candidate" \/ m.kind = "base"
  BY <1>6 DEF ModelInv
<1>8. ASSUME NEW m \in models'[p]
      PROVE  /\ m.checksum = <<p, m.kind>> /\ store'[<<p, m.kind>>] = <<p, m.kind>>
             /\ m.stage = "candidate" \/ m.kind = "base"
  <2>1. CASE m = row BY <1>4, <2>1
  <2>2. CASE m \in models[p] BY <1>6, <1>7, <2>2 DEF ModelInv, ModelRows
  <2> QED BY <1>5, <2>1, <2>2
<1>9. ModelInv(p)' BY <1>8 DEF ModelInv
<1> QED BY <1>4, <1>5, <1>9 DEF HasModel, SharedBase

\* BaselineTrainingService.train
LEMMA TrainBaselineInv ==
  ASSUME IInv, NEW p \in Procs, TrainBaseline(p)
  PROVE  IInv'
<1>1. proc[p].status = "running" /\ Current(p).op = "baseline" BY DEF TrainBaseline, At
<1> DEFINE v == Advanced(p)
           kind == Current(p).arg
<1>2. Moved(p, v) BY <1>1, AdvancedFacts
<1>3. DataOK /\ kind \in Baselines BY <1>1, Starting DEF Shape
<1>4. kind \in Kinds /\ <<p, kind>> \in Weights BY <1>3 DEF Kinds, Weights
<1>5. PICK score \in Scores :
        /\ store' = [store EXCEPT ![<<p, kind>>] = <<p, kind>>]
        /\ models' = [models EXCEPT ![p] = @ \cup {Candidate(p, kind, score)}]
  BY DEF TrainBaseline
<1>6. proc' = [proc EXCEPT ![p] = v] /\ UNCHANGED <<adapters, aliases, tables, loaded, files>>
  BY DEF TrainBaseline, Advance
<1>7. \A s \in Slugs : v.data[s] \in {None, {p}} BY <1>1, Starting
<1> HIDE DEF v, kind
<1>8. /\ store' \in [Weights -> Weights \cup {None}] /\ store'[<<p, kind>>] = <<p, kind>>
      /\ \A q \in Procs, k \in Kinds :
              <<q, k>> # <<p, kind>> => store'[<<q, k>>] = store[<<q, k>>]
  BY <1>3, <1>4, <1>5, RunStored
<1>9. \A k \in Kinds : store'[<<p, k>>] \in {store[<<p, k>>], <<p, k>>} BY <1>8
<1>10. /\ models' \in [Procs -> SUBSET ModelRows]
       /\ \A q \in Procs : q # p => models'[q] = models[q]
       /\ ModelInv(p)' /\ (SharedBase(p) => SharedBase(p)')
  BY <1>1, <1>2, <1>4, <1>5, <1>6, <1>8, <1>9, CandidateInv
<1>11. DataOK' BY <1>3, <1>6, <1>8, <1>10 DEF DataOK
<1>12. AdapterInv(p)' BY <1>1, <1>2, <1>6, <1>10, OwnAdapters
<1>13. v.status = "running" => StepInv(p)' BY <1>1, <1>2, <1>6, QuietStep
<1>14. \A q \in Procs, k \in Kinds : q # p => store'[<<q, k>>] = store[<<q, k>>] BY <1>8
<1> QED BY <1>1, <1>2, <1>6, <1>7, <1>10, <1>11, <1>12, <1>13, <1>14, WorkInv

\* HermesRPTPretrainingService.pretrain
LEMMA PretrainInv ==
  ASSUME IInv, NEW p \in Procs, Pretrain(p)
  PROVE  IInv'
<1>1. proc[p].status = "running" /\ Current(p).op = "pretrain" BY DEF Pretrain, At
<1> DEFINE v == Advanced(p)
           folder == Current(p).folder
<1>2. Moved(p, v) BY <1>1, AdvancedFacts
<1>3. DataOK /\ Dir(p) \in Dirs /\ folder \in Folders \ {"adapters"} BY <1>1, Starting DEF Shape
<1>4. "pretrain" \in Kinds /\ <<p, "pretrain">> \in Weights BY DEF Kinds, Weights
<1>5. /\ files' = [files EXCEPT ![<<Dir(p), folder, None>>] = <<p, "pretrain">>]
      /\ store' = [store EXCEPT ![<<p, "pretrain">>] = <<p, "pretrain">>]
      /\ proc' = [proc EXCEPT ![p] = v] /\ UNCHANGED <<models, adapters, aliases, tables, loaded>>
  BY DEF Pretrain, Advance, CheckpointPath, rows
<1>6. \A s \in Slugs : v.data[s] \in {None, {p}} BY <1>1, Starting
<1> HIDE DEF v, folder
<1>7. /\ store' \in [Weights -> Weights \cup {None}] /\ store'[<<p, "pretrain">>] = <<p, "pretrain">>
      /\ \A q \in Procs, k \in Kinds :
              <<q, k>> # <<p, "pretrain">> => store'[<<q, k>>] = store[<<q, k>>]
  BY <1>3, <1>4, <1>5, RunStored
<1>8. /\ files' \in [Paths -> Weights \cup {None}]
      /\ \A d \in Dirs, f \in Folders, u \in Tenants \cup {None} :
           <<d, f, u>> # <<Dir(p), folder, None>> => files'[<<d, f, u>>] = files[<<d, f, u>>]
  BY <1>3, <1>4, <1>5, FileWritten
<1>9. ModelInv(p)' /\ SharedBase(p)' = SharedBase(p)
  BY <1>1, <1>2, <1>5, <1>7, OwnModels
<1>10. \A s \in Slugs : files'[<<Dir(p), "adapters", <<p, s>>>>] = files[<<Dir(p), "adapters", <<p, s>>>>]
  BY <1>3, <1>8 DEF Folders, Tenants
<1>11. AdapterInv(p)' BY <1>1, <1>2, <1>5, <1>9, <1>10, OwnAdapters
<1>12. DataOK' BY <1>3, <1>5, <1>7, <1>8 DEF DataOK
<1>13. v.status = "running" => StepInv(p)' BY <1>1, <1>2, <1>5, QuietStep
<1>14. /\ \A q \in Procs, k \in Kinds : q # p => store'[<<q, k>>] = store[<<q, k>>]
       /\ \A d \in Dirs, f \in Folders, t \in Tenants \cup {None} :
            d # Dir(p) => files'[<<d, f, t>>] = files[<<d, f, t>>]
  BY <1>7, <1>8
<1> QED BY <1>1, <1>2, <1>5, <1>6, <1>9, <1>11, <1>12, <1>13, <1>14, WorkInv

\* The local state with other weights, score or backbone than Advanced's.
LEMMA MovedWith ==
  ASSUME NEW p \in Procs, NEW w, w \in Locals, Moved(p, w), NEW v, v \in Locals,
         v.command = w.command, v.revision = w.revision, v.promote = w.promote,
         v.at = w.at, v.status = w.status
  PROVE  Moved(p, v)
BY DEF Moved

\* HermesRPTTrainingService.train up to torch.save
LEMMA SaveCheckpointInv ==
  ASSUME IInv, NEW p \in Procs, SaveCheckpoint(p)
  PROVE  IInv'
<1>1. proc[p].status = "running" /\ Current(p).op = "save" BY DEF SaveCheckpoint, At
<1> DEFINE kind == Current(p).arg
           folder == Current(p).folder
<1>2. PICK score \in Scores :
        proc' = [proc EXCEPT ![p] = [Advanced(p) EXCEPT !.weights = <<p, kind>>, !.score = score]]
  BY DEF SaveCheckpoint
<1> DEFINE v == [Advanced(p) EXCEPT !.weights = <<p, kind>>, !.score = score]
<1>3. DataOK /\ Dir(p) \in Dirs /\ folder \in Folders \ {"adapters"}
      /\ kind \in {"scratch", "pretrained", "base"}
  BY <1>1, Starting DEF Shape
<1>4. kind \in Kinds /\ <<p, kind>> \in Weights BY <1>3 DEF Kinds, Weights
<1>5. Moved(p, Advanced(p)) /\ Advanced(p) \in Locals BY <1>1, AdvancedFacts DEF Moved
<1>6. /\ v \in Locals /\ v.command = Advanced(p).command /\ v.revision = Advanced(p).revision
      /\ v.promote = Advanced(p).promote /\ v.at = Advanced(p).at
      /\ v.status = Advanced(p).status /\ v.data = Advanced(p).data /\ v.score = score
  BY <1>4, <1>5 DEF Locals
<1>7. /\ files' = [files EXCEPT ![<<Dir(p), folder, None>>] = <<p, kind>>]
      /\ proc' = [proc EXCEPT ![p] = v]
      /\ UNCHANGED <<models, adapters, aliases, tables, loaded, store>>
  BY <1>2 DEF SaveCheckpoint, CheckpointPath, rows
<1>8. \A s \in Slugs : v.data[s] \in {None, {p}} BY <1>1, <1>6, Starting
<1> HIDE DEF v, kind, folder
<1>9. Moved(p, v) BY <1>5, <1>6, MovedWith
<1>10. /\ files' \in [Paths -> Weights \cup {None}] /\ files'[<<Dir(p), folder, None>>] = <<p, kind>>
       /\ \A d \in Dirs, f \in Folders, u \in Tenants \cup {None} :
            <<d, f, u>> # <<Dir(p), folder, None>> => files'[<<d, f, u>>] = files[<<d, f, u>>]
  <2> DEFINE w == <<p, kind>>
  <2>1. w \in Weights /\ files' = [files EXCEPT ![<<Dir(p), folder, None>>] = w] BY <1>4, <1>7
  <2> HIDE DEF w
  <2>2. /\ files' \in [Paths -> Weights \cup {None}] /\ files'[<<Dir(p), folder, None>>] = w
        /\ \A d \in Dirs, f \in Folders, u \in Tenants \cup {None} :
             <<d, f, u>> # <<Dir(p), folder, None>> => files'[<<d, f, u>>] = files[<<d, f, u>>]
    BY <1>3, <2>1 DEF DataOK, Paths
  <2> QED BY <2>2 DEF w
<1>11. ModelInv(p)' /\ SharedBase(p)' = SharedBase(p)
  BY <1>1, <1>7, <1>9, OwnModels
<1>12. \A s \in Slugs : files'[<<Dir(p), "adapters", <<p, s>>>>] = files[<<Dir(p), "adapters", <<p, s>>>>]
  BY <1>3, <1>10 DEF Folders, Tenants
<1>13. AdapterInv(p)' BY <1>1, <1>7, <1>9, <1>11, <1>12, OwnAdapters
<1>14. DataOK' BY <1>3, <1>7, <1>10 DEF DataOK
<1>15. ASSUME v.status = "running" PROVE StepInv(p)'
  <2>1. Follows(Current(p)', Current(p)) /\ Dir(p)' = Dir(p) /\ proc'[p] = v
    BY <1>7, <1>9, <1>15, NextStep
  <2>2. Current(p)'.op \in {"log", "register"} =>
          /\ files'[<<Dir(p), Current(p)'.folder, None>>] = <<p, Current(p)'.arg>>
          /\ proc'[p].score \in Scores
    BY <1>1, <1>6, <1>10, <2>1 DEF Follows, kind, folder
  <2> QED BY <1>1, <2>1, <2>2 DEF StepInv, Follows
<1>16. \A d \in Dirs, f \in Folders, t \in Tenants \cup {None} :
            d # Dir(p) => files'[<<d, f, t>>] = files[<<d, f, t>>]
  BY <1>10
<1> QED BY <1>1, <1>7, <1>8, <1>9, <1>11, <1>13, <1>14, <1>15, <1>16, WorkInv

\* mlflow.log_artifact: the file still holds what this process saved.
LEMMA LogCheckpointInv ==
  ASSUME IInv, NEW p \in Procs, LogCheckpoint(p)
  PROVE  IInv'
<1>1. proc[p].status = "running" /\ Current(p).op = "log" BY DEF LogCheckpoint, At
<1> DEFINE v == Advanced(p)
           kind == Current(p).arg
           folder == Current(p).folder
<1>2. Moved(p, v) BY <1>1, AdvancedFacts
<1>3. DataOK /\ Dir(p) \in Dirs /\ folder \in Folders /\ kind \in {"scratch", "pretrained", "base"}
      /\ StepInv(p)
  BY <1>1, Starting DEF Shape
<1>4. kind \in Kinds /\ <<p, kind>> \in Weights BY <1>3 DEF Kinds, Weights
<1>5. files[<<Dir(p), folder, None>>] = <<p, kind>> /\ proc[p].score \in Scores
  BY <1>1, <1>3 DEF StepInv
<1>6. /\ store' = [store EXCEPT ![<<p, kind>>] = <<p, kind>>]
      /\ proc' = [proc EXCEPT ![p] = v]
      /\ UNCHANGED <<models, adapters, aliases, tables, loaded, files>>
  BY <1>5 DEF LogCheckpoint, Advance, CheckpointPath, rows
<1>7. \A s \in Slugs : v.data[s] \in {None, {p}} BY <1>1, Starting
<1>8. v["score"] = proc[p]["score"] BY <1>1, AdvancedFacts
<1> HIDE DEF v, kind, folder
<1>9. /\ store' \in [Weights -> Weights \cup {None}] /\ store'[<<p, kind>>] = <<p, kind>>
      /\ \A q \in Procs, k \in Kinds :
              <<q, k>> # <<p, kind>> => store'[<<q, k>>] = store[<<q, k>>]
  BY <1>3, <1>4, <1>6, RunStored
<1>10. ModelInv(p)' /\ SharedBase(p)' = SharedBase(p)
  BY <1>1, <1>2, <1>6, <1>9, OwnModels
<1>11. AdapterInv(p)' BY <1>1, <1>2, <1>6, <1>10, OwnAdapters
<1>12. DataOK' BY <1>3, <1>6, <1>9 DEF DataOK
<1>13. ASSUME v.status = "running" PROVE StepInv(p)'
  <2>1. Follows(Current(p)', Current(p)) /\ Dir(p)' = Dir(p) /\ proc'[p] = v
    BY <1>2, <1>6, <1>13, NextStep
  <2>2. Current(p)'.op \in {"log", "register"} =>
          /\ files'[<<Dir(p), Current(p)'.folder, None>>] = <<p, Current(p)'.arg>>
          /\ store'[<<p, Current(p)'.arg>>] = <<p, Current(p)'.arg>>
          /\ proc'[p].score \in Scores
    BY <1>1, <1>5, <1>6, <1>8, <1>9, <2>1 DEF Follows, kind, folder
  <2> QED BY <1>1, <2>1, <2>2 DEF StepInv, Follows
<1>14. \A q \in Procs, k \in Kinds : q # p => store'[<<q, k>>] = store[<<q, k>>] BY <1>9
<1> QED BY <1>1, <1>2, <1>6, <1>7, <1>10, <1>11, <1>12, <1>13, <1>14, WorkInv

\* The stored copy is hashed and registered.
LEMMA RegisterModelInv ==
  ASSUME IInv, NEW p \in Procs, RegisterModel(p)
  PROVE  IInv'
<1>1. proc[p].status = "running" /\ Current(p).op = "register" BY DEF RegisterModel, At
<1> DEFINE v == Advanced(p)
           kind == Current(p).arg
           folder == Current(p).folder
<1>2. Moved(p, v) BY <1>1, AdvancedFacts
<1>3. DataOK /\ kind \in {"scratch", "pretrained", "base"} /\ StepInv(p)
  BY <1>1, Starting DEF Shape
<1>4. kind \in Kinds BY <1>3 DEF Kinds
<1>5. /\ files[<<Dir(p), folder, None>>] = <<p, kind>> /\ proc[p].score \in Scores
      /\ store[<<p, kind>>] = <<p, kind>>
  BY <1>1, <1>3 DEF StepInv
<1>6. /\ models' = [models EXCEPT ![p] = @ \cup {Candidate(p, kind, proc[p].score)}]
      /\ proc' = [proc EXCEPT ![p] = v]
      /\ UNCHANGED <<adapters, aliases, tables, loaded, files, store>>
  BY DEF RegisterModel, Advance, disk
<1>7. \A s \in Slugs : v.data[s] \in {None, {p}} BY <1>1, Starting
<1> HIDE DEF v, kind, folder
<1>8. /\ models' \in [Procs -> SUBSET ModelRows]
      /\ \A q \in Procs : q # p => models'[q] = models[q]
      /\ ModelInv(p)' /\ (\E m \in models'[p] : m.kind = kind) /\ (SharedBase(p) => SharedBase(p)')
  <2>1. store' \in [Weights -> Weights \cup {None}] /\ store'[<<p, kind>>] = <<p, kind>>
        /\ \A k \in Kinds : store'[<<p, k>>] \in {store[<<p, k>>], <<p, k>>}
    BY <1>3, <1>5, <1>6 DEF DataOK
  <2>2. models' = [models EXCEPT ![p] = @ \cup {Candidate(p, kind, proc[p].score)}]
        /\ proc' = [proc EXCEPT ![p] = v] /\ proc[p].score \in Scores /\ Current(p).op # "promote"
    BY <1>1, <1>5, <1>6
  <2> QED BY <1>1, <1>2, <1>4, <2>1, <2>2, CandidateInv
<1>9. DataOK' BY <1>3, <1>6, <1>8 DEF DataOK
<1>10. AdapterInv(p)' BY <1>1, <1>2, <1>6, <1>8, OwnAdapters
<1>11. ASSUME v.status = "running" PROVE StepInv(p)'
  <2>1. Follows(Current(p)', Current(p)) /\ Dir(p)' = Dir(p)
    BY <1>2, <1>6, <1>11, NextStep
  <2>2. Current(p)'.op \in {"share", "promote"} => \E m \in models'[p] : m.kind = Current(p)'.arg
    BY <1>1, <1>8, <2>1 DEF Follows, kind
  <2>3. Current(p)'.op = "share" => Current(p).arg = Current(p)'.arg /\ Current(p).folder = "shared-base"
    BY <2>1 DEF Follows
  <2>4. Current(p)'.op = "share" => files'[<<Dir(p), "shared-base", None>>] = <<p, "base">>
    <3>1. Shape(Current(p)')
      <4>1. v.at \in 1 .. Len(Plan(v.command)) /\ v.command \in Commands
        BY <1>1, <1>2, RunningFacts DEF Moved
      <4>2. Current(p)' = Plan(v.command)[v.at] BY <1>2, <1>6, NextStep DEF Current
      <4> QED BY <4>1, <4>2, PlanSteps DEF Script0
    <3> QED BY <1>5, <1>6, <2>3, <3>1 DEF kind, folder, Shape
  <2> QED BY <1>1, <2>1, <2>2, <2>4 DEF StepInv, Follows, HasModel
<1> QED BY <1>1, <1>2, <1>6, <1>7, <1>8, <1>9, <1>10, <1>11, WorkInv

\* --promote-if-winner: the transformer is promoted when it beat every other model, and
\* the script ends.
LEMMA PromoteWinnerInv ==
  ASSUME IInv, NEW p \in Procs, PromoteWinner(p)
  PROVE  IInv'
<1>1. proc[p].status = "running" /\ Current(p).op = "promote" BY DEF PromoteWinner, At
<1> DEFINE v == Advanced(p)
           row == CHOOSE m \in models[p] : m.kind = Current(p).arg
           new == [row EXCEPT !.stage = "production"]
<1>2. Moved(p, v) /\ v.status = "done" BY <1>1, AdvancedFacts
<1>3. DataOK /\ Current(p).arg = "scratch" /\ StepInv(p) /\ ModelInv(p) /\ models[p] \subseteq ModelRows
  BY <1>1, Starting DEF Shape, DataOK
<1>4. row \in models[p] /\ row.kind = "scratch" BY <1>1, <1>3 DEF StepInv, HasModel
<1>5. \A s \in Slugs : v.data[s] \in {None, {p}} BY <1>1, Starting
<1>6. proc' = [proc EXCEPT ![p] = v] /\ UNCHANGED <<adapters, aliases, tables, loaded, files, store>>
  BY DEF PromoteWinner, Advance, disk
<1>7. models' = IF proc[p].promote /\ Winner(p, row)
                THEN [models EXCEPT ![p] = (@ \ {row}) \cup {new}] ELSE models
  BY DEF PromoteWinner
<1>8. /\ new \in ModelRows /\ new.kind = "scratch" /\ new.checksum = row.checksum
      /\ new.score = row.score /\ new.stage = "production" /\ new.tenant = row.tenant
  BY <1>3, <1>4 DEF ModelRows, Stages
<1> HIDE DEF v, row, new
<1>9. /\ models' \in [Procs -> SUBSET ModelRows]
      /\ \A q \in Procs : q # p => models'[q] = models[q]
  <2>1. models \in [Procs -> SUBSET ModelRows] BY <1>3 DEF DataOK
  <2>2. CASE models' = models BY <2>1, <2>2
  <2>3. CASE models' = [models EXCEPT ![p] = (@ \ {row}) \cup {new}] BY <1>8, <2>1, <2>3
  <2> QED BY <1>7, <2>2, <2>3
<1>10. ModelInv(p)' /\ (SharedBase(p) => SharedBase(p)')
  <2>1. CASE ~(proc[p].promote /\ Winner(p, row))
    <3>1. models'[p] = models[p] BY <1>7, <2>1
    <3> QED BY <1>1, <1>2, <1>6, <3>1, OwnModels
  <2>2. CASE proc[p].promote /\ Winner(p, row)
    <3>1. models'[p] = (models[p] \ {row}) \cup {new} BY <1>3, <1>7, <2>2 DEF DataOK
    <3>2. proc'[p] = v /\ v.promote = proc[p].promote BY <1>2, <1>6 DEF IInv, TypeOK, Moved
    <3>3. \A m \in models[p] : m.stage = "candidate" \/ m.kind = "base" BY <1>1, <1>3 DEF ModelInv
    <3>4. \A b \in models'[p] : b.kind \in Baselines => b \in models[p] \ {row}
      BY <1>8, <3>1 DEF Baselines
    <3>5. \A b \in models'[p] : b.kind \in Baselines => b.score < new.score
      BY <1>8, <2>2, <3>4 DEF Winner
    <3>6. ASSUME NEW m \in models'[p]
          PROVE  /\ m.checksum = <<p, m.kind>> /\ store'[<<p, m.kind>>] = <<p, m.kind>>
                 /\ m.stage # "candidate" /\ m.kind # "base" => m = new
      BY <1>3, <1>4, <1>6, <1>8, <3>3, <3>1 DEF ModelInv
    <3>7. ModelInv(p)'
      BY <1>2, <1>8, <2>2, <3>2, <3>5, <3>6 DEF ModelInv
    <3>8. SharedBase(p) => SharedBase(p)' BY <1>4, <3>1 DEF SharedBase
    <3> QED BY <3>7, <3>8
  <2> QED BY <2>1, <2>2
<1>11. DataOK' BY <1>3, <1>6, <1>9 DEF DataOK
<1>12. AdapterInv(p)' BY <1>1, <1>2, <1>6, <1>10, OwnAdapters
<1> QED BY <1>1, <1>2, <1>5, <1>6, <1>9, <1>10, <1>11, <1>12, WorkInv

\* _run_adapt shares the base and makes it serve.
LEMMA ShareBaseInv ==
  ASSUME IInv, NEW p \in Procs, ShareBase(p)
  PROVE  IInv'
<1>1. proc[p].status = "running" /\ Current(p).op = "share" BY DEF ShareBase, At
<1> DEFINE v == Advanced(p)
           row == CHOOSE m \in models[p] : m.kind = "base"
           new == [row EXCEPT !.tenant = None, !.stage = "production"]
           alias == [tenant |-> None, base |-> row.checksum, adapter |-> None]
<1>2. Moved(p, v) BY <1>1, AdvancedFacts
<1>3. DataOK /\ Current(p).arg = "base" /\ StepInv(p) /\ ModelInv(p) /\ models[p] \subseteq ModelRows
  BY <1>1, Starting DEF Shape, DataOK
<1>4. row \in models[p] /\ row.kind = "base" BY <1>1, <1>3 DEF StepInv, HasModel
<1>5. \A s \in Slugs : v.data[s] \in {None, {p}} BY <1>1, Starting
<1>6. /\ proc' = [proc EXCEPT ![p] = v] /\ UNCHANGED <<adapters, tables, loaded, files, store>>
      /\ models' = [models EXCEPT ![p] = (@ \ {row}) \cup {new}]
      /\ aliases' = [aliases EXCEPT ![p] = @ \cup {alias}]
  BY DEF ShareBase, Advance, disk
<1>7. /\ new \in ModelRows /\ new.kind = "base" /\ new.checksum = row.checksum /\ new.tenant = None
  BY <1>3, <1>4 DEF ModelRows, Stages
<1>8. alias \in [tenant : Tenants \cup {None}, base : Weights, adapter : Weights \cup {None}]
  BY <1>3, <1>4 DEF ModelRows
<1>9. files[<<Dir(p), "shared-base", None>>] = <<p, "base">> BY <1>1, <1>3 DEF StepInv
<1> HIDE DEF v, row, new, alias
<1>10. /\ models' \in [Procs -> SUBSET ModelRows]
       /\ \A q \in Procs : q # p => models'[q] = models[q]
       /\ models'[p] = (models[p] \ {row}) \cup {new}
  BY <1>3, <1>6, <1>7 DEF DataOK
<1>11. DataOK' BY <1>3, <1>6, <1>8, <1>10 DEF DataOK
<1>12. SharedBase(p)' BY <1>7, <1>10 DEF SharedBase
<1>13. ModelInv(p)'
  <2>1. \A m \in models[p] : m.stage = "candidate" \/ m.kind = "base" BY <1>1, <1>3 DEF ModelInv
  <2>2. ASSUME NEW m \in models'[p]
        PROVE  /\ m.checksum = <<p, m.kind>> /\ store'[<<p, m.kind>>] = <<p, m.kind>>
               /\ m.stage = "candidate" \/ m.kind = "base"
    BY <1>3, <1>4, <1>6, <1>7, <1>10, <2>1 DEF ModelInv
  <2> QED BY <2>2 DEF ModelInv
<1>14. AdapterInv(p)' BY <1>1, <1>2, <1>6, <1>12, OwnAdapters
<1>15. ASSUME v.status = "running" PROVE StepInv(p)'
  <2>1. Follows(Current(p)', Current(p)) /\ Dir(p)' = Dir(p)
    BY <1>2, <1>6, <1>15, NextStep
  <2> QED BY <1>1, <1>6, <1>9, <1>12, <2>1 DEF StepInv, Follows
<1> QED BY <1>1, <1>2, <1>5, <1>6, <1>10, <1>11, <1>13, <1>14, <1>15, WorkInv

\* torch.load: the file still holds the base this process saved.
LEMMA LoadBackboneInv ==
  ASSUME IInv, NEW p \in Procs, LoadBackbone(p)
  PROVE  IInv'
<1>1. proc[p].status = "running" /\ Current(p).op = "loadBackbone" BY DEF LoadBackbone, At
<1> DEFINE v == [Advanced(p) EXCEPT !.backbone = <<p, "base">>]
<1>2. DataOK /\ StepInv(p) /\ Current(p).folder = "shared-base" BY <1>1, Starting DEF Shape
<1>3. files[CheckpointPath(p)] = <<p, "base">> /\ SharedBase(p)
  BY <1>1, <1>2 DEF StepInv, CheckpointPath
<1>4. /\ proc' = [proc EXCEPT ![p] = v]
      /\ UNCHANGED <<models, adapters, aliases, tables, loaded, files, store>>
  BY <1>3 DEF LoadBackbone, rows, disk
<1>5. Moved(p, Advanced(p)) /\ Advanced(p) \in Locals BY <1>1, AdvancedFacts DEF Moved
<1>6. /\ v \in Locals /\ v.command = Advanced(p).command /\ v.revision = Advanced(p).revision
      /\ v.promote = Advanced(p).promote /\ v.at = Advanced(p).at
      /\ v.status = Advanced(p).status /\ v.data = Advanced(p).data /\ v.backbone = <<p, "base">>
  BY <1>5 DEF Locals, Weights, Kinds
<1>7. \A s \in Slugs : v.data[s] \in {None, {p}} BY <1>1, <1>6, Starting
<1> HIDE DEF v
<1>8. Moved(p, v) BY <1>5, <1>6, MovedWith
<1>9. ModelInv(p)' /\ SharedBase(p)' BY <1>1, <1>3, <1>4, <1>8, OwnModels
<1>10. AdapterInv(p)' BY <1>1, <1>4, <1>8, <1>9, OwnAdapters
<1>11. DataOK' BY <1>2, <1>4 DEF DataOK
<1>12. ASSUME v.status = "running" PROVE StepInv(p)'
  <2>1. Follows(Current(p)', Current(p)) /\ proc'[p] = v BY <1>4, <1>8, <1>12, NextStep
  <2> QED BY <1>1, <1>6, <1>9, <2>1 DEF StepInv, Follows
<1> QED BY <1>1, <1>4, <1>7, <1>8, <1>9, <1>10, <1>11, <1>12, WorkInv

\* TenantAdapterTrainingService.train: the adapter goes to a file of its own.
LEMMA TrainTenantAdapterInv ==
  ASSUME IInv, NEW p \in Procs, TrainTenantAdapter(p)
  PROVE  IInv'
<1>1. proc[p].status = "running" /\ Current(p).op = "adapter" BY DEF TrainTenantAdapter, At
<1> DEFINE v == Advanced(p)
           slug == Current(p).arg
<1>2. Moved(p, v) BY <1>1, AdvancedFacts
<1>3. DataOK /\ Dir(p) \in Dirs /\ slug \in Slugs /\ StepInv(p) /\ AdapterInv(p)
  BY <1>1, Starting DEF Shape
<1>4. SharedBase(p) /\ proc[p].backbone = <<p, "base">> BY <1>1, <1>3 DEF StepInv
<1>5. PICK score \in Scores :
        /\ files' = [files EXCEPT ![<<Dir(p), "adapters", <<p, slug>>>>] = <<p, slug>>]
        /\ store' = [store EXCEPT ![<<p, slug>>] = <<p, slug>>]
        /\ adapters' = [adapters EXCEPT ![p] = @ \cup
             {[tenant |-> <<p, slug>>, base |-> <<p, "base">>,
               uri |-> <<Dir(p), "adapters", <<p, slug>>>>, stage |-> "candidate",
               checksum |-> <<p, slug>>, score |-> score]}]
  BY <1>4 DEF TrainTenantAdapter, AdapterPath
<1> DEFINE row == [tenant |-> <<p, slug>>, base |-> <<p, "base">>,
                   uri |-> <<Dir(p), "adapters", <<p, slug>>>>, stage |-> "candidate",
                   checksum |-> <<p, slug>>, score |-> score]
<1>6. proc' = [proc EXCEPT ![p] = v] /\ UNCHANGED <<models, aliases, tables, loaded>>
  BY DEF TrainTenantAdapter, Advance
<1>7. (\A s \in Slugs : v.data[s] \in {None, {p}}) /\ v["backbone"] = proc[p]["backbone"]
  BY <1>1, Starting, AdvancedFacts
<1> HIDE DEF v, slug
<1>8. /\ slug \in Kinds /\ <<p, slug>> \in Weights /\ <<p, "base">> \in Weights
      /\ <<p, slug>> \in Tenants /\ "adapters" \in Folders
      /\ <<Dir(p), "adapters", <<p, slug>>>> \in Paths
  BY <1>3 DEF Kinds, Weights, Tenants, Folders, Paths
<1>9. row \in AdapterRows BY <1>8 DEF AdapterRows, Stages
<1>10. /\ row.tenant = <<p, slug>> /\ row.base = <<p, "base">> /\ row.checksum = <<p, slug>>
       /\ row.uri = <<Dir(p), "adapters", <<p, slug>>>>
  OBVIOUS
<1>11. adapters' = [adapters EXCEPT ![p] = @ \cup {row}] BY <1>5
<1> HIDE DEF row
<1>12. /\ adapters' \in [Procs -> SUBSET AdapterRows] /\ adapters'[p] = adapters[p] \cup {row}
       /\ \A q \in Procs : q # p => adapters'[q] = adapters[q]
  BY <1>3, <1>9, <1>11 DEF DataOK
<1>13. /\ store' \in [Weights -> Weights \cup {None}] /\ store'[<<p, slug>>] = <<p, slug>>
       /\ \A q \in Procs, k \in Kinds :
              <<q, k>> # <<p, slug>> => store'[<<q, k>>] = store[<<q, k>>]
  BY <1>3, <1>5, <1>8, RunStored
<1>14. /\ files' \in [Paths -> Weights \cup {None}]
       /\ files'[<<Dir(p), "adapters", <<p, slug>>>>] = <<p, slug>>
       /\ \A d \in Dirs, f \in Folders, u \in Tenants \cup {None} :
            <<d, f, u>> # <<Dir(p), "adapters", <<p, slug>>>> =>
              files'[<<d, f, u>>] = files[<<d, f, u>>]
  <2> DEFINE w == <<p, slug>>
  <2>1. w \in Weights /\ w \in Tenants
        /\ files' = [files EXCEPT ![<<Dir(p), "adapters", w>>] = w] BY <1>5, <1>8
  <2> HIDE DEF w
  <2>2. /\ files' \in [Paths -> Weights \cup {None}]
        /\ files'[<<Dir(p), "adapters", w>>] = w
        /\ \A d \in Dirs, f \in Folders, u \in Tenants \cup {None} :
            <<d, f, u>> # <<Dir(p), "adapters", w>> => files'[<<d, f, u>>] = files[<<d, f, u>>]
    BY <1>3, <1>8, <2>1 DEF DataOK, Paths
  <2> QED BY <2>2 DEF w
<1>15. ModelInv(p)' /\ SharedBase(p)'
  <2>1. \A k \in Kinds : store'[<<p, k>>] \in {store[<<p, k>>], <<p, k>>} BY <1>13
  <2> QED BY <1>1, <1>2, <1>4, <1>6, <2>1, OwnModels
<1>16. AdapterInv(p)'
  <2>1. Dir(p)' = Dir(p) /\ Past(p)' BY <1>2, <1>6, NextStep DEF Moved, Past, Active
  <2>2. \A s \in Slugs : files'[<<Dir(p), "adapters", <<p, s>>>>]
                           \in {files[<<Dir(p), "adapters", <<p, s>>>>], <<p, s>>}
    BY <1>3, <1>8, <1>14 DEF Tenants
  <2>3. ASSUME NEW a \in adapters'[p]
        PROVE  \E s \in Slugs :
                 /\ a.tenant = <<p, s>> /\ a.base = <<p, "base">> /\ a.checksum = <<p, s>>
                 /\ a.uri = <<Dir(p), "adapters", <<p, s>>>> /\ files'[a.uri] = <<p, s>>
    <3>1. CASE a = row BY <1>3, <1>10, <1>14, <3>1
    <3>2. CASE a \in adapters[p]
      <4>1. PICK s \in Slugs :
              /\ a.tenant = <<p, s>> /\ a.base = <<p, "base">> /\ a.checksum = <<p, s>>
              /\ a.uri = <<Dir(p), "adapters", <<p, s>>>> /\ files[a.uri] = <<p, s>>
        BY <1>3, <3>2 DEF AdapterInv
      <4>2. files'[a.uri] = <<p, s>> BY <2>2, <4>1
      <4> QED BY <4>1, <4>2
    <3> QED BY <1>12, <3>1, <3>2
  <2> QED BY <1>15, <2>1, <2>3 DEF AdapterInv
<1>17. DataOK' BY <1>3, <1>6, <1>12, <1>13, <1>14 DEF DataOK
<1>18. ASSUME v.status = "running" PROVE StepInv(p)'
  <2>1. Follows(Current(p)', Current(p)) /\ proc'[p] = v BY <1>2, <1>6, <1>18, NextStep
  <2>2. Current(p)'.op = "promoteAdapter" => \E a \in adapters'[p] : a.tenant = <<p, Current(p)'.arg>>
    BY <1>10, <1>12, <2>1 DEF Follows, slug
  <2>3. proc'[p].backbone = <<p, "base">> BY <1>4, <1>7, <2>1
  <2> QED BY <1>1, <1>15, <2>1, <2>2, <2>3 DEF StepInv, Follows
<1>19. /\ \A q \in Procs, k \in Kinds : q # p => store'[<<q, k>>] = store[<<q, k>>]
       /\ \A d \in Dirs, f \in Folders, t \in Tenants \cup {None} :
            d # Dir(p) => files'[<<d, f, t>>] = files[<<d, f, t>>]
  BY <1>13, <1>14
<1>20. \A q \in Procs : q # p => models'[q] = models[q] /\ adapters'[q] = adapters[q] BY <1>6, <1>12
<1> QED BY <1>1, <1>2, <1>6, <1>7, <1>15, <1>16, <1>17, <1>18, <1>19, <1>20, WorkInv

\* transition_adapter_stage and set_alias
LEMMA PromoteAdapterInv ==
  ASSUME IInv, NEW p \in Procs, PromoteAdapter(p)
  PROVE  IInv'
<1>1. proc[p].status = "running" /\ Current(p).op = "promoteAdapter" BY DEF PromoteAdapter, At
<1> DEFINE v == Advanced(p)
           slug == Current(p).arg
           tenant == <<p, slug>>
           row == CHOOSE a \in adapters[p] : a.tenant = tenant
           base == CHOOSE m \in models[p] : m.kind = "base"
           new == [row EXCEPT !.stage = "production"]
           alias == [tenant |-> tenant, base |-> base.checksum, adapter |-> row.checksum]
<1>2. Moved(p, v) BY <1>1, AdvancedFacts
<1>3. DataOK /\ slug \in Slugs /\ StepInv(p) /\ AdapterInv(p)
      /\ adapters[p] \subseteq AdapterRows /\ models[p] \subseteq ModelRows
  BY <1>1, Starting DEF Shape, DataOK
<1>4. /\ SharedBase(p) /\ proc[p].backbone = <<p, "base">>
      /\ \E a \in adapters[p] : a.tenant = tenant
  BY <1>1, <1>3 DEF StepInv
<1>5. row \in adapters[p] /\ row.tenant = tenant /\ base \in models[p] BY <1>4 DEF SharedBase
<1>6. "model:promote" \in Scopes /\ Visible(row, tenant) BY <1>5 DEF Scopes, Visible
<1>7. /\ proc' = [proc EXCEPT ![p] = v] /\ UNCHANGED <<models, tables, loaded, files, store>>
      /\ adapters' = [adapters EXCEPT ![p] = (@ \ {row}) \cup {new}]
      /\ aliases' = [aliases EXCEPT ![p] = @ \cup {alias}]
  BY <1>6 DEF PromoteAdapter, Advance, disk
<1>8. (\A s \in Slugs : v.data[s] \in {None, {p}}) /\ v["backbone"] = proc[p]["backbone"]
  BY <1>1, Starting, AdvancedFacts
<1>9. /\ new \in AdapterRows /\ new.tenant = row.tenant /\ new.base = row.base
      /\ new.checksum = row.checksum /\ new.uri = row.uri
  BY <1>3, <1>5 DEF AdapterRows, Stages
<1>10. alias \in [tenant : Tenants \cup {None}, base : Weights, adapter : Weights \cup {None}]
  <2>1. tenant \in Tenants /\ base.checksum \in Weights /\ row.checksum \in Weights
    BY <1>3, <1>5 DEF Tenants, ModelRows, AdapterRows
  <2> QED BY <2>1
<1> HIDE DEF v, slug, tenant, row, base, new, alias
<1>11. /\ adapters' \in [Procs -> SUBSET AdapterRows] /\ adapters'[p] = (adapters[p] \ {row}) \cup {new}
       /\ \A q \in Procs : q # p => adapters'[q] = adapters[q]
  BY <1>3, <1>7, <1>9 DEF DataOK
<1>12. DataOK' BY <1>3, <1>7, <1>10, <1>11 DEF DataOK
<1>13. ModelInv(p)' /\ SharedBase(p)' BY <1>1, <1>2, <1>4, <1>7, OwnModels
<1>14. AdapterInv(p)'
  <2>1. Dir(p)' = Dir(p) /\ Past(p)' BY <1>2, <1>7, NextStep DEF Moved, Past, Active
  <2>2. ASSUME NEW a \in adapters'[p]
        PROVE  \E b \in adapters[p] : a.tenant = b.tenant /\ a.base = b.base
                                      /\ a.checksum = b.checksum /\ a.uri = b.uri
    BY <1>5, <1>9, <1>11
  <2>3. ASSUME NEW a \in adapters'[p]
        PROVE  \E s \in Slugs :
                 /\ a.tenant = <<p, s>> /\ a.base = <<p, "base">> /\ a.checksum = <<p, s>>
                 /\ a.uri = <<Dir(p), "adapters", <<p, s>>>> /\ files'[a.uri] = <<p, s>>
    <3>1. PICK b \in adapters[p] : a.tenant = b.tenant /\ a.base = b.base
                                   /\ a.checksum = b.checksum /\ a.uri = b.uri
      BY <2>2
    <3>2. \E s \in Slugs :
             /\ b.tenant = <<p, s>> /\ b.base = <<p, "base">> /\ b.checksum = <<p, s>>
             /\ b.uri = <<Dir(p), "adapters", <<p, s>>>> /\ files[b.uri] = <<p, s>>
      BY <1>3 DEF AdapterInv
    <3> QED BY <1>7, <3>1, <3>2
  <2> QED BY <1>13, <2>1, <2>3 DEF AdapterInv
<1>15. ASSUME v.status = "running" PROVE StepInv(p)'
  <2>1. Follows(Current(p)', Current(p)) /\ proc'[p] = v BY <1>2, <1>7, <1>15, NextStep
  <2>2. proc'[p].backbone = <<p, "base">> BY <1>4, <1>8, <2>1
  <2> QED BY <1>1, <1>13, <2>1, <2>2 DEF StepInv, Follows
<1>16. \A q \in Procs : q # p => models'[q] = models[q] /\ adapters'[q] = adapters[q] BY <1>7, <1>11
<1> QED BY <1>1, <1>2, <1>7, <1>8, <1>12, <1>13, <1>14, <1>15, <1>16, WorkInv

\* The two assertions.
LEMMA CheckIsolationInv ==
  ASSUME IInv, NEW p \in Procs, CheckIsolation(p)
  PROVE  IInv'
<1>1. proc[p].status = "running" /\ Current(p).op = "isolation" BY DEF CheckIsolation, At
<1>2. UNCHANGED <<models, adapters, aliases, tables, loaded, files, store>>
  BY DEF CheckIsolation, rows, disk
<1>3. CASE Raise(p) BY <1>1, <1>2, <1>3, RaiseInv
<1>4. CASE Advance(p)
  <2> DEFINE v == Advanced(p)
  <2>1. Moved(p, v) BY <1>1, AdvancedFacts
  <2>2. proc' = [proc EXCEPT ![p] = v] BY <1>4 DEF Advance
  <2>3. DataOK /\ \A s \in Slugs : v.data[s] \in {None, {p}} BY <1>1, Starting
  <2> HIDE DEF v
  <2>4. DataOK' BY <1>2, <2>3 DEF DataOK
  <2>5. ModelInv(p)' /\ AdapterInv(p)' BY <1>1, <1>2, <2>1, <2>2, OwnModels, OwnAdapters
  <2>6. v.status = "running" => StepInv(p)' BY <1>1, <2>1, <2>2, QuietStep
  <2> QED BY <1>1, <1>2, <2>1, <2>2, <2>3, <2>4, <2>5, <2>6, WorkInv
<1> QED BY <1>3, <1>4 DEF CheckIsolation

-----------------------------------------------------------------------------
(***************************************************************************)
(* The invariant.                                                          *)
(***************************************************************************)

\* A process that starts is at its first step and has nothing yet.
LEMMA StartInv ==
  ASSUME IInv, NEW p \in Procs, Start(p)
  PROVE  IInv'
<1>1. proc[p].status = "idle" BY DEF Start
<1>2. PICK c \in Commands, r \in Revisions, b \in BOOLEAN :
        proc' = [proc EXCEPT ![p].command = c, ![p].revision = r,
                             ![p].promote = b, ![p].status = "running"]
  BY DEF Start
<1>3. UNCHANGED <<models, adapters, aliases, tables, loaded, files, store>>
  BY DEF Start, rows, disk
<1>4. proc \in [Procs -> Locals] /\ proc[p] \in Locals /\ ProcInv(p) BY DEF IInv, TypeOK
<1> DEFINE v == [proc[p] EXCEPT !.command = c, !.revision = r, !.promote = b, !.status = "running"]
<1>5. /\ v \in Locals /\ v.command = c /\ v.revision = r /\ v.status = "running"
      /\ v.at = proc[p].at /\ v.data = proc[p].data
  BY <1>4 DEF Locals, Statuses
<1>6. proc' = [proc EXCEPT ![p] = v] BY <1>2, <1>4
<1> HIDE DEF v
<1>7. proc' \in [Procs -> Locals] /\ proc'[p] = v /\ \A q \in Procs : q # p => proc'[q] = proc[q]
  BY <1>4, <1>5, <1>6
<1>8. proc[p].at = 1 BY <1>1, <1>4 DEF ProcInv, LocalInv, Active
<1>9. ~Active(p) /\ ~Past(p) /\ ~Past(p)' /\ Active(p)' BY <1>1, <1>5, <1>7, <1>8 DEF Active, Past
<1>10. Script0(Plan(c)) BY PlanSteps
<1>11. TypeOK'
  <2>1. \A q \in Procs : proc'[q].command # None => proc'[q].at \in 1 .. Len(Plan(proc'[q].command))
    BY <1>5, <1>7, <1>8, <1>10 DEF IInv, TypeOK, Script0
  <2> QED BY <1>3, <1>7, <2>1 DEF IInv, TypeOK
<1>12. \A q \in Procs : q # p => Active(q)' = Active(q) /\ Past(q)' = Past(q) /\ Dir(q)' = Dir(q)
                       /\ Current(q)' = Current(q)
  BY <1>7 DEF Active, Past, Dir, Current
<1>13. Exclusive' BY <1>9, <1>12 DEF IInv, Exclusive
<1>14. LoadedInv' BY <1>3 DEF IInv, LoadedInv
<1>15. ASSUME NEW q \in Procs, q # p PROVE ProcInv(q)'
  <2>1. ProcInv(q) /\ proc'[q] = proc[q] BY <1>7, <1>15 DEF IInv
  <2>2. LocalInv(q)' BY <1>3, <1>12, <1>15, <2>1 DEF ProcInv, LocalInv
  <2>3. SharedBase(q)' = SharedBase(q) /\ \A k : HasModel(q, k)' = HasModel(q, k)
    BY <1>3 DEF SharedBase, HasModel
  <2>4. ModelInv(q)' /\ AdapterInv(q)'
    BY <1>3, <1>12, <1>15, <2>1, <2>3 DEF ProcInv, ModelInv, AdapterInv
  <2>5. (proc[q].status = "running" => StepInv(q))'
    BY <1>3, <1>12, <1>15, <2>1, <2>3 DEF ProcInv, StepInv
  <2> QED BY <2>2, <2>4, <2>5 DEF ProcInv
<1>16. ProcInv(p)'
  <2>1. models[p] = {} /\ adapters[p] = {} BY <1>4, <1>9 DEF ProcInv, LocalInv
  <2>2. ModelInv(p)' /\ AdapterInv(p)' BY <1>3, <2>1 DEF ModelInv, AdapterInv
  <2>3. LocalInv(p)'
    BY <1>4, <1>5, <1>7, <1>8, <1>9, <1>10 DEF ProcInv, LocalInv, Script0
  <2>4. Current(p)' = Step("schema", "alpha", None)
    BY <1>5, <1>7, <1>8, <1>10 DEF Current, Script0
  <2>5. Current(p)'.op = "schema" BY <2>4 DEF Step
  <2>6. StepInv(p)' BY <2>5 DEF StepInv
  <2> QED BY <2>2, <2>3, <2>6 DEF ProcInv
<1> QED BY <1>11, <1>13, <1>14, <1>15, <1>16 DEF IInv

\* A killed process keeps nothing; its files stay where they are.
LEMMA KillInv ==
  ASSUME IInv, NEW p \in Procs, Kill(p)
  PROVE  IInv'
<1> DEFINE v == [Idle EXCEPT !.status = "killed"]
<1>1. /\ proc' = [proc EXCEPT ![p] = v] /\ UNCHANGED <<tables, loaded, files, store>>
      /\ models' = [models EXCEPT ![p] = {}] /\ adapters' = [adapters EXCEPT ![p] = {}]
      /\ aliases' = [aliases EXCEPT ![p] = {}]
  BY DEF Kill, disk
<1>2. /\ v \in Locals /\ v.status = "killed" /\ v.at = 1 /\ v.command = None
      /\ \A s \in Slugs : v.data[s] = None
  BY DEF Idle, Locals, Statuses
<1> HIDE DEF v
<1>3. proc \in [Procs -> Locals] /\ models \in [Procs -> SUBSET ModelRows]
      /\ adapters \in [Procs -> SUBSET AdapterRows]
  BY DEF IInv, TypeOK
<1>4. /\ proc' \in [Procs -> Locals] /\ proc'[p] = v /\ models'[p] = {} /\ adapters'[p] = {}
      /\ \A q \in Procs : q # p => proc'[q] = proc[q] /\ models'[q] = models[q]
                                   /\ adapters'[q] = adapters[q]
  BY <1>1, <1>2, <1>3
<1>5. ~Active(p)' /\ ~Past(p)' BY <1>2, <1>4 DEF Active, Past
<1>6. \A q \in Procs : q # p => Active(q)' = Active(q) /\ Past(q)' = Past(q) /\ Dir(q)' = Dir(q)
                       /\ Current(q)' = Current(q)
  BY <1>4 DEF Active, Past, Dir, Current
<1>7. TypeOK'
  <2>1. models' \in [Procs -> SUBSET ModelRows] /\ adapters' \in [Procs -> SUBSET AdapterRows]
    BY <1>1, <1>3
  <2>2. aliases' \in [Procs -> SUBSET [tenant : Tenants \cup {None}, base : Weights,
                                      adapter : Weights \cup {None}]]
    BY <1>1 DEF IInv, TypeOK
  <2>3. \A q \in Procs : proc'[q].command # None => proc'[q].at \in 1 .. Len(Plan(proc'[q].command))
    BY <1>2, <1>4 DEF IInv, TypeOK
  <2> QED BY <1>1, <1>4, <2>1, <2>2, <2>3 DEF IInv, TypeOK
<1>8. Exclusive' BY <1>5, <1>6 DEF IInv, Exclusive
<1>9. LoadedInv' BY <1>1 DEF IInv, LoadedInv
<1>10. ASSUME NEW q \in Procs, q # p PROVE ProcInv(q)'
  <2>1. ProcInv(q) /\ proc'[q] = proc[q] /\ models'[q] = models[q] /\ adapters'[q] = adapters[q]
    BY <1>4, <1>10 DEF IInv
  <2>2. LocalInv(q)' BY <1>1, <1>6, <1>10, <2>1 DEF ProcInv, LocalInv
  <2>3. SharedBase(q)' = SharedBase(q) /\ \A k : HasModel(q, k)' = HasModel(q, k)
    BY <2>1 DEF SharedBase, HasModel
  <2>4. ModelInv(q)' /\ AdapterInv(q)'
    BY <1>1, <1>6, <1>10, <2>1, <2>3 DEF ProcInv, ModelInv, AdapterInv
  <2>5. (proc[q].status = "running" => StepInv(q))'
    BY <1>1, <1>6, <1>10, <2>1, <2>3 DEF ProcInv, StepInv
  <2> QED BY <2>2, <2>4, <2>5 DEF ProcInv
<1>11. ProcInv(p)'
  BY <1>2, <1>4, <1>5 DEF ProcInv, LocalInv, ModelInv, AdapterInv, Active
<1> QED BY <1>7, <1>8, <1>9, <1>10, <1>11 DEF IInv

\* Every step of a script keeps the invariant.
LEMMA ScriptInv ==
  ASSUME IInv, NEW p \in Procs, Script(p)
  PROVE  IInv'
BY CreateSchemaInv, LoadDataInv, BuildDatasetInv, TrainBaselineInv, PretrainInv,
   SaveCheckpointInv, LogCheckpointInv, RegisterModelInv, PromoteWinnerInv, ShareBaseInv,
   LoadBackboneInv, TrainTenantAdapterInv, PromoteAdapterInv, CheckIsolationInv
   DEF Script

\* Nothing has started yet.
LEMMA InitInv == Init => IInv
<1> SUFFICES ASSUME Init PROVE IInv OBVIOUS
<1>1. Idle \in Locals /\ Idle.command = None /\ Idle.status = "idle" /\ Idle.at = 1
      /\ \A s \in Slugs : Idle.data[s] = None
  BY DEF Idle, Locals, Statuses
<1>2. \A p \in Procs : proc[p] = Idle /\ models[p] = {} /\ adapters[p] = {} BY DEF Init
<1>3. TypeOK BY <1>1 DEF Init, TypeOK
<1>4. \A p \in Procs : ~Active(p) /\ ~Past(p) BY <1>1, <1>2 DEF Active, Past
<1>5. Exclusive BY <1>4 DEF Exclusive
<1>6. LoadedInv BY DEF Init, LoadedInv
<1>7. \A p \in Procs : ProcInv(p)
  BY <1>1, <1>2, <1>4 DEF ProcInv, LocalInv, ModelInv, AdapterInv, Active
<1> QED BY <1>3, <1>5, <1>6, <1>7 DEF IInv

\* A step that changes nothing.
LEMMA StutterInv ==
  ASSUME IInv, UNCHANGED vars
  PROVE  IInv'
<1>1. UNCHANGED <<proc, models, adapters, aliases, tables, loaded, files, store>> BY DEF vars
<1>2. TypeOK' /\ LoadedInv' BY <1>1 DEF IInv, TypeOK, LoadedInv
<1>3. \A p \in Procs : Active(p)' = Active(p) /\ Past(p)' = Past(p) /\ Dir(p)' = Dir(p)
                       /\ Current(p)' = Current(p) /\ SharedBase(p)' = SharedBase(p)
                       /\ \A k : HasModel(p, k)' = HasModel(p, k)
  BY <1>1 DEF Active, Past, Dir, Current, SharedBase, HasModel
<1>4. Exclusive' BY <1>3 DEF IInv, Exclusive
<1>5. ASSUME NEW p \in Procs PROVE ProcInv(p)'
  <2>1. LocalInv(p)' BY <1>1, <1>3 DEF IInv, ProcInv, LocalInv
  <2>2. ModelInv(p)' /\ AdapterInv(p)' BY <1>1, <1>3 DEF IInv, ProcInv, ModelInv, AdapterInv
  <2>3. (proc[p].status = "running" => StepInv(p))' BY <1>1, <1>3 DEF IInv, ProcInv, StepInv
  <2> QED BY <2>1, <2>2, <2>3 DEF ProcInv
<1> QED BY <1>2, <1>4, <1>5 DEF IInv

\* The inductive invariant holds in every reachable state.
THEOREM Invariance == Spec => []IInv
<1>1. Init => IInv BY InitInv
<1>2. IInv /\ [Next]_vars => IInv'
  <2> SUFFICES ASSUME IInv, [Next]_vars PROVE IInv' OBVIOUS
  <2>1. CASE UNCHANGED vars BY <2>1, StutterInv
  <2>2. CASE Next BY <2>2, StartInv, KillInv, ScriptInv DEF Next
  <2> QED BY <2>1, <2>2
<1> QED BY <1>1, <1>2, PTL DEF Spec

\* The types of the trainer's state; no script runs past its last step.
THEOREM TrainerTypes == Spec => []TypeOK
<1>1. IInv => TypeOK BY DEF IInv
<1> QED BY <1>1, Invariance, PTL

\* However many processes run at one revision, and wherever they are killed, none
\* trains on another's rows, registers another's weights or adapts another's backbone.
THEOREM TrainerOwnWork == Spec => []OwnWork
<1>1. IInv => OwnWork
  <2> SUFFICES ASSUME IInv, NEW p \in Procs
               PROVE  /\ \A s \in Slugs : proc[p].data[s] \in {None, {p}}
                      /\ \A m \in models[p] : m.checksum = <<p, m.kind>>
                      /\ \A a \in adapters[p] :
                           \E m \in models[p] : m.kind = "base" /\ m.tenant = None /\ a.base = m.checksum
    BY DEF OwnWork
  <2>1. LocalInv(p) /\ ModelInv(p) /\ AdapterInv(p) BY DEF IInv, ProcInv
  <2>2. \A m \in models[p] : m.checksum = <<p, m.kind>> BY <2>1 DEF ModelInv
  <2>3. ASSUME NEW a \in adapters[p]
        PROVE  \E m \in models[p] : m.kind = "base" /\ m.tenant = None /\ a.base = m.checksum
    <3>1. a.base = <<p, "base">> /\ SharedBase(p) BY <2>1 DEF AdapterInv
    <3> QED BY <2>2, <3>1 DEF SharedBase
  <2> QED BY <2>1, <2>2, <2>3 DEF LocalInv
<1> QED BY <1>1, Invariance, PTL

\* What a registered model's run and a registered adapter's file hold stays what their
\* rows say.
THEOREM TrainerArtifactsMatch == Spec => []ArtifactsMatch
<1>1. IInv => ArtifactsMatch BY DEF IInv, ProcInv, ModelInv, AdapterInv, ArtifactsMatch
<1> QED BY <1>1, Invariance, PTL

\* --promote-if-winner never promotes a loser.
THEOREM TrainerOnlyWinnersServe == Spec => []OnlyWinnersServe
<1>1. IInv => OnlyWinnersServe BY DEF IInv, ProcInv, ModelInv, OnlyWinnersServe
<1> QED BY <1>1, Invariance, PTL

-----------------------------------------------------------------------------
(***************************************************************************)
(* Where a script may fail.                                                *)
(***************************************************************************)

\* Only the adapt script creates the second database, in its fourth step; no other step
\* but the first creates one.
LEMMA SchemaSteps ==
  ASSUME NEW c \in Commands, NEW k \in 1 .. Len(Plan(c)), Plan(c)[k].op = "schema"
  PROVE  \/ k = 1 /\ Plan(c)[k].arg = "alpha"
         \/ k = 4 /\ Plan(c)[k].arg = "beta" /\ Len(Plan(c)) > 4
<1> USE DEF Step
<1>1. CASE c = "baselines"
  <2>1. Plan(c) = BaselinesPlan BY <1>1 DEF Plan
  <2>2. k \in 1 .. 6 /\ BaselinesPlan[k].op = "schema" BY <2>1, BaselinesPlanSteps
  <2> QED BY <2>1, <2>2, BaselinesPlanSteps
<1>2. CASE c = "hermes-rpt"
  <2>1. Plan(c) = HermesPlan BY <1>2 DEF Plan
  <2>2. k \in 1 .. 10 /\ HermesPlan[k].op = "schema" BY <2>1, HermesPlanSteps
  <2> QED BY <2>1, <2>2, HermesPlanSteps
<1>3. CASE c = "pretrain"
  <2>1. Plan(c) = PretrainPlan BY <1>3 DEF Plan
  <2>2. k \in 1 .. 13 /\ PretrainPlan[k].op = "schema" BY <2>1, PretrainPlanSteps
  <2> QED BY <2>1, <2>2, PretrainPlanSteps
<1>4. CASE c = "adapt"
  <2>1. Plan(c) = AdaptPlan BY <1>4 DEF Plan
  <2>2. k \in 1 .. 16 /\ AdaptPlan[k].op = "schema" BY <2>1, AdaptPlanSteps
  <2> QED BY <2>1, <2>2, AdaptPlanSteps
<1> QED BY <1>1, <1>2, <1>3, <1>4 DEF Commands

\* A step that leaves the tables alone and moves its process on.
LEMMA MoveFail ==
  ASSUME FailInv, IInv', NEW p \in Procs, proc[p].status = "running", NEW v, Moved(p, v),
         v.at >= proc[p].at, proc' = [proc EXCEPT ![p] = v], UNCHANGED tables,
         Current(p).op # "schema"
  PROVE  FailInv'
<1>1. /\ proc'[p] = v /\ v.status # "failed" /\ v.at \in Nat /\ proc[p].at \in Nat
      /\ \A q \in Procs : q # p => proc'[q] = proc[q]
  BY DEF FailInv, IInv, TypeOK, Moved, Locals
<1>2. Dir(p)' = Dir(p) /\ Past(p) BY <1>1, RunningFacts DEF FailInv, Moved, Dir
<1>3. \A q \in Procs : q # p => Past(q)' = Past(q) /\ Dir(q)' = Dir(q)
  BY <1>1 DEF Past, Active, Dir
<1>4. TablesInv' BY <1>1, <1>2, <1>3 DEF FailInv, TablesInv
<1>5. FailsOnlyAtStart' BY <1>1 DEF FailInv, FailsOnlyAtStart
<1> QED BY <1>4, <1>5 DEF FailInv

\* Advanced does not go back.
LEMMA AdvancedAt ==
  ASSUME IInv, NEW p \in Procs, proc[p].status = "running"
  PROVE  Advanced(p).at >= proc[p].at
<1>1. proc[p] \in Locals BY RunningFacts
<1> QED BY <1>1 DEF Advanced, Locals

\* CREATE TABLE fails at the first step or not at all.
LEMMA CreateSchemaFail ==
  ASSUME FailInv, IInv', NEW p \in Procs, CreateSchema(p)
  PROVE  FailInv'
<1> DEFINE slug == Current(p).arg
<1>1. proc[p].status = "running" /\ Current(p).op = "schema" BY DEF CreateSchema, At
<1>2. proc \in [Procs -> Locals] /\ proc[p] \in Locals /\ Dir(p) \in Dirs /\ Active(p)
      /\ proc[p].at \in 1 .. Len(Plan(proc[p].command)) /\ proc[p].command \in Commands
  BY <1>1, RunningFacts DEF FailInv, IInv, TypeOK
<1>3. proc[p].at \in Nat /\ proc[p].at >= 1 BY <1>2 DEF Locals
<1>4. \/ proc[p].at = 1 /\ slug = "alpha"
      \/ proc[p].at = 4 /\ slug = "beta" /\ Len(Plan(proc[p].command)) > 4
  BY <1>1, <1>2, SchemaSteps DEF Current
<1>5. CASE CreateFails(Dir(p), slug)
  <2>1. ~Past(p) /\ proc[p].at = 1
    <3>1. ASSUME Past(p) PROVE FALSE
      <4>1. proc[p].at = 4 /\ slug = "beta" BY <1>3, <1>4, <3>1 DEF Past
      <4>2. <<Dir(p), "beta">> \in tables BY <1>5, <4>1 DEF CreateFails
      <4> QED BY <3>1, <4>1, <4>2 DEF FailInv, TablesInv
    <3> QED BY <1>2, <1>3, <3>1 DEF Past
  <2>2. /\ proc' = [proc EXCEPT ![p].status = "failed"] /\ UNCHANGED tables
    BY <1>5 DEF CreateSchema, Raise
  <2>3. /\ proc'[p].at = 1 /\ \A q \in Procs : q # p => proc'[q] = proc[q]
    BY <1>2, <2>1, <2>2 DEF Locals
  <2>4. ~Past(p)' BY <2>3 DEF Past
  <2>5. \A q \in Procs : q # p => Past(q)' = Past(q) /\ Dir(q)' = Dir(q)
    BY <2>3 DEF Past, Active, Dir
  <2>6. TablesInv' BY <2>2, <2>3, <2>4, <2>5 DEF FailInv, TablesInv
  <2>7. FailsOnlyAtStart' BY <2>3 DEF FailInv, FailsOnlyAtStart
  <2> QED BY <2>6, <2>7 DEF FailInv
<1>6. CASE ~CreateFails(Dir(p), slug)
  <2> DEFINE v == Advanced(p)
  <2>1. Moved(p, v) BY <1>1, AdvancedFacts DEF FailInv
  <2>2. proc' = [proc EXCEPT ![p] = v] /\ tables' = tables \cup {<<Dir(p), slug>>}
    BY <1>6 DEF CreateSchema, Advance
  <2>3. v.at = proc[p].at + 1
    <3>1. proc[p].at # Len(Plan(proc[p].command)) BY <1>2, <1>4, PlanSteps DEF Script0
    <3> QED BY <1>2, <3>1 DEF Advanced, Locals
  <2> HIDE DEF v, slug
  <2>4. proc'[p] = v /\ v.status # "failed" /\ Dir(p)' = Dir(p)
        /\ \A q \in Procs : q # p => proc'[q] = proc[q]
    BY <1>2, <2>1, <2>2 DEF Moved, Dir
  <2>5. \A q \in Procs : q # p => Past(q)' = Past(q) /\ Dir(q)' = Dir(q)
    BY <2>4 DEF Past, Active, Dir
  <2>6. <<Dir(p), "alpha">> \in tables'
    <3>1. CASE slug = "alpha" BY <2>2, <3>1
    <3>2. CASE proc[p].at = 4
      <4>1. Past(p) BY <1>2, <3>2 DEF Past
      <4> QED BY <2>2, <4>1, PastAlone DEF FailInv
    <3> QED BY <1>4, <3>1, <3>2
  <2>7. \A d \in Dirs : <<d, "beta">> \in tables' => <<d, "alpha">> \in tables'
    BY <2>2, <2>6 DEF FailInv, TablesInv
  <2>8. <<Dir(p), "beta">> \in tables' => proc'[p].at > 4
    <3>1. CASE proc[p].at = 4 BY <2>3, <2>4, <3>1
    <3>2. CASE proc[p].at = 1 /\ slug = "alpha"
      <4>1. <<Dir(p), "alpha">> \notin tables BY <1>6, <3>2 DEF CreateFails
      <4>2. <<Dir(p), "beta">> \notin tables' BY <1>2, <2>2, <3>2, <4>1 DEF FailInv, TablesInv
      <4> QED BY <4>2
    <3> QED BY <1>4, <3>1, <3>2
  <2>9. ASSUME NEW q \in Procs, q # p, Past(q), <<Dir(q), "beta">> \in tables'
        PROVE  proc[q].at > 4
    <3>1. Past(p)' BY <2>1, <2>4 DEF Moved, Past, Active
    <3>2. Dir(q) # Dir(p) BY <2>4, <2>5, <2>9, <3>1 DEF IInv, Exclusive
    <3> QED BY <2>2, <2>9, <3>2 DEF FailInv, TablesInv
  <2>10. TablesInv' BY <2>4, <2>5, <2>7, <2>8, <2>9 DEF TablesInv
  <2>11. FailsOnlyAtStart' BY <2>4 DEF FailInv, FailsOnlyAtStart
  <2> QED BY <2>10, <2>11 DEF FailInv
<1> QED BY <1>5, <1>6

\* The steps that change other fields of the local state.
LEMMA ChangedFields ==
  ASSUME FailInv, NEW p \in Procs, proc[p].status = "running", NEW v, NEW x, NEW y,
         \/ v = Advanced(p)
         \/ v = [Advanced(p) EXCEPT !.data[x] = y] /\ v \in Locals
         \/ v = [Advanced(p) EXCEPT !.weights = x, !.score = y] /\ v \in Locals
         \/ v = [Advanced(p) EXCEPT !.backbone = x] /\ v \in Locals
  PROVE  Moved(p, v) /\ v.at >= proc[p].at
<1>1. Moved(p, Advanced(p)) /\ Advanced(p) \in Locals /\ Advanced(p).at >= proc[p].at
  BY AdvancedFacts, AdvancedAt DEF Moved, FailInv
<1>2. /\ v \in Locals /\ v.command = Advanced(p).command /\ v.revision = Advanced(p).revision
      /\ v.promote = Advanced(p).promote /\ v.at = Advanced(p).at
      /\ v.status = Advanced(p).status
  BY <1>1 DEF Locals
<1> QED BY <1>1, <1>2, MovedWith

\* No step after the first table raises: every promotion is of a row its tenant sees, and
\* no tenant sees another's adapter.
LEMMA NoRaise ==
  ASSUME FailInv, NEW p \in Procs, PromoteAdapter(p) \/ CheckIsolation(p)
  PROVE  Advance(p)
<1>1. CASE PromoteAdapter(p)
  <2> DEFINE tenant == <<p, Current(p).arg>>
             row == CHOOSE a \in adapters[p] : a.tenant = tenant
  <2>1. proc[p].status = "running" /\ Current(p).op = "promoteAdapter"
    BY <1>1 DEF PromoteAdapter, At
  <2>2. \E a \in adapters[p] : a.tenant = tenant BY <2>1, RunningFacts DEF StepInv, FailInv
  <2>3. "model:promote" \in Scopes /\ Visible(row, tenant) BY <2>2 DEF Scopes, Visible
  <2> QED BY <1>1, <2>3 DEF PromoteAdapter
<1>2. CASE CheckIsolation(p)
  BY <1>2 DEF CheckIsolation, Visible
<1> QED BY <1>1, <1>2

\* Every step of a script.
LEMMA ScriptFail ==
  ASSUME FailInv, IInv', NEW p \in Procs, Script(p)
  PROVE  FailInv'
<1>1. CASE CreateSchema(p) BY <1>1, CreateSchemaFail
<1>2. ASSUME ~CreateSchema(p)
      PROVE  /\ proc[p].status = "running" /\ Current(p).op # "schema" /\ UNCHANGED tables
             /\ \E v, x, y :
                  /\ proc' = [proc EXCEPT ![p] = v]
                  /\ \/ v = Advanced(p)
                     \/ v = [Advanced(p) EXCEPT !.data[x] = y]
                     \/ v = [Advanced(p) EXCEPT !.weights = x, !.score = y]
                     \/ v = [Advanced(p) EXCEPT !.backbone = x]
  <2>1. CASE Advance(p) /\ (LoadData(p) \/ TrainBaseline(p) \/ Pretrain(p) \/ LogCheckpoint(p)
               \/ RegisterModel(p) \/ PromoteWinner(p) \/ ShareBase(p) \/ TrainTenantAdapter(p)
               \/ PromoteAdapter(p) \/ CheckIsolation(p))
    BY <2>1 DEF At, LoadData, TrainBaseline, Pretrain, LogCheckpoint, RegisterModel,
       PromoteWinner, ShareBase, TrainTenantAdapter, PromoteAdapter, CheckIsolation, Advance, disk
  <2>2. CASE BuildDataset(p)
    <3>1. \E v, x, y : /\ proc' = [proc EXCEPT ![p] = v]
                       /\ v = [Advanced(p) EXCEPT !.data[x] = y]
      BY <2>2, Zenon DEF BuildDataset
    <3>2. proc[p].status = "running" /\ Current(p).op # "schema" /\ UNCHANGED tables
      BY <2>2 DEF BuildDataset, At, disk
    <3> QED BY <3>1, <3>2, Zenon
  <2>3. CASE SaveCheckpoint(p)
    <3>1. \E v, x, y : /\ proc' = [proc EXCEPT ![p] = v]
                       /\ v = [Advanced(p) EXCEPT !.weights = x, !.score = y]
      <4>1. PICK score \in Scores :
              proc' = [proc EXCEPT ![p] = [Advanced(p) EXCEPT
                         !.weights = <<p, Current(p).arg>>, !.score = score]]
        BY <2>3 DEF SaveCheckpoint
      <4> WITNESS [Advanced(p) EXCEPT !.weights = <<p, Current(p).arg>>, !.score = score],
                  <<p, Current(p).arg>>, score
      <4> QED BY <4>1
    <3>2. proc[p].status = "running" /\ Current(p).op # "schema" /\ UNCHANGED tables
      BY <2>3 DEF SaveCheckpoint, At
    <3> QED BY <3>1, <3>2, Zenon
  <2>4. CASE LoadBackbone(p) BY <2>4 DEF LoadBackbone, At, disk
  <2>5. LoadData(p) \/ TrainBaseline(p) \/ Pretrain(p) \/ LogCheckpoint(p) \/ RegisterModel(p)
        \/ PromoteWinner(p) \/ ShareBase(p) \/ TrainTenantAdapter(p) => Advance(p)
    BY DEF LoadData, TrainBaseline, Pretrain, LogCheckpoint, RegisterModel, PromoteWinner,
       ShareBase, TrainTenantAdapter
  <2> QED BY <1>2, <2>1, <2>2, <2>3, <2>4, <2>5, NoRaise DEF Script
<1>3. ASSUME ~CreateSchema(p) PROVE FailInv'
  <2>1. PICK v, x, y :
          /\ proc' = [proc EXCEPT ![p] = v]
          /\ \/ v = Advanced(p)
             \/ v = [Advanced(p) EXCEPT !.data[x] = y]
             \/ v = [Advanced(p) EXCEPT !.weights = x, !.score = y]
             \/ v = [Advanced(p) EXCEPT !.backbone = x]
    BY <1>2, <1>3
  <2>2. proc[p].status = "running" /\ Current(p).op # "schema" /\ UNCHANGED tables BY <1>2, <1>3
  <2>3. v \in Locals BY <2>1 DEF FailInv, IInv, TypeOK
  <2>4. Moved(p, v) /\ v.at >= proc[p].at BY <2>1, <2>2, <2>3, ChangedFields
  <2> QED BY <2>1, <2>2, <2>4, MoveFail
<1> QED BY <1>1, <1>3

\* A process that starts or is killed is not past its first step, and has not failed.
LEMMA OutsideFail ==
  ASSUME FailInv, IInv', NEW p \in Procs, Start(p) \/ Kill(p)
  PROVE  FailInv'
<1>1. UNCHANGED tables BY DEF Start, Kill, disk
<1>2. /\ proc'[p].status # "failed" /\ ~Past(p)'
      /\ \A q \in Procs : q # p => proc'[q] = proc[q]
  <2>1. proc \in [Procs -> Locals] /\ proc[p] \in Locals /\ LocalInv(p) BY DEF FailInv, IInv, TypeOK, ProcInv
  <2>2. CASE Start(p)
    <3>1. proc[p].status = "idle" BY <2>2 DEF Start
    <3>2. proc[p].at = 1 BY <2>1, <3>1 DEF LocalInv, Active
    <3>3. proc'[p].status = "running" /\ proc'[p].at = 1
          /\ \A q \in Procs : q # p => proc'[q] = proc[q]
      <4>1. PICK c \in Commands, r \in Revisions, b \in BOOLEAN :
              proc' = [proc EXCEPT ![p].command = c, ![p].revision = r,
                                   ![p].promote = b, ![p].status = "running"]
        BY <2>2 DEF Start
      <4> DEFINE v == [proc[p] EXCEPT !.command = c, !.revision = r, !.promote = b,
                                      !.status = "running"]
      <4>2. v.status = "running" /\ v.at = 1 BY <2>1, <3>2 DEF Locals
      <4>3. proc' = [proc EXCEPT ![p] = v] BY <2>1, <4>1
      <4> HIDE DEF v
      <4> QED BY <2>1, <4>2, <4>3
    <3> QED BY <3>3 DEF Past
  <2>3. CASE Kill(p) BY <2>1, <2>3 DEF Kill, Idle, Past, Active
  <2> QED BY <2>2, <2>3
<1>3. \A q \in Procs : q # p => Past(q)' = Past(q) /\ Dir(q)' = Dir(q)
  BY <1>2 DEF Past, Active, Dir
<1>4. TablesInv' BY <1>1, <1>2, <1>3 DEF FailInv, TablesInv
<1>5. FailsOnlyAtStart' BY <1>2 DEF FailInv, FailsOnlyAtStart
<1> QED BY <1>4, <1>5 DEF FailInv

\* Once a script has created its first table nothing makes it raise: the safety half of
\* Completes, whatever other processes do and wherever they are killed.
THEOREM TrainerFailsOnlyAtStart == Spec => []FailsOnlyAtStart
<1>1. Init => FailInv
  <2> SUFFICES ASSUME Init PROVE FailInv OBVIOUS
  <2>1. IInv BY InitInv
  <2>2. TablesInv /\ FailsOnlyAtStart BY DEF Init, Idle, TablesInv, FailsOnlyAtStart, Past, Active
  <2> QED BY <2>1, <2>2 DEF FailInv
<1>2. FailInv /\ IInv' /\ [Next]_vars => FailInv'
  <2> SUFFICES ASSUME FailInv, IInv', [Next]_vars PROVE FailInv' OBVIOUS
  <2>1. CASE UNCHANGED vars
    BY <2>1 DEF FailInv, TablesInv, FailsOnlyAtStart, vars, Past, Active, Dir
  <2>2. CASE Next BY <2>2, ScriptFail, OutsideFail DEF Next
  <2> QED BY <2>1, <2>2
<1>3. FailInv => FailsOnlyAtStart BY DEF FailInv
<1> QED BY <1>1, <1>2, <1>3, Invariance, PTL DEF Spec

-----------------------------------------------------------------------------
(***************************************************************************)
(* Datasets: the feature contract.                                         *)
(***************************************************************************)

\* The names of the features.
LEMMA FeatureNames ==
  /\ DOMAIN TripAndVehicleFeatures =
       {"planned_departure_hour", "day_of_week", "planned_trip_distance_km", "number_of_stops",
        "vehicle_age_years", "odometer_km", "days_since_last_maintenance"}
  /\ DOMAIN HistoryFeatures =
       {"previous_breakdown_count", "driver_recent_trip_count", "driver_late_delivery_ratio",
        "route_historical_delay_ratio", "planned_delivery_count", "loading_start_delay_minutes",
        "recent_fuel_anomaly_count"}
BY DEF TripAndVehicleFeatures, HistoryFeatures

\* The contract is made of two tables.
LEMMA ContractValues ==
  /\ \A n \in DOMAIN HistoryFeatures : n \in Features /\ Contract[n] = HistoryFeatures[n]
  /\ \A n \in DOMAIN TripAndVehicleFeatures :
       n \in Features /\ Contract[n] = TripAndVehicleFeatures[n]
  /\ Features = DOMAIN HistoryFeatures \cup DOMAIN TripAndVehicleFeatures
BY FeatureNames DEF Features, Contract

\* The features read from the trip itself.
LEMMA TargetFeatures ==
  /\ Contract["planned_departure_hour"].entity = None
  /\ Contract["planned_departure_hour"].target = "planned_departure_at"
  /\ Contract["planned_departure_hour"].derive = "hour_of_day"
  /\ Contract["day_of_week"].entity = None
  /\ Contract["day_of_week"].target = "planned_departure_at"
  /\ Contract["day_of_week"].derive = "day_of_week"
  /\ Contract["planned_trip_distance_km"].entity = None
  /\ Contract["planned_trip_distance_km"].target = "planned_distance_km"
  /\ Contract["planned_trip_distance_km"].derive = None
  /\ Contract["loading_start_delay_minutes"].entity = None
  /\ Contract["loading_start_delay_minutes"].target = "actual_departure_at"
  /\ Contract["loading_start_delay_minutes"].derive = "loading_start_delay_minutes"
  /\ Contract["loading_start_delay_minutes"].missing = "zero"
<1>1. /\ Contract["planned_departure_hour"].entity = None /\ Contract["planned_departure_hour"].target = "planned_departure_at"
       /\ Contract["planned_departure_hour"].derive = "hour_of_day"
  <2>1. Contract["planned_departure_hour"] = TripAndVehicleFeatures["planned_departure_hour"]
    BY FeatureNames, ContractValues
  <2> QED
    BY <2>1 DEF TripAndVehicleFeatures, FromTarget, Spec0
<1>2. /\ Contract["day_of_week"].entity = None /\ Contract["day_of_week"].target = "planned_departure_at"
       /\ Contract["day_of_week"].derive = "day_of_week"
  <2>1. Contract["day_of_week"] = TripAndVehicleFeatures["day_of_week"]
    BY FeatureNames, ContractValues
  <2> QED
    BY <2>1 DEF TripAndVehicleFeatures, FromTarget, Spec0
<1>3. /\ Contract["planned_trip_distance_km"].entity = None /\ Contract["planned_trip_distance_km"].target = "planned_distance_km"
       /\ Contract["planned_trip_distance_km"].derive = None
  <2>1. Contract["planned_trip_distance_km"] = TripAndVehicleFeatures["planned_trip_distance_km"]
    BY FeatureNames, ContractValues
  <2> QED
    BY <2>1 DEF TripAndVehicleFeatures, FromTarget, Spec0
<1>4. /\ Contract["loading_start_delay_minutes"].entity = None /\ Contract["loading_start_delay_minutes"].target = "actual_departure_at"
       /\ Contract["loading_start_delay_minutes"].derive = "loading_start_delay_minutes" /\ Contract["loading_start_delay_minutes"].missing = "zero"
  <2>1. Contract["loading_start_delay_minutes"] = HistoryFeatures["loading_start_delay_minutes"]
    BY FeatureNames, ContractValues
  <2> QED
    BY <2>1, ZenonT(40) DEF HistoryFeatures, FromTarget, Spec0
<1> QED
  BY <1>1, <1>2, <1>3, <1>4

\* The features over the events and readings of the vehicle.
LEMMA VehicleFeatures ==
  /\ Contract["odometer_km"].entity = "OdometerReading"
  /\ Contract["odometer_km"].fk = "vehicle_id"
  /\ Contract["odometer_km"].stamp = "recorded_at"
  /\ Contract["odometer_km"].derive = None
  /\ Contract["days_since_last_maintenance"].entity = "MaintenanceEvent"
  /\ Contract["days_since_last_maintenance"].fk = "vehicle_id"
  /\ Contract["days_since_last_maintenance"].stamp = "completed_at"
  /\ Contract["days_since_last_maintenance"].derive = None
  /\ Contract["previous_breakdown_count"].entity = "MaintenanceEvent"
  /\ Contract["previous_breakdown_count"].fk = "vehicle_id"
  /\ Contract["previous_breakdown_count"].stamp = "started_at"
  /\ Contract["previous_breakdown_count"].derive = None
<1>1. /\ Contract["odometer_km"].entity = "OdometerReading" /\ Contract["odometer_km"].fk = "vehicle_id"
       /\ Contract["odometer_km"].stamp = "recorded_at" /\ Contract["odometer_km"].derive = None
  <2>1. Contract["odometer_km"] = TripAndVehicleFeatures["odometer_km"]
    BY FeatureNames, ContractValues
  <2> QED
    BY <2>1 DEF TripAndVehicleFeatures, Latest, Spec0
<1>2. /\ Contract["days_since_last_maintenance"].entity = "MaintenanceEvent" /\ Contract["days_since_last_maintenance"].fk = "vehicle_id"
       /\ Contract["days_since_last_maintenance"].stamp = "completed_at" /\ Contract["days_since_last_maintenance"].derive = None
  <2>1. Contract["days_since_last_maintenance"] = TripAndVehicleFeatures["days_since_last_maintenance"]
    BY FeatureNames, ContractValues
  <2> QED
    BY <2>1 DEF TripAndVehicleFeatures, Spec0
<1>3. /\ Contract["previous_breakdown_count"].entity = "MaintenanceEvent" /\ Contract["previous_breakdown_count"].fk = "vehicle_id"
       /\ Contract["previous_breakdown_count"].stamp = "started_at" /\ Contract["previous_breakdown_count"].derive = None
  <2>1. Contract["previous_breakdown_count"] = HistoryFeatures["previous_breakdown_count"]
    BY FeatureNames, ContractValues
  <2> QED
    BY <2>1, ZenonT(40) DEF HistoryFeatures, Count, Spec0
<1> QED
  BY <1>1, <1>2, <1>3

\* The features over the trips of the driver or the route.
LEMMA TripFeatures ==
  /\ Contract["driver_recent_trip_count"].entity = "Trip"
  /\ Contract["driver_recent_trip_count"].fk = "driver_id"
  /\ Contract["driver_recent_trip_count"].stamp = "planned_departure_at"
  /\ Contract["driver_recent_trip_count"].derive = None
  /\ Contract["driver_late_delivery_ratio"].entity = "Trip"
  /\ Contract["driver_late_delivery_ratio"].fk = "driver_id"
  /\ Contract["driver_late_delivery_ratio"].stamp = "planned_departure_at"
  /\ Contract["driver_late_delivery_ratio"].derive = None
  /\ Contract["route_historical_delay_ratio"].entity = "Trip"
  /\ Contract["route_historical_delay_ratio"].fk = "route_id"
  /\ Contract["route_historical_delay_ratio"].stamp = "planned_departure_at"
  /\ Contract["route_historical_delay_ratio"].derive = None
<1>1. /\ Contract["driver_recent_trip_count"].entity = "Trip" /\ Contract["driver_recent_trip_count"].fk = "driver_id"
       /\ Contract["driver_recent_trip_count"].stamp = "planned_departure_at" /\ Contract["driver_recent_trip_count"].derive = None
  <2>1. Contract["driver_recent_trip_count"] = HistoryFeatures["driver_recent_trip_count"]
    BY FeatureNames, ContractValues
  <2> QED
    BY <2>1 DEF HistoryFeatures, Count, Spec0
<1>2. /\ Contract["driver_late_delivery_ratio"].entity = "Trip" /\ Contract["driver_late_delivery_ratio"].fk = "driver_id"
       /\ Contract["driver_late_delivery_ratio"].stamp = "planned_departure_at" /\ Contract["driver_late_delivery_ratio"].derive = None
  <2>1. Contract["driver_late_delivery_ratio"] = HistoryFeatures["driver_late_delivery_ratio"]
    BY FeatureNames, ContractValues
  <2> QED
    BY <2>1 DEF HistoryFeatures, CancelledRatio, Spec0
<1>3. /\ Contract["route_historical_delay_ratio"].entity = "Trip" /\ Contract["route_historical_delay_ratio"].fk = "route_id"
       /\ Contract["route_historical_delay_ratio"].stamp = "planned_departure_at" /\ Contract["route_historical_delay_ratio"].derive = None
  <2>1. Contract["route_historical_delay_ratio"] = HistoryFeatures["route_historical_delay_ratio"]
    BY FeatureNames, ContractValues
  <2> QED
    BY <2>1 DEF HistoryFeatures, CancelledRatio, Spec0
<1> QED
  BY <1>1, <1>2, <1>3

\* The features over entities the model does not change.
LEMMA FixedFeatures ==
  /\ Contract["number_of_stops"].entity = "RouteStop"
  /\ Contract["number_of_stops"].fk = "route_id"
  /\ Contract["number_of_stops"].derive = None
  /\ Contract["vehicle_age_years"].entity = "Vehicle"
  /\ Contract["vehicle_age_years"].fk = "vehicle_id"
  /\ Contract["vehicle_age_years"].derive = "age_years_at_prediction"
  /\ Contract["planned_delivery_count"].entity = "Delivery"
  /\ Contract["planned_delivery_count"].fk = "trip_id"
  /\ Contract["planned_delivery_count"].derive = None
  /\ Contract["recent_fuel_anomaly_count"].entity = "FuelEvent"
  /\ Contract["recent_fuel_anomaly_count"].fk = "vehicle_id"
  /\ Contract["recent_fuel_anomaly_count"].derive = None
<1>1. /\ Contract["number_of_stops"].entity = "RouteStop" /\ Contract["number_of_stops"].fk = "route_id"
       /\ Contract["number_of_stops"].derive = None
  <2>1. Contract["number_of_stops"] = TripAndVehicleFeatures["number_of_stops"]
    BY FeatureNames, ContractValues
  <2> QED
    BY <2>1 DEF TripAndVehicleFeatures, Count, Spec0
<1>2. /\ Contract["vehicle_age_years"].entity = "Vehicle" /\ Contract["vehicle_age_years"].fk = "vehicle_id"
       /\ Contract["vehicle_age_years"].derive = "age_years_at_prediction"
  <2>1. Contract["vehicle_age_years"] = TripAndVehicleFeatures["vehicle_age_years"]
    BY FeatureNames, ContractValues
  <2> QED
    BY <2>1 DEF TripAndVehicleFeatures, Latest, Spec0
<1>3. /\ Contract["planned_delivery_count"].entity = "Delivery" /\ Contract["planned_delivery_count"].fk = "trip_id"
       /\ Contract["planned_delivery_count"].derive = None
  <2>1. Contract["planned_delivery_count"] = HistoryFeatures["planned_delivery_count"]
    BY FeatureNames, ContractValues
  <2> QED
    BY <2>1 DEF HistoryFeatures, Count, Spec0
<1>4. /\ Contract["recent_fuel_anomaly_count"].entity = "FuelEvent" /\ Contract["recent_fuel_anomaly_count"].fk = "vehicle_id"
       /\ Contract["recent_fuel_anomaly_count"].derive = None
  <2>1. Contract["recent_fuel_anomaly_count"] = HistoryFeatures["recent_fuel_anomaly_count"]
    BY FeatureNames, ContractValues
  <2> QED
    BY <2>1 DEF HistoryFeatures, Count, Spec0
<1> QED
  BY <1>1, <1>2, <1>3, <1>4

\* What the lemmas about single features say together.
LEMMA ContractShape ==
  \A n \in Features : LET f == Contract[n] IN
    \/ /\ f.entity = None /\ n \notin Appended
       /\ f.target \in {"planned_departure_at", "planned_distance_km", "actual_departure_at"}
       /\ \/ f.derive \in {None, "hour_of_day", "day_of_week"}
          \/ f.derive = "loading_start_delay_minutes" /\ f.missing = "zero"
    \/ /\ f.entity \in Entities \ {None, "MaintenanceEvent", "OdometerReading"}
       /\ n \notin Appended
       /\ f.fk \in {"route_id", "vehicle_id", "driver_id", "trip_id"}
       /\ f.derive \in {None, "age_years_at_prediction"}
       /\ f.entity = "Trip" => f.stamp = "planned_departure_at"
    \/ /\ f.entity \in Entities \ {None, "Trip"} /\ n \in Appended
       /\ f.fk = "vehicle_id" /\ f.derive = None
       /\ \/ f.entity = "OdometerReading" /\ f.stamp = "recorded_at"
          \/ f.entity = "MaintenanceEvent" /\ f.stamp \in {"started_at", "completed_at"}
<1>1. \A n \in Features :
        \/ n \in {"planned_departure_hour", "day_of_week", "planned_trip_distance_km",
                  "loading_start_delay_minutes"}
        \/ n \in {"driver_recent_trip_count", "driver_late_delivery_ratio",
                  "route_historical_delay_ratio", "number_of_stops", "vehicle_age_years",
                  "planned_delivery_count", "recent_fuel_anomaly_count"}
        \/ n \in {"odometer_km", "days_since_last_maintenance", "previous_breakdown_count"}
  BY FeatureNames, ContractValues
<1>2. \A n \in Features : Contract[n].entity = None \/ Contract[n].entity \in Entities
  BY DEF Entities, RelatedEntities
<1>3. \A n \in Features :
        n \in Appended <=> Contract[n].entity \in {"MaintenanceEvent", "OdometerReading"}
  BY DEF Appended
<1>4. ASSUME NEW n \in {"planned_departure_hour", "day_of_week", "planned_trip_distance_km",
                        "loading_start_delay_minutes"}
      PROVE  LET f == Contract[n] IN
        /\ f.entity = None
        /\ f.target \in {"planned_departure_at", "planned_distance_km", "actual_departure_at"}
        /\ \/ f.derive \in {None, "hour_of_day", "day_of_week"}
           \/ f.derive = "loading_start_delay_minutes" /\ f.missing = "zero"
  BY TargetFeatures
<1>5. ASSUME NEW n \in {"driver_recent_trip_count", "driver_late_delivery_ratio",
                        "route_historical_delay_ratio", "number_of_stops", "vehicle_age_years",
                        "planned_delivery_count", "recent_fuel_anomaly_count"}
      PROVE  LET f == Contract[n] IN
        /\ f.entity \in {"Trip", "RouteStop", "Vehicle", "Delivery", "FuelEvent"}
        /\ f.fk \in {"route_id", "vehicle_id", "driver_id", "trip_id"}
        /\ f.derive \in {None, "age_years_at_prediction"}
        /\ f.entity = "Trip" => f.stamp = "planned_departure_at"
  BY TripFeatures, FixedFeatures
<1>6. ASSUME NEW n \in {"odometer_km", "days_since_last_maintenance",
                        "previous_breakdown_count"}
      PROVE  LET f == Contract[n] IN
        /\ f.fk = "vehicle_id" /\ f.derive = None
        /\ \/ f.entity = "OdometerReading" /\ f.stamp = "recorded_at"
           \/ f.entity = "MaintenanceEvent" /\ f.stamp \in {"started_at", "completed_at"}
  BY VehicleFeatures
<1>7. None \notin {"Trip", "MaintenanceEvent", "OdometerReading", "RouteStop", "Vehicle",
                   "Delivery", "FuelEvent"}
  BY NullAssumption
<1> SUFFICES ASSUME NEW n \in Features
             PROVE  LET f == Contract[n] IN
    \/ /\ f.entity = None /\ n \notin Appended
       /\ f.target \in {"planned_departure_at", "planned_distance_km", "actual_departure_at"}
       /\ \/ f.derive \in {None, "hour_of_day", "day_of_week"}
          \/ f.derive = "loading_start_delay_minutes" /\ f.missing = "zero"
    \/ /\ f.entity \in Entities \ {None, "MaintenanceEvent", "OdometerReading"}
       /\ n \notin Appended
       /\ f.fk \in {"route_id", "vehicle_id", "driver_id", "trip_id"}
       /\ f.derive \in {None, "age_years_at_prediction"}
       /\ f.entity = "Trip" => f.stamp = "planned_departure_at"
    \/ /\ f.entity \in Entities \ {None, "Trip"} /\ n \in Appended
       /\ f.fk = "vehicle_id" /\ f.derive = None
       /\ \/ f.entity = "OdometerReading" /\ f.stamp = "recorded_at"
          \/ f.entity = "MaintenanceEvent" /\ f.stamp \in {"started_at", "completed_at"}
  OBVIOUS
<1>8. CASE Contract[n].entity = None
  BY <1>1, <1>3, <1>4, <1>5, <1>6, <1>7, <1>8
<1>9. CASE Contract[n].entity # None /\ n \in Appended
  BY <1>1, <1>2, <1>3, <1>4, <1>5, <1>6, <1>7, <1>9
<1>10. CASE Contract[n].entity # None /\ n \notin Appended
  BY <1>1, <1>2, <1>3, <1>4, <1>5, <1>6, <1>7, <1>10
<1> QED
  BY <1>8, <1>9, <1>10

\* The entities the model changes have mappings.
LEMMA EntityNames == {"Trip", "MaintenanceEvent", "OdometerReading"} \subseteq Entities
<1>1. "odometer_km" \in Features /\ "days_since_last_maintenance" \in Features
  BY FeatureNames, ContractValues
<1>2. None # "MaintenanceEvent" /\ None # "OdometerReading"
  BY NullAssumption
<1> QED
  BY <1>1, <1>2, VehicleFeatures DEF Entities, RelatedEntities, TargetEntity

-----------------------------------------------------------------------------
(***************************************************************************)
(* Datasets: what queries and features depend on.                          *)
(***************************************************************************)

\* Rows at or after the prediction time do not reach a query with a mapped timestamp.
LEMMA SelectedSame ==
  ASSUME NEW S, NEW T, NEW doc, NEW f, NEW join, NEW p, Mapped(doc, f.stamp),
         \A r \in (S \ T) \cup (T \ S) : ~Before(r[f.stamp], p)
  PROVE  Selected(S, doc, f, join, p) = Selected(T, doc, f, join, p)
BY DEF Selected

\* The value of a related feature depends on the rows its query selects.
LEMMA RawSame ==
  ASSUME NEW D, NEW E, NEW docs1, NEW docs2, NEW row1, NEW row2, NEW f, NEW p,
         f.entity # None, docs1[f.entity] = docs2[f.entity], row1[f.fk] = row2[f.fk],
         docs1[f.entity] # None /\ row1[f.fk] # None /\ Mapped(docs1[f.entity], f.fk) =>
           Selected(D[f.entity], docs1[f.entity], f, row1[f.fk], p)
             = Selected(E[f.entity], docs1[f.entity], f, row1[f.fk], p)
  PROVE  Raw(D, docs1, row1, f, p) = Raw(E, docs2, row2, f, p)
<1>1. Skipped(docs1, row1, f) <=> docs1[f.entity] = None \/ row1[f.fk] = None
  BY DEF Skipped
<1>2. Skipped(docs2, row2, f) <=> docs1[f.entity] = None \/ row1[f.fk] = None
  BY DEF Skipped
<1>3. CASE Skipped(docs1, row1, f)
  BY <1>1, <1>2, <1>3 DEF Raw
<1>4. CASE ~Skipped(docs1, row1, f)
  <2>1. Query(D[f.entity], docs1[f.entity], f, row1[f.fk], p)
          = Query(E[f.entity], docs2[f.entity], f, row2[f.fk], p)
    <3>1. CASE ~Mapped(docs1[f.entity], f.fk)
      BY <3>1 DEF Query
    <3>2. CASE Mapped(docs1[f.entity], f.fk)
      <4>1. Selected(D[f.entity], docs1[f.entity], f, row1[f.fk], p)
              = Selected(E[f.entity], docs2[f.entity], f, row2[f.fk], p)
        BY <1>1, <1>4, <3>2
      <4> QED
        BY <3>2, <4>1 DEF Query
    <3> QED
      BY <3>1, <3>2
  <2> QED
    BY <1>1, <1>2, <1>4, <2>1 DEF Raw
<1> QED
  BY <1>3, <1>4

\* A feature read from the trip depends on its row alone.
LEMMA TargetSame ==
  ASSUME NEW D, NEW E, NEW docs, NEW row, NEW f, NEW p, f.entity = None
  PROVE  Raw(D, docs, row, f, p) = Raw(E, docs, row, f, p)
BY DEF Raw

\* What the plan reports as unavailable is missing, or filled with the same value.
LEMMA PlanUnavailable ==
  ASSUME NEW D, NEW docs, NEW t, NEW p, NEW n \in Features,
         {"planned_departure_at", "planned_distance_km", "actual_departure_at", "route_id",
          "vehicle_id", "driver_id", "trip_id"} \subseteq DOMAIN t,
         ~PlanAvailable(docs, Contract[n])
  PROVE  Normalize(Contract[n], Raw(D, docs, Fetched(docs[TargetEntity], t), Contract[n], p))
           = Normalize(Contract[n], None)
<1> DEFINE f == Contract[n]
           row == Fetched(docs[TargetEntity], t)
<1> USE ContractShape, NullAssumption
<1>1. \A c \in DOMAIN t : ~Mapped(docs[TargetEntity], c) /\ c # None => row[c] = None
  BY DEF Fetched, Mapped
<1>2. CASE f.entity = None
  <2>1. row[f.target] = None
    BY <1>1, <1>2 DEF PlanAvailable
  <2>2. f.derive = None \/ f.derive \in {"hour_of_day", "day_of_week"}
          \/ (f.derive = "loading_start_delay_minutes" /\ f.missing = "zero")
    BY <1>2
  <2>3. CASE f.derive = None
    BY <1>2, <2>1, <2>3 DEF Raw
  <2>4. CASE f.derive \in {"hour_of_day", "day_of_week"}
    <3> HIDE DEF f, row
    <3>1. \A q : Derive(f.derive, row[f.target], q, p) = None
      BY <2>1, <2>4 DEF Derive, Hour, Weekday
    <3>2. f.derive # None
      BY <2>4
    <3>3. Raw(D, docs, row, f, p) = None
      BY <1>2, <3>1, <3>2 DEF Raw
    <3> QED
      BY <3>3 DEF f, row
  <2>5. CASE f.derive = "loading_start_delay_minutes" /\ f.missing = "zero"
    <3> HIDE DEF f, row
    <3>1. \A q : Derive(f.derive, row[f.target], q, p) = 0
      BY <2>1, <2>5 DEF Derive, Delay
    <3>2. f.derive # None
      BY <2>5
    <3>3. Raw(D, docs, row, f, p) = 0
      BY <1>2, <3>1, <3>2 DEF Raw
    <3>4. Normalize(f, Raw(D, docs, row, f, p)) = Normalize(f, None)
      BY <2>5, <3>3 DEF Normalize
    <3> QED
      BY <3>4 DEF f, row
  <2> QED
    BY <2>2, <2>3, <2>4, <2>5
<1>3. CASE f.entity # None
  <2>1. f.fk \in DOMAIN t /\ f.fk # None /\ f.derive \in {None, "age_years_at_prediction"}
    BY <1>3
  <2>2. \/ Skipped(docs, row, f)
        \/ ~Mapped(docs[f.entity], f.fk)
    BY <1>1, <1>3, <2>1 DEF PlanAvailable, Skipped
  <2> HIDE DEF f, row
  <2>3. CASE Skipped(docs, row, f)
    <3>1. Raw(D, docs, row, f, p) = None
      BY <1>3, <2>3 DEF Raw
    <3> QED
      BY <3>1 DEF f, row
  <2>4. CASE ~Skipped(docs, row, f) /\ ~Mapped(docs[f.entity], f.fk)
    <3>1. Query(D[f.entity], docs[f.entity], f, row[f.fk], p) = None
      BY <2>4 DEF Query
    <3>2. Derive("age_years_at_prediction", None, None, p) = None
      BY DEF Derive, Age
    <3>3. Raw(D, docs, row, f, p) = None
      BY <1>3, <2>1, <2>4, <3>1, <3>2 DEF Raw
    <3> QED
      BY <3>3 DEF f, row
  <2> QED
    BY <2>2, <2>3, <2>4
<1> QED
  BY <1>2, <1>3

-----------------------------------------------------------------------------
(***************************************************************************)
(* Datasets: the enumerated rows and the splits.                           *)
(***************************************************************************)

\* What RawInv and OutInv say of a sequence makes it one.
LEMMA ShapeSeq ==
  ASSUME NEW s, Len(s) \in Nat, s = [k \in 1..Len(s) |-> s[k]]
  PROVE  /\ s \in Seq({s[k] : k \in 1..Len(s)})
         /\ DOMAIN s = 1..Len(s)
<1> DEFINE S == {s[k] : k \in 1..Len(s)}
<1>1. s \in [1..Len(s) -> S]
  OBVIOUS
<1>2. s \in Seq(S)
  BY <1>1, SeqDef
<1>3. DOMAIN s = 1..Len(s)
  OBVIOUS
<1> QED
  BY <1>2, <1>3

\* A row is appended to the dataset.
LEMMA AppendShape ==
  ASSUME NEW s, Len(s) \in Nat, s = [k \in 1..Len(s) |-> s[k]], NEW x
  PROVE  /\ Len(Append(s, x)) = Len(s) + 1
         /\ Append(s, x) = [k \in 1..(Len(s) + 1) |-> Append(s, x)[k]]
         /\ \A k \in 1..Len(s) : Append(s, x)[k] = s[k]
         /\ Append(s, x)[Len(s) + 1] = x
<1> DEFINE S == {s[k] : k \in 1..Len(s)} \cup {x}
<1>1. s \in [1..Len(s) -> S]
  OBVIOUS
<1>2. s \in Seq(S) /\ x \in S
  BY <1>1, SeqDef
<1>3. Append(s, x) \in Seq(S) /\ Len(Append(s, x)) = Len(s) + 1
  BY <1>2
<1>4. \A k \in 1..Len(s) : Append(s, x)[k] = s[k]
  BY <1>2
<1>5. Append(s, x)[Len(s) + 1] = x
  BY <1>2
<1>6. Append(s, x) \in [1..(Len(s) + 1) -> S]
  BY <1>3, LenProperties
<1>7. Append(s, x) = [k \in 1..(Len(s) + 1) |-> Append(s, x)[k]]
  BY <1>6
<1> QED
  BY <1>3, <1>4, <1>5, <1>7

\* The rows of a finite table are finite.
LEMMA FetchedFinite ==
  ASSUME NEW S, IsFiniteSet(S), NEW doc
  PROVE  IsFiniteSet({Fetched(doc, t) : t \in S})
<1> DEFINE f == [t \in S |-> Fetched(doc, t)]
           F == {Fetched(doc, t) : t \in S}
<1>1. f \in Surjection(S, F)
  BY DEF Surjection
<1> QED
  BY <1>1, FS_Surjection

\* fetch_rows_in_range gives rows that have a time, in the order of their times.
LEMMA RowsFetched ==
  ASSUME NEW S, IsFiniteSet(S), NEW lo, NEW hi, NEW q \in FetchRowsInRange(S, lo, hi)
  PROVE  /\ Len(q) \in Nat /\ q = [k \in 1..Len(q) |-> q[k]]
         /\ \A k \in DOMAIN q : q[k] \in S /\ q[k].planned_departure_at # None
         /\ \A j, k \in DOMAIN q :
              j < k => q[j].planned_departure_at <= q[k].planned_departure_at
<1> DEFINE R == InRange(S, lo, hi)
           n == Cardinality(R)
<1>1. R \subseteq S /\ \A r \in R : r.planned_departure_at # None
  BY DEF InRange
<1>2. n \in Nat
  <2>1. IsFiniteSet(R)
    BY <1>1, FS_Subset
  <2> QED
    BY <2>1, FS_CardinalityType
<1>3. PICK s \in SetToSeqs(R) :
        /\ q = SubSeq(s, 1, IF Len(s) < BuildRowLimit THEN Len(s) ELSE BuildRowLimit)
        /\ \A i, j \in DOMAIN s :
             i < j => s[i].planned_departure_at <= s[j].planned_departure_at
  BY DEF FetchRowsInRange
<1> DEFINE m == IF Len(s) < BuildRowLimit THEN Len(s) ELSE BuildRowLimit
<1>4. s \in [1..n -> R]
  BY DEF SetToSeqs
<1> HIDE DEF R, n
<1>5. s \in Seq(R) /\ Len(s) = n /\ DOMAIN s = 1..n
  BY <1>2, <1>4, SeqDef
<1>6. m \in 0..n
  BY <1>2, <1>5, LimitAssumption
<1> HIDE DEF m
<1>7. \A i \in 1..m : s[i] \in R
  BY <1>2, <1>4, <1>6
<1>8. /\ SubSeq(s, 1, m) \in Seq(R) /\ Len(SubSeq(s, 1, m)) = m
      /\ \A i \in 1..m : SubSeq(s, 1, m)[i] = s[i]
  BY <1>6, <1>7, SubSeqProperties
<1>9. q \in Seq(R) /\ Len(q) = m /\ \A i \in 1..m : q[i] = s[i]
  BY <1>3, <1>8 DEF m
<1>10. DOMAIN q = 1..m /\ q = [k \in 1..Len(q) |-> q[k]]
  BY <1>9
<1>11. \A k \in DOMAIN q : q[k] \in S /\ q[k].planned_departure_at # None
  BY <1>1, <1>7, <1>9, <1>10
<1>12. \A j, k \in 1..m : j < k => s[j].planned_departure_at <= s[k].planned_departure_at
  BY <1>2, <1>3, <1>5, <1>6
<1>13. \A j, k \in DOMAIN q :
         j < k => q[j].planned_departure_at <= q[k].planned_departure_at
  BY <1>9, <1>10, <1>12
<1>14. Len(q) \in Nat
  BY <1>6, <1>9
<1> QED
  BY <1>10, <1>11, <1>13, <1>14

\* The cuts of a temporal split are in order.
LEMMA Cuts ==
  ASSUME NEW n \in Nat
  PROVE  /\ (n * TrainPercent) \div 100 \in 0..n
         /\ (n * ValidationPercent) \div 100 \in Nat
         /\ (n * TrainPercent) \div 100 + (n * ValidationPercent) \div 100 <= n
<1> DEFINE x == n * TrainPercent
           y == n * ValidationPercent
<1>1. TrainPercent \in Nat /\ ValidationPercent \in Nat /\ TrainPercent + ValidationPercent <= 100
  BY FractionsAssumption
<1>2. x \in Nat /\ y \in Nat
  BY <1>1
<1>3. x + y <= 100 * n
  <2>1. x + y = n * (TrainPercent + ValidationPercent)
    BY <1>1
  <2>2. \A a, b \in Nat : a <= b => n * a <= n * b
    OBVIOUS
  <2>3. n * (TrainPercent + ValidationPercent) <= n * 100
    BY <1>1, <2>2
  <2> QED
    BY <2>1, <2>3
<1> HIDE DEF x, y
<1>4. x \div 100 \in Nat /\ y \div 100 \in Nat /\ x \div 100 + y \div 100 <= n
  BY <1>2, <1>3
<1> QED
  BY <1>4 DEF x, y

\* split_temporally cuts a sequence in order into three parts in order.
LEMMA SplitSorted ==
  ASSUME NEW s, Len(s) \in Nat, s = [k \in 1..Len(s) |-> s[k]],
         \A j, k \in DOMAIN s : j < k => s[j].time <= s[k].time
  PROVE  LET x == Split(s)
             NotLater(a, b) == \A i \in DOMAIN a, j \in DOMAIN b : a[i].time <= b[j].time IN
         /\ NotLater(x.train, x.validation) /\ NotLater(x.train, x.test)
         /\ NotLater(x.validation, x.test)
         /\ x.train \o x.validation \o x.test = s
<1> DEFINE n == Len(s)
           a == (n * TrainPercent) \div 100
           b == a + (n * ValidationPercent) \div 100
           S == {s[k] : k \in 1..Len(s)}
<1>1. Split(s) = [train |-> SubSeq(s, 1, a), validation |-> SubSeq(s, a + 1, b),
                  test |-> SubSeq(s, b + 1, n)]
  BY DEF Split
<1>2. n \in Nat /\ a \in 0..n /\ b \in a..n
  BY Cuts
<1>3. s \in Seq(S) /\ DOMAIN s = 1..n
  BY ShapeSeq
<1>4. \A k \in 1..n : s[k] \in S
  OBVIOUS
<1> HIDE DEF n, a, b, S
<1>5. /\ SubSeq(s, 1, a) \in Seq(S) /\ Len(SubSeq(s, 1, a)) = a
      /\ \A i \in 1..a : SubSeq(s, 1, a)[i] = s[i]
  <2>1. \A i \in 1..a : s[i] \in S
    BY <1>2, <1>4
  <2> QED
    BY <1>2, <2>1, SubSeqProperties
<1>6. /\ SubSeq(s, a + 1, b) \in Seq(S) /\ Len(SubSeq(s, a + 1, b)) = b - a
      /\ \A i \in 1..(b - a) : SubSeq(s, a + 1, b)[i] = s[a + i]
  <2>1. \A i \in (a + 1)..b : s[i] \in S
    BY <1>2, <1>4
  <2>2. /\ SubSeq(s, a + 1, b) \in Seq(S)
        /\ Len(SubSeq(s, a + 1, b)) = IF a + 1 <= b THEN b - (a + 1) + 1 ELSE 0
        /\ \A i \in 1 .. b - (a + 1) + 1 : SubSeq(s, a + 1, b)[i] = s[(a + 1) + i - 1]
    BY <1>2, <2>1, SubSeqProperties, SMTT(40)
  <2>3. ASSUME NEW i \in 1..(b - a)
        PROVE  SubSeq(s, a + 1, b)[i] = s[a + i]
    <3>1. i \in 1 .. b - (a + 1) + 1 /\ (a + 1) + i - 1 = a + i
      BY <1>2
    <3> QED
      BY <2>2, <3>1
  <2>4. Len(SubSeq(s, a + 1, b)) = b - a
    BY <1>2, <2>2
  <2> QED
    BY <2>2, <2>3, <2>4
<1>7. /\ SubSeq(s, b + 1, n) \in Seq(S) /\ Len(SubSeq(s, b + 1, n)) = n - b
      /\ \A i \in 1..(n - b) : SubSeq(s, b + 1, n)[i] = s[b + i]
  <2>1. \A i \in (b + 1)..n : s[i] \in S
    BY <1>2, <1>4
  <2>2. /\ SubSeq(s, b + 1, n) \in Seq(S)
        /\ Len(SubSeq(s, b + 1, n)) = IF b + 1 <= n THEN n - (b + 1) + 1 ELSE 0
        /\ \A i \in 1 .. n - (b + 1) + 1 : SubSeq(s, b + 1, n)[i] = s[(b + 1) + i - 1]
    BY <1>2, <2>1, SubSeqProperties, SMTT(40)
  <2>3. n - (b + 1) + 1 = n - b /\ \A i \in 1..(n - b) : (b + 1) + i - 1 = b + i
    BY <1>2
  <2>4. (IF b + 1 <= n THEN n - (b + 1) + 1 ELSE 0) = n - b
    BY <1>2
  <2> QED
    BY <2>2, <2>3, <2>4
<1>8. \A j, k \in 1..n : j < k => s[j].time <= s[k].time
  BY <1>3
<1> DEFINE T == SubSeq(s, 1, a)
           V == SubSeq(s, a + 1, b)
           W == SubSeq(s, b + 1, n)
<1>9. T \o V \o W = s
  <2>1. /\ 1 \in 1..(Len(s) + 1) /\ a \in 1 - 1 .. Len(s) /\ b \in a..Len(s)
        /\ b \in 1 - 1 .. Len(s) /\ n \in b..Len(s)
    BY <1>2 DEF n
  <2>2. T \o V = SubSeq(s, 1, b)
    BY <1>3, <2>1, ConcatAdjacentSubSeq
  <2>3. SubSeq(s, 1, b) \o W = SubSeq(s, 1, n)
    BY <1>3, <2>1, ConcatAdjacentSubSeq
  <2>4. SubSeq(s, 1, n) = s
    BY <1>3, SubSeqFull DEF n
  <2> QED
    BY <2>2, <2>3, <2>4
<1>10. DOMAIN T = 1..a /\ DOMAIN V = 1..(b - a) /\ DOMAIN W = 1..(n - b)
  <2>1. DOMAIN T = 1..a
    BY <1>5
  <2>2. DOMAIN V = 1..(b - a)
    BY <1>6
  <2>3. DOMAIN W = 1..(n - b)
    BY <1>7
  <2> QED
    BY <2>1, <2>2, <2>3
<1>11. /\ \A i \in 1..a : T[i] = s[i]
       /\ \A i \in 1..(b - a) : V[i] = s[a + i]
       /\ \A i \in 1..(n - b) : W[i] = s[b + i]
  BY <1>5, <1>6, <1>7
<1>12. Split(s) = [train |-> T, validation |-> V, test |-> W]
  BY <1>1
<1> HIDE DEF T, V, W
<1>13. Split(s).train = T /\ Split(s).validation = V /\ Split(s).test = W
  BY <1>12
<1>14. ASSUME NEW i \in DOMAIN T, NEW j \in DOMAIN V
       PROVE  T[i].time <= V[j].time
  <2>1. i \in 1..n /\ a + j \in 1..n /\ i < a + j
    BY <1>2, <1>10
  <2>2. s[i].time <= s[a + j].time
    BY <1>8, <2>1
  <2> QED
    BY <1>10, <1>11, <2>2
<1>15. ASSUME NEW i \in DOMAIN T, NEW j \in DOMAIN W
       PROVE  T[i].time <= W[j].time
  <2>1. i \in 1..n /\ b + j \in 1..n /\ i < b + j
    BY <1>2, <1>10
  <2>2. s[i].time <= s[b + j].time
    BY <1>8, <2>1
  <2> QED
    BY <1>10, <1>11, <2>2
<1>16. ASSUME NEW i \in DOMAIN V, NEW j \in DOMAIN W
       PROVE  V[i].time <= W[j].time
  <2>1. a + i \in 1..n /\ b + j \in 1..n /\ a + i < b + j
    BY <1>2, <1>10
  <2>2. s[a + i].time <= s[b + j].time
    BY <1>8, <2>1
  <2> QED
    BY <1>10, <1>11, <2>2
<1>17. Split(s).train \o Split(s).validation \o Split(s).test = s
  BY <1>9, <1>13
<1> QED
  BY <1>13, <1>14, <1>15, <1>16, <1>17

-----------------------------------------------------------------------------
(***************************************************************************)
(* Datasets: labels.                                                       *)
(***************************************************************************)

\* A fetched trip has the mapped fields of the trip and NULL for the others.
LEMMA FetchedTrip ==
  ASSUME NEW doc, NEW t \in Trips
  PROVE  /\ {"planned_departure_at", "planned_distance_km", "actual_departure_at", "route_id",
             "vehicle_id", "driver_id", "trip_id"} \subseteq DOMAIN t
         /\ \A c \in {"trip_id", "vehicle_id", "planned_departure_at", "planned_arrival_at",
                      "actual_arrival_at", "status"} :
              /\ c \in doc.columns => Fetched(doc, t)[c] = t[c]
              /\ c \notin doc.columns => Fetched(doc, t)[c] = None
BY DEF Fetched, Trips

\* A label is 0 or 1, and there is one only for a completed or cancelled trip.
LEMMA LabelValues ==
  ASSUME NEW row, Labelable(row)
  PROVE  /\ TrustedLabel(row) \in {0, 1} /\ TrustedLabel(row) = Label(row)
         /\ PointInTimeValid(row)
         /\ \/ row.status = "cancelled" /\ Label(row) = 1
            \/ /\ row.status = "completed" /\ row.planned_arrival_at # None
               /\ row.actual_arrival_at # None
<1>1. PointInTimeValid(row) /\ TrustedLabel(row) = Label(row) /\ Label(row) # None
  BY DEF Labelable, TrustedLabel
<1>2. CASE row.status = "cancelled"
  BY <1>1, <1>2 DEF Label
<1>3. CASE row.status # "cancelled" /\ row.status = "completed" /\ row.planned_arrival_at # None
           /\ row.actual_arrival_at # None
  BY <1>1, <1>3 DEF Label
<1>4. CASE ~(row.status = "cancelled")
           /\ ~(row.status = "completed" /\ row.planned_arrival_at # None
                  /\ row.actual_arrival_at # None)
  BY <1>1, <1>4 DEF Label
<1> QED
  BY <1>2, <1>3, <1>4

\* The label of a fetched trip is the label of the trip, and its outcome is final.
LEMMA LabelFetched ==
  ASSUME NEW doc, NEW t \in Trips, t.status # "completed" => t.actual_arrival_at = None,
         Fetched(doc, t).planned_departure_at # None, Labelable(Fetched(doc, t))
  PROVE  /\ t.status \in {"completed", "cancelled"}
         /\ Label(t) = TrustedLabel(Fetched(doc, t))
         /\ t.actual_arrival_at # None => t.actual_arrival_at > t.planned_departure_at
<1> DEFINE row == Fetched(doc, t)
<1>1. /\ row.status \in {t.status, None} /\ row.planned_arrival_at \in {t.planned_arrival_at, None}
      /\ row.actual_arrival_at \in {t.actual_arrival_at, None}
      /\ row.planned_departure_at = t.planned_departure_at
  BY FetchedTrip
<1>2. None \notin {"completed", "cancelled"}
  BY NullAssumption DEF TripStatusValues
<1> HIDE DEF row
<1>3. Labelable(row) /\ row.planned_departure_at # None
  BY DEF row
<1>4. CASE row.status = "cancelled"
  <2>1. t.status = "cancelled"
    BY <1>1, <1>2, <1>4
  <2>2. Label(t) = 1 /\ TrustedLabel(row) = 1
    BY <1>3, <1>4, <2>1, LabelValues DEF Label
  <2> QED
    BY <2>1, <2>2 DEF row
<1>5. CASE row.status # "cancelled"
  <2>1. /\ row.status = "completed" /\ row.planned_arrival_at # None
        /\ row.actual_arrival_at # None
    BY <1>3, <1>5, LabelValues
  <2>2. /\ t.status = row.status /\ t.planned_arrival_at = row.planned_arrival_at
        /\ t.actual_arrival_at = row.actual_arrival_at
    BY <1>1, <1>2, <2>1
  <2>3. Label(t) = Label(row)
    BY <2>1, <2>2 DEF Label
  <2>4. row.actual_arrival_at > row.planned_departure_at
    BY <1>3, <2>1, LabelValues DEF PointInTimeValid
  <2> QED
    BY <1>1, <1>3, <2>1, <2>2, <2>3, <2>4, LabelValues DEF row
<1> QED
  BY <1>4, <1>5

-----------------------------------------------------------------------------
(***************************************************************************)
(* Datasets: what the invariant implies.                                   *)
(***************************************************************************)

\* The mapping of trips the build sees is the version it resolved first, or another mapping.
LEMMA SeenPinned ==
  ASSUME DatasetInv, Seen(TargetEntity) # None
  PROVE  build.held # None /\ Seen(TargetEntity).id = build.held.id =>
           Seen(TargetEntity).version = build.held.version
BY DEF Seen

\* The vehicle a fetched row of trips shows.
LEMMA VehicleFetched ==
  ASSUME NEW v, NEW t \in Trips
  PROVE  Fetched(Doc[v], t).vehicle_id = VehicleRead(v, t.vehicle_id)
<1>1. "vehicle_id" \in DOMAIN t /\ "vehicle_id" # None
  BY FetchedTrip, NullAssumption
<1> QED
  BY <1>1 DEF Fetched, VehicleRead, Mapped

\* What a resolved mapping gives.
LEMMA ResolvedDocument ==
  ASSUME NEW m \in Opt(MappingRecords), Document(Resolved(m)) # None
  PROVE  /\ m \in MappingRecords /\ Resolved(m) = m.version
         /\ Document(Resolved(m)) = Doc[m.version]
BY DEF Document, Resolved, Opt

\* The features about to be computed do not depend on the trip's own outcome.
LEMMA OwnOutcome == DatasetInv => OwnOutcomeUnused
<1> DEFINE docs == DocumentsOf(SeenVersions)
           p == build.raw[build.i].planned_departure_at
           id == build.raw[build.i].trip_id
           own == {t \in db["Trip"] : t.trip_id = id}
           With(S) == [db EXCEPT !["Trip"] = (@ \ own) \cup S]
           Changed(s, arrival) == {[t EXCEPT !.status = s, !.actual_arrival_at = arrival] : t \in own}
<1> SUFFICES ASSUME DatasetInv, build.pc = "related", ~ExtractRaises(docs, build.row),
                    docs[TargetEntity] # None => Mapped(docs[TargetEntity], "planned_departure_at"),
                    NEW s \in TripStatusValues, NEW arrival \in {None, now}
             PROVE  FeaturesOut(With(Changed(s, arrival)), docs, build.row, p)
                      = FeaturesOut(With(own), docs, build.row, p)
  BY DEF OwnOutcomeUnused
<1> DEFINE C == Changed(s, arrival)
<1>1. own \subseteq Trips /\ \A t \in own : t.planned_departure_at = p
  <2>1. build.i \in DOMAIN build.raw
    BY ShapeSeq DEF DatasetInv, BuildInv, RawInv
  <2> QED
    BY <2>1 DEF DatasetInv, RawInv, DatasetTypeOK
<1>2. \A t \in C : t.planned_departure_at = p
  BY <1>1 DEF Trips
<1>3. DOMAIN db = Entities /\ "Trip" \in Entities
  BY EntityNames DEF DatasetInv, TripsInv
<1>4. /\ With(C)["Trip"] = (db["Trip"] \ own) \cup C
      /\ With(own)["Trip"] = (db["Trip"] \ own) \cup own
      /\ \A e \in Entities : e # "Trip" => With(C)[e] = With(own)[e]
  BY <1>3
<1>5. docs["Trip"] # None => Mapped(docs["Trip"], "planned_departure_at")
  BY DEF TargetEntity
<1> HIDE DEF docs, p, own, With, C
<1>6. ASSUME NEW n \in Features
      PROVE  Raw(With(C), docs, build.row, Contract[n], p)
               = Raw(With(own), docs, build.row, Contract[n], p)
  <2> DEFINE f == Contract[n]
  <2>1. CASE f.entity = None
    BY <2>1, TargetSame
  <2>2. CASE f.entity # None /\ f.entity # "Trip"
    <3>1. f.entity \in Entities
      BY <2>2, ContractShape
    <3>2. With(C)[f.entity] = With(own)[f.entity]
      BY <1>4, <2>2, <3>1
    <3> QED
      BY <2>2, <3>2, RawSame
  <2>3. CASE f.entity = "Trip"
    <3>1. SUFFICES ASSUME docs["Trip"] # None, build.row[f.fk] # None, Mapped(docs["Trip"], f.fk)
                   PROVE  Selected(With(C)["Trip"], docs["Trip"], f, build.row[f.fk], p)
                            = Selected(With(own)["Trip"], docs["Trip"], f, build.row[f.fk], p)
      <4> HIDE DEF f
      <4>1. f.entity # None
        BY <2>3, NullAssumption
      <4>2. Raw(With(C), docs, build.row, f, p) = Raw(With(own), docs, build.row, f, p)
        BY <2>3, <3>1, <4>1, RawSame
      <4> QED
        BY <4>2 DEF f
    <3>3. Mapped(docs["Trip"], f.stamp) /\ f.stamp = "planned_departure_at"
      BY <1>5, <2>3, <3>1, ContractShape, NullAssumption
    <3>4. ~Before(p, p)
      <4>1. build.i \in DOMAIN build.raw
        BY ShapeSeq DEF DatasetInv, BuildInv, RawInv
      <4>2. p \in Nat
        BY <4>1 DEF DatasetInv, RawInv, p
      <4> QED
        BY <4>2 DEF Before
    <3>5. \A r \in (With(C)["Trip"] \ With(own)["Trip"]) \cup (With(own)["Trip"] \ With(C)["Trip"]) :
            ~Before(r[f.stamp], p)
      BY <1>1, <1>2, <1>4, <3>3, <3>4
    <3> QED
      BY <3>3, <3>5, SelectedSame
  <2> QED
    BY <2>1, <2>2, <2>3
<1>7. FeaturesOut(With(C), docs, build.row, p) = FeaturesOut(With(own), docs, build.row, p)
  BY <1>6 DEF FeaturesOut
<1> QED
  BY <1>7 DEF C

\* A label in the dataset is the outcome of its trip.
LEMMA LabelsFinal == DatasetInv => LabelFinal
<1> SUFFICES ASSUME DatasetInv, NEW k \in DOMAIN build.out, Exists(build.out[k].trip_id)
             PROVE  LET t == Row(build.out[k].trip_id) IN
                    /\ build.out[k].label = Label(t)
                    /\ t.actual_arrival_at # None => t.actual_arrival_at > build.out[k].time
  BY DEF LabelFinal
<1> DEFINE t == Row(build.out[k].trip_id)
<1>1. t \in db["Trip"] /\ t.trip_id = build.out[k].trip_id
  BY DEF Exists, Row
<1>2. PICK j \in DOMAIN build.raw :
        /\ build.out[k].trip_id = build.raw[j].trip_id /\ Labelable(build.raw[j])
        /\ build.out[k].label = TrustedLabel(build.raw[j])
        /\ build.out[k].time = build.raw[j].planned_departure_at
  BY DEF DatasetInv, OutInv
<1> HIDE DEF t
<1>3. /\ t.planned_departure_at = build.raw[j].planned_departure_at
      /\ Label(t) = TrustedLabel(build.raw[j])
      /\ t.actual_arrival_at # None => t.actual_arrival_at > t.planned_departure_at
  BY <1>1, <1>2 DEF DatasetInv, RawInv
<1> QED
  BY <1>2, <1>3 DEF t

\* The splits of a finished build are in order.
LEMMA SplitsOrdered == DatasetInv => TemporalSplit
<1> SUFFICES ASSUME DatasetInv, build.pc = "done"
             PROVE  LET s == build.splits
                        NotLater(a, b) ==
                          \A i \in DOMAIN a, j \in DOMAIN b : a[i].time <= b[j].time IN
                    /\ NotLater(s.train, s.validation) /\ NotLater(s.train, s.test)
                    /\ NotLater(s.validation, s.test)
                    /\ s.train \o s.validation \o s.test = build.out
  BY DEF TemporalSplit
<1>1. /\ Len(build.out) \in Nat /\ build.out = [k \in 1..Len(build.out) |-> build.out[k]]
      /\ \A j, k \in DOMAIN build.out : j < k => build.out[j].time <= build.out[k].time
      /\ build.splits = Split(build.out)
  BY DEF DatasetInv, OutInv
<1> QED
  BY <1>1, SplitSorted

-----------------------------------------------------------------------------
(***************************************************************************)
(* Datasets: the first state, and the steps around a build.                *)
(***************************************************************************)

\* DatasetInit chooses the trips.
LEMMA DatasetInitInv == DatasetInit => DatasetInv
<1> SUFFICES ASSUME DatasetInit PROVE DatasetInv
  OBVIOUS
<1>1. PICK key \in [TripIds -> Keys], start \in Starts :
        db = [e \in Entities |-> IF e = "Trip" THEN {Planned(id, key[id], start[id]) : id \in TripIds}
                                 ELSE Fixed[e]]
  BY DEF DatasetInit
<1>2. /\ now = 0 /\ mapping = Initial /\ build = NoBuild /\ served = {}
  BY DEF DatasetInit
<1>3. /\ db["Trip"] = {Planned(id, key[id], start[id]) : id \in TripIds}
      /\ db["MaintenanceEvent"] = Fixed["MaintenanceEvent"]
      /\ db["OdometerReading"] = Fixed["OdometerReading"]
      /\ db = [e \in Entities |-> db[e]]
  BY <1>1, EntityNames
<1>4. ASSUME NEW id \in TripIds
      PROVE  /\ Planned(id, key[id], start[id]) \in Trips
             /\ Planned(id, key[id], start[id]).trip_id = id
             /\ Planned(id, key[id], start[id]).vehicle_id = key[id]
             /\ Planned(id, key[id], start[id]).actual_arrival_at = None
  <2>1. start[id] \in Nat /\ start[id] + Tick \in Nat
    BY WorldAssumption
  <2> QED
    BY <2>1 DEF Planned, Trips, Opt, TripStatusValues
<1>5. DatasetTypeOK
  <2>1. now \in Clocks
    <3>1. 0 \in 0..Ticks /\ 0 * Tick = 0
      BY WorldAssumption
    <3> QED
      BY <1>2, <3>1 DEF Clocks
  <2>2. /\ db["Trip"] \subseteq Trips /\ db["MaintenanceEvent"] \subseteq Events
        /\ db["OdometerReading"] \subseteq Readings
    BY <1>3, <1>4, WorldAssumption
  <2>3. mapping \in [Entities -> Opt(MappingRecords)]
    BY <1>2, MappingAssumption
  <2> QED
    BY <1>2, <2>1, <2>2, <2>3 DEF DatasetTypeOK, NoBuild, Opt
<1>6. TripsInv
  <2> DEFINE f == [id \in TripIds |-> Planned(id, key[id], start[id])]
  <2>1. f \in Surjection(TripIds, db["Trip"])
    BY <1>3 DEF Surjection
  <2>2. IsFiniteSet(db["Trip"])
    BY <2>1, FS_Surjection, WorldAssumption
  <2> QED
    BY <1>3, <1>4, <2>2, WorldAssumption DEF TripsInv
<1>8. /\ build.pc = "idle" /\ build.held = None /\ build.raw = <<>> /\ build.i = 1
      /\ build.out = <<>> /\ Len(<<>>) = 0
  BY <1>2 DEF NoBuild
<1>9. RawInv /\ OutInv
  <2>1. <<>> = [k \in 1..Len(<<>>) |-> <<>>[k]] /\ DOMAIN <<>> = {} /\ Len(<<>>) \in Nat
    OBVIOUS
  <2> QED
    BY <1>8, <2>1 DEF RawInv, OutInv
<1>10. BuildInv
  BY <1>2 DEF BuildInv, NoBuild
<1>11. ServedInv
  BY <1>2, <1>3, <1>4, <1>8 DEF ServedInv
<1>12. TargetPinned /\ SameAsServed /\ PlanHonest
  BY <1>2, <1>8 DEF TargetPinned, SameAsServed, PlanHonest
<1> QED
  BY <1>5, <1>6, <1>9, <1>10, <1>11, <1>12 DEF DatasetInv

\* A step that leaves the build alone.
LEMMA BuildKept ==
  ASSUME DatasetInv, UNCHANGED build
  PROVE  OutInv' /\ BuildInv' /\ TargetPinned'
<1>1. OutInv'
  BY DEF DatasetInv, OutInv
<1>2. BuildInv'
  BY DEF DatasetInv, BuildInv
<1>3. TargetPinned'
  BY DEF DatasetInv, TargetPinned
<1> QED
  BY <1>1, <1>2, <1>3

\* A step that leaves what was served alone.
LEMMA ServedKept ==
  ASSUME DatasetInv, UNCHANGED served
  PROVE  /\ PlanHonest'
         /\ build' = build => SameAsServed'
<1>1. PlanHonest'
  BY DEF DatasetInv, PlanHonest
<1>2. ASSUME build' = build PROVE SameAsServed'
  BY <1>2 DEF DatasetInv, SameAsServed
<1> QED
  BY <1>1, <1>2

\* Trips keep their times, and a final outcome is kept.
LEMMA RawKept ==
  ASSUME DatasetInv, UNCHANGED build,
         \A t \in db'["Trip"] : \E u \in db["Trip"] :
           /\ t.trip_id = u.trip_id /\ t.planned_departure_at = u.planned_departure_at
           /\ u.status \in {"completed", "cancelled"} => t = u
  PROVE  RawInv'
BY DEF DatasetInv, RawInv

\* Trips keep their vehicles; what is appended has the time of its appearance.
LEMMA HistoryKept ==
  ASSUME DatasetInv, UNCHANGED <<build, served>>, now \in Nat, now' \in Nat, now <= now',
         \A t \in db'["Trip"] : \E u \in db["Trip"] :
           t.trip_id = u.trip_id /\ t.vehicle_id = u.vehicle_id,
         db["MaintenanceEvent"] \subseteq db'["MaintenanceEvent"],
         \A r \in db'["MaintenanceEvent"] \ db["MaintenanceEvent"] :
           r.started_at = now /\ r.completed_at = now,
         db["OdometerReading"] \subseteq db'["OdometerReading"],
         \A r \in db'["OdometerReading"] \ db["OdometerReading"] : r.recorded_at = now
  PROVE  ServedInv'
<1>1. PICK vehicle \in [TripIds -> Keys] :
        /\ \A t \in db["Trip"] : t.vehicle_id = vehicle[t.trip_id]
        /\ build.pc = "related" =>
             build.row.vehicle_id = VehicleRead(build.used.version, vehicle[build.raw[build.i].trip_id])
        /\ \A s \in served, n \in Appended : LET v == s.versions[Contract[n].entity] IN
             v # None /\ Mapped(Doc[v], Contract[n].stamp) =>
               s.features[n]
                 = HistoryValue(n, v, VehicleRead(s.versions[TargetEntity], vehicle[s.trip_id]), s.time)
  BY DEF DatasetInv, ServedInv
<1>2. \A s \in served : s.time \in Nat /\ s.time <= now
  BY DEF DatasetInv, ServedInv
<1>3. \A s \in served' : s.time \in Nat /\ s.time <= now'
  BY <1>2
<1>4. \A t \in db'["Trip"] : t.vehicle_id = vehicle[t.trip_id]
  BY <1>1
<1>5. ASSUME NEW s \in served, NEW n \in Appended,
             s.versions[Contract[n].entity] # None,
             Mapped(Doc[s.versions[Contract[n].entity]], Contract[n].stamp)
      PROVE  s.features[n]
               = Normalize(Contract[n],
                           Raw(db', [e \in Entities |-> Document(s.versions[Contract[n].entity])],
                               [vehicle_id |-> VehicleRead(s.versions[TargetEntity], vehicle[s.trip_id])],
                               Contract[n], s.time))
  <2> DEFINE f == Contract[n]
             v == s.versions[f.entity]
             docs == [e \in Entities |-> Document(v)]
             key == [vehicle_id |-> VehicleRead(s.versions[TargetEntity], vehicle[s.trip_id])]
  <2>1. s.features[n] = Normalize(f, Raw(db, docs, key, f, s.time))
    BY <1>1, <1>5 DEF HistoryValue
  <2>2. /\ f.entity \in Entities /\ f.entity # None
        /\ \/ f.entity = "OdometerReading" /\ f.stamp = "recorded_at"
           \/ f.entity = "MaintenanceEvent" /\ f.stamp \in {"started_at", "completed_at"}
    BY ContractShape DEF Appended
  <2>3. docs[f.entity] = Doc[v]
    BY <1>5, <2>2 DEF Document
  <2>4. ~Before(now, s.time)
    BY <1>2 DEF Before
  <2>5. \A r \in (db[f.entity] \ db'[f.entity]) \cup (db'[f.entity] \ db[f.entity]) :
          ~Before(r[f.stamp], s.time)
    BY <2>2, <2>4
  <2>6. Selected(db[f.entity], docs[f.entity], f, key[f.fk], s.time)
          = Selected(db'[f.entity], docs[f.entity], f, key[f.fk], s.time)
    BY <1>5, <2>3, <2>5, SelectedSame
  <2> HIDE DEF f, v, docs, key
  <2>7. Raw(db, docs, key, f, s.time) = Raw(db', docs, key, f, s.time)
    BY <2>2, <2>6, RawSame
  <2> QED
    BY <2>1, <2>7 DEF f, v, docs, key
<1> QED
  BY <1>1, <1>3, <1>4, <1>5 DEF ServedInv, HistoryValue

\* The entities the steps change are different entries of db.
LEMMA Written ==
  ASSUME DatasetInv, NEW e \in {"Trip", "MaintenanceEvent", "OdometerReading"}, NEW S,
         db' = [db EXCEPT ![e] = S]
  PROVE  /\ db'[e] = S
         /\ \A d \in Entities : d # e => db'[d] = db[d]
         /\ db' = [d \in Entities |-> db'[d]]
<1>1. db = [d \in Entities |-> db[d]] /\ e \in Entities
  BY EntityNames DEF DatasetInv, TripsInv
<1> QED
  BY <1>1

\* A trip that has no outcome yet takes its next step.
LEMMA TripStep ==
  ASSUME DatasetInv, NEW t \in db["Trip"], NEW u \in Trips,
         u.trip_id = t.trip_id, u.vehicle_id = t.vehicle_id,
         u.planned_departure_at = t.planned_departure_at,
         t.status \notin {"completed", "cancelled"},
         u.status # "completed" => u.actual_arrival_at = None,
         Replace(t, u), UNCHANGED <<now, mapping, build, served>>
  PROVE  DatasetInv'
<1>1. /\ db'["Trip"] = (db["Trip"] \ {t}) \cup {u}
      /\ db'["MaintenanceEvent"] = db["MaintenanceEvent"]
      /\ db'["OdometerReading"] = db["OdometerReading"]
      /\ db' = [d \in Entities |-> db'[d]]
  BY Written, EntityNames DEF Replace
<1>2. DatasetTypeOK'
  BY <1>1 DEF DatasetInv, DatasetTypeOK
<1>3. TripsInv'
  <2>1. /\ IsFiniteSet(db["Trip"]) /\ IsFiniteSet(db["MaintenanceEvent"])
        /\ IsFiniteSet(db["OdometerReading"])
        /\ \A a, b \in db["Trip"] : a.trip_id = b.trip_id => a = b
        /\ \A a \in db["Trip"] : a.status # "completed" => a.actual_arrival_at = None
    BY DEF DatasetInv, TripsInv
  <2>2. IsFiniteSet(db'["Trip"])
    <3>1. IsFiniteSet(db["Trip"] \ {t})
      BY <2>1, FS_RemoveElement
    <3>2. IsFiniteSet((db["Trip"] \ {t}) \cup {u})
      BY <3>1, FS_AddElement
    <3> QED
      BY <1>1, <3>2
  <2>3. \A a, b \in db'["Trip"] : a.trip_id = b.trip_id => a = b
    BY <1>1, <2>1
  <2>4. \A a \in db'["Trip"] : a.status # "completed" => a.actual_arrival_at = None
    BY <1>1, <2>1
  <2> QED
    BY <1>1, <2>1, <2>2, <2>3, <2>4 DEF TripsInv
<1>5. RawInv'
  BY <1>1, RawKept
<1>6. ServedInv'
  <2>1. now \in Nat /\ now' = now
    BY WorldAssumption DEF DatasetInv, DatasetTypeOK, Clocks
  <2> QED
    BY <1>1, <2>1, HistoryKept
<1> QED
  BY <1>2, <1>3, <1>5, <1>6, BuildKept, ServedKept DEF DatasetInv

\* The clock is a number.
LEMMA NowNat == DatasetInv => now \in Nat
<1>1. \A k \in 0..Ticks : k * Tick \in Nat
  BY WorldAssumption
<1> QED
  BY <1>1 DEF DatasetInv, DatasetTypeOK, Clocks

\* Depart, Arrive, Cancel.
LEMMA TripsMove ==
  ASSUME DatasetInv, NEW t \in db["Trip"], Depart(t) \/ Arrive(t) \/ Cancel(t)
  PROVE  DatasetInv'
<1>1. t \in Trips /\ now \in Nat
  BY NowNat DEF DatasetInv, DatasetTypeOK
<1>2. t.status # "completed" => t.actual_arrival_at = None
  BY DEF DatasetInv, TripsInv
<1>3. CASE Depart(t)
  <2> DEFINE u == [t EXCEPT !.status = "in_progress", !.actual_departure_at = now]
  <2>1. u \in Trips
    BY <1>1 DEF Trips, TripStatusValues, Opt
  <2>2. /\ u.trip_id = t.trip_id /\ u.vehicle_id = t.vehicle_id
        /\ u.planned_departure_at = t.planned_departure_at
        /\ u.status = "in_progress" /\ u.actual_arrival_at = t.actual_arrival_at
    BY <1>1 DEF Trips
  <2>3. Replace(t, u) /\ t.status = "planned" /\ UNCHANGED <<now, mapping, build, served>>
    BY <1>3 DEF Depart, ControlPlane
  <2> HIDE DEF u
  <2> QED
    BY <1>2, <2>1, <2>2, <2>3, TripStep
<1>4. CASE Arrive(t)
  <2> DEFINE u == [t EXCEPT !.status = "completed", !.actual_arrival_at = now]
  <2>1. u \in Trips
    BY <1>1 DEF Trips, TripStatusValues, Opt
  <2>2. /\ u.trip_id = t.trip_id /\ u.vehicle_id = t.vehicle_id
        /\ u.planned_departure_at = t.planned_departure_at
        /\ u.status = "completed"
    BY <1>1 DEF Trips
  <2>3. Replace(t, u) /\ t.status = "in_progress" /\ UNCHANGED <<now, mapping, build, served>>
    BY <1>4 DEF Arrive, ControlPlane
  <2> HIDE DEF u
  <2> QED
    BY <2>1, <2>2, <2>3, TripStep
<1>5. CASE Cancel(t)
  <2> DEFINE u == [t EXCEPT !.status = "cancelled"]
  <2>1. u \in Trips
    BY <1>1 DEF Trips, TripStatusValues
  <2>2. /\ u.trip_id = t.trip_id /\ u.vehicle_id = t.vehicle_id
        /\ u.planned_departure_at = t.planned_departure_at
        /\ u.status = "cancelled" /\ u.actual_arrival_at = t.actual_arrival_at
    BY <1>1 DEF Trips
  <2>3. Replace(t, u) /\ t.status = "planned" /\ UNCHANGED <<now, mapping, build, served>>
    BY <1>5 DEF Cancel, ControlPlane
  <2> HIDE DEF u
  <2> QED
    BY <1>2, <2>1, <2>2, <2>3, TripStep
<1> QED
  BY <1>3, <1>4, <1>5

\* A trip is deleted.
LEMMA DeleteInv ==
  ASSUME DatasetInv, NEW t \in db["Trip"], Delete(t)
  PROVE  DatasetInv'
<1>1. /\ db'["Trip"] = db["Trip"] \ {t}
      /\ db'["MaintenanceEvent"] = db["MaintenanceEvent"]
      /\ db'["OdometerReading"] = db["OdometerReading"]
      /\ db' = [d \in Entities |-> db'[d]]
  BY Written, EntityNames DEF Delete
<1>2. UNCHANGED <<now, mapping, build, served>>
  BY DEF Delete
<1>3. DatasetTypeOK'
  BY <1>1, <1>2 DEF DatasetInv, DatasetTypeOK
<1>4. TripsInv'
  <2>1. IsFiniteSet(db["Trip"]) => IsFiniteSet(db'["Trip"])
    BY <1>1, FS_RemoveElement
  <2> QED
    BY <1>1, <2>1 DEF DatasetInv, TripsInv
<1>6. RawInv'
  BY <1>1, <1>2, RawKept
<1>7. ServedInv'
  <2>1. now \in Nat /\ now' = now
    BY <1>2, NowNat
  <2> QED
    BY <1>1, <1>2, <2>1, HistoryKept
<1> QED
  BY <1>2, <1>3, <1>4, <1>6, <1>7, BuildKept, ServedKept DEF DatasetInv

\* The clock advances.
LEMMA PassInv ==
  ASSUME DatasetInv, Pass
  PROVE  DatasetInv'
<1>1. UNCHANGED <<db, mapping, build, served>> /\ now' = now + Tick /\ now' \in Clocks
  BY DEF Pass, ControlPlane
<1>2. DatasetTypeOK'
  BY <1>1 DEF DatasetInv, DatasetTypeOK
<1>3. TripsInv'
  BY <1>1 DEF DatasetInv, TripsInv
<1>4. RawInv'
  BY <1>1, RawKept
<1>5. ServedInv'
  <2>1. now \in Nat /\ now' \in Nat /\ now <= now'
    BY <1>1, NowNat, WorldAssumption
  <2> QED
    BY <1>1, <2>1, HistoryKept
<1> QED
  BY <1>1, <1>2, <1>3, <1>4, <1>5, BuildKept, ServedKept DEF DatasetInv

\* An event or a reading is appended at the present time.
LEMMA AppendInv ==
  ASSUME DatasetInv,
         \/ \E k \in Keys, kind \in EventKinds : Maintain(k, kind)
         \/ \E k \in Keys : ReadOdometer(k)
  PROVE  DatasetInv'
<1>1. UNCHANGED <<now, mapping, build, served>> /\ now \in Nat
  BY NowNat DEF Maintain, ReadOdometer, ControlPlane
<1>2. /\ IsFiniteSet(db["Trip"]) /\ IsFiniteSet(db["MaintenanceEvent"])
      /\ IsFiniteSet(db["OdometerReading"])
  BY DEF DatasetInv, TripsInv
<1>3. /\ db'["Trip"] = db["Trip"] /\ db' = [d \in Entities |-> db'[d]]
      /\ db'["MaintenanceEvent"] \subseteq Events /\ db'["OdometerReading"] \subseteq Readings
      /\ IsFiniteSet(db'["MaintenanceEvent"]) /\ IsFiniteSet(db'["OdometerReading"])
      /\ db["MaintenanceEvent"] \subseteq db'["MaintenanceEvent"]
      /\ \A r \in db'["MaintenanceEvent"] \ db["MaintenanceEvent"] :
           r.started_at = now /\ r.completed_at = now
      /\ db["OdometerReading"] \subseteq db'["OdometerReading"]
      /\ \A r \in db'["OdometerReading"] \ db["OdometerReading"] : r.recorded_at = now
  <2>0. db["MaintenanceEvent"] \subseteq Events /\ db["OdometerReading"] \subseteq Readings
    BY DEF DatasetInv, DatasetTypeOK
  <2>1. CASE \E k \in Keys, kind \in EventKinds : Maintain(k, kind)
    <3>1. PICK k \in Keys, kind \in EventKinds : Maintain(k, kind)
      BY <2>1
    <3> DEFINE r == [vehicle_id |-> k, started_at |-> now, completed_at |-> now,
                     event_type |-> kind]
    <3>2. /\ db'["MaintenanceEvent"] = db["MaintenanceEvent"] \cup {r}
          /\ db'["Trip"] = db["Trip"] /\ db'["OdometerReading"] = db["OdometerReading"]
          /\ db' = [d \in Entities |-> db'[d]]
      BY <3>1, Written, EntityNames DEF Maintain, Insert
    <3>3. r \in Events /\ r.started_at = now /\ r.completed_at = now
      BY <1>1 DEF Events, Opt
    <3> HIDE DEF r
    <3>4. IsFiniteSet(db'["MaintenanceEvent"])
      BY <1>2, <3>2, FS_AddElement
    <3> QED
      BY <1>2, <2>0, <3>2, <3>3, <3>4
  <2>2. CASE \E k \in Keys : ReadOdometer(k)
    <3>1. PICK k \in Keys : ReadOdometer(k)
      BY <2>2
    <3> DEFINE r == [vehicle_id |-> k, recorded_at |-> now,
                     reading_km |-> Cardinality(db["OdometerReading"]) + 1]
    <3>2. /\ db'["OdometerReading"] = db["OdometerReading"] \cup {r}
          /\ db'["Trip"] = db["Trip"] /\ db'["MaintenanceEvent"] = db["MaintenanceEvent"]
          /\ db' = [d \in Entities |-> db'[d]]
      BY <3>1, Written, EntityNames DEF ReadOdometer, Insert
    <3>3. r \in Readings /\ r.recorded_at = now
      <4>1. Cardinality(db["OdometerReading"]) + 1 \in Nat
        BY <1>2, FS_CardinalityType
      <4> QED
        BY <1>1, <4>1 DEF Readings
    <3> HIDE DEF r
    <3>4. IsFiniteSet(db'["OdometerReading"])
      BY <1>2, <3>2, FS_AddElement
    <3> QED
      BY <1>2, <2>0, <3>2, <3>3, <3>4
  <2> QED
    BY <2>1, <2>2
<1>4. DatasetTypeOK'
  BY <1>1, <1>3 DEF DatasetInv, DatasetTypeOK
<1>5. TripsInv'
  BY <1>3 DEF DatasetInv, TripsInv
<1>7. RawInv'
  BY <1>1, <1>3, RawKept
<1>8. ServedInv'
  BY <1>1, <1>3, HistoryKept
<1> QED
  BY <1>1, <1>4, <1>5, <1>7, <1>8, BuildKept, ServedKept DEF DatasetInv

\* A mapping is retired, activated or suspended.
LEMMA ChangeInv ==
  ASSUME DatasetInv, NEW e \in Entities, NEW m \in Opt(MappingRecords), Change(e, m)
  PROVE  DatasetInv'
<1>1. UNCHANGED <<now, db, build, served>> /\ mapping' = [mapping EXCEPT ![e] = m]
  BY DEF Change
<1>2. DatasetTypeOK'
  BY <1>1 DEF DatasetInv, DatasetTypeOK
<1>4. TripsInv'
  BY <1>1 DEF DatasetInv, TripsInv
<1>5. RawInv'
  BY <1>1, RawKept
<1>6. ServedInv'
  <2>1. now \in Nat /\ now' = now
    BY <1>1, NowNat
  <2> QED
    BY <1>1, <2>1, HistoryKept
<1> QED
  BY <1>1, <1>2, <1>4, <1>5, <1>6, BuildKept, ServedKept DEF DatasetInv

\* Retire, Activate, Suspend.
LEMMA MappingsMove ==
  ASSUME DatasetInv,
         \/ \E e \in DOMAIN Activatable : Retire(e) \/ Activate(e)
         \/ Suspend(TargetEntity)
  PROVE  DatasetInv'
<1>1. mapping \in [Entities -> Opt(MappingRecords)] /\ DOMAIN Activatable \subseteq Entities
  BY MappingAssumption DEF DatasetInv, DatasetTypeOK
<1>2. ASSUME NEW e \in DOMAIN Activatable, Retire(e)
      PROVE  DatasetInv'
  BY <1>1, <1>2, ChangeInv DEF Retire, Opt
<1>3. ASSUME NEW e \in DOMAIN Activatable, Activate(e)
      PROVE  DatasetInv'
  <2>1. PICK m \in Activatable[e] : Change(e, m)
    BY <1>3 DEF Activate
  <2>2. m \in Opt(MappingRecords)
    BY MappingAssumption DEF Opt
  <2> QED
    BY <1>1, <2>1, <2>2, ChangeInv
<1>4. ASSUME Suspend(TargetEntity)
      PROVE  DatasetInv'
  <2> DEFINE m == [mapping[TargetEntity] EXCEPT !.suspended = TRUE]
  <2>1. mapping[TargetEntity] \in MappingRecords /\ TargetEntity \in Entities
    BY <1>1, <1>4, EntityNames DEF Suspend, Opt, TargetEntity
  <2>2. m \in MappingRecords /\ m.version = mapping[TargetEntity].version
    BY <2>1 DEF MappingRecords
  <2>3. m \in Opt(MappingRecords) /\ Change(TargetEntity, m)
    BY <1>4, <2>2 DEF Opt, Suspend
  <2> HIDE DEF m
  <2> QED
    BY <2>1, <2>3, ChangeInv
<1> QED
  BY <1>2, <1>3, <1>4

-----------------------------------------------------------------------------
(***************************************************************************)
(* Datasets: the steps of a build and the extraction.                      *)
(***************************************************************************)

\* A step of the build does not change what the invariant says of its surroundings.
LEMMA WorldKept ==
  ASSUME DatasetInv, UNCHANGED World,
         build'.pc = "related" => \E t \in db["Trip"] :
           /\ t.trip_id = build'.raw[build'.i].trip_id
           /\ build'.row.vehicle_id = VehicleRead(build'.used.version, t.vehicle_id)
  PROVE  TripsInv' /\ PlanHonest' /\ ServedInv'
<1>1. UNCHANGED <<now, db, mapping, served>>
  BY DEF World
<1>2. TripsInv'
  BY <1>1 DEF DatasetInv, TripsInv
<1>3. PICK vehicle \in [TripIds -> Keys] :
        /\ \A t \in db["Trip"] : t.vehicle_id = vehicle[t.trip_id]
        /\ \A s \in served, n \in Appended : LET v == s.versions[Contract[n].entity] IN
             v # None /\ Mapped(Doc[v], Contract[n].stamp) =>
               s.features[n]
                 = HistoryValue(n, v, VehicleRead(s.versions[TargetEntity], vehicle[s.trip_id]), s.time)
  BY DEF DatasetInv, ServedInv
<1>4. \A t \in db'["Trip"] : t.vehicle_id = vehicle[t.trip_id]
  BY <1>1, <1>3
<1>5. build'.pc = "related" =>
        build'.row.vehicle_id = VehicleRead(build'.used.version, vehicle[build'.raw[build'.i].trip_id])
  BY <1>3
<1>6. \A s \in served', n \in Appended : LET v == s.versions[Contract[n].entity] IN
        v # None /\ Mapped(Doc[v], Contract[n].stamp) =>
          s.features[n]
            = Normalize(Contract[n], Raw(db', [e \in Entities |-> Document(v)],
                                         [vehicle_id |-> VehicleRead(s.versions[TargetEntity], vehicle[s.trip_id])],
                                         Contract[n], s.time))
  BY <1>1, <1>3 DEF HistoryValue
<1>7. \A s \in served' : s.time \in Nat /\ s.time <= now'
  BY <1>1 DEF DatasetInv, ServedInv
<1>8. ServedInv'
  BY <1>4, <1>5, <1>6, <1>7 DEF ServedInv, HistoryValue
<1> QED
  BY <1>1, <1>2, <1>8, ServedKept

\* A build that keeps its raw and its dataset rows, at the same row or a later one.
LEMMA RowsHeld ==
  ASSUME DatasetInv, UNCHANGED World, build'.raw = build.raw, build'.out = build.out,
         build'.pc # "done",
         build'.i \in Nat, build.i <= build'.i
  PROVE  RawInv' /\ OutInv' /\ SameAsServed'
<1>1. UNCHANGED <<now, db, served>>
  BY DEF World
<1>2. RawInv'
  BY <1>1 DEF DatasetInv, RawInv
<1>3. OutInv'
  <2>1. /\ build.out = [k \in 1..Len(build.out) |-> build.out[k]] /\ Len(build.out) \in Nat
        /\ \A k \in DOMAIN build.out : \E j \in DOMAIN build.raw :
             /\ j < build.i /\ build.out[k].trip_id = build.raw[j].trip_id
             /\ Labelable(build.raw[j])
             /\ build.out[k].label = TrustedLabel(build.raw[j])
             /\ build.out[k].time = build.raw[j].planned_departure_at
        /\ \A j, k \in DOMAIN build.out : j < k => build.out[j].time <= build.out[k].time
    BY DEF DatasetInv, OutInv
  <2>2. \A j \in DOMAIN build.raw : j < build.i => j < build'.i
    BY ShapeSeq DEF DatasetInv, RawInv, BuildInv
  <2>3. \A k \in DOMAIN build'.out : \E j \in DOMAIN build'.raw :
          /\ j < build'.i /\ build'.out[k].trip_id = build'.raw[j].trip_id
          /\ Labelable(build'.raw[j])
          /\ build'.out[k].label = TrustedLabel(build'.raw[j])
          /\ build'.out[k].time = build'.raw[j].planned_departure_at
    BY <2>1, <2>2
  <2> QED
    BY <2>1, <2>3 DEF OutInv
<1>4. SameAsServed'
  <2>1. SameAsServed /\ served' = served
    BY <1>1 DEF DatasetInv
  <2> QED
    BY <2>1 DEF SameAsServed
<1> QED
  BY <1>2, <1>3, <1>4

\* A build fails.
LEMMA DatasetFails ==
  ASSUME DatasetInv, UNCHANGED World, build' = Failed
  PROVE  DatasetInv'
<1>1. /\ build' = [pc |-> "failed", held |-> None, raw |-> build.raw, i |-> build.i,
                   row |-> None, used |-> None, out |-> build.out, splits |-> build.splits,
                   report |-> build.report]
  BY DEF DatasetInv, BuildInv, Failed
<1>2. build.i \in 1 .. Len(build.raw) + 1 /\ Len(build.raw) \in Nat
  BY DEF DatasetInv, BuildInv, RawInv
<1>3. UNCHANGED <<now, db, mapping, served>>
  BY DEF World
<1>4. DatasetTypeOK'
  BY <1>1, <1>3 DEF DatasetInv, DatasetTypeOK, Opt
<1>5. TripsInv' /\ PlanHonest' /\ ServedInv'
  BY <1>1, WorldKept
<1>6. RawInv' /\ OutInv' /\ SameAsServed'
  BY <1>1, <1>2, RowsHeld
<1>7. BuildInv'
  BY <1>1, <1>2 DEF BuildInv
<1>8. TargetPinned'
  BY <1>1, <1>3 DEF DatasetInv, TargetPinned
<1> QED
  BY <1>4, <1>5, <1>6, <1>7, <1>8 DEF DatasetInv

\* StartBuild and RefuseBuild.
LEMMA StartBuildInv ==
  ASSUME DatasetInv, StartBuild \/ RefuseBuild
  PROVE  DatasetInv'
<1>1. UNCHANGED World /\ build.pc = "idle"
  BY DEF StartBuild, RefuseBuild
<1>2. CASE build' = Failed
  BY <1>1, <1>2, DatasetFails
<1>3. CASE build' # Failed
  <2>1. Resolved(mapping[TargetEntity]) # None
        /\ build' = [build EXCEPT !.pc = "enumerate", !.held = mapping[TargetEntity]]
    BY <1>3 DEF StartBuild, RefuseBuild
  <2>2. /\ build.raw = <<>> /\ build.out = <<>> /\ Len(<<>>) = 0 /\ DOMAIN <<>> = {}
        /\ build.i = 1
    BY <1>1 DEF DatasetInv, BuildInv
  <2>3. mapping[TargetEntity] \in MappingRecords /\ mapping[TargetEntity] # None
    <3>1. mapping[TargetEntity] # None
      BY <2>1 DEF Resolved
    <3> QED
      BY <3>1, EntityNames
      DEF DatasetInv, DatasetTypeOK, TargetEntity, Opt
  <2>4. build' = [pc |-> "enumerate", held |-> mapping[TargetEntity], raw |-> build.raw,
                  i |-> build.i, row |-> build.row, used |-> build.used, out |-> build.out,
                  splits |-> build.splits, report |-> build.report]
    BY <2>1 DEF DatasetInv, BuildInv
  <2>5. UNCHANGED <<now, db, mapping, served>>
    BY <1>1 DEF World
  <2>6. DatasetTypeOK'
    BY <2>2, <2>3, <2>4, <2>5 DEF DatasetInv, DatasetTypeOK, Opt
  <2>7. TripsInv' /\ PlanHonest' /\ ServedInv'
    BY <1>1, <2>4, WorldKept
  <2>8. RawInv' /\ OutInv' /\ SameAsServed'
    BY <1>1, <2>2, <2>4, RowsHeld
  <2>9. BuildInv'
    BY <2>2, <2>3, <2>4 DEF BuildInv
  <2>10. TargetPinned'
    BY <2>2, <2>3, <2>4, <2>5 DEF TargetPinned
  <2> QED
    BY <2>6, <2>7, <2>8, <2>9, <2>10 DEF DatasetInv
<1> QED
  BY <1>2, <1>3

\* fetch_rows_in_range.
LEMMA EnumerateInv ==
  ASSUME DatasetInv, Enumerate
  PROVE  DatasetInv'
<1> DEFINE doc == Doc[build.held.version]
           S == {Fetched(doc, t) : t \in db["Trip"]}
<1>1. UNCHANGED World /\ build.pc = "enumerate" /\ UNCHANGED <<now, db, mapping, served>>
  BY DEF Enumerate, World
<1>2. CASE RangeRaises(doc)
  BY <1>1, <1>2, DatasetFails DEF Enumerate
<1>3. CASE ~RangeRaises(doc)
  <2>1. PICK raw \in FetchRowsInRange(S, 0, now + 1) :
          build' = [build EXCEPT !.pc = "extract", !.raw = raw]
    BY <1>3 DEF Enumerate
  <2>2. "trip_id" \in doc.columns
    BY <1>3 DEF RangeRaises, FetchRaises
  <2>3. /\ Len(raw) \in Nat /\ raw = [k \in 1..Len(raw) |-> raw[k]]
        /\ \A k \in DOMAIN raw : raw[k] \in S /\ raw[k].planned_departure_at # None
        /\ \A j, k \in DOMAIN raw :
             j < k => raw[j].planned_departure_at <= raw[k].planned_departure_at
    <3>1. IsFiniteSet(S)
      BY FetchedFinite DEF DatasetInv, TripsInv
    <3> HIDE DEF S
    <3> QED
      BY <2>1, <3>1, RowsFetched
  <2>4. ASSUME NEW k \in DOMAIN raw
        PROVE  /\ raw[k].trip_id \in TripIds /\ raw[k].planned_departure_at \in Nat
               /\ \A t \in db["Trip"] : t.trip_id = raw[k].trip_id =>
                    /\ t.planned_departure_at = raw[k].planned_departure_at
                    /\ Labelable(raw[k]) =>
                         /\ t.status \in {"completed", "cancelled"}
                         /\ Label(t) = TrustedLabel(raw[k])
                         /\ t.actual_arrival_at # None =>
                              t.actual_arrival_at > t.planned_departure_at
    <3>1. PICK t \in db["Trip"] : raw[k] = Fetched(doc, t)
      BY <2>3
    <3>2. t \in Trips /\ (t.status # "completed" => t.actual_arrival_at = None)
      BY DEF DatasetInv, DatasetTypeOK, TripsInv
    <3>3. t.trip_id \in TripIds /\ t.planned_departure_at \in Nat
      BY <3>2 DEF Trips
    <3>4. raw[k].trip_id = t.trip_id /\ raw[k].planned_departure_at = t.planned_departure_at
      BY <2>2, <2>3, <3>1, <3>2, FetchedTrip
    <3>5. \A u \in db["Trip"] : u.trip_id = raw[k].trip_id => u = t
      BY <3>4 DEF DatasetInv, TripsInv
    <3>6. Labelable(raw[k]) =>
            /\ t.status \in {"completed", "cancelled"} /\ Label(t) = TrustedLabel(raw[k])
            /\ t.actual_arrival_at # None => t.actual_arrival_at > t.planned_departure_at
      BY <2>3, <3>1, <3>2, LabelFetched
    <3> QED
      BY <3>3, <3>4, <3>5, <3>6
  <2>5. build' = [pc |-> "extract", held |-> build.held, raw |-> raw, i |-> build.i,
                  row |-> build.row, used |-> build.used, out |-> build.out,
                  splits |-> build.splits, report |-> build.report]
    BY <2>1 DEF DatasetInv, BuildInv
  <2>6. /\ build.out = <<>> /\ Len(<<>>) = 0 /\ DOMAIN <<>> = {} /\ build.held # None
        /\ build.i = 1
    BY <1>1 DEF DatasetInv, BuildInv
  <2>7. DatasetTypeOK'
    BY <1>1, <2>5, <2>6 DEF DatasetInv, DatasetTypeOK
  <2>8. TripsInv' /\ PlanHonest' /\ ServedInv'
    BY <1>1, <2>5, WorldKept
  <2>9. RawInv'
    BY <1>1, <2>3, <2>4, <2>5 DEF RawInv
  <2>10. OutInv'
    <3>1. <<>> = [k \in 1..Len(<<>>) |-> <<>>[k]]
      OBVIOUS
    <3> QED
      BY <2>5, <2>6, <3>1 DEF OutInv
  <2>11. BuildInv'
    BY <2>3, <2>5, <2>6 DEF BuildInv
  <2>13. TargetPinned' /\ SameAsServed'
    BY <2>5, <2>6 DEF TargetPinned, SameAsServed
  <2> QED
    BY <2>7, <2>8, <2>9, <2>10, <2>11, <2>13 DEF DatasetInv
<1> QED
  BY <1>2, <1>3

\* extract reads the target row of the next labelable row.
LEMMA FetchTargetInv ==
  ASSUME DatasetInv, FetchTarget
  PROVE  DatasetInv'
<1>1. UNCHANGED World /\ build.pc = "extract" /\ UNCHANGED <<now, db, mapping, served>>
  BY DEF FetchTarget, World
<1> DEFINE m == Seen(TargetEntity)
           doc == Document(Resolved(m))
<1>2. PICK k \in Pending :
        LET id == build.raw[k].trip_id IN
        build' = IF doc = None THEN Failed
                 ELSE IF FetchRaises(doc, NeededFields) THEN Failed
                 ELSE IF ~Exists(id) THEN [build EXCEPT !.i = k + 1]
                 ELSE [build EXCEPT !.pc = "related", !.i = k, !.row = Fetched(doc, Row(id)),
                                    !.used = m]
  BY DEF FetchTarget
<1> DEFINE id == build.raw[k].trip_id
<1>3. /\ k \in build.i .. Len(build.raw) /\ Labelable(build.raw[k])
      /\ build.i \in 1 .. Len(build.raw) + 1 /\ Len(build.raw) \in Nat
      /\ build.held # None
  BY <1>1 DEF Pending, DatasetInv, RawInv, BuildInv
<1>4. CASE build' = Failed
  BY <1>1, <1>4, DatasetFails
<1>5. CASE build' # Failed /\ ~Exists(id)
  <2>1. build' = [pc |-> build.pc, held |-> build.held, raw |-> build.raw, i |-> k + 1,
                  row |-> build.row, used |-> build.used, out |-> build.out,
                  splits |-> build.splits, report |-> build.report]
    BY <1>2, <1>5 DEF DatasetInv, BuildInv
  <2>2. DatasetTypeOK'
    BY <1>1, <2>1 DEF DatasetInv, DatasetTypeOK
  <2>3. TripsInv' /\ PlanHonest' /\ ServedInv'
    BY <1>1, <2>1, WorldKept
  <2>4. RawInv' /\ OutInv' /\ SameAsServed'
    BY <1>1, <1>3, <2>1, RowsHeld
  <2>5. BuildInv'
    BY <1>1, <1>3, <2>1 DEF BuildInv
  <2>6. TargetPinned'
    BY <1>1, <2>1 DEF DatasetInv, TargetPinned
  <2> QED
    BY <2>2, <2>3, <2>4, <2>5, <2>6 DEF DatasetInv
<1>6. CASE build' # Failed /\ Exists(id)
  <2>1. build' = [pc |-> "related", held |-> build.held, raw |-> build.raw, i |-> k,
                  row |-> Fetched(doc, Row(id)), used |-> m, out |-> build.out,
                  splits |-> build.splits, report |-> build.report]
    BY <1>2, <1>6 DEF DatasetInv, BuildInv
  <2>2. doc # None /\ ~FetchRaises(doc, NeededFields)
    BY <1>2, <1>6
  <2>3. /\ m \in MappingRecords /\ doc = Doc[m.version]
        /\ m.id = build.held.id => m.version = build.held.version
    <3>1. m \in Opt(MappingRecords)
      BY EntityNames DEF DatasetInv, DatasetTypeOK, Seen, Opt, TargetEntity
    <3> HIDE DEF m
    <3>2. m \in MappingRecords /\ doc = Doc[m.version]
      BY <2>2, <3>1, ResolvedDocument
    <3>3. m # None
      BY <2>2 DEF Resolved, Document
    <3> QED
      BY <1>3, <3>2, <3>3, SeenPinned DEF m
  <2>4. Row(id) \in db["Trip"] /\ Row(id).trip_id = id /\ Row(id) \in Trips
    BY <1>6 DEF Exists, Row, DatasetInv, DatasetTypeOK
  <2>5. Fetched(doc, Row(id)).vehicle_id = VehicleRead(m.version, Row(id).vehicle_id)
    <3> HIDE DEF doc, id, m
    <3> QED
      BY <2>3, <2>4, VehicleFetched
  <2> HIDE DEF m, doc
  <2>6. DatasetTypeOK'
    BY <1>1, <2>1 DEF DatasetInv, DatasetTypeOK
  <2>7. TripsInv' /\ PlanHonest' /\ ServedInv'
    BY <1>1, <2>1, <2>4, <2>5, WorldKept
  <2>8. RawInv' /\ OutInv' /\ SameAsServed'
    BY <1>1, <1>3, <2>1, RowsHeld
  <2>9. BuildInv'
    BY <1>3, <2>1, <2>3 DEF BuildInv
  <2>10. TargetPinned'
    BY <1>1, <2>1 DEF DatasetInv, TargetPinned
  <2> QED
    BY <2>6, <2>7, <2>8, <2>9, <2>10 DEF DatasetInv
<1> QED
  BY <1>4, <1>5, <1>6

\* A feature over appended rows depends on the mapping of its entity and on the vehicle.
LEMMA HistoryExtracted ==
  ASSUME NEW D, NEW docs, NEW row, NEW same, NEW key, NEW p, NEW n \in Appended,
         docs[Contract[n].entity] = same[Contract[n].entity], row.vehicle_id = key.vehicle_id
  PROVE  FeaturesOut(D, docs, row, p)[n] = Normalize(Contract[n], Raw(D, same, key, Contract[n], p))
<1> DEFINE f == Contract[n]
<1>1. n \in Features
  BY DEF Appended
<1>2. f.entity # None /\ f.fk = "vehicle_id"
  BY <1>1, ContractShape
<1>3. same[f.entity] = docs[f.entity] /\ key[f.fk] = row[f.fk]
  BY <1>2
<1> HIDE DEF f
<1>4. Raw(D, docs, row, f, p) = Raw(D, same, key, f, p)
  BY <1>2, <1>3, RawSame
<1> QED
  BY <1>1, <1>4 DEF FeaturesOut, f

\* The row of the dataset that QueryRelated appends.
LEMMA NewRow ==
  ASSUME DatasetInv, build.pc = "related"
  PROVE  LET cand == build.raw[build.i] IN
         /\ build.i \in DOMAIN build.raw /\ Labelable(cand)
         /\ cand.trip_id \in TripIds /\ cand.planned_departure_at \in Nat
         /\ TrustedLabel(cand) \in {0, 1} /\ build.used \in MappingRecords
         /\ SeenVersions \in [Entities -> Opt(Versions)]
<1>1. build.i \in DOMAIN build.raw /\ Labelable(build.raw[build.i])
  BY ShapeSeq DEF DatasetInv, BuildInv, RawInv
<1>2. \A e \in Entities : Seen(e) \in Opt(MappingRecords)
  BY DEF DatasetInv, DatasetTypeOK, Seen, Opt
<1>3. \A m \in Opt(MappingRecords) : Resolved(m) \in Opt(Versions)
  BY DEF Resolved, Opt, MappingRecords
<1>4. SeenVersions \in [Entities -> Opt(Versions)]
  BY <1>2, <1>3 DEF SeenVersions
<1> QED
  BY <1>1, <1>4, LabelValues DEF DatasetInv, RawInv, BuildInv

\* extract queries the related entities, and the row is added.
LEMMA QueryRelatedInv ==
  ASSUME DatasetInv, QueryRelated
  PROVE  DatasetInv'
<1> DEFINE cand == build.raw[build.i]
           docs == DocumentsOf(SeenVersions)
           r == [trip_id |-> cand.trip_id, time |-> cand.planned_departure_at,
                 label |-> TrustedLabel(cand), used |-> build.used, versions |-> SeenVersions,
                 features |-> FeaturesOut(db, docs, build.row, cand.planned_departure_at)]
           n == Len(build.out)
<1>1. UNCHANGED World /\ build.pc = "related" /\ UNCHANGED <<now, db, mapping, served>>
  BY DEF QueryRelated, World
<1>2. CASE build' = Failed
  BY <1>1, <1>2, DatasetFails
<1>3. CASE build' # Failed
  <2>1. build' = [pc |-> "extract", held |-> build.held, raw |-> build.raw, i |-> build.i + 1,
                  row |-> None, used |-> None, out |-> Append(build.out, r),
                  splits |-> build.splits, report |-> build.report]
    BY <1>3 DEF QueryRelated, DatasetInv, BuildInv
  <2>2. /\ build.i \in DOMAIN build.raw /\ Labelable(cand)
        /\ cand.trip_id \in TripIds /\ cand.planned_departure_at \in Nat
        /\ TrustedLabel(cand) \in {0, 1} /\ build.used \in MappingRecords
        /\ SeenVersions \in [Entities -> Opt(Versions)]
    BY <1>1, NewRow
  <2>3. /\ n \in Nat /\ build.out = [k \in 1..n |-> build.out[k]] /\ DOMAIN build.out = 1..n
        /\ Len(build'.out) = n + 1 /\ build'.out = [k \in 1..(n + 1) |-> build'.out[k]]
        /\ DOMAIN build'.out = 1..(n + 1)
        /\ \A k \in 1..n : build'.out[k] = build.out[k]
        /\ build'.out[n + 1] = r
    <3>1. Len(build.out) \in Nat /\ build.out = [k \in 1..Len(build.out) |-> build.out[k]]
      BY DEF DatasetInv, OutInv
    <3> HIDE DEF r
    <3> QED
      BY <2>1, <3>1, ShapeSeq, AppendShape
  <2>4. /\ build.raw = [k \in 1..Len(build.raw) |-> build.raw[k]] /\ Len(build.raw) \in Nat
        /\ DOMAIN build.raw = 1..Len(build.raw) /\ build.i \in 1..Len(build.raw)
    BY <2>2, ShapeSeq DEF DatasetInv, RawInv
  <2>5. /\ r.trip_id = cand.trip_id /\ r.time = cand.planned_departure_at
        /\ r.label = TrustedLabel(cand) /\ r.used = build.used /\ r.versions = SeenVersions
        /\ r.features = FeaturesOut(db, docs, build.row, cand.planned_departure_at)
    OBVIOUS
  <2> HIDE DEF r, n
  <2>6. DatasetTypeOK'
    <3>1. \A k \in DOMAIN build.out :
            /\ build.out[k].trip_id \in TripIds /\ build.out[k].time \in Nat
            /\ build.out[k].label \in {0, 1} /\ build.out[k].used \in MappingRecords
            /\ build.out[k].versions \in [Entities -> Opt(Versions)]
      BY DEF DatasetInv, DatasetTypeOK
    <3>2. \A k \in DOMAIN build'.out :
            /\ build'.out[k].trip_id \in TripIds /\ build'.out[k].time \in Nat
            /\ build'.out[k].label \in {0, 1} /\ build'.out[k].used \in MappingRecords
            /\ build'.out[k].versions \in [Entities -> Opt(Versions)]
      BY <2>2, <2>3, <2>5, <3>1
    <3> QED
      BY <1>1, <2>1, <3>2 DEF DatasetInv, DatasetTypeOK
  <2>7. TripsInv' /\ PlanHonest' /\ ServedInv'
    BY <1>1, <2>1, WorldKept
  <2>8. RawInv'
    BY <1>1, <2>1 DEF DatasetInv, RawInv
  <2>9. OutInv'
    <3>1. /\ \A k \in DOMAIN build.out : \E j \in DOMAIN build.raw :
               /\ j < build.i /\ build.out[k].trip_id = build.raw[j].trip_id
               /\ Labelable(build.raw[j])
               /\ build.out[k].label = TrustedLabel(build.raw[j])
               /\ build.out[k].time = build.raw[j].planned_departure_at
          /\ \A j, k \in DOMAIN build.out : j < k => build.out[j].time <= build.out[k].time
          /\ \A j, k \in DOMAIN build.raw :
               j < k => build.raw[j].planned_departure_at <= build.raw[k].planned_departure_at
          /\ \A k \in DOMAIN build.raw : build.raw[k].planned_departure_at \in Nat
      BY DEF DatasetInv, OutInv, RawInv
    <3>2. ASSUME NEW k \in DOMAIN build'.out
          PROVE  \E j \in DOMAIN build'.raw :
                   /\ j < build'.i /\ build'.out[k].trip_id = build'.raw[j].trip_id
                   /\ Labelable(build'.raw[j])
                   /\ build'.out[k].label = TrustedLabel(build'.raw[j])
                   /\ build'.out[k].time = build'.raw[j].planned_departure_at
      <4>1. CASE k \in 1..n
        <5>1. PICK j \in DOMAIN build.raw :
                /\ j < build.i /\ build.out[k].trip_id = build.raw[j].trip_id
                /\ Labelable(build.raw[j])
                /\ build.out[k].label = TrustedLabel(build.raw[j])
                /\ build.out[k].time = build.raw[j].planned_departure_at
          BY <2>3, <3>1, <4>1
        <5>2. j < build'.i
          BY <2>1, <2>4, <5>1
        <5> QED
          BY <2>1, <2>3, <4>1, <5>1, <5>2
      <4>2. CASE k = n + 1
        <5>1. build.i < build'.i /\ build.i \in DOMAIN build'.raw
          BY <2>1, <2>2, <2>4
        <5> QED
          BY <2>1, <2>2, <2>3, <2>5, <4>2, <5>1, SMTT(40)
      <4> QED
        BY <2>3, <4>1, <4>2
    <3>3. \A k \in 1..n : build.out[k].time <= r.time
      <4>1. TAKE k \in 1..n
      <4>2. PICK j \in DOMAIN build.raw :
              j < build.i /\ build.out[k].time = build.raw[j].planned_departure_at
        BY <2>3, <3>1
      <4> QED
        BY <2>2, <2>5, <3>1, <4>2
    <3>4. \A j, k \in DOMAIN build'.out : j < k => build'.out[j].time <= build'.out[k].time
      <4>1. SUFFICES ASSUME NEW j \in DOMAIN build'.out, NEW k \in DOMAIN build'.out, j < k
                     PROVE  build'.out[j].time <= build'.out[k].time
        OBVIOUS
      <4>2. j \in 1..n /\ k \in 1..(n + 1)
        BY <2>3, <4>1
      <4>3. CASE k \in 1..n
        BY <2>3, <3>1, <4>1, <4>2, <4>3
      <4>4. CASE k = n + 1
        BY <2>3, <3>3, <4>2, <4>4
      <4> QED
        BY <2>3, <4>2, <4>3, <4>4
    <3> QED
      BY <2>1, <2>3, <3>2, <3>4 DEF OutInv
  <2>10. BuildInv'
    <3>1. build.held # None
      BY <1>1 DEF DatasetInv, BuildInv
    <3> QED
      BY <2>1, <2>4, <3>1 DEF BuildInv
  <2>12. TargetPinned'
    <3>1. r.used.id = build.held.id => r.used.version = build.held.version
      BY <1>1, <2>5 DEF DatasetInv, BuildInv
    <3>2. \A k \in 1..n : build.held # None /\ build.out[k].used.id = build.held.id =>
                            build.out[k].used.version = build.held.version
      BY <2>3 DEF DatasetInv, TargetPinned
    <3>3. \A k \in 1..(n + 1) : build'.held # None /\ build'.out[k].used.id = build'.held.id =>
                                  build'.out[k].used.version = build'.held.version
      BY <2>1, <2>3, <3>1, <3>2
    <3> QED
      BY <2>3, <3>3 DEF TargetPinned
  <2>13. SameAsServed'
    <3>1. ASSUME NEW s \in served, NEW m \in Appended,
                 r.trip_id = s.trip_id, r.time = s.time,
                 r.versions[Contract[m].entity] # None,
                 r.versions[Contract[m].entity] = s.versions[Contract[m].entity],
                 r.used.version = s.versions[TargetEntity],
                 Mapped(Doc[r.versions[Contract[m].entity]], Contract[m].stamp)
          PROVE  r.features[m] = s.features[m]
      <4> DEFINE v == s.versions[Contract[m].entity]
      <4>1. PICK vehicle \in [TripIds -> Keys] :
              /\ build.row.vehicle_id = VehicleRead(build.used.version, vehicle[cand.trip_id])
              /\ \A a \in served, b \in Appended : LET w == a.versions[Contract[b].entity] IN
                   w # None /\ Mapped(Doc[w], Contract[b].stamp) =>
                     a.features[b]
                       = HistoryValue(b, w, VehicleRead(a.versions[TargetEntity], vehicle[a.trip_id]),
                                      a.time)
        BY <1>1 DEF DatasetInv, ServedInv
      <4>2. s.features[m]
              = HistoryValue(m, v, VehicleRead(s.versions[TargetEntity], vehicle[s.trip_id]), s.time)
        BY <3>1, <4>1
      <4> DEFINE same == [e \in Entities |-> Document(v)]
                 key == [vehicle_id |-> VehicleRead(s.versions[TargetEntity], vehicle[s.trip_id])]
      <4>3. /\ docs[Contract[m].entity] = same[Contract[m].entity]
            /\ build.row.vehicle_id = key.vehicle_id
        BY <2>5, <3>1, <4>1, ContractShape DEF DocumentsOf, Appended
      <4>4. s.features[m] = Normalize(Contract[m], Raw(db, same, key, Contract[m], s.time))
        BY <4>2 DEF HistoryValue
      <4> HIDE DEF docs, same, key
      <4>5. FeaturesOut(db, docs, build.row, r.time)[m]
              = Normalize(Contract[m], Raw(db, same, key, Contract[m], r.time))
        BY <4>3, HistoryExtracted
      <4>6. r.features = FeaturesOut(db, docs, build.row, r.time)
        BY <2>5
      <4> QED
        BY <3>1, <4>4, <4>5, <4>6
    <3>2. ASSUME NEW k \in 1..n, NEW s \in served, NEW m \in Appended
          PROVE  AsServed(build.out[k], s, m)
      BY <2>3 DEF DatasetInv, SameAsServed
    <3>3. ASSUME NEW s \in served, NEW m \in Appended
          PROVE  AsServed(r, s, m)
      BY <3>1 DEF AsServed
    <3>4. ASSUME NEW k \in 1..(n + 1), NEW s \in served, NEW m \in Appended
          PROVE  AsServed(build'.out[k], s, m)
      <4>1. CASE k \in 1..n
        <5>1. build'.out[k] = build.out[k]
          BY <2>3, <4>1
        <5> QED
          BY <3>2, <4>1, <5>1
      <4>2. CASE k = n + 1
        <5>1. build'.out[k] = r
          BY <2>3, <4>2
        <5> QED
          BY <3>3, <5>1
      <4> QED
        BY <2>3, <4>1, <4>2
    <3> QED
      BY <1>1, <2>3, <3>4 DEF SameAsServed
  <2> QED
    BY <2>6, <2>7, <2>8, <2>9, <2>10, <2>12, <2>13 DEF DatasetInv
<1> QED
  BY <1>2, <1>3

\* The build ends with its splits.
LEMMA FinishBuildInv ==
  ASSUME DatasetInv, FinishBuild
  PROVE  DatasetInv'
<1>1. UNCHANGED World /\ build.pc = "extract" /\ UNCHANGED <<now, db, mapping, served>>
  BY DEF FinishBuild, World
<1>2. build' = [pc |-> "done", held |-> build.held, raw |-> build.raw, i |-> build.i,
                row |-> build.row, used |-> build.used, out |-> build.out,
                splits |-> Split(build.out), report |-> Report(build.raw, build.out)]
  BY DEF FinishBuild, DatasetInv, BuildInv
<1>3. DatasetTypeOK'
  BY <1>1, <1>2 DEF DatasetInv, DatasetTypeOK
<1>4. TripsInv' /\ PlanHonest' /\ ServedInv'
  BY <1>1, <1>2, WorldKept
<1>5. RawInv'
  BY <1>1, <1>2 DEF DatasetInv, RawInv
<1>6. OutInv'
  BY <1>1, <1>2 DEF DatasetInv, OutInv
<1>7. BuildInv'
  BY <1>1, <1>2 DEF DatasetInv, BuildInv
<1>8. TargetPinned'
  BY <1>1, <1>2 DEF DatasetInv, TargetPinned
<1>9. SameAsServed'
  <2>1. SameAsServed /\ build'.out = build.out /\ served' = served
    BY <1>1, <1>2 DEF DatasetInv
  <2> QED
    BY <2>1 DEF SameAsServed
<1> QED
  BY <1>3, <1>4, <1>5, <1>6, <1>7, <1>8, <1>9 DEF DatasetInv

\* An online extraction, before a build.
LEMMA ExtractInv ==
  ASSUME DatasetInv, NEW id \in TripIds, Extract(id)
  PROVE  DatasetInv'
<1> DEFINE versions == [e \in Entities |-> Resolved(mapping[e])]
           docs == DocumentsOf(versions)
           row == Fetched(docs[TargetEntity], Row(id))
           s == [trip_id |-> id, time |-> now, versions |-> versions,
                 features |-> FeaturesOut(db, docs, row, now),
                 missing |-> MissingFeatures(db, docs, row, now)]
<1>1. /\ served' = {s} /\ build.pc = "idle" /\ Exists(id)
      /\ docs[TargetEntity] # None /\ ~FetchRaises(docs[TargetEntity], NeededFields)
      /\ UNCHANGED <<now, db, mapping, build>>
  BY DEF Extract
<1>2. /\ s.trip_id = id /\ s.time = now /\ s.versions = versions
      /\ s.features = FeaturesOut(db, docs, row, now)
  OBVIOUS
<1>3. Row(id) \in db["Trip"] /\ Row(id).trip_id = id /\ Row(id) \in Trips
  BY <1>1 DEF Exists, Row, DatasetInv, DatasetTypeOK
<1>4. row.vehicle_id = VehicleRead(versions[TargetEntity], Row(id).vehicle_id)
  <2>1. /\ docs[TargetEntity] = Document(versions[TargetEntity])
        /\ versions[TargetEntity] = Resolved(mapping[TargetEntity])
    BY EntityNames DEF DocumentsOf, TargetEntity
  <2>2. docs[TargetEntity] = Doc[versions[TargetEntity]]
    BY <1>1, <2>1 DEF Document
  <2> HIDE DEF docs, versions, s
  <2> QED
    BY <1>3, <2>2, VehicleFetched
<1>5. build.out = <<>> /\ DOMAIN <<>> = {} /\ build.pc # "related"
  BY <1>1 DEF DatasetInv, BuildInv
<1> HIDE DEF s
<1>6. DatasetTypeOK'
  BY <1>1 DEF DatasetInv, DatasetTypeOK
<1>7. TripsInv'
  BY <1>1 DEF DatasetInv, TripsInv
<1>8. RawInv'
  BY <1>1 DEF DatasetInv, RawInv
<1>9. SameAsServed'
  BY <1>1, <1>5 DEF SameAsServed
<1>10. PlanHonest'
  <2>1. ASSUME NEW n \in Features, ~PlanAvailable(docs, Contract[n])
        PROVE  s.features[n] = Normalize(Contract[n], None)
    <3> HIDE DEF docs
    <3>1. {"planned_departure_at", "planned_distance_km", "actual_departure_at", "route_id",
           "vehicle_id", "driver_id", "trip_id"} \subseteq DOMAIN Row(id)
      BY <1>3, FetchedTrip
    <3>2. Normalize(Contract[n], Raw(db, docs, row, Contract[n], now))
            = Normalize(Contract[n], None)
      BY <2>1, <3>1, PlanUnavailable
    <3> HIDE DEF row
    <3> QED
      BY <1>2, <3>2 DEF FeaturesOut
  <2>2. DocumentsOf(s.versions) = docs
    BY <1>2
  <2> HIDE DEF docs, row, versions
  <2>3. \A n \in Features : ~PlanAvailable(DocumentsOf(s.versions), Contract[n]) =>
          s.features[n] = Normalize(Contract[n], None)
    BY <2>1, <2>2
  <2> QED
    BY <1>1, <2>3 DEF PlanHonest
<1>11. ServedInv'
  <2>1. PICK vehicle \in [TripIds -> Keys] :
          \A t \in db["Trip"] : t.vehicle_id = vehicle[t.trip_id]
    BY DEF DatasetInv, ServedInv
  <2>2. row.vehicle_id = VehicleRead(versions[TargetEntity], vehicle[id])
    BY <1>3, <1>4, <2>1
  <2>3. ASSUME NEW n \in Appended
        PROVE  s.features[n]
                 = Normalize(Contract[n],
                             Raw(db, [e \in Entities |-> Document(s.versions[Contract[n].entity])],
                                 [vehicle_id |-> VehicleRead(s.versions[TargetEntity], vehicle[s.trip_id])],
                                 Contract[n], s.time))
    <3> DEFINE same == [e \in Entities |-> Document(s.versions[Contract[n].entity])]
               key == [vehicle_id |-> VehicleRead(s.versions[TargetEntity], vehicle[s.trip_id])]
    <3>1. Contract[n].entity \in Entities
      BY ContractShape DEF Appended
    <3>2. docs[Contract[n].entity] = same[Contract[n].entity] /\ row.vehicle_id = key.vehicle_id
      BY <1>2, <2>2, <3>1 DEF DocumentsOf
    <3> HIDE DEF docs, row, same, key
    <3>3. FeaturesOut(db, docs, row, now)[n]
            = Normalize(Contract[n], Raw(db, same, key, Contract[n], now))
      BY <3>2, HistoryExtracted
    <3>4. s.features[n] = Normalize(Contract[n], Raw(db, same, key, Contract[n], s.time))
      BY <1>2, <3>3
    <3> QED
      BY <3>4 DEF same, key
  <2>4. \A t \in db'["Trip"] : t.vehicle_id = vehicle[t.trip_id]
    BY <1>1, <2>1
  <2>5. now \in Nat
    BY NowNat
  <2> HIDE DEF docs, row, versions
  <2>6. \A a \in served' : a.time \in Nat /\ a.time <= now'
    BY <1>1, <1>2, <2>5
  <2>7. build'.pc # "related"
    BY <1>1, <1>5
  <2>8. \A a \in served', n \in Appended : LET v == a.versions[Contract[n].entity] IN
          v # None /\ Mapped(Doc[v], Contract[n].stamp) =>
            a.features[n]
              = Normalize(Contract[n], Raw(db', [e \in Entities |-> Document(v)],
                                           [vehicle_id |-> VehicleRead(a.versions[TargetEntity],
                                                                       vehicle[a.trip_id])],
                                           Contract[n], a.time))
    BY <1>1, <2>3
  <2> QED
    BY <2>4, <2>6, <2>7, <2>8 DEF ServedInv, HistoryValue
<1> QED
  BY <1>1, <1>6, <1>7, <1>8, <1>9, <1>10, <1>11, BuildKept DEF DatasetInv

\* Nothing changes.
LEMMA DatasetStutter ==
  ASSUME DatasetInv, UNCHANGED datasetVars
  PROVE  DatasetInv'
<1>1. UNCHANGED <<now, db, mapping, build, served>> /\ UNCHANGED World
  BY DEF datasetVars, World
<1>2. DatasetTypeOK'
  BY <1>1 DEF DatasetInv, DatasetTypeOK
<1>3. TripsInv'
  BY <1>1 DEF DatasetInv, TripsInv
<1>4. RawInv'
  BY <1>1 DEF DatasetInv, RawInv
<1>5. ServedInv'
  BY <1>1, NowNat, HistoryKept
<1> QED
  BY <1>1, <1>2, <1>3, <1>4, <1>5, BuildKept, ServedKept DEF DatasetInv

\* The inductive invariant of the dataset build.
THEOREM DatasetInvariance == DatasetSpec => []DatasetInv
<1>1. ASSUME DatasetInv, DatasetNext
      PROVE  DatasetInv'
  <2>1. CASE Surroundings
    BY <1>1, <2>1, PassInv, TripsMove, DeleteInv, AppendInv, MappingsMove, ExtractInv
    DEF Surroundings
  <2>2. CASE BuildStep
    BY <1>1, <2>2, StartBuildInv, EnumerateInv, FetchTargetInv, QueryRelatedInv, FinishBuildInv
    DEF BuildStep
  <2> QED
    BY <1>1, <2>1, <2>2 DEF DatasetNext
<1>2. DatasetInv /\ [DatasetNext]_datasetVars => DatasetInv'
  BY <1>1, DatasetStutter
<1> QED
  BY <1>2, DatasetInitInv, PTL DEF DatasetSpec

\* The clock, the database, the mappings and the rows of the dataset have their types, for any
\* number of trips, vehicles, mappings, changes and ticks.
THEOREM DatasetTypes == DatasetSpec => []DatasetTypeOK
<1>1. DatasetInv => DatasetTypeOK
  BY DEF DatasetInv
<1> QED
  BY <1>1, DatasetInvariance, PTL

\* Every row whose target mapping is the one the build resolved first was extracted with the
\* version the manifest names, whatever is activated meanwhile.
THEOREM DatasetPinned == DatasetSpec => []TargetPinned
<1>1. DatasetInv => TargetPinned
  BY DEF DatasetInv
<1> QED
  BY <1>1, DatasetInvariance, PTL

\* The own outcome of a trip does not reach the features of its row, if the mapping that reads
\* trips gives the departure a column, and the features over maintenance events and odometer
\* readings are what serving saw.  Of the ratios over other trips it says nothing more.
THEOREM DatasetPointInTime == DatasetSpec => []PointInTime
<1>1. DatasetInv => PointInTime
  BY OwnOutcome DEF DatasetInv, PointInTime
<1> QED
  BY <1>1, DatasetInvariance, PTL

\* Dropped rows shift neither the labels of the others nor their order, and the splits are the
\* dataset in the order of time.
THEOREM DatasetRowsKept == DatasetSpec => []RowsKept
<1>1. DatasetInv => RowsKept
  BY LabelsFinal, SplitsOrdered DEF RowsKept
<1> QED
  BY <1>1, DatasetInvariance, PTL

\* What the dry-run plan reports as unavailable is filled by the missing-value rule.
THEOREM DatasetPlanHonest == DatasetSpec => []PlanHonest
<1>1. DatasetInv => PlanHonest
  BY DEF DatasetInv
<1> QED
  BY <1>1, DatasetInvariance, PTL

-----------------------------------------------------------------------------
(***************************************************************************)
(* The pure rules: every round keeps what the rounds before it computed.   *)
(***************************************************************************)

\* In a finite set with a strict order there is an element that nothing precedes.
LEMMA FirstExists ==
  ASSUME NEW S, IsFiniteSet(S), S # {}, NEW R,
         \A x \in S : <<x, x>> \notin R,
         \A x, y, z \in S : <<x, y>> \in R /\ <<y, z>> \in R => <<x, z>> \in R
  PROVE  \E m \in S : \A n \in S : <<n, m>> \notin R
<1> DEFINE before(x) == {y \in S : <<y, x>> \in R}
           sets == {before(x) : x \in S}
<1>1. IsWellFoundedOn(StrictSubsetOrdering(S), FiniteSubsetsOf(S))
  BY FS_StrictSubsetOrderingWellFounded
<1>2. sets \subseteq FiniteSubsetsOf(S)
  BY FS_Subset DEF FiniteSubsetsOf
<1>3. sets # {}
  <2>1. PICK x \in S : TRUE
    OBVIOUS
  <2>2. before(x) \in sets
    BY <2>1
  <2> QED
    BY <2>2
<1>4. PICK T \in sets : \A U \in sets : <<U, T>> \notin StrictSubsetOrdering(S)
  <2> HIDE DEF sets
  <2> QED
    BY <1>1, <1>2, <1>3, WFMin
<1>5. PICK x \in S : T = before(x)
  BY <1>4
<1>6. ASSUME NEW n \in S, <<n, x>> \in R PROVE FALSE
  <2>1. before(n) \subseteq before(x) /\ n \in before(x) /\ n \notin before(n)
    BY <1>6
  <2>2. <<before(n), T>> \in StrictSubsetOrdering(S)
    BY <1>5, <2>1 DEF StrictSubsetOrdering
  <2> QED
    BY <1>4, <2>2
<1> QED
  BY <1>6

\* Min is the least element of a finite set of numbers.
LEMMA MinLeast ==
  ASSUME NEW S, IsFiniteSet(S), S # {}, S \subseteq Int
  PROVE  Min(S) \in S /\ \A y \in S : Min(S) <= y
<1> DEFINE R == {p \in S \X S : p[1] < p[2]}
<1>1. \A x, y \in S : <<x, y>> \in R <=> x < y
  OBVIOUS
<1>2. PICK m \in S : \A n \in S : <<n, m>> \notin R
  <2> HIDE DEF R
  <2>1. /\ \A x \in S : <<x, x>> \notin R
        /\ \A x, y, z \in S : <<x, y>> \in R /\ <<y, z>> \in R => <<x, z>> \in R
    BY <1>1
  <2> QED
    BY <2>1, FirstExists
<1> HIDE DEF R
<1>3. ASSUME NEW y \in S PROVE m <= y
  <2>1. ~(y < m)
    BY <1>1, <1>2
  <2>2. y \in Int /\ m \in Int
    OBVIOUS
  <2> QED
    BY <2>1, <2>2
<1>4. \E x \in S : \A y \in S : x =< y
  BY <1>3
<1>5. Min(S) = CHOOSE x \in S : \A y \in S : x =< y
  BY DEF Min
<1> QED
  BY <1>4, <1>5

\* The least of two numbers.
LEMMA MinOfTwo ==
  ASSUME NEW m \in Int, NEW n \in Int
  PROVE  Min({m, n}) = IF m < n THEN m ELSE n
BY DEF Min

\* The greatest element of a finite set of numbers, from the least of their negations.
LEMMA MaxGreatest ==
  ASSUME NEW S, IsFiniteSet(S), S # {}, S \subseteq Int
  PROVE  Max(S) \in S /\ \A y \in S : y <= Max(S)
<1> DEFINE R == {p \in S \X S : p[2] < p[1]}
<1>1. \A x, y \in S : <<x, y>> \in R <=> y < x
  OBVIOUS
<1>2. PICK m \in S : \A n \in S : <<n, m>> \notin R
  <2> HIDE DEF R
  <2>1. /\ \A x \in S : <<x, x>> \notin R
        /\ \A x, y, z \in S : <<x, y>> \in R /\ <<y, z>> \in R => <<x, z>> \in R
    BY <1>1
  <2> QED
    BY <2>1, FirstExists
<1> HIDE DEF R
<1>3. ASSUME NEW y \in S PROVE m >= y
  <2>1. ~(m < y)
    BY <1>1, <1>2
  <2>2. y \in Int /\ m \in Int
    OBVIOUS
  <2> QED
    BY <2>1, <2>2
<1>4. \E x \in S : \A y \in S : x >= y
  BY <1>3
<1>5. Max(S) = CHOOSE x \in S : \A y \in S : x >= y
  BY DEF Max
<1>6. Max(S) \in S /\ \A y \in S : Max(S) >= y
  BY <1>4, <1>5
<1> QED
  BY <1>6

\* An algorithm starts from nothing.
LEMMA RulesInitInv == RulesInit => RulesInv
<1> SUFFICES ASSUME RulesInit PROVE RulesInv
  OBVIOUS
<1>1. OneRoundInv
  BY DEF RulesInit, OneRoundInv, Beginning
<1>2. ContextInv
  <2> SUFFICES ASSUME input.kind = "context" PROVE ContextInv
    BY DEF ContextInv
  <2>1. output = <<>>
    BY DEF RulesInit, Beginning
  <2>2. Len(RelationSpecs) = 6
    BY DEF RelationSpecs
  <2> QED
    BY <2>1, <2>2 DEF ContextInv
<1>3. PretrainingInv
  <2> SUFFICES ASSUME input.kind = "pretraining" PROVE PretrainingInv
    BY DEF PretrainingInv
  <2>1. output = [masked |-> None, source |-> <<1>>, pairs |-> None]
    BY DEF RulesInit, Beginning
  <2>2. Len(input.example) \in Nat \ {0}
    BY InputAssumption DEF RulesInit
  <2> QED
    BY <2>1, <2>2 DEF PretrainingInv
<1>4. FleetInv
  <2> SUFFICES ASSUME input.kind = "fleet" PROVE FleetInv
    BY DEF FleetInv
  <2>1. output = [trips |-> <<>>, recent |-> [r \in input.routes |-> <<>>]]
    BY DEF RulesInit, Beginning
  <2>2. ASSUME NEW r \in input.routes
        PROVE  /\ Labelled(output.trips, r) = {}
               /\ Len(output.recent[r]) = Min({RecentWindow, Cardinality({})})
    <3>1. Cardinality({}) = 0 /\ Min({RecentWindow, 0}) = 0
      BY FS_EmptySet, MinOfTwo, ModelRulesAssumption
    <3>2. output.trips = <<>> /\ output.recent[r] = <<>> /\ DOMAIN <<>> = {}
      BY <2>1
    <3>3. Labelled(output.trips, r) = {}
      BY <3>2 DEF Labelled
    <3>4. Len(<<>>) = 0
      OBVIOUS
    <3> QED
      BY <3>1, <3>2, <3>3, <3>4
  <2>3. HistoryMatchesLabel
    BY <2>2 DEF HistoryMatchesLabel
  <2> QED
    BY <2>1, <2>3 DEF FleetInv
<1>5. ExpressionInv
  <2> SUFFICES ASSUME input.kind = "expression" PROVE ExpressionInv
    BY DEF ExpressionInv
  <2>1. output = <<>> /\ Len(input.nodes) \in Nat
    BY InputAssumption DEF RulesInit, Beginning, Expression
  <2> QED
    BY <2>1 DEF ExpressionInv
<1>6. SuggestionInv
  <2> SUFFICES ASSUME input.kind = "suggestion" PROVE SuggestionInv
    BY DEF SuggestionInv
  <2>1. output = [seen |-> {}, claimed |-> {}, done |-> FALSE]
    BY DEF RulesInit, Beginning
  <2> QED
    BY <2>1 DEF SuggestionInv
<1> QED
  BY <1>1, <1>2, <1>3, <1>4, <1>5, <1>6 DEF RulesInit, RulesInv

\* The algorithms of one round.
LEMMA OneRoundKept ==
  ASSUME RulesInv, CompareSnapshots \/ Select \/ GenerateExplanations
  PROVE  RulesInv'
<1>1. input' = input /\ input.kind \in {"drift", "threshold", "explanation"}
  BY DEF CompareSnapshots, Select, GenerateExplanations, Runs
<1>2. OneRoundInv'
  <2>1. CASE CompareSnapshots
    BY <2>1 DEF CompareSnapshots, Runs, OneRoundInv
  <2>2. CASE Select
    BY <2>2 DEF Select, Runs, OneRoundInv
  <2>3. CASE GenerateExplanations
    BY <2>3 DEF GenerateExplanations, Runs, OneRoundInv
  <2> QED
    BY <2>1, <2>2, <2>3
<1> QED
  BY <1>1, <1>2 DEF RulesInv, ContextInv, PretrainingInv, FleetInv, ExpressionInv,
  SuggestionInv

\* A round of build_example appends the answer of one relation.
LEMMA FetchRelatedInv ==
  ASSUME RulesInv, FetchRelated
  PROVE  RulesInv'
<1>1. input' = input /\ input.kind = "context" /\ output # Fails
  BY DEF FetchRelated, Runs
<1>2. ContextInv'
  <2>1. CASE output' = Fails
    BY <2>1 DEF ContextInv
  <2>2. CASE output' # Fails
    <3> DEFINE answers(i) == RelatedAnswers(input.db, input.docs, input.row, input.time,
                                            RelationSpecs[i])
    <3>1. PICK answer \in answers(Len(output) + 1) :
            output' = Append(output, answer) /\ Len(output) < Len(RelationSpecs)
      BY <2>2 DEF FetchRelated
    <3>2. /\ output = [i \in 1..Len(output) |-> output[i]]
          /\ Len(output) \in Nat /\ Len(RelationSpecs) = 6
          /\ \A i \in 1..Len(output) : output[i] \in answers(i)
      BY <1>1 DEF RulesInv, ContextInv, RelationSpecs
    <3> HIDE DEF answers
    <3>3. /\ Len(output') = Len(output) + 1
          /\ output' = [i \in 1..Len(output') |-> output'[i]]
          /\ \A i \in 1..Len(output) : output'[i] = output[i]
          /\ output'[Len(output) + 1] = answer
      BY <3>1, <3>2, AppendShape
    <3>4. \A i \in 1..Len(output') : output'[i] \in answers(i)
      BY <3>1, <3>2, <3>3
    <3> QED
      BY <1>1, <3>1, <3>2, <3>3, <3>4 DEF ContextInv, answers
  <2> QED
    BY <2>1, <2>2
<1> QED
  BY <1>1, <1>2 DEF RulesInv, OneRoundInv, PretrainingInv, FleetInv, ExpressionInv,
  SuggestionInv

\* Masking, corrupting and pairing change the batch one after the other.
LEMMA MaskCellsInv ==
  ASSUME RulesInv, MaskCells
  PROVE  RulesInv'
<1>1. input' = input /\ input.kind = "pretraining" /\ output.masked = None
  BY DEF MaskCells, Runs
<1>2. PICK masked \in SUBSET Maskable(input.example) : output' = [output EXCEPT !.masked = masked]
  BY DEF MaskCells
<1>3. PretrainingInv'
  BY <1>1, <1>2 DEF RulesInv, PretrainingInv
<1> QED
  BY <1>1, <1>3 DEF RulesInv, OneRoundInv, ContextInv, FleetInv, ExpressionInv, SuggestionInv

LEMMA CorruptLinkInv ==
  ASSUME RulesInv, CorruptLink
  PROVE  RulesInv'
<1> DEFINE s == Len(output.source) + 1
<1>1. input' = input /\ input.kind = "pretraining" /\ Len(output.source) < Len(input.example)
  BY DEF CorruptLink, Runs
<1>2. PICK other \in {s} \cup Others(input.example, s) :
        output' = [output EXCEPT !.source = Append(@, other)]
  BY DEF CorruptLink
<1>3. /\ output = [masked |-> output.masked, source |-> output.source, pairs |-> output.pairs]
      /\ output.masked # None => output.masked \subseteq Maskable(input.example)
      /\ output.source = [k \in 1..Len(output.source) |-> output.source[k]]
      /\ Len(output.source) \in Nat \ {0} /\ Len(input.example) \in Nat
      /\ \A k \in 1..Len(output.source) : output.source[k] \in {k} \cup Others(input.example, k)
      /\ output.pairs = None
  BY <1>1, InputAssumption DEF RulesInv, PretrainingInv
<1>4. /\ output'.masked = output.masked /\ output'.pairs = None
      /\ output'.source = Append(output.source, other)
      /\ output' = [masked |-> output'.masked, source |-> output'.source, pairs |-> output'.pairs]
  BY <1>2, <1>3
<1>5. /\ Len(output'.source) = s
      /\ output'.source = [k \in 1..Len(output'.source) |-> output'.source[k]]
      /\ \A k \in 1..Len(output.source) : output'.source[k] = output.source[k]
      /\ output'.source[s] = other
  BY <1>3, <1>4, AppendShape
<1>6. \A k \in 1..Len(output'.source) : output'.source[k] \in {k} \cup Others(input.example, k)
  BY <1>2, <1>3, <1>5
<1>7. PretrainingInv'
  BY <1>1, <1>3, <1>4, <1>5, <1>6 DEF PretrainingInv
<1> QED
  BY <1>1, <1>7 DEF RulesInv, OneRoundInv, ContextInv, FleetInv, ExpressionInv, SuggestionInv

LEMMA PairRecordsInv ==
  ASSUME RulesInv, PairRecords
  PROVE  RulesInv'
<1> DEFINE shown == Shown(input.example, output.masked, output.source)
           entities == {input.example[s].entity : s \in Related(input.example)}
           cand(e) == PairCandidates(input.example, shown, e)
           drawn(e) == {p \in cand(e) \X cand(e) : p[1] # p[2]}
<1>1. /\ input' = input /\ input.kind = "pretraining" /\ output.masked # None
      /\ Len(output.source) = Len(input.example)
  BY DEF PairRecords, Runs
<1>2. PICK pick \in [entities -> {None} \cup UNION {drawn(e) : e \in entities}] :
        /\ \A e \in entities : pick[e] \in drawn(e) \cup {None}
        /\ output' = [output EXCEPT !.pairs =
             {<<pair[1], pair[2], BeforeLabel(input.example, pair[1], pair[2])>> :
                pair \in {pick[e] : e \in entities} \ {None}}]
  BY DEF PairRecords
<1>3. output = [masked |-> output.masked, source |-> output.source, pairs |-> output.pairs]
  BY <1>1 DEF RulesInv, PretrainingInv
<1>4. /\ output'.masked = output.masked /\ output'.source = output.source
      /\ output' = [masked |-> output'.masked, source |-> output'.source, pairs |-> output'.pairs]
      /\ output'.pairs = {<<pair[1], pair[2], BeforeLabel(input.example, pair[1], pair[2])>> :
                            pair \in {pick[e] : e \in entities} \ {None}}
  BY <1>2, <1>3
<1>5. ASSUME NEW pair \in output'.pairs PROVE PairInv(pair)'
  <2>1. PICK e \in entities :
          /\ pick[e] \in drawn(e)
          /\ pair = <<pick[e][1], pick[e][2],
                      BeforeLabel(input.example, pick[e][1], pick[e][2])>>
    BY <1>2, <1>4
  <2>2. PICK a, b \in cand(e) : pick[e] = <<a, b>>
    BY <2>1
  <2>3. pair = <<a, b, BeforeLabel(input.example, a, b)>>
    BY <2>1, <2>2
  <2> QED
    BY <1>1, <1>4, <2>2, <2>3 DEF PairInv
<1>6. PretrainingInv'
  BY <1>1, <1>3, <1>4, <1>5 DEF RulesInv, PretrainingInv
<1> QED
  BY <1>1, <1>6 DEF RulesInv, OneRoundInv, ContextInv, FleetInv, ExpressionInv, SuggestionInv

\* What the generator calls bad is the label of the dataset builder.
LEMMA TripLabel ==
  ASSUME NEW draw \in Draws, NEW id, NEW end \in Int
  PROVE  LET trip == Trip(draw, id, end) IN
         /\ trip.status = "planned" => Label(trip) = None
         /\ trip.status # "planned" => Label(trip) # None /\ (WasBad(trip) <=> Label(trip) = 1)
         /\ WasBad(trip) \in BOOLEAN
         /\ trip.route_id = draw.route
<1> DEFINE trip == Trip(draw, id, end)
           arrival == draw.departure + draw.duration
           open == TooClose(draw.departure, end)
           done == ~open /\ draw.delay # None
<1>1. /\ draw.departure \in Int /\ draw.duration \in Int /\ draw.delay \in Int \cup {None}
      /\ None \notin Int /\ arrival \in Int
  BY FleetAssumption
<1>2. /\ trip.status = IF open THEN "planned" ELSE IF done THEN "completed" ELSE "cancelled"
      /\ trip.actual_arrival_at = IF done THEN arrival + draw.delay ELSE None
      /\ trip.planned_arrival_at = arrival /\ trip.route_id = draw.route
  BY DEF Trip
<1> HIDE DEF trip, arrival, open
<1>3. CASE open
  <2>1. trip.status = "planned" /\ trip.actual_arrival_at = None
    BY <1>2, <1>3
  <2>2. Label(trip) = None /\ WasBad(trip) = FALSE
    BY <2>1 DEF Label, WasBad
  <2> QED
    BY <1>2, <2>1, <2>2 DEF trip
<1>4. CASE ~open /\ draw.delay = None
  <2>1. trip.status = "cancelled"
    BY <1>2, <1>4
  <2>2. Label(trip) = 1 /\ WasBad(trip) = TRUE
    BY <2>1 DEF Label, WasBad
  <2>3. 1 # None
    BY <1>1
  <2> QED
    BY <1>2, <2>1, <2>2, <2>3 DEF trip
<1>5. CASE done
  <2>1. /\ trip.status = "completed" /\ trip.actual_arrival_at = arrival + draw.delay
        /\ arrival + draw.delay \in Int
    BY <1>1, <1>2, <1>5
  <2>2. trip.actual_arrival_at # None /\ trip.planned_arrival_at # None
    BY <1>1, <1>2, <2>1
  <2>3. Label(trip) = IF trip.actual_arrival_at - trip.planned_arrival_at > Threshold
                      THEN 1 ELSE 0
    BY <2>1, <2>2, FleetAssumption DEF Label
  <2>4. WasBad(trip) <=> trip.actual_arrival_at - trip.planned_arrival_at > Threshold
    BY <2>1, <2>2 DEF WasBad
  <2>6. WasBad(trip) \in BOOLEAN
    BY DEF WasBad
  <2>5. 0 # None /\ 1 # None
    BY <1>1
  <2> QED
    BY <1>2, <2>1, <2>3, <2>4, <2>5, <2>6 DEF trip
<1> QED
  BY <1>3, <1>4, <1>5

\* A bucket keeps the newest outcomes, one more or as many as before.
LEMMA Remembered ==
  ASSUME NEW bucket \in Seq(BOOLEAN), NEW bad \in BOOLEAN
  PROVE  LET longer == Remember(bucket, bad)
             full == Len(bucket) + 1 > RecentWindow IN
         /\ longer \in Seq(BOOLEAN)
         /\ Len(longer) = IF full THEN Len(bucket) ELSE Len(bucket) + 1
         /\ Len(longer) > 0 => longer[Len(longer)] = bad
         /\ \A k \in 0..(Len(bucket) - 1) :
              k + 1 < Len(longer) => longer[Len(longer) - (k + 1)] = bucket[Len(bucket) - k]
<1> DEFINE more == Append(bucket, bad)
<1>1. /\ more \in Seq(BOOLEAN) /\ Len(more) = Len(bucket) + 1 /\ Len(bucket) \in Nat
      /\ more[Len(bucket) + 1] = bad
      /\ \A i \in 1..Len(bucket) : more[i] = bucket[i]
  OBVIOUS
<1> HIDE DEF more
<1>2. Remember(bucket, bad) = IF Len(more) > RecentWindow THEN Tail(more) ELSE more
  BY DEF Remember, more
<1>3. CASE Len(bucket) + 1 > RecentWindow
  <2>1. Remember(bucket, bad) = Tail(more) /\ more # <<>>
    BY <1>1, <1>2, <1>3
  <2>2. /\ Tail(more) \in Seq(BOOLEAN) /\ Len(Tail(more)) = Len(bucket)
        /\ \A i \in 1..Len(bucket) : Tail(more)[i] = more[i + 1]
    BY <1>1, <2>1
  <2>3. Len(bucket) > 0 => Tail(more)[Len(bucket)] = bad
    BY <1>1, <2>2
  <2>4. ASSUME NEW k \in 0..(Len(bucket) - 1), k + 1 < Len(bucket)
        PROVE  Tail(more)[Len(bucket) - (k + 1)] = bucket[Len(bucket) - k]
    <3>1. Len(bucket) - (k + 1) \in 1..Len(bucket) /\ Len(bucket) - k \in 1..Len(bucket)
      BY <1>1, <2>4
    <3> QED
      BY <1>1, <2>2, <3>1
  <2> QED
    BY <1>3, <2>1, <2>2, <2>3, <2>4
<1>4. CASE ~(Len(bucket) + 1 > RecentWindow)
  <2>1. Remember(bucket, bad) = more
    BY <1>1, <1>2, <1>4
  <2>2. ASSUME NEW k \in 0..(Len(bucket) - 1)
        PROVE  more[Len(bucket) + 1 - (k + 1)] = bucket[Len(bucket) - k]
    BY <1>1, <2>2
  <2> QED
    BY <1>1, <1>4, <2>1, <2>2
<1> QED
  BY <1>3, <1>4

\* One more trip among the labelled ones of its route is newer than each of them.
LEMMA NewerThan ==
  ASSUME NEW n \in Nat, NEW S \in SUBSET (1..n)
  PROVE  /\ IsFiniteSet(S) /\ Cardinality(S \cup {n + 1}) = Cardinality(S) + 1
         /\ \A i \in S : /\ Cardinality({j \in S : j > i}) \in Nat
                         /\ Cardinality({j \in S : j > i}) < Cardinality(S)
                         /\ Cardinality({j \in S \cup {n + 1} : j > i})
                              = Cardinality({j \in S : j > i}) + 1
         /\ Cardinality({j \in S \cup {n + 1} : j > n + 1}) = 0
<1> DEFINE newer(T, i) == {j \in T : j > i}
<1>1. IsFiniteSet(S) /\ n + 1 \notin S
  <2>1. IsFiniteSet(1..n) /\ n + 1 \notin 1..n
    BY FS_Interval
  <2> QED
    BY <2>1, FS_Subset
<1>2. Cardinality(S \cup {n + 1}) = Cardinality(S) + 1
  BY <1>1, FS_AddElement
<1>3. ASSUME NEW i \in S
      PROVE  /\ Cardinality(newer(S, i)) \in Nat
             /\ Cardinality(newer(S, i)) < Cardinality(S)
             /\ Cardinality(newer(S \cup {n + 1}, i)) = Cardinality(newer(S, i)) + 1
  <2>1. newer(S, i) \subseteq S /\ i \notin newer(S, i)
    OBVIOUS
  <2>2. /\ IsFiniteSet(newer(S, i)) /\ Cardinality(newer(S, i)) \in Nat
        /\ Cardinality(newer(S, i)) <= Cardinality(S)
        /\ Cardinality(newer(S, i)) = Cardinality(S) => newer(S, i) = S
    BY <1>1, <2>1, FS_Subset, FS_CardinalityType
  <2>3. newer(S \cup {n + 1}, i) = newer(S, i) \cup {n + 1} /\ n + 1 \notin newer(S, i)
    BY <1>1
  <2>4. Cardinality(S) \in Nat
    BY <1>1, FS_CardinalityType
  <2>5. Cardinality(newer(S, i) \cup {n + 1}) = Cardinality(newer(S, i)) + 1
    BY <2>2, <2>3, FS_AddElement
  <2> HIDE DEF newer
  <2>6. Cardinality(newer(S, i)) # Cardinality(S)
    BY <2>1, <2>2
  <2>7. Cardinality(newer(S, i)) < Cardinality(S)
    BY <2>2, <2>4, <2>6
  <2> QED
    BY <2>2, <2>3, <2>5, <2>7
<1>4. newer(S \cup {n + 1}, n + 1) = {}
  <2>1. \A j \in S \cup {n + 1} : j \in Nat /\ j <= n + 1
    OBVIOUS
  <2>2. \A j \in S \cup {n + 1} : ~(j > n + 1)
    BY <2>1
  <2> QED
    BY <2>2, Zenon
<1>5. Cardinality(newer(S \cup {n + 1}, n + 1)) = 0
  BY <1>4, FS_EmptySet
<1> QED
  BY <1>1, <1>2, <1>3, <1>5

\* One round of the generator: the trip is remembered as it will be labelled.
LEMMA GenerateTripInv ==
  ASSUME RulesInv, GenerateTrip
  PROVE  RulesInv'
<1> DEFINE trips == output.trips
           n == Len(trips)
<1>1. input' = input /\ input.kind = "fleet" /\ input \in Inputs /\ input.end \in Int
  BY InputAssumption DEF GenerateTrip, Runs, RulesInv
<1>2. PICK draw \in Draws : output' = AddTrip(output, draw, input.end)
  BY DEF GenerateTrip
<1> DEFINE trip == Trip(draw, n + 1, input.end)
<1>3. /\ trips = [i \in 1..n |-> trips[i]] /\ n \in Nat
      /\ \A i \in 1..n : \E d \in Draws : trips[i] = Trip(d, i, input.end)
      /\ output.recent \in [input.routes -> Seq(BOOLEAN)]
  BY <1>1 DEF RulesInv, FleetInv
<1>4. /\ output' = [trips |-> output'.trips, recent |-> output'.recent]
      /\ output'.trips = Append(trips, trip)
      /\ output'.recent = IF trip.status = "planned" THEN output.recent
                          ELSE [output.recent EXCEPT ![draw.route] = Remember(@, WasBad(trip))]
  BY <1>2 DEF AddTrip
<1>5. /\ trip.status = "planned" => Label(trip) = None
      /\ trip.status # "planned" => Label(trip) # None /\ (WasBad(trip) <=> Label(trip) = 1)
      /\ WasBad(trip) \in BOOLEAN
      /\ trip.route_id = draw.route
  BY <1>1, TripLabel
<1>6. /\ Len(output'.trips) = n + 1
      /\ output'.trips = [i \in 1..(n + 1) |-> output'.trips[i]]
      /\ \A i \in 1..n : output'.trips[i] = trips[i]
      /\ output'.trips[n + 1] = trip
  <2> HIDE DEF trip
  <2> QED
    BY <1>3, <1>4, AppendShape
<1>7. \A i \in 1..(n + 1) : \E d \in Draws : output'.trips[i] = Trip(d, i, input.end)
  BY <1>3, <1>6
<1> HIDE DEF trip
<1>8. output'.recent \in [input.routes -> Seq(BOOLEAN)]
  <2>1. ASSUME draw.route \in input.routes
        PROVE  Remember(output.recent[draw.route], WasBad(trip)) \in Seq(BOOLEAN)
    BY <1>3, <1>5, <2>1, Remembered
  <2> QED
    BY <1>3, <1>4, <2>1
<1>9. ASSUME NEW r \in input.routes
      PROVE  LET labelled == Labelled(output'.trips, r)
                 newer(i) == {j \in labelled : j > i}
                 recent == output'.recent[r] IN
             /\ Len(recent) = Min({RecentWindow, Cardinality(labelled)})
             /\ \A i \in labelled : Cardinality(newer(i)) < Len(recent) =>
                  recent[Len(recent) - Cardinality(newer(i))] = (Label(output'.trips[i]) = 1)
  <2> DEFINE old == Labelled(trips, r)
             new == Labelled(output'.trips, r)
             after(T, i) == Cardinality({j \in T : j > i})
             was == output.recent[r]
             is == output'.recent[r]
  <2>1. /\ Len(was) = Min({RecentWindow, Cardinality(old)})
        /\ \A i \in old : after(old, i) < Len(was) =>
             was[Len(was) - after(old, i)] = (Label(trips[i]) = 1)
        /\ was \in Seq(BOOLEAN)
    BY <1>1, <1>3 DEF RulesInv, FleetInv, HistoryMatchesLabel
  <2>2. old \subseteq 1..n /\ \A i \in old : output'.trips[i] = trips[i]
    BY <1>3, <1>6 DEF Labelled
  <2>3. new = IF draw.route = r /\ Label(trip) # None THEN old \cup {n + 1} ELSE old
    <3>1. DOMAIN trips = 1..n /\ DOMAIN output'.trips = 1..(n + 1)
      BY <1>3, <1>6
    <3>2. \A i \in 1..n : i \in new <=> i \in old
      BY <1>6, <3>1 DEF Labelled
    <3>3. n + 1 \in new <=> draw.route = r /\ Label(trip) # None
      BY <1>3, <1>5, <1>6, <3>1 DEF Labelled
    <3>4. new \subseteq 1..(n + 1)
      BY <3>1 DEF Labelled
    <3> HIDE DEF new, old
    <3>5. 1..(n + 1) = (1..n) \cup {n + 1} /\ n + 1 \notin 1..n
      BY <1>3
    <3>6. \A i : i \in new <=> i \in old \/ (i = n + 1 /\ draw.route = r /\ Label(trip) # None)
      BY <2>2, <3>2, <3>3, <3>4, <3>5
    <3> QED
      BY <3>6
  <2>4. CASE ~(draw.route = r /\ Label(trip) # None)
    <3>1. new = old /\ is = was
      BY <1>3, <1>4, <1>5, <2>3, <2>4
    <3> HIDE DEF old, new, was, is
    <3>2. /\ Len(is) = Min({RecentWindow, Cardinality(new)})
          /\ \A i \in new : after(new, i) < Len(is) =>
               is[Len(is) - after(new, i)] = (Label(output'.trips[i]) = 1)
      BY <2>1, <2>2, <3>1
    <3> QED
      BY <3>2 DEF is, new
  <2>5. CASE draw.route = r /\ Label(trip) # None
    <3>1. new = old \cup {n + 1} /\ is = Remember(was, WasBad(trip))
      BY <1>3, <1>4, <1>5, <2>3, <2>5
    <3>2. (Label(trip) = 1) = WasBad(trip)
      BY <1>5, <2>5
    <3>10. \A i \in old : after(old, i) < Len(was) =>
             was[Len(was) - after(old, i)] = (Label(trips[i]) = 1)
      BY <2>1
    <3> HIDE DEF old, new, was, is
    <3>9. /\ IsFiniteSet(old) /\ Cardinality(old \cup {n + 1}) = Cardinality(old) + 1
          /\ \A i \in old : /\ after(old, i) \in Nat /\ after(old, i) < Cardinality(old)
                            /\ after(old \cup {n + 1}, i) = after(old, i) + 1
          /\ after(old \cup {n + 1}, n + 1) = 0
      <4>1. n \in Nat /\ old \in SUBSET (1..n)
        BY <1>3, <2>2
      <4> HIDE DEF n
      <4> QED
        BY <4>1, NewerThan, Zenon
    <3> HIDE DEF after
    <3>3. /\ Cardinality(old) \in Nat /\ Cardinality(new) = Cardinality(old) + 1
          /\ after(new, n + 1) = 0
      BY <3>1, <3>9, FS_CardinalityType
    <3>4. \A i \in old : /\ after(old, i) \in Nat /\ after(old, i) < Cardinality(old)
                         /\ after(new, i) = after(old, i) + 1
      BY <3>1, <3>9
    <3>5. /\ Len(was) = IF RecentWindow < Cardinality(old) THEN RecentWindow ELSE Cardinality(old)
          /\ Len(was) \in Nat /\ RecentWindow \in Nat \ {0}
      BY <2>1, <3>3, MinOfTwo, ModelRulesAssumption
    <3>6. /\ Len(is) = IF Len(was) + 1 > RecentWindow THEN Len(was) ELSE Len(was) + 1
          /\ Len(is) > 0 => is[Len(is)] = WasBad(trip)
          /\ \A k \in 0..(Len(was) - 1) :
               k + 1 < Len(is) => is[Len(is) - (k + 1)] = was[Len(was) - k]
      BY <1>5, <2>1, <3>1, Remembered
    <3>7. Len(is) = Min({RecentWindow, Cardinality(new)})
      <4>1. Min({RecentWindow, Cardinality(new)}) =
              IF RecentWindow < Cardinality(new) THEN RecentWindow ELSE Cardinality(new)
        BY <3>3, <3>5, MinOfTwo
      <4> QED
        BY <3>3, <3>5, <3>6, <4>1
    <3>8. ASSUME NEW i \in new, after(new, i) < Len(is)
          PROVE  is[Len(is) - after(new, i)] = (Label(output'.trips[i]) = 1)
      <4>1. CASE i = n + 1
        <5>1. after(new, i) = 0 /\ output'.trips[i] = trip /\ Len(is) > 0 /\ Len(is) \in Nat
          BY <1>6, <3>3, <3>5, <3>6, <3>8, <4>1
        <5> QED
          BY <3>2, <3>6, <5>1
      <4>2. CASE i \in old
        <5>1. /\ after(old, i) \in 0..(Len(was) - 1) /\ after(new, i) = after(old, i) + 1
              /\ after(old, i) + 1 < Len(is)
          BY <3>4, <3>5, <3>6, <3>8, <4>2
        <5>2. is[Len(is) - after(new, i)] = was[Len(was) - after(old, i)]
          BY <3>6, <5>1
        <5>3. was[Len(was) - after(old, i)] = (Label(trips[i]) = 1)
          BY <3>5, <3>10, <4>2, <5>1
        <5> QED
          BY <2>2, <4>2, <5>2, <5>3
      <4> QED
        BY <3>1, <4>1, <4>2
    <3> QED
      BY <3>7, <3>8 DEF is, new, after
  <2> QED
    BY <2>4, <2>5
<1>10. FleetInv'
  <2>1. HistoryMatchesLabel'
    BY <1>1, <1>9 DEF HistoryMatchesLabel
  <2> QED
    BY <1>1, <1>3, <1>4, <1>6, <1>7, <1>8, <2>1 DEF FleetInv
<1> QED
  BY <1>1, <1>10 DEF RulesInv, OneRoundInv, ContextInv, PretrainingInv, ExpressionInv,
  SuggestionInv

\* One more node of an expression: evaluate() goes no deeper than the tree, and where neither
\* a column is missing nor the tree is too deep the value comes from operands that have one.
LEMMA EntryOf ==
  ASSUME RulesInv, input.kind = "expression", NEW n \in Nat, n = Len(output),
         n < Len(input.nodes)
  PROVE  EntryInv(Entry(input.nodes[n + 1], output, input.row))
<1> DEFINE node == input.nodes[n + 1]
           part(i) == output[node.parts[i]]
           H == {0} \cup {e.height : e \in Operands(node, output)}
           G == {0} \cup {part(i).frames : i \in Reached(node, output)}
           entry == Entry(node, output, input.row)
<1>1. /\ Len(input.nodes) \in Nat /\ n + 1 \in DOMAIN input.nodes
      /\ \A c \in DOMAIN input.row : input.row[c] # Fails
      /\ node.kind \in {"column", "literal", "concat", "coalesce", "upper", "if_null"}
      /\ node.kind = "literal" => node.value # Fails
      /\ node.kind = "upper" => 1 \in DOMAIN node.parts
      /\ node.parts \in Seq(1..n)
  BY InputAssumption DEF RulesInv, Expression
<1> HIDE DEF node
<1>2. PICK k \in Nat : DOMAIN node.parts = 1..k /\ \A i \in 1..k : node.parts[i] \in 1..n
  BY <1>1, LenProperties
<1>3. \A i \in 1..k : EntryInv(part(i))
  BY <1>2 DEF RulesInv, ExpressionInv
<1>4. entry = [height |-> Height(node, output), columns |-> ReferencedColumns(node, output),
               frames |-> Frames(node, output), value |-> Evaluate(node, output, input.row)]
  BY DEF Entry
<1> HIDE DEF entry
<1>5. IsFiniteSet(1..k)
  BY <1>2, FS_Interval
<1>6. Operands(node, output) = {part(i) : i \in 1..k} /\ Reached(node, output) \subseteq 1..k
  BY <1>2 DEF Operands, Reached
<1>7. H = {0} \cup {part(i).height : i \in 1..k}
  BY <1>6
<1>8. /\ \A i \in 1..k : part(i).height \in Nat /\ part(i).frames \in Nat
      /\ \A i \in 1..k : part(i).frames <= part(i).height
  BY <1>3 DEF EntryInv
<1>9. IsFiniteSet(H) /\ H \subseteq Int
  <2>1. PICK f : f = [i \in 0..k |-> IF i = 0 THEN 0 ELSE part(i).height]
    <3> HIDE DEF part
    <3> QED
      OBVIOUS
  <2>2. IsFiniteSet(0..k)
    BY <1>2, FS_Interval
  <2>3. \A x : x \in H <=> \E i \in 0..k : x = f[i]
    <3>1. \A x : x \in H <=> x = 0 \/ \E i \in 1..k : x = part(i).height
      BY <1>7
    <3>2. \A i : i \in 0..k <=> i = 0 \/ i \in 1..k
      BY <1>2
    <3>3. 0 \notin 1..k
      BY <1>2
    <3> HIDE DEF part, H
    <3> QED
      BY <2>1, <3>1, <3>2, <3>3
  <2>4. f \in Surjection(0..k, H)
    <3> HIDE DEF part, H
    <3>1. f \in [0..k -> H] /\ H = {f[i] : i \in 0..k}
      BY <2>1, <2>3
    <3> QED
      BY <3>1 DEF Surjection
  <2>5. IsFiniteSet(H)
    BY <2>2, <2>4, FS_Surjection
  <2>6. H \subseteq Int
    <3>1. \A x \in H : x = 0 \/ \E i \in 1..k : x = part(i).height
      BY <1>7
    <3> HIDE DEF part, H
    <3> QED
      BY <1>8, <3>1
  <2> QED
    BY <2>5, <2>6
<1>10. IsFiniteSet(G) /\ G \subseteq Int
  <2>1. PICK f : f = [i \in 0..k |-> IF i \in Reached(node, output) THEN part(i).frames ELSE 0]
    <3> HIDE DEF part
    <3> QED
      OBVIOUS
  <2>2. IsFiniteSet(0..k)
    BY <1>2, FS_Interval
  <2>3. \A x : x \in G <=> \E i \in 0..k : x = f[i]
    <3>1. \A x : x \in G <=> x = 0 \/ \E i \in Reached(node, output) : x = part(i).frames
      OBVIOUS
    <3>2. Reached(node, output) \subseteq 0..k /\ 0 \in 0..k /\ 0 \notin Reached(node, output)
      BY <1>2, <1>6
    <3> HIDE DEF part, G
    <3> QED
      BY <2>1, <3>1, <3>2
  <2>4. f \in Surjection(0..k, G)
    <3> HIDE DEF part, G
    <3>1. f \in [0..k -> G] /\ G = {f[i] : i \in 0..k}
      BY <2>1, <2>3
    <3> QED
      BY <3>1 DEF Surjection
  <2>5. IsFiniteSet(G)
    BY <2>2, <2>4, FS_Surjection
  <2>6. G \subseteq Int
    <3> HIDE DEF part
    <3> QED
      BY <1>6, <1>8
  <2> QED
    BY <2>5, <2>6
<1>11. /\ Max(H) \in H /\ Max(G) \in G
       /\ \A i \in 1..k : part(i).height <= Max(H)
       /\ 0 <= Max(H) /\ Max(H) \in Nat /\ Max(G) \in Nat
  <2>1. H # {} /\ G # {}
    OBVIOUS
  <2>2. Max(H) \in H /\ \A y \in H : y <= Max(H)
    <3> HIDE DEF H
    <3> QED
      BY <1>9, <2>1, MaxGreatest
  <2>3. Max(G) \in G /\ \A y \in G : y <= Max(G)
    <3> HIDE DEF G
    <3> QED
      BY <1>10, <2>1, MaxGreatest
  <2>4. 0 \in H /\ 0 \in G /\ \A i \in 1..k : part(i).height \in H
    BY <1>7
  <2>5. Max(H) \in Int /\ Max(G) \in Int
    BY <1>9, <1>10, <2>2, <2>3
  <2> HIDE DEF H, G, part
  <2> QED
    BY <2>2, <2>3, <2>4, <2>5
<1>12. Max(G) <= Max(H)
  <2>1. CASE Max(G) = 0
    BY <1>11, <2>1
  <2>2. CASE \E i \in Reached(node, output) : Max(G) = part(i).frames
    <3> HIDE DEF part, H, G
    <3> QED
      BY <1>6, <1>8, <1>11, <2>2
  <2> QED
    BY <1>11, <2>1, <2>2
<1>13. Height(node, output) = 1 + Max(H) /\ Frames(node, output) = 1 + Max(G)
  BY DEF Height, Frames
<1> HIDE DEF H, G
<1>14. ASSUME ReferencedColumns(node, output) \subseteq DOMAIN input.row,
              Height(node, output) <= MaxDepth
       PROVE  Evaluate(node, output, input.row) # Fails
  <2>1. ~(Frames(node, output) > StackLimit)
    BY <1>11, <1>12, <1>13, <1>14, DocumentAssumption
  <2>2. ASSUME NEW i \in 1..k, node.kind # "column" PROVE part(i).value # Fails
    <3>1. part(i).height <= MaxDepth
      BY <1>8, <1>11, <1>13, <1>14, DocumentAssumption
    <3>2. part(i).columns \subseteq ReferencedColumns(node, output)
      BY <1>6, <2>2 DEF ReferencedColumns
    <3> QED
      BY <1>3, <1>14, <3>1, <3>2 DEF EntryInv
  <2> DEFINE stops == {i \in DOMAIN node.parts : part(i).value # None}
  <2>3. Evaluate(node, output, input.row) =
          CASE Frames(node, output) > StackLimit -> Fails
            [] node.kind = "column" -> IF node.column \in DOMAIN input.row
                                       THEN input.row[node.column] ELSE Fails
            [] node.kind = "literal" -> node.value
            [] node.kind = "concat" -> IF \E i \in DOMAIN node.parts : part(i).value = Fails
                                       THEN Fails ELSE "joined"
            [] node.kind \in {"coalesce", "if_null"} ->
                 IF stops = {} THEN None ELSE part(Min(stops)).value
            [] node.kind = "upper" -> IF part(1).value = "text" THEN "TEXT" ELSE part(1).value
    BY DEF Evaluate
  <2>4. stops # {} => Min(stops) \in 1..k
    <3>1. stops \subseteq 1..k
      BY <1>2
    <3>2. IsFiniteSet(stops) /\ stops \subseteq Int
      BY <1>5, <3>1, FS_Subset
    <3> HIDE DEF stops
    <3> QED
      BY <3>1, <3>2, MinLeast
  <2> HIDE DEF stops, part
  <2>5. CASE node.kind = "column"
    <3>1. node.column \in DOMAIN input.row
      BY <1>14, <2>5 DEF ReferencedColumns
    <3> QED
      BY <1>1, <2>1, <2>3, <2>5, <3>1
  <2>6. CASE node.kind = "literal"
    BY <1>1, <2>1, <2>3, <2>6 DEF node
  <2>7. CASE node.kind = "concat"
    BY <1>2, <2>1, <2>2, <2>3, <2>7, DocumentAssumption
  <2>8. CASE node.kind \in {"coalesce", "if_null"}
    BY <1>2, <2>1, <2>2, <2>3, <2>4, <2>8, DocumentAssumption
  <2>9. CASE node.kind = "upper"
    <3>1. 1 \in 1..k
      BY <1>1, <1>2, <2>9 DEF node
    <3> QED
      BY <2>1, <2>2, <2>3, <2>9, <3>1, DocumentAssumption
  <2> QED
    BY <1>1, <2>5, <2>6, <2>7, <2>8, <2>9 DEF node
<1> QED
  BY <1>4, <1>11, <1>12, <1>13, <1>14 DEF EntryInv, entry, node

LEMMA VisitNodeInv ==
  ASSUME RulesInv, VisitNode
  PROVE  RulesInv'
<1> DEFINE n == Len(output)
           entry == Entry(input.nodes[n + 1], output, input.row)
<1>1. /\ input' = input /\ input.kind = "expression" /\ n < Len(input.nodes)
      /\ output' = Append(output, entry)
  BY DEF VisitNode, Runs
<1>2. /\ output = [i \in 1..n |-> output[i]] /\ n \in Nat /\ Len(input.nodes) \in Nat
      /\ \A i \in 1..n : EntryInv(output[i])
  BY <1>1, InputAssumption DEF RulesInv, ExpressionInv, Expression
<1>3. EntryInv(entry)
  BY <1>1, <1>2, EntryOf
<1> HIDE DEF entry
<1>4. /\ Len(output') = n + 1 /\ output' = [i \in 1..(n + 1) |-> output'[i]]
      /\ \A i \in 1..n : output'[i] = output[i]
      /\ output'[n + 1] = entry
  BY <1>1, <1>2, AppendShape
<1>5. ASSUME NEW i \in 1..(n + 1) PROVE EntryInv(output'[i])
  BY <1>2, <1>3, <1>4
<1>6. ExpressionInv'
  BY <1>1, <1>2, <1>4, <1>5 DEF ExpressionInv, EntryInv
<1> QED
  BY <1>1, <1>6 DEF RulesInv, OneRoundInv, ContextInv, PretrainingInv, FleetInv, SuggestionInv

\* Pairs are ordered, so one of those left comes first.
LEMMA StrongestFirst ==
  ASSUME NEW left, IsFiniteSet(left), left # {},
         \A p \in left : p.score \in Int /\ p.field \in Nat /\ p.column \in Nat
  PROVE  /\ Strongest(left) \in left
         /\ \A q \in left : q.score <= Strongest(left).score
<1> DEFINE R == {p \in left \X left : Precedes(p[1], p[2])}
<1>1. \A p, q \in left : <<p, q>> \in R <=> Precedes(p, q)
  OBVIOUS
<1>2. \A p \in left : ~Precedes(p, p)
  BY DEF Precedes
<1>3. ASSUME NEW p \in left, NEW q \in left, NEW r \in left, Precedes(p, q), Precedes(q, r)
      PROVE  Precedes(p, r)
  <2> DEFINE ints(x) == x.score \in Int /\ x.field \in Int /\ x.column \in Int
  <2>1. ints(p) /\ ints(q) /\ ints(r)
    OBVIOUS
  <2>2. p.score >= q.score /\ q.score >= r.score
    BY <1>3, <2>1 DEF Precedes
  <2>3. CASE p.score > r.score
    BY <2>3 DEF Precedes
  <2>4. CASE p.score = r.score
    <3>1. p.score = q.score /\ q.score = r.score
      BY <2>1, <2>2, <2>4
    <3>2. /\ p.field < q.field \/ (p.field = q.field /\ p.column < q.column)
          /\ q.field < r.field \/ (q.field = r.field /\ q.column < r.column)
      BY <1>3, <2>1, <3>1 DEF Precedes
    <3>3. p.field < r.field \/ (p.field = r.field /\ p.column < r.column)
      BY <2>1, <3>2
    <3> QED
      BY <2>4, <3>3 DEF Precedes
  <2> QED
    BY <2>1, <2>2, <2>3, <2>4
<1>4. PICK m \in left : \A q \in left : <<q, m>> \notin R
  <2> HIDE DEF R
  <2>1. /\ \A p \in left : <<p, p>> \notin R
        /\ \A p, q, r \in left : <<p, q>> \in R /\ <<q, r>> \in R => <<p, r>> \in R
    BY <1>1, <1>2, <1>3
  <2> QED
    BY <2>1, FirstExists
<1>5. \A q \in left : ~Precedes(q, m)
  BY <1>1, <1>4
<1>6. Strongest(left) \in left /\ \A q \in left : ~Precedes(q, Strongest(left))
  BY <1>5 DEF Strongest
<1>7. ASSUME NEW q \in left PROVE q.score <= Strongest(left).score
  <2>1. ~(q.score > Strongest(left).score)
    BY <1>6 DEF Precedes
  <2>2. q.score \in Int /\ Strongest(left).score \in Int
    BY <1>6
  <2> QED
    BY <2>1, <2>2
<1> QED
  BY <1>6, <1>7

\* Whatever is left of the pairs is finitely many scored pairs.
LEMMA PairsLeft ==
  ASSUME RulesInv, input.kind = "suggestion"
  PROVE  /\ IsFiniteSet(input.pairs \ output.seen)
         /\ \A p \in input.pairs : p.score \in Int /\ p.field \in Nat /\ p.column \in Nat
<1>1. /\ IsFiniteSet(input.pairs)
      /\ \A p \in input.pairs : p.score \in Int /\ p.field \in Nat /\ p.column \in Nat
  BY InputAssumption DEF RulesInv
<1> QED
  BY <1>1, FS_Subset

LEMMA ConsiderPairInv ==
  ASSUME RulesInv, ConsiderPair
  PROVE  RulesInv'
<1> DEFINE seen == output.seen
           claimed == output.claimed
           left == input.pairs \ seen
           pair == Strongest(left)
<1>1. /\ input' = input /\ input.kind = "suggestion" /\ output # Fails /\ ~output.done
      /\ left # {} /\ pair.score >= MinConfidence
      /\ output' = [output EXCEPT !.seen = @ \cup {pair},
                     !.claimed = IF Taken(pair, @) THEN @ ELSE @ \cup {pair}]
  BY DEF ConsiderPair, Runs
<1>2. /\ output = [seen |-> output.seen, claimed |-> output.claimed, done |-> output.done]
      /\ claimed \subseteq seen /\ seen \subseteq input.pairs
      /\ \A p, q \in claimed : p # q => p.field # q.field /\ p.column # q.column
      /\ \A p \in seen : /\ \E q \in claimed :
                              (q.field = p.field \/ q.column = p.column) /\ q.score >= p.score
                         /\ \A q \in left : p.score >= q.score
  BY <1>1 DEF RulesInv, SuggestionInv
<1>3. /\ pair \in left /\ \A q \in left : q.score <= pair.score
      /\ \A p \in input.pairs : p.score \in Int
  BY <1>1, PairsLeft, StrongestFirst
<1>4. /\ output' = [seen |-> output'.seen, claimed |-> output'.claimed, done |-> output'.done]
      /\ output'.seen = seen \cup {pair} /\ output'.done = output.done
      /\ output'.claimed = IF Taken(pair, claimed) THEN claimed ELSE claimed \cup {pair}
  BY <1>1, <1>2
<1> HIDE DEF pair
<1>5. /\ output'.claimed \subseteq output'.seen /\ output'.seen \subseteq input.pairs
      /\ claimed \subseteq output'.claimed
  BY <1>2, <1>3, <1>4
<1>6. ASSUME NEW p \in output'.claimed, NEW q \in output'.claimed, p # q
      PROVE  p.field # q.field /\ p.column # q.column
  BY <1>2, <1>4, <1>6 DEF Taken
<1>7. ASSUME NEW p \in output'.seen
      PROVE  \E q \in output'.claimed :
               (q.field = p.field \/ q.column = p.column) /\ q.score >= p.score
  <2>1. CASE p \in seen
    BY <1>2, <1>5, <2>1
  <2>2. CASE p = pair /\ Taken(pair, claimed)
    <3>1. PICK q \in claimed : q.field = pair.field \/ q.column = pair.column
      BY <2>2 DEF Taken
    <3>2. q.score >= pair.score
      BY <1>2, <1>3
    <3> QED
      BY <1>5, <2>2, <3>1, <3>2
  <2>3. CASE p = pair /\ ~Taken(pair, claimed)
    <3>1. pair \in output'.claimed /\ pair.score >= pair.score
      BY <1>3, <1>4, <2>3
    <3> QED
      BY <2>3, <3>1
  <2> QED
    BY <1>4, <2>1, <2>2, <2>3
<1>8. ASSUME NEW p \in output'.seen, NEW q \in input.pairs \ output'.seen
      PROVE  p.score >= q.score
  <2>1. q \in left
    BY <1>4
  <2>2. CASE p \in seen
    BY <1>2, <2>1, <2>2
  <2>3. CASE p = pair
    <3>1. q.score <= pair.score /\ q.score \in Int /\ pair.score \in Int
      BY <1>3, <2>1
    <3> QED
      BY <2>3, <3>1
  <2> QED
    BY <1>4, <2>2, <2>3
<1>9. SuggestionInv'
  BY <1>1, <1>4, <1>5, <1>6, <1>7, <1>8 DEF SuggestionInv
<1> QED
  BY <1>1, <1>9 DEF RulesInv, OneRoundInv, ContextInv, PretrainingInv, FleetInv, ExpressionInv

LEMMA ConcludeSuggestionInv ==
  ASSUME RulesInv, ConcludeSuggestion
  PROVE  RulesInv'
<1> DEFINE left == input.pairs \ output.seen
<1>1. /\ input' = input /\ input.kind = "suggestion" /\ output # Fails
      /\ left # {} => Strongest(left).score < MinConfidence
      /\ output' \in {[output EXCEPT !.done = TRUE], Fails}
  BY DEF ConcludeSuggestion, Runs
<1>2. SuggestionInv'
  <2>1. CASE output' = Fails
    BY <2>1 DEF SuggestionInv
  <2>2. CASE output' = [output EXCEPT !.done = TRUE]
    <3>1. /\ output'.seen = output.seen /\ output'.claimed = output.claimed
          /\ output' = [seen |-> output'.seen, claimed |-> output'.claimed, done |-> output'.done]
      BY <1>1, <2>2 DEF RulesInv, SuggestionInv
    <3>2. ASSUME NEW q \in left PROVE q.score < MinConfidence
      <4>1. Strongest(left) \in left /\ q.score <= Strongest(left).score
        BY <1>1, PairsLeft, StrongestFirst
      <4>2. q.score \in Int /\ Strongest(left).score \in Int
        BY <1>1, <4>1, PairsLeft
      <4> QED
        BY <1>1, <4>1, <4>2, DocumentAssumption
    <3> QED
      BY <1>1, <3>1, <3>2 DEF RulesInv, SuggestionInv
  <2> QED
    BY <1>1, <2>1, <2>2
<1> QED
  BY <1>1, <1>2 DEF RulesInv, OneRoundInv, ContextInv, PretrainingInv, FleetInv, ExpressionInv

\* A stuttering step changes nothing.
LEMMA RulesStutter ==
  ASSUME RulesInv, UNCHANGED ruleVars
  PROVE  RulesInv'
<1>1. input' = input /\ output' = output
  BY DEF ruleVars
<1>2. OneRoundInv' /\ ContextInv'
  BY <1>1 DEF RulesInv, OneRoundInv, ContextInv
<1>3. PretrainingInv'
  <2>1. \A pair : PairInv(pair)' <=> PairInv(pair)
    BY <1>1 DEF PairInv
  <2> QED
    BY <1>1, <2>1 DEF RulesInv, PretrainingInv
<1>4. FleetInv'
  BY <1>1 DEF RulesInv, FleetInv, HistoryMatchesLabel
<1>5. ExpressionInv'
  BY <1>1 DEF RulesInv, ExpressionInv, EntryInv
<1>6. SuggestionInv'
  BY <1>1 DEF RulesInv, SuggestionInv
<1> QED
  BY <1>1, <1>2, <1>3, <1>4, <1>5, <1>6 DEF RulesInv

\* The inductive invariant of the rules.
THEOREM RulesInvariance == RulesSpec => []RulesInv
<1>1. RulesInv /\ [RulesNext]_ruleVars => RulesInv'
  BY OneRoundKept, FetchRelatedInv, MaskCellsInv, CorruptLinkInv, PairRecordsInv,
     GenerateTripInv, VisitNodeInv, ConsiderPairInv, ConcludeSuggestionInv, RulesStutter
  DEF RulesNext
<1> QED
  BY <1>1, RulesInitInv, PTL DEF RulesSpec

-----------------------------------------------------------------------------
(* Pretraining.                                                            *)

\* The day of a timestamp, an empty one being on day 0.
StampDay(t) == IF t = None THEN 0 ELSE t \div Day

\* Encoding keeps the order of the days up to the horizon.
LEMMA EncodedOrder ==
  ASSUME NEW s \in Nat \cup {None}, NEW t \in Nat \cup {None}
  PROVE  /\ EncodedYears(s) < EncodedYears(t) => t # None /\ (s # None => s < t)
         /\ ~(EncodedYears(s) < EncodedYears(t)) =>
              StampDay(s) >= StampDay(t) \/ StampDay(s) >= Horizon
<1> DEFINE cut(d) == IF d < Horizon THEN d ELSE Horizon
<1>1. ASSUME NEW d \in Nat PROVE Max({0, Min({Horizon, d})}) = cut(d)
  <2>1. Min({Horizon, d}) = cut(d)
    BY RuleAssumption DEF Min
  <2>2. ASSUME NEW m \in Nat PROVE Max({0, m}) = m
    BY DEF Max
  <2> QED
    BY <2>1, <2>2, RuleAssumption
<1>2. ASSUME NEW u \in Nat \cup {None}
      PROVE  /\ EncodedYears(u) = cut(StampDay(u)) /\ StampDay(u) \in Nat
             /\ u = None => StampDay(u) = 0
  <2>1. CASE u = None
    BY <2>1, RuleAssumption DEF EncodedYears, StampDay
  <2>2. CASE u # None
    <3>1. u \div Day \in Nat
      BY <2>2 DEF Day, Minute
    <3> QED
      BY <1>1, <2>2, <3>1 DEF EncodedYears, StampDay
  <2> QED
    BY <2>1, <2>2
<1>3. Horizon \in Nat
  BY RuleAssumption
<1>4. StampDay(s) < StampDay(t) /\ s # None /\ t # None => s < t
  BY DEF StampDay, Day, Minute
<1> HIDE DEF cut
<1>5. /\ EncodedYears(s) = cut(StampDay(s)) /\ StampDay(s) \in Nat
      /\ EncodedYears(t) = cut(StampDay(t)) /\ StampDay(t) \in Nat
      /\ t = None => StampDay(t) = 0
  BY <1>2
<1> USE DEF cut
<1> QED
  BY <1>3, <1>4, <1>5

\* Link labels are true of the batch as it is shown and pair labels of the batch as it was
\* read; what is to be reconstructed is shown at positions labelled corrupt only.
THEOREM PretrainingSoundHolds == RulesSpec => []PretrainingSound
<1> DEFINE shown == Shown(input.example, output.masked, output.source)
           stamp(s) == input.example[s].stamp
<1>1. ASSUME RulesInv, Done("pretraining"), output.pairs # None
      PROVE  LinkLabels /\ PairLabels /\ TargetsHidden
  <2>1. /\ input.kind = "pretraining" /\ DOMAIN input.example = 1..Len(input.example)
        /\ \A s \in DOMAIN input.example : stamp(s) \in Nat \cup {None}
    BY <1>1, InputAssumption DEF Done, RulesInv
  <2>2. /\ output.masked \subseteq Maskable(input.example)
        /\ \A s \in DOMAIN input.example : output.source[s] \in {s} \cup Others(input.example, s)
        /\ \A pair \in output.pairs : PairInv(pair)
    BY <1>1, <2>1 DEF RulesInv, PretrainingInv
  <2>3. LinkLabels
    BY <2>2 DEF LinkLabels, Genuine, Others
  <2>4. ASSUME NEW pair \in output.pairs
        PROVE  /\ \A s \in {pair[1], pair[2]} :
                    <<s, "stamp">> \in shown /\ (Genuine(s) => stamp(s) # None)
               /\ pair[3] => /\ stamp(pair[2]) # None
                             /\ stamp(pair[1]) # None => stamp(pair[1]) < stamp(pair[2])
               /\ ~pair[3] => \/ StampDay(stamp(pair[1])) >= StampDay(stamp(pair[2]))
                              \/ StampDay(stamp(pair[1])) >= Horizon
    <3>1. PICK e, a, b : /\ a \in PairCandidates(input.example, shown, e)
                         /\ b \in PairCandidates(input.example, shown, e)
                         /\ pair = <<a, b, BeforeLabel(input.example, a, b)>>
      BY <2>2 DEF PairInv
    <3>2. pair[1] = a /\ pair[2] = b /\ pair[3] = BeforeLabel(input.example, a, b)
      BY <3>1
    <3>3. \A s \in {a, b} : s \in DOMAIN input.example /\ <<s, "stamp">> \in shown
      BY <3>1 DEF PairCandidates, Related
    <3>4. ASSUME NEW s \in {a, b}, Genuine(s) PROVE stamp(s) # None
      BY <3>3, <3>4 DEF Shown, Genuine, Present
    <3>5. stamp(a) \in Nat \cup {None} /\ stamp(b) \in Nat \cup {None}
      BY <2>1, <3>3
    <3>6. pair[3] = (EncodedYears(stamp(a)) < EncodedYears(stamp(b)))
      BY <3>2 DEF BeforeLabel
    <3> HIDE DEF stamp, shown
    <3> QED
      BY <3>2, <3>3, <3>4, <3>5, <3>6, EncodedOrder
  <2>5. PairLabels
    BY <2>4 DEF PairLabels, StampDay
  <2>6. TargetsHidden
    <3> SUFFICES ASSUME NEW x \in output.masked
                 PROVE  /\ x[2] \notin Protected
                        /\ \A y \in shown :
                             y[2] = x[2] /\ output.source[y[1]] = x[1] => ~Genuine(y[1])
      BY DEF TargetsHidden
    <3>1. x[2] \notin Protected /\ x \in (DOMAIN input.example) \X Cells
      BY <2>2 DEF Maskable, Present
    <3>2. ASSUME NEW y \in shown, y[2] = x[2], output.source[y[1]] = x[1], Genuine(y[1])
          PROVE  FALSE
      <4>1. y \in (DOMAIN input.example) \X Cells /\ y[1] = x[1]
        BY <3>2 DEF Shown, Genuine
      <4>2. y = x
        BY <3>1, <3>2, <4>1
      <4> QED
        BY <3>2, <4>2 DEF Shown, Genuine
    <3> QED
      BY <3>1, <3>2
  <2> QED
    BY <2>3, <2>5, <2>6
<1>2. RulesInv => PretrainingSound
  BY <1>1 DEF PretrainingSound
<1> QED
  BY <1>2, RulesInvariance, PTL

-----------------------------------------------------------------------------
(* Choices.                                                                *)

\* a / b > c / d and c / d > e / f give a / b > e / f.
LEMMA RatiosTransitive ==
  ASSUME NEW a \in Nat, NEW b \in Nat \ {0}, NEW c \in Nat, NEW d \in Nat \ {0},
         NEW e \in Nat, NEW f \in Nat \ {0}, a * d > c * b, c * f > e * d
  PROVE  a * f > e * b
<1>1. (a * d) * f > (c * b) * f
  <2> DEFINE x == a * d  y == c * b
  <2>1. x \in Nat /\ y \in Nat /\ x > y
    OBVIOUS
  <2> HIDE DEF x, y
  <2>2. x * f > y * f
    BY <2>1
  <2> QED
    BY <2>2 DEF x, y
<1>2. (c * f) * b > (e * d) * b
  <2> DEFINE x == c * f  y == e * d
  <2>1. x \in Nat /\ y \in Nat /\ x > y
    OBVIOUS
  <2> HIDE DEF x, y
  <2>2. x * b > y * b
    BY <2>1
  <2> QED
    BY <2>2 DEF x, y
<1>3. (a * f) * d > (e * b) * d
  BY <1>1, <1>2
<1> DEFINE x == a * f  y == e * b
<1>4. x \in Nat /\ y \in Nat
  OBVIOUS
<1> HIDE DEF x, y
<1>5. x * d > y * d
  BY <1>3 DEF x, y
<1>6. x > y
  BY <1>4, <1>5
<1> QED
  BY <1>6 DEF x, y

\* The counts of a threshold.
LEMMA ThresholdCounts ==
  ASSUME NEW samples \in Seq([label : 0..1, proba : 0..100]), NEW t \in 0..100
  PROVE  TruePositives(samples, t) \in Nat /\ F1Divisor(samples, t) \in Nat \ {0}
<1>0. DOMAIN samples = 1..Len(samples) /\ Len(samples) \in Nat
  OBVIOUS
<1>1. IsFiniteSet(DOMAIN samples)
  BY <1>0, FS_Interval
<1>2. TruePositives(samples, t) \in Nat
  <2>1. {i \in DOMAIN samples : samples[i].proba >= t /\ samples[i].label = 1} \in SUBSET DOMAIN samples
    OBVIOUS
  <2> QED
    BY <1>1, <2>1, FS_Subset, FS_CardinalityType DEF TruePositives, CountWhere
<1>3. Flagged(samples, t) \in Nat /\ Actual(samples) \in Nat
  <2>1. /\ {i \in DOMAIN samples : samples[i].proba >= t} \in SUBSET DOMAIN samples
        /\ {i \in DOMAIN samples : samples[i].label = 1} \in SUBSET DOMAIN samples
    OBVIOUS
  <2> QED
    BY <1>1, <2>1, FS_Subset, FS_CardinalityType DEF Flagged, Actual, CountWhere
<1>4. ASSUME NEW n \in Nat PROVE Max({1, n}) \in Nat \ {0}
  <2>1. Max({1, n}) = IF n > 1 THEN n ELSE 1
    BY DEF Max
  <2> QED
    BY <2>1
<1> QED
  BY <1>2, <1>3, <1>4 DEF F1Divisor

\* A set of percentages is a finite set of numbers.
LEMMA PercentagesFinite ==
  ASSUME NEW S, S \subseteq 0..100
  PROVE  IsFiniteSet(S) /\ S \subseteq Int
<1>1. IsFiniteSet(0..100)
  BY 0 \in Int, 100 \in Int, FS_Interval
<1>2. IsFiniteSet(S)
  BY <1>1, FS_Subset
<1> QED
  BY <1>2

\* The elements of a sequence over a set are in the set.
LEMMA ElementsOf ==
  ASSUME NEW S, NEW s \in Seq(S)
  PROVE  \A i \in DOMAIN s : s[i] \in S
OBVIOUS

\* The probabilities of the samples are finitely many percentages.
LEMMA CandidatesFinite ==
  ASSUME NEW samples \in Seq([label : 0..1, proba : 0..100]), samples # <<>>,
         NEW candidates, candidates = {s.proba : s \in Range(samples)}
  PROVE  /\ candidates \subseteq 0..100 /\ IsFiniteSet(candidates) /\ candidates # {}
         /\ \A i \in DOMAIN samples : samples[i].proba \in candidates
<1>1. DOMAIN samples = 1..Len(samples) /\ Len(samples) \in Nat \ {0}
  OBVIOUS
<1>2. \A i \in DOMAIN samples : samples[i] \in [label : 0..1, proba : 0..100]
  BY ElementsOf
<1>3. \A i \in DOMAIN samples : samples[i] \in Range(samples)
  BY DEF Range
<1>4. \A s \in Range(samples) : s \in [label : 0..1, proba : 0..100]
  BY <1>2 DEF Range
<1>5. candidates \subseteq 0..100
  BY <1>4
<1>6. \A i \in DOMAIN samples : samples[i].proba \in candidates
  BY <1>3
<1>7. 1 \in DOMAIN samples
  BY <1>1
<1>8. IsFiniteSet(candidates)
  BY <1>5, PercentagesFinite
<1> QED
  BY <1>5, <1>6, <1>7, <1>8

\* A better F1 is a strict order of thresholds.
LEMMA HigherF1Order ==
  ASSUME NEW samples \in Seq([label : 0..1, proba : 0..100]),
         NEW u \in 0..100, NEW v \in 0..100, NEW w \in 0..100
  PROVE  /\ ~HigherF1(samples, u, u)
         /\ HigherF1(samples, u, v) /\ HigherF1(samples, v, w) => HigherF1(samples, u, w)
<1>1. TruePositives(samples, u) \in Nat /\ F1Divisor(samples, u) \in Nat \ {0}
  BY ThresholdCounts
<1>2. TruePositives(samples, v) \in Nat /\ F1Divisor(samples, v) \in Nat \ {0}
  BY ThresholdCounts
<1>3. TruePositives(samples, w) \in Nat /\ F1Divisor(samples, w) \in Nat \ {0}
  BY ThresholdCounts
<1>4. TruePositives(samples, u) * F1Divisor(samples, u) \in Nat
  BY <1>1
<1>5. ~HigherF1(samples, u, u)
  BY <1>4 DEF HigherF1
<1>6. ASSUME HigherF1(samples, u, v), HigherF1(samples, v, w)
      PROVE  HigherF1(samples, u, w)
  BY <1>1, <1>2, <1>3, <1>6, RatiosTransitive DEF HigherF1
<1> QED
  BY <1>5, <1>6

\* No threshold at all gives a better F1 than the least of the best candidates.
LEMMA BestCandidate ==
  ASSUME NEW samples \in Seq([label : 0..1, proba : 0..100]), NEW t \in 0..100,
         NEW candidates, candidates \subseteq 0..100, IsFiniteSet(candidates), candidates # {},
         \A i \in DOMAIN samples : samples[i].proba \in candidates,
         NEW best, best = {u \in candidates : \A v \in candidates : ~HigherF1(samples, v, u)}
  PROVE  ~HigherF1(samples, t, Min(best))
<1> DEFINE R == {p \in candidates \X candidates : HigherF1(samples, p[1], p[2])}
<1>1. \A u, v \in candidates : <<u, v>> \in R <=> HigherF1(samples, u, v)
  OBVIOUS
<1> HIDE DEF R
<1>2. \A u \in candidates : <<u, u>> \notin R
  BY <1>1, HigherF1Order
<1>3. ASSUME NEW u \in candidates, NEW v \in candidates, NEW w \in candidates,
             <<u, v>> \in R, <<v, w>> \in R
      PROVE  <<u, w>> \in R
  <2>1. HigherF1(samples, u, v) /\ HigherF1(samples, v, w)
    BY <1>1, <1>3
  <2>2. u \in 0..100 /\ v \in 0..100 /\ w \in 0..100
    OBVIOUS
  <2>3. HigherF1(samples, u, w)
    BY <2>1, <2>2, HigherF1Order
  <2> QED
    BY <1>1, <2>3
<1>4. \E b \in candidates : \A v \in candidates : <<v, b>> \notin R
  BY <1>2, <1>3, FirstExists
<1>5. best # {} /\ best \subseteq candidates
  BY <1>1, <1>4
<1>6. IsFiniteSet(best) /\ best \subseteq Int
  <2>1. best \subseteq 0..100
    BY <1>5
  <2> QED
    BY <2>1, PercentagesFinite
<1>7. PICK o : o = Min(best)
  OBVIOUS
<1>8. o \in candidates /\ o \in 0..100 /\ \A v \in candidates : ~HigherF1(samples, v, o)
  BY <1>5, <1>6, <1>7, MinLeast
<1>9. PICK above : above = {u \in candidates : u >= t}
  OBVIOUS
<1>10. CASE above = {}
  <2>1. {i \in DOMAIN samples : samples[i].proba >= t /\ samples[i].label = 1} = {}
    BY <1>9, <1>10
  <2>2. TruePositives(samples, t) = 0
    BY <2>1, FS_EmptySet DEF TruePositives, CountWhere
  <2>3. TruePositives(samples, o) \in Nat /\ F1Divisor(samples, o) \in Nat \ {0}
    BY <1>8, ThresholdCounts
  <2>4. F1Divisor(samples, t) \in Nat \ {0}
    BY ThresholdCounts
  <2>5. TruePositives(samples, o) * F1Divisor(samples, t) \in Nat
    BY <2>3, <2>4
  <2>6. ~HigherF1(samples, t, o)
    BY <2>2, <2>3, <2>5 DEF HigherF1
  <2> QED
    BY <1>7, <2>6
<1>11. CASE above # {}
  <2>1. above \subseteq 0..100
    BY <1>9
  <2>2. IsFiniteSet(above) /\ above \subseteq Int
    BY <2>1, PercentagesFinite
  <2>3. PICK u : u = Min(above)
    OBVIOUS
  <2>4. u \in above /\ \A v \in above : u <= v
    BY <1>11, <2>2, <2>3, MinLeast
  <2>5. u \in candidates /\ u \in 0..100 /\ u >= t
    BY <1>9, <2>4
  <2>6. ASSUME NEW i \in DOMAIN samples
        PROVE  samples[i].proba >= t <=> samples[i].proba >= u
    <3>1. PICK x : x = samples[i].proba
      OBVIOUS
    <3>2. x \in candidates /\ x \in 0..100
      BY <3>1
    <3>3. x >= t => u <= x
      BY <1>9, <2>4, <3>2
    <3>4. x >= t <=> x >= u
      BY <2>5, <3>2, <3>3
    <3> QED
      BY <3>1, <3>4
  <2>7. {i \in DOMAIN samples : samples[i].proba >= t /\ samples[i].label = 1}
          = {i \in DOMAIN samples : samples[i].proba >= u /\ samples[i].label = 1}
    BY <2>6
  <2>8. {i \in DOMAIN samples : samples[i].proba >= t}
          = {i \in DOMAIN samples : samples[i].proba >= u}
    BY <2>6
  <2>9. TruePositives(samples, t) = TruePositives(samples, u)
    BY <2>7 DEF TruePositives, CountWhere
  <2>10. Flagged(samples, t) = Flagged(samples, u)
    BY <2>8 DEF Flagged, CountWhere
  <2>11. ~HigherF1(samples, u, o)
    BY <1>8, <2>5
  <2>12. ~HigherF1(samples, t, o)
    BY <2>9, <2>10, <2>11 DEF HigherF1, F1Divisor
  <2> QED
    BY <1>7, <2>12
<1> QED
  BY <1>10, <1>11

\* What select_threshold gives.
LEMMA SelectedOptimal ==
  ASSUME NEW samples \in Seq([label : 0..1, proba : 0..100]), samples # <<>>, NEW t \in 0..100
  PROVE  ~HigherF1(samples, t, SelectThreshold(samples, "max_f1"))
<1>1. PICK candidates : candidates = {s.proba : s \in Range(samples)}
  OBVIOUS
<1>2. /\ candidates \subseteq 0..100 /\ IsFiniteSet(candidates) /\ candidates # {}
      /\ \A i \in DOMAIN samples : samples[i].proba \in candidates
  BY <1>1, CandidatesFinite
<1>3. PICK best : best = {u \in candidates : \A v \in candidates : ~HigherF1(samples, v, u)}
  OBVIOUS
<1>4. SelectThreshold(samples, "max_f1") = Min(best)
  BY <1>1, <1>2, <1>3 DEF SelectThreshold
<1>5. ~HigherF1(samples, t, Min(best))
  BY <1>2, <1>3, BestCandidate
<1> QED
  BY <1>4, <1>5

\* A strict total order of S, and the number of elements before each.
StrictTotalOrder(R, S) ==
  /\ \A x \in S : <<x, x>> \notin R
  /\ \A x, y, z \in S : <<x, y>> \in R /\ <<y, z>> \in R => <<x, z>> \in R
  /\ \A x, y \in S : x = y \/ <<x, y>> \in R \/ <<y, x>> \in R

Ranks(rank, R, S) == rank = [x \in S |-> Cardinality({y \in S : <<y, x>> \in R})]

\* In a finite set with a strict total order, the elements with fewer than limit others before
\* them number limit, if there is an element with at least limit others before it.
LEMMA RankCut ==
  ASSUME NEW S, IsFiniteSet(S), NEW R,
         StrictTotalOrder(R, S), NEW rank, Ranks(rank, R, S),
         NEW limit \in Nat, NEW i \in S, rank[i] >= limit
  PROVE  /\ IsFiniteSet({x \in S : rank[x] < limit})
         /\ Cardinality({x \in S : rank[x] < limit}) = limit
         /\ \A x \in S : rank[x] < limit => <<x, i>> \in R
<1>1. PICK before : before = [x \in S |-> {y \in S : <<y, x>> \in R}]
  OBVIOUS
<1>2. PICK n : n = Cardinality(S)
  OBVIOUS
<1>3. n \in Nat
  BY <1>2, FS_CardinalityType
<1>4. ASSUME NEW x \in S
      PROVE  /\ before[x] \in SUBSET S /\ IsFiniteSet(before[x])
             /\ rank[x] = Cardinality(before[x]) /\ rank[x] \in Nat
  <2>1. before[x] \in SUBSET S /\ rank[x] = Cardinality(before[x])
    BY <1>1 DEF Ranks
  <2>2. IsFiniteSet(before[x])
    BY <2>1, FS_Subset
  <2> QED
    BY <2>1, <2>2, FS_CardinalityType
<1>5. ASSUME NEW x \in S PROVE rank[x] \in 0..(n - 1)
  <2>1. x \notin before[x]
    BY <1>1 DEF StrictTotalOrder
  <2>2. Cardinality(before[x]) <= n /\ (Cardinality(before[x]) = n => before[x] = S)
    BY <1>2, <1>4, FS_Subset
  <2>3. Cardinality(before[x]) # n
    BY <2>1, <2>2
  <2>4. Cardinality(before[x]) \in Nat
    BY <1>4, FS_CardinalityType
  <2>5. rank[x] = Cardinality(before[x])
    BY <1>4
  <2>6. Cardinality(before[x]) \in 0..(n - 1)
    BY <1>3, <2>2, <2>3, <2>4
  <2> QED
    BY <2>5, <2>6
<1>6. ASSUME NEW x \in S, NEW y \in S, <<x, y>> \in R PROVE rank[x] < rank[y]
  <2>1. before[x] \in SUBSET before[y] /\ x \in before[y] /\ x \notin before[x]
    BY <1>1, <1>6 DEF StrictTotalOrder
  <2>2. /\ Cardinality(before[x]) <= Cardinality(before[y])
        /\ Cardinality(before[y]) = Cardinality(before[x]) => before[y] = before[x]
    BY <1>4, <2>1, FS_Subset
  <2>3. Cardinality(before[y]) # Cardinality(before[x])
    BY <2>1, <2>2
  <2>4. /\ rank[x] = Cardinality(before[x]) /\ rank[x] \in Nat
        /\ rank[y] = Cardinality(before[y]) /\ rank[y] \in Nat
    BY <1>4
  <2> QED
    BY <2>2, <2>3, <2>4
<1>7. rank \in Injection(S, 0..(n - 1))
  <2>1. rank \in [S -> 0..(n - 1)]
    BY <1>5 DEF Ranks
  <2>2. ASSUME NEW x \in S, NEW y \in S, rank[x] = rank[y] PROVE x = y
    <3>1. rank[x] \in Nat /\ rank[y] \in Nat
      BY <1>4
    <3>2. ~(rank[x] < rank[y]) /\ ~(rank[y] < rank[x])
      BY <2>2, <3>1
    <3>3. <<x, y>> \notin R /\ <<y, x>> \notin R
      BY <1>6, <3>2
    <3> QED
      BY <3>3 DEF StrictTotalOrder
  <2> QED
    BY <2>1, <2>2 DEF Injection, IsInjective
<1>8. IsFiniteSet(0..(n - 1)) /\ Cardinality(0..(n - 1)) = n
  BY <1>3, <1>5, FS_Interval
<1>9. rank \in Surjection(S, 0..(n - 1))
  BY <1>2, <1>7, <1>8, FS_Injection
<1>10. PICK low : low = {x \in S : rank[x] < limit}
  OBVIOUS
<1>11. IsFiniteSet(low)
  BY <1>10, FS_Subset
<1>12. PICK g : g = [x \in low |-> rank[x]]
  OBVIOUS
<1>13. g \in Bijection(low, 0..(limit - 1))
  <2>1. g \in [low -> 0..(limit - 1)]
    BY <1>4, <1>10, <1>12
  <2>2. ASSUME NEW x \in low, NEW y \in low, g[x] = g[y] PROVE x = y
    BY <1>7, <1>10, <1>12, <2>2 DEF Injection, IsInjective
  <2>3. ASSUME NEW k \in 0..(limit - 1) PROVE \E x \in low : g[x] = k
    <3>1. k \in 0..(n - 1)
      BY <1>3, <1>5
    <3>2. PICK x \in S : rank[x] = k
      BY <1>9, <3>1 DEF Surjection
    <3>3. rank[x] < limit
      BY <3>2
    <3>4. x \in low /\ g[x] = k
      BY <1>10, <1>12, <3>2, <3>3
    <3> QED
      BY <3>4
  <2> QED
    BY <2>1, <2>2, <2>3 DEF Bijection, Injection, IsInjective, Surjection
<1>14. Cardinality(low) = limit
  <2>1. Cardinality(0..(limit - 1)) = Cardinality(low)
    BY <1>11, <1>13, FS_Bijection DEF ExistsBijection
  <2> QED
    BY <2>1, FS_Interval
<1>15. ASSUME NEW x \in S, rank[x] < limit PROVE <<x, i>> \in R
  <2>1. ~(rank[i] < rank[x]) /\ rank[i] # rank[x]
    BY <1>4, <1>15
  <2> QED
    BY <1>6, <2>1 DEF StrictTotalOrder
<1> QED
  BY <1>10, <1>11, <1>14, <1>15

\* The magnitude of a number.
LEMMA MagnitudeNat ==
  ASSUME NEW n \in Int
  PROVE  Magnitude(n) \in Nat /\ (Magnitude(n) = 0 <=> n = 0)
BY DEF Magnitude

\* The factors of an explanation.
Factors(explained) == {e.factor : e \in explained}

\* What generate_explanations reports: the factors that contribute most.
LEMMA TopFactors ==
  ASSUME NEW coefficient, NEW value, NEW explained, explained = Explain(coefficient, value),
         IsFiniteSet(DOMAIN value), DOMAIN value = DOMAIN coefficient,
         \A i \in DOMAIN value :
            i \in Nat /\ coefficient[i] \in Int /\ value[i] \in Int \cup {None},
         NEW named, named = Factors(explained)
  PROVE  /\ \A e \in explained :
              (e.direction = "increases_risk") = (coefficient[e.factor] * value[e.factor] > 0)
         /\ \A i \in DOMAIN value \ named :
              value[i] # None /\ coefficient[i] * value[i] # 0 =>
                /\ Cardinality(named) = MaxExplanations
                /\ \A j \in named : Magnitude(coefficient[j] * value[j])
                                      >= Magnitude(coefficient[i] * value[i])
<1>1. PICK present : present = {i \in DOMAIN coefficient : value[i] # None}
  OBVIOUS
<1>2. PICK share : share = [i \in present |-> coefficient[i] * value[i]]
  OBVIOUS
<1>3. ASSUME NEW i \in present
      PROVE  /\ share[i] \in Int /\ share[i] = coefficient[i] * value[i] /\ i \in Nat
             /\ Magnitude(share[i]) \in Nat /\ (Magnitude(share[i]) = 0 <=> share[i] = 0)
  <2>1. coefficient[i] \in Int /\ value[i] \in Int /\ i \in Nat
    BY <1>1
  <2>2. share[i] \in Int /\ share[i] = coefficient[i] * value[i]
    BY <1>2, <2>1
  <2> QED
    BY <2>1, <2>2, MagnitudeNat
<1>4. present \in SUBSET DOMAIN value /\ IsFiniteSet(present)
  <2>1. present \in SUBSET DOMAIN value
    BY <1>1
  <2> QED
    BY <2>1, FS_Subset
<1>5. PICK R : R = {p \in present \X present :
                      \/ Stronger(share[p[1]], share[p[2]])
                      \/ ~Stronger(share[p[2]], share[p[1]]) /\ p[1] < p[2]}
  OBVIOUS
<1>6. \A j, i \in present :
        <<j, i>> \in R <=> \/ Magnitude(share[j]) > Magnitude(share[i])
                           \/ ~(Magnitude(share[i]) > Magnitude(share[j])) /\ j < i
  BY <1>5 DEF Stronger
<1>7. PICK rank : rank = [i \in present |-> Cardinality({j \in present : <<j, i>> \in R})]
  OBVIOUS
<1>8. explained = {[factor |-> i,
                  direction |-> IF share[i] > 0 THEN "increases_risk" ELSE "decreases_risk"] :
                   i \in {i \in present : rank[i] < MaxExplanations /\ share[i] # 0}}
  <2>1. ASSUME NEW i \in present
        PROVE  rank[i] = Cardinality({j \in present :
                  \/ Stronger(coefficient[j] * value[j], coefficient[i] * value[i])
                  \/ /\ ~Stronger(coefficient[i] * value[i], coefficient[j] * value[j])
                     /\ j < i})
    <3>1. \A j \in present : <<j, i>> \in R <=>
             \/ Stronger(share[j], share[i])
             \/ ~Stronger(share[i], share[j]) /\ j < i
      BY <1>5
    <3>2. {j \in present : <<j, i>> \in R} = {j \in present :
              \/ Stronger(coefficient[j] * value[j], coefficient[i] * value[i])
              \/ /\ ~Stronger(coefficient[i] * value[i], coefficient[j] * value[j])
                 /\ j < i}
      BY <1>3, <3>1
    <3> QED
      BY <1>7, <3>2
  <2>2. \A i \in present : share[i] = coefficient[i] * value[i]
    BY <1>3
  <2> QED
    BY <1>1, <2>1, <2>2 DEF Explain
<1>9. PICK top : top = {i \in present : rank[i] < MaxExplanations}
  OBVIOUS
<1>10. named = {i \in top : share[i] # 0}
  <2>1. ASSUME NEW i \in named PROVE i \in present /\ rank[i] < MaxExplanations /\ share[i] # 0
    <3>1. PICK e \in explained : i = e.factor
      BY DEF Factors
    <3> QED
      BY <1>8, <3>1
  <2>2. ASSUME NEW i \in present, rank[i] < MaxExplanations, share[i] # 0 PROVE i \in named
    <3>1. [factor |-> i, direction |-> IF share[i] > 0 THEN "increases_risk"
                                       ELSE "decreases_risk"] \in explained
      BY <1>8, <2>2
    <3> QED
      BY <3>1 DEF Factors
  <2> QED
    BY <1>9, <2>1, <2>2
<1>11. \A e \in explained :
         (e.direction = "increases_risk") = (coefficient[e.factor] * value[e.factor] > 0)
  <2> SUFFICES ASSUME NEW e \in explained
               PROVE  (e.direction = "increases_risk")
                        = (coefficient[e.factor] * value[e.factor] > 0)
    OBVIOUS
  <2>1. PICK i \in present : e = [factor |-> i,
          direction |-> IF share[i] > 0 THEN "increases_risk" ELSE "decreases_risk"]
    BY <1>8
  <2>2. share[i] = coefficient[i] * value[i]
    BY <1>3
  <2> QED
    BY <2>1, <2>2
<1>12. ASSUME NEW i \in DOMAIN value \ named, value[i] # None, coefficient[i] * value[i] # 0
       PROVE  /\ Cardinality(named) = MaxExplanations
              /\ \A j \in named : Magnitude(coefficient[j] * value[j])
                                    >= Magnitude(coefficient[i] * value[i])
  <2>1. i \in present
    BY <1>1, <1>12
  <2>2. share[i] # 0 /\ Magnitude(share[i]) > 0
    BY <1>3, <1>12, <2>1
  <2>3. MaxExplanations \in Nat
    BY ModelRulesAssumption
  <2>4. rank[i] >= MaxExplanations
    <3>1. ~(rank[i] < MaxExplanations)
      BY <1>9, <1>10, <2>1, <2>2
    <3>2. {j \in present : <<j, i>> \in R} \in SUBSET present
      OBVIOUS
    <3>3. rank[i] \in Nat
      BY <1>4, <1>7, <2>1, <3>2, FS_Subset, FS_CardinalityType
    <3> QED
      BY <2>3, <3>1, <3>3
  <2>5. \A x \in present : <<x, x>> \notin R
    BY <1>3, <1>6
  <2>6. ASSUME NEW x \in present, NEW y \in present, NEW z \in present,
               <<x, y>> \in R, <<y, z>> \in R
        PROVE  <<x, z>> \in R
    BY <1>3, <1>6, <2>6
  <2>7. ASSUME NEW x \in present, NEW y \in present
        PROVE  x = y \/ <<x, y>> \in R \/ <<y, x>> \in R
    <3>1. /\ Magnitude(share[x]) \in Nat /\ x \in Nat
          /\ Magnitude(share[y]) \in Nat /\ y \in Nat
      BY <1>3
    <3>2. \/ x = y \/ x < y \/ y < x
      BY <3>1
    <3>3. \/ Magnitude(share[x]) > Magnitude(share[y]) \/ Magnitude(share[y]) > Magnitude(share[x])
          \/ ~(Magnitude(share[x]) > Magnitude(share[y]))
             /\ ~(Magnitude(share[y]) > Magnitude(share[x]))
      BY <3>1
    <3> QED
      BY <1>6, <3>2, <3>3
  <2>8. /\ Cardinality({x \in present : rank[x] < MaxExplanations}) = MaxExplanations
        /\ \A x \in present : rank[x] < MaxExplanations => <<x, i>> \in R
    <3>1. StrictTotalOrder(R, present)
      BY <2>5, <2>6, <2>7 DEF StrictTotalOrder
    <3>2. Ranks(rank, R, present)
      BY <1>7 DEF Ranks
    <3>3. IsFiniteSet(present)
      BY <1>4
    <3> QED
      BY <2>1, <2>3, <2>4, <3>1, <3>2, <3>3, RankCut
  <2>9. ASSUME NEW j \in top PROVE Magnitude(share[j]) >= Magnitude(share[i]) /\ share[j] # 0
    <3>1. j \in present /\ rank[j] < MaxExplanations
      BY <1>9
    <3>2. <<j, i>> \in R
      BY <2>8, <3>1
    <3>3. ~(Magnitude(share[i]) > Magnitude(share[j]))
      BY <1>3, <1>6, <2>1, <3>1, <3>2
    <3> QED
      BY <1>3, <2>1, <2>2, <3>1, <3>3
  <2>10. named = top
    BY <1>10, <2>9
  <2>11. ASSUME NEW j \in named
         PROVE  Magnitude(coefficient[j] * value[j]) >= Magnitude(coefficient[i] * value[i])
    <3>1. j \in present /\ j \in top
      BY <1>9, <2>10
    <3>2. /\ share[j] = coefficient[j] * value[j] /\ share[i] = coefficient[i] * value[i]
      BY <1>3, <2>1, <3>1
    <3> QED
      BY <2>9, <3>1, <3>2
  <2> QED
    BY <1>9, <2>8, <2>10, <2>11
<1> QED
  BY <1>11, <1>12

\* No candidate that was passed over is better than the one chosen.
THEOREM ChoicesOptimalHolds == RulesSpec => []ChoicesOptimal
<1>1. ASSUME RulesInv PROVE ThresholdOptimal
  <2> SUFFICES ASSUME Done("threshold"), input.strategy = "max_f1", input.samples # <<>>,
                      NEW t \in 0..100
               PROVE  ~HigherF1(input.samples, t, output)
    BY DEF ThresholdOptimal
  <2>1. /\ input.samples \in Seq([label : 0..1, proba : 0..100])
        /\ output = SelectThreshold(input.samples, "max_f1")
    BY <1>1, InputAssumption DEF Done, RulesInv, OneRoundInv
  <2> QED
    BY <2>1, SelectedOptimal
<1>2. ASSUME RulesInv PROVE ExplanationsTop
  <2> SUFFICES ASSUME Done("explanation") PROVE ExplanationsTop
    BY DEF ExplanationsTop
  <2>1. /\ output = Explain(input.coefficient, input.value)
        /\ IsFiniteSet(DOMAIN input.value) /\ DOMAIN input.value = DOMAIN input.coefficient
        /\ \A i \in DOMAIN input.value :
             i \in Nat /\ input.coefficient[i] \in Int /\ input.value[i] \in Int \cup {None}
    BY <1>2, InputAssumption DEF Done, RulesInv, OneRoundInv
  <2>2. PICK named : named = Factors(output)
    OBVIOUS
  <2>3. /\ \A e \in output : (e.direction = "increases_risk")
                               = (input.coefficient[e.factor] * input.value[e.factor] > 0)
        /\ \A i \in DOMAIN input.value \ named :
             input.value[i] # None /\ input.coefficient[i] * input.value[i] # 0 =>
               /\ Cardinality(named) = MaxExplanations
               /\ \A j \in named : Magnitude(input.coefficient[j] * input.value[j])
                                     >= Magnitude(input.coefficient[i] * input.value[i])
    BY <2>1, <2>2, TopFactors
  <2> QED
    BY <2>2, <2>3 DEF ExplanationsTop, Factors
<1>3. RulesInv => ChoicesOptimal
  BY <1>1, <1>2 DEF ChoicesOptimal
<1> QED
  BY <1>3, RulesInvariance, PTL

-----------------------------------------------------------------------------
(* Drift.                                                                  *)

\* The larger of two cardinalities.
LEMMA WiderBound ==
  ASSUME NEW S, IsFiniteSet(S), S # {}, NEW T, IsFiniteSet(T), NEW w,
         w = Max({Cardinality(S), Cardinality(T)})
  PROVE  w \in Nat \ {0}
<1>1. Cardinality(S) \in Nat \ {0} /\ Cardinality(T) \in Nat
  BY FS_CardinalityType, FS_EmptySet
<1>2. ASSUME NEW m \in Nat \ {0}, NEW n \in Nat PROVE Max({m, n}) \in Nat \ {0}
  <2>1. Max({m, n}) = IF m >= n THEN m ELSE n
    BY DEF Max
  <2> QED
    BY <2>1
<1> QED
  BY <1>1, <1>2

\* An event is its type and its table.
LEMMA EventParts ==
  ASSUME NEW type, NEW table
  PROVE  Schema!Event(type, table).type = type /\ Schema!Event(type, table).table = table
BY DEF Schema!Event

\* The columns of a table, which have different names.
Columns(columns) ==
  /\ \A c \in columns : c = [name |-> c.name, type |-> c.type, nullable |-> c.nullable]
  /\ \A c, d \in columns : c.name = d.name => c = d

\* A table has an event exactly when its columns or its relationships have changed.
LEMMA TableEventsExact ==
  ASSUME NEW name, NEW old, NEW new, Columns(old.columns), Columns(new.columns)
  PROVE  /\ \A e \in Schema!TableEvents(name, old, new) :
              /\ e.table = name /\ e.type # "table_added"
              /\ old.columns = new.columns => e.type = "relationship_changed"
         /\ Schema!TableEvents(name, old, new) = {} <=>
              /\ old.columns = new.columns
              /\ Schema!RelationshipSignature(old) = Schema!RelationshipSignature(new)
<1> DEFINE events == Schema!TableEvents(name, old, new)
<1>1. ASSUME NEW e \in events
      PROVE  \/ /\ e = Schema!Event("column_added", name)
                /\ \E d \in new.columns : \A c \in old.columns : c.name # d.name
             \/ /\ e = Schema!Event("column_removed", name)
                /\ \E c \in old.columns : \A d \in new.columns : c.name # d.name
             \/ /\ \/ e = Schema!Event("column_type_changed", name)
                   \/ e = Schema!Event("column_nullability_changed", name)
                /\ \E c \in old.columns, d \in new.columns : c.name = d.name /\ c # d
             \/ /\ e = Schema!Event("relationship_changed", name)
                /\ Schema!RelationshipSignature(old) # Schema!RelationshipSignature(new)
  <2>1. CASE e \in {Schema!Event("column_added", name) :
                      c \in Schema!Names(new.columns) \ Schema!Names(old.columns)}
    BY <2>1 DEF Schema!Names
  <2>2. CASE e \in {Schema!Event("column_removed", name) :
                      c \in Schema!Names(old.columns) \ Schema!Names(new.columns)}
    BY <2>2 DEF Schema!Names
  <2>3. CASE e \in {Schema!Event(f.type, name) :
                      f \in Schema!ColumnChanges(old.columns, new.columns)}
    <3>1. PICK f \in Schema!ColumnChanges(old.columns, new.columns) :
            e = Schema!Event(f.type, name)
      BY <2>3
    <3>2. CASE f \in {Schema!Event("column_type_changed", c.name) :
                        c \in {c \in old.columns : \E d \in new.columns :
                                 d.name = c.name /\ d.type # c.type}}
      <4>1. f.type = "column_type_changed"
        BY <3>2, EventParts
      <4>2. \E c \in old.columns, d \in new.columns : c.name = d.name /\ c # d
        BY <3>2
      <4> QED
        BY <3>1, <4>1, <4>2
    <3>3. CASE f \in {Schema!Event("column_nullability_changed", c.name) :
                        c \in {c \in old.columns : \E d \in new.columns :
                                 d.name = c.name /\ d.nullable # c.nullable}}
      <4>1. f.type = "column_nullability_changed"
        BY <3>3, EventParts
      <4>2. \E c \in old.columns, d \in new.columns : c.name = d.name /\ c # d
        BY <3>3
      <4> QED
        BY <3>1, <4>1, <4>2
    <3> QED
      BY <3>1, <3>2, <3>3 DEF Schema!ColumnChanges
  <2>4. CASE e \in (IF Schema!RelationshipSignature(old) # Schema!RelationshipSignature(new)
                    THEN {Schema!Event("relationship_changed", name)} ELSE {})
    BY <2>4
  <2> QED
    BY <2>1, <2>2, <2>3, <2>4 DEF Schema!TableEvents
<1>2. ASSUME NEW e \in events
      PROVE  /\ e.table = name /\ e.type # "table_added"
             /\ old.columns = new.columns => e.type = "relationship_changed"
  BY <1>1, EventParts DEF Columns
<1>3. ASSUME old.columns = new.columns,
             Schema!RelationshipSignature(old) = Schema!RelationshipSignature(new)
      PROVE  events = {}
  BY <1>1, <1>3 DEF Columns
<1>4. ASSUME Schema!RelationshipSignature(old) # Schema!RelationshipSignature(new)
      PROVE  events # {}
  BY <1>4 DEF Schema!TableEvents
<1>5. ASSUME old.columns # new.columns
      PROVE  events # {}
  <2>1. CASE \E c \in old.columns : c \notin new.columns
    <3>1. PICK c \in old.columns : c \notin new.columns
      BY <2>1
    <3>2. CASE c.name \notin Schema!Names(new.columns)
      <4>1. c.name \in Schema!Names(old.columns) \ Schema!Names(new.columns)
        BY <3>2 DEF Schema!Names
      <4> QED
        BY <4>1 DEF Schema!TableEvents
    <3>3. CASE c.name \in Schema!Names(new.columns)
      <4>1. PICK d \in new.columns : d.name = c.name
        BY <3>3 DEF Schema!Names
      <4>2. d.type # c.type \/ d.nullable # c.nullable
        BY <3>1, <4>1 DEF Columns
      <4>3. \E f : f \in Schema!ColumnChanges(old.columns, new.columns)
        BY <4>1, <4>2 DEF Schema!ColumnChanges
      <4> QED
        BY <4>3 DEF Schema!TableEvents
    <3> QED
      BY <3>2, <3>3
  <2>2. CASE \E d \in new.columns : d \notin old.columns
    <3>1. PICK d \in new.columns : d \notin old.columns
      BY <2>2
    <3>2. CASE d.name \notin Schema!Names(old.columns)
      <4>1. d.name \in Schema!Names(new.columns) \ Schema!Names(old.columns)
        BY <3>2 DEF Schema!Names
      <4> QED
        BY <4>1 DEF Schema!TableEvents
    <3>3. CASE d.name \in Schema!Names(old.columns)
      <4>1. PICK c \in old.columns : c.name = d.name
        BY <3>3 DEF Schema!Names
      <4>2. d.type # c.type \/ d.nullable # c.nullable
        BY <3>1, <4>1 DEF Columns
      <4>3. \E f : f \in Schema!ColumnChanges(old.columns, new.columns)
        BY <4>1, <4>2 DEF Schema!ColumnChanges
      <4> QED
        BY <4>3 DEF Schema!TableEvents
    <3> QED
      BY <3>2, <3>3
  <2> QED
    BY <1>5, <2>1, <2>2
<1> QED
  BY <1>2, <1>3, <1>4, <1>5

\* The library's operators are the same in both modules.
LEMMA SchemaLibrary ==
  ASSUME NEW S
  PROVE  /\ Schema!Cardinality(S) = Cardinality(S)
         /\ Schema!Max(S) = Max(S) /\ Schema!Min(S) = Min(S)
<1>1. Schema!Cardinality(S) = Cardinality(S)
  BY DEF Cardinality, Schema!Cardinality
<1>2. Schema!Max(S) = Max(S) /\ Schema!Min(S) = Min(S)
  BY DEF Max, Min, Schema!Max, Schema!Min
<1> QED
  BY <1>1, <1>2

\* A likely target of a rename is an added table that shares columns with the removed one.
LEMMA RenameTargetSound ==
  ASSUME NEW removed, IsFiniteSet(removed.columns), NEW new, NEW S, IsFiniteSet(S),
         None \notin S, \A name \in S : IsFiniteSet(new[name].columns),
         NEW order \in SetToSeqs(S), NEW target,
         target = Schema!RenameTarget(removed, new, order), target # None
  PROVE  target \in S /\ removed.columns \cap new[target].columns # {}
<1>1. /\ order \in [1..Cardinality(S) -> S] /\ Cardinality(S) \in Nat
      /\ IsFiniteSet(DOMAIN order) /\ DOMAIN order \subseteq Int
  <2>1. order \in [1..Cardinality(S) -> S]
    BY DEF SetToSeqs
  <2>2. Cardinality(S) \in Nat
    BY FS_CardinalityType
  <2> QED
    BY <2>1, <2>2, FS_Interval
<1>2. PICK overlap : overlap = [i \in DOMAIN order |-> Schema!Overlap(removed, new[order[i]])]
  OBVIOUS
<1>3. PICK wider : wider = [i \in DOMAIN order |-> Schema!Wider(removed, new[order[i]])]
  OBVIOUS
<1>4. PICK fits : fits = {i \in DOMAIN order :
                            /\ removed.columns # {} /\ new[order[i]].columns # {}
                            /\ overlap[i] * 100 >= RenamePercent * wider[i]}
  OBVIOUS
<1>5. PICK best : best = {i \in fits : \A j \in fits :
                            overlap[i] * wider[j] >= overlap[j] * wider[i]}
  OBVIOUS
<1>6. target = IF fits = {} THEN None ELSE order[Min(best)]
  <2>1. fits = {i \in DOMAIN order :
                  /\ removed.columns # {} /\ new[order[i]].columns # {}
                  /\ Schema!Overlap(removed, new[order[i]]) * 100
                       >= RenamePercent * Schema!Wider(removed, new[order[i]])}
    BY <1>2, <1>3, <1>4
  <2>2. best = {i \in fits : \A j \in fits :
                  Schema!Overlap(removed, new[order[i]]) * Schema!Wider(removed, new[order[j]])
                    >= Schema!Overlap(removed, new[order[j]])
                         * Schema!Wider(removed, new[order[i]])}
    <3>1. \A i \in fits : /\ overlap[i] = Schema!Overlap(removed, new[order[i]])
                          /\ wider[i] = Schema!Wider(removed, new[order[i]])
      BY <1>2, <1>3, <1>4
    <3> QED
      BY <1>5, <3>1
  <2>3. target = IF fits = {} THEN None ELSE order[Schema!Min(best)]
    BY <2>1, <2>2 DEF Schema!RenameTarget
  <2> QED
    BY <2>3, SchemaLibrary
<1>7. ASSUME NEW i \in fits
      PROVE  /\ i \in DOMAIN order /\ order[i] \in S
             /\ overlap[i] = Cardinality(removed.columns \cap new[order[i]].columns)
             /\ overlap[i] \in Nat /\ wider[i] \in Nat \ {0}
             /\ removed.columns \cap new[order[i]].columns # {}
  <2>1. i \in DOMAIN order /\ order[i] \in S /\ removed.columns # {}
    BY <1>1, <1>4
  <2>2. IsFiniteSet(new[order[i]].columns)
    BY <2>1
  <2>3. wider[i] = Max({Cardinality(removed.columns), Cardinality(new[order[i]].columns)})
    BY <1>3, <2>1, SchemaLibrary DEF Schema!Wider
  <2>4. wider[i] \in Nat \ {0}
    BY <2>1, <2>2, <2>3, WiderBound
  <2>5. overlap[i] = Cardinality(removed.columns \cap new[order[i]].columns)
    BY <1>2, <2>1, SchemaLibrary DEF Schema!Overlap
  <2>6. overlap[i] \in Nat
    BY <2>5, FS_Intersection, FS_CardinalityType
  <2>7. PICK least : least = RenamePercent * wider[i]
    OBVIOUS
  <2>8. overlap[i] # 0
    <3>1. RenamePercent \in Nat \ {0}
      BY RuleAssumption
    <3>2. least > 0 /\ least \in Nat
      BY <2>4, <2>7, <3>1
    <3>3. overlap[i] * 100 >= least
      BY <1>4, <2>7
    <3> QED
      BY <2>6, <3>2, <3>3
  <2>9. removed.columns \cap new[order[i]].columns # {}
    BY <2>5, <2>8, FS_EmptySet
  <2> QED
    BY <2>1, <2>4, <2>5, <2>6, <2>9
<1>8. fits # {}
  BY <1>6
<1>9. IsFiniteSet(fits)
  <2>1. fits \in SUBSET DOMAIN order
    BY <1>4
  <2> QED
    BY <1>1, <2>1, FS_Subset
<1>10. PICK R : R = {p \in fits \X fits : overlap[p[1]] * wider[p[2]] > overlap[p[2]] * wider[p[1]]}
  OBVIOUS
<1>11. \A i, j \in fits : <<i, j>> \in R <=> overlap[i] * wider[j] > overlap[j] * wider[i]
  BY <1>10
<1>12. PICK m \in fits : \A n \in fits : <<n, m>> \notin R
  <2>1. ASSUME NEW i \in fits PROVE <<i, i>> \notin R
    <3>1. overlap[i] \in Nat /\ wider[i] \in Nat
      BY <1>7
    <3>2. overlap[i] * wider[i] \in Nat
      BY <3>1
    <3> QED
      BY <1>11, <3>2
  <2>2. ASSUME NEW i \in fits, NEW j \in fits, NEW k \in fits, <<i, j>> \in R, <<j, k>> \in R
        PROVE  <<i, k>> \in R
    <3>1. /\ overlap[i] \in Nat /\ wider[i] \in Nat \ {0}
          /\ overlap[j] \in Nat /\ wider[j] \in Nat \ {0}
          /\ overlap[k] \in Nat /\ wider[k] \in Nat \ {0}
      BY <1>7
    <3>2. /\ overlap[i] * wider[j] > overlap[j] * wider[i]
          /\ overlap[j] * wider[k] > overlap[k] * wider[j]
      BY <1>11, <2>2
    <3>3. overlap[i] * wider[k] > overlap[k] * wider[i]
      BY <3>1, <3>2, RatiosTransitive
    <3> QED
      BY <1>11, <3>3
  <2> QED
    BY <1>8, <1>9, <2>1, <2>2, FirstExists
<1>13. m \in best
  <2>1. ASSUME NEW n \in fits PROVE overlap[m] * wider[n] >= overlap[n] * wider[m]
    <3>1. ~(overlap[n] * wider[m] > overlap[m] * wider[n])
      BY <1>11, <1>12
    <3>2. /\ overlap[m] \in Nat /\ wider[m] \in Nat
          /\ overlap[n] \in Nat /\ wider[n] \in Nat
      BY <1>7
    <3>3. overlap[m] * wider[n] \in Nat /\ overlap[n] * wider[m] \in Nat
      BY <3>2
    <3> QED
      BY <3>1, <3>3
  <2> QED
    BY <1>5, <2>1
<1>14. Min(best) \in best
  <2>1. best \in SUBSET fits /\ best # {}
    BY <1>5, <1>13
  <2>2. IsFiniteSet(best)
    BY <1>9, <2>1, FS_Subset
  <2>3. best \subseteq Int
    BY <1>1, <1>4, <2>1
  <2> QED
    BY <2>1, <2>2, <2>3, MinLeast
<1>15. Min(best) \in fits
  BY <1>5, <1>14
<1> QED
  BY <1>6, <1>7, <1>8, <1>15

\* The tables events name, those reported as added, and those that have changed.
EventTables(events) == {e.table : e \in events}
AddedTables(events) == {e.table : e \in {e \in events : e.type = "table_added"}}
ChangedTables(old, new) ==
  {name \in DOMAIN old :
     \/ name \notin DOMAIN new
     \/ <<old[name].columns, Schema!RelationshipSignature(old[name])>>
          # <<new[name].columns, Schema!RelationshipSignature(new[name])>>}

\* What makes the events of a comparison exact.
ExactEvents(old, new, events) ==
  /\ EventTables(events) \ AddedTables(events) = ChangedTables(old, new)
  /\ AddedTables(events) \subseteq DOMAIN new \ DOMAIN old
  /\ \A name \in (DOMAIN new \ DOMAIN old) \ AddedTables(events) : \E was \in DOMAIN old :
       /\ was \notin DOMAIN new /\ old[was].columns \cap new[name].columns # {}
       /\ Schema!Event("table_renamed_likely", was) \in events
  /\ (\A name \in DOMAIN old : name \in DOMAIN new /\ old[name].columns = new[name].columns)
       /\ DOMAIN new \subseteq DOMAIN old
     => \A e \in events : e.type = "relationship_changed"

\* The comparison of two snapshots is exact, whichever way the added tables are walked.
LEMMA ComparisonExact ==
  ASSUME NEW old, NEW new, Snapshot(old), Snapshot(new),
         NEW order \in SetToSeqs(DOMAIN new \ DOMAIN old), NEW events,
         events = Schema!CompareSnapshots(old, new, order)
  PROVE  ExactEvents(old, new, events)
<1>0. PICK added : added = AddedTables(events)
  OBVIOUS
<1>1. PICK gone : gone = DOMAIN old \ DOMAIN new
  OBVIOUS
<1>2. PICK fresh : fresh = DOMAIN new \ DOMAIN old
  OBVIOUS
<1>3. PICK target : target = [name \in gone |-> Schema!RenameTarget(old[name], new, order)]
  OBVIOUS
<1>4. PICK renamed : renamed = {name \in gone : target[name] # None}
  OBVIOUS
<1>5. events = {Schema!Event("table_renamed_likely", name) : name \in renamed}
               \cup {Schema!Event("table_removed", name) : name \in gone \ renamed}
               \cup {Schema!Event("table_added", name) :
                       name \in fresh \ {target[n] : n \in renamed}}
               \cup UNION {Schema!TableEvents(name, old[name], new[name]) :
                             name \in DOMAIN old \cap DOMAIN new}
  BY <1>1, <1>2, <1>3, <1>4, ZenonT(40) DEF Schema!CompareSnapshots
<1>6. ASSUME NEW name \in renamed
      PROVE  target[name] \in fresh /\ old[name].columns \cap new[target[name]].columns # {}
  <2>1. name \in gone /\ name \in DOMAIN old /\ target[name] # None
    BY <1>1, <1>4
  <2>2. IsFiniteSet(old[name].columns)
    BY <2>1 DEF Snapshot
  <2>3. fresh \in SUBSET DOMAIN new /\ IsFiniteSet(fresh) /\ None \notin fresh
    BY <1>2, FS_Subset DEF Snapshot
  <2>4. \A n \in fresh : IsFiniteSet(new[n].columns)
    BY <1>2 DEF Snapshot
  <2>5. order \in SetToSeqs(fresh) /\ target[name] = Schema!RenameTarget(old[name], new, order)
    BY <1>2, <1>3, <2>1
  <2> QED
    BY <2>1, <2>2, <2>3, <2>4, <2>5, RenameTargetSound
<1>7. ASSUME NEW name \in DOMAIN old \cap DOMAIN new
      PROVE  /\ \A e \in Schema!TableEvents(name, old[name], new[name]) :
                  /\ e.table = name /\ e.type # "table_added"
                  /\ old[name].columns = new[name].columns => e.type = "relationship_changed"
             /\ Schema!TableEvents(name, old[name], new[name]) = {} <=>
                  /\ old[name].columns = new[name].columns
                  /\ Schema!RelationshipSignature(old[name])
                       = Schema!RelationshipSignature(new[name])
  <2>1. Columns(old[name].columns) /\ Columns(new[name].columns)
    BY DEF Snapshot, Columns
  <2> QED
    BY <2>1, TableEventsExact
<1>8. added = fresh \ {target[n] : n \in renamed}
  <2>1. ASSUME NEW name \in fresh \ {target[n] : n \in renamed} PROVE name \in added
    <3>1. Schema!Event("table_added", name) \in events
      BY <1>5
    <3> QED
      BY <1>0, <3>1, EventParts DEF AddedTables
  <2>2. ASSUME NEW name \in added PROVE name \in fresh \ {target[n] : n \in renamed}
    <3>1. PICK e \in events : e.type = "table_added" /\ e.table = name
      BY <1>0 DEF AddedTables
    <3>2. e \notin {Schema!Event("table_renamed_likely", n) : n \in renamed}
      BY <3>1, EventParts
    <3>3. e \notin {Schema!Event("table_removed", n) : n \in gone \ renamed}
      BY <3>1, EventParts
    <3>4. e \notin UNION {Schema!TableEvents(n, old[n], new[n]) : n \in DOMAIN old \cap DOMAIN new}
      BY <1>7, <3>1
    <3>5. PICK n \in fresh \ {target[n] : n \in renamed} : e = Schema!Event("table_added", n)
      BY <1>5, <3>2, <3>3, <3>4
    <3> QED
      BY <3>1, <3>5, EventParts
  <2> QED
    BY <2>1, <2>2
<1>9. ASSUME NEW name \in DOMAIN old
      PROVE  name \in EventTables(events) <=> name \in ChangedTables(old, new)
  <2>1. CASE name \notin DOMAIN new
    <3>1. \/ Schema!Event("table_renamed_likely", name) \in events
          \/ Schema!Event("table_removed", name) \in events
      BY <1>1, <1>5, <2>1
    <3> QED
      BY <2>1, <3>1, EventParts DEF EventTables, ChangedTables
  <2>2. CASE name \in DOMAIN new
    <3>1. name \in EventTables(events) <=>
            Schema!TableEvents(name, old[name], new[name]) # {}
      <4>1. ASSUME NEW e \in events, e.table = name
            PROVE  e \in Schema!TableEvents(name, old[name], new[name])
        <5>1. e \notin {Schema!Event("table_renamed_likely", n) : n \in renamed}
          BY <1>1, <1>4, <2>2, <4>1, EventParts
        <5>2. e \notin {Schema!Event("table_removed", n) : n \in gone \ renamed}
          BY <1>1, <2>2, <4>1, EventParts
        <5>3. e \notin {Schema!Event("table_added", n) :
                          n \in fresh \ {target[k] : k \in renamed}}
          BY <1>2, <2>2, <4>1, EventParts
        <5>4. PICK n \in DOMAIN old \cap DOMAIN new :
                e \in Schema!TableEvents(n, old[n], new[n])
          BY <1>5, <5>1, <5>2, <5>3
        <5> QED
          BY <1>7, <4>1, <5>4
      <4>2. ASSUME NEW e \in Schema!TableEvents(name, old[name], new[name])
            PROVE  e \in events /\ e.table = name
        BY <1>5, <1>7, <2>2
      <4> QED
        BY <4>1, <4>2 DEF EventTables
    <3>2. name \in DOMAIN old \cap DOMAIN new
      BY <2>2
    <3> QED
      BY <1>7, <2>2, <3>1, <3>2 DEF ChangedTables
  <2> QED
    BY <2>1, <2>2
<1>10. ASSUME NEW name \in EventTables(events), name \notin DOMAIN old
       PROVE  name \in added
  <2>1. PICK e \in events : e.table = name
    BY DEF EventTables
  <2>2. e \notin {Schema!Event("table_renamed_likely", n) : n \in renamed}
    BY <1>1, <1>4, <1>10, <2>1, EventParts
  <2>3. e \notin {Schema!Event("table_removed", n) : n \in gone \ renamed}
    BY <1>1, <1>10, <2>1, EventParts
  <2>4. e \notin UNION {Schema!TableEvents(n, old[n], new[n]) : n \in DOMAIN old \cap DOMAIN new}
    BY <1>7, <1>10, <2>1
  <2>5. e \in {Schema!Event("table_added", n) : n \in fresh \ {target[n] : n \in renamed}}
    BY <1>5, <2>2, <2>3, <2>4
  <2> QED
    BY <1>8, <2>1, <2>5, EventParts
<1>11. added \subseteq fresh
  BY <1>8
<1>12. EventTables(events) \ added = ChangedTables(old, new)
  <2>1. ChangedTables(old, new) \subseteq DOMAIN old
    BY DEF ChangedTables
  <2>2. added \cap DOMAIN old = {}
    BY <1>2, <1>11
  <2> QED
    BY <1>9, <1>10, <2>1, <2>2
<1>13. ASSUME NEW name \in fresh \ added
       PROVE  \E was \in DOMAIN old :
                /\ was \notin DOMAIN new /\ old[was].columns \cap new[name].columns # {}
                /\ Schema!Event("table_renamed_likely", was) \in events
  <2>1. PICK was \in renamed : name = target[was]
    BY <1>8
  <2>2. was \in DOMAIN old /\ was \notin DOMAIN new
    BY <1>1, <1>4
  <2>3. Schema!Event("table_renamed_likely", was) \in events
    BY <1>5
  <2> QED
    BY <1>6, <2>1, <2>2, <2>3
<1>14. ASSUME \A name \in DOMAIN old : name \in DOMAIN new /\ old[name].columns = new[name].columns,
              DOMAIN new \subseteq DOMAIN old, NEW e \in events
       PROVE  e.type = "relationship_changed"
  <2>1. gone = {} /\ fresh = {} /\ renamed = {}
    BY <1>1, <1>2, <1>4, <1>14
  <2>2. PICK n \in DOMAIN old \cap DOMAIN new : e \in Schema!TableEvents(n, old[n], new[n])
    BY <1>5, <2>1
  <2> QED
    BY <1>7, <1>14, <2>2
<1> QED
  BY <1>0, <1>2, <1>11, <1>12, <1>13, <1>14 DEF ExactEvents

\* Drift is neither missed nor invented, by the events or by the fingerprints.
THEOREM DriftReportedHolds == RulesSpec => []DriftReported
<1>1. ASSUME RulesInv, Done("drift") PROVE ExactEvents(input.old, input.new, output)
  <2>1. PICK order \in SetToSeqs(DOMAIN input.new \ DOMAIN input.old) :
          output = Schema!CompareSnapshots(input.old, input.new, order)
    BY <1>1 DEF Done, RulesInv, OneRoundInv
  <2>2. Snapshot(input.old) /\ Snapshot(input.new)
    BY <1>1, InputAssumption DEF Done, RulesInv
  <2> QED
    BY <2>1, <2>2, ComparisonExact
<1>2. RulesInv => DriftExact
  BY <1>1 DEF DriftExact, ExactEvents, EventTables, AddedTables, ChangedTables
<1>3. ASSUME RulesInv PROVE FingerprintCoversDrift
  <2> SUFFICES ASSUME Done("drift"),
                      Schema!ComputeFingerprints(input.old) = Schema!ComputeFingerprints(input.new)
               PROVE  \A e \in output : e.type = "relationship_changed"
    BY DEF FingerprintCoversDrift
  <2>1. DOMAIN input.old = DOMAIN input.new
    BY DEF Schema!ComputeFingerprints
  <2>2. ASSUME NEW name \in DOMAIN input.old
        PROVE  input.old[name].columns = input.new[name].columns
    <3>1. Schema!FingerprintTable(input.old[name]) = Schema!FingerprintTable(input.new[name])
      BY <2>1 DEF Schema!ComputeFingerprints
    <3> QED
      BY <3>1 DEF Schema!FingerprintTable
  <2> QED
    BY <1>1, <1>3, <2>1, <2>2 DEF ExactEvents
<1>4. RulesInv => DriftReported
  BY <1>2, <1>3 DEF DriftReported
<1> QED
  BY <1>4, RulesInvariance, PTL

-----------------------------------------------------------------------------
(* The encoded history.                                                    *)

\* The elements of a sequence.
Elements(s) == {s[k] : k \in 1..Len(s)}

\* A position lies in the block of one relation.
LEMMA PositionOf ==
  ASSUME NEW M \in Nat \ {0}, NEW n \in Nat, NEW p \in 1..(n * M)
  PROVE  (p - 1) \div M + 1 \in 1..n /\ ((p - 1) % M) + 1 \in 1..M
<1>1. PICK a : a = p - 1
  OBVIOUS
<1>2. a \in 0..(n * M - 1)
  BY <1>1
<1>3. a \div M \in 0..(n - 1)
  BY <1>2
<1>4. a % M \in 0..(M - 1)
  BY <1>2
<1> QED
  BY <1>1, <1>3, <1>4

\* Some position holds slot k of block i.
HasPosition(M, n, i, k) ==
  \E p \in 1..(n * M) : (p - 1) \div M + 1 = i /\ ((p - 1) % M) + 1 = k

\* Every slot of every block is a position.
LEMMA PositionFor ==
  ASSUME NEW M \in Nat \ {0}, NEW n \in Nat, NEW i \in 1..n, NEW k \in 1..M
  PROVE  HasPosition(M, n, i, k)
<1> DEFINE p == (i - 1) * M + k
<1>1. PICK q, r : q = i - 1 /\ r = k - 1
  OBVIOUS
<1>2. q \in 0..(n - 1) /\ r \in 0..(M - 1)
  BY <1>1
<1>3. (q * M + r) \div M = q /\ (q * M + r) % M = r
  BY <1>2
<1>4. q * M + r \in 0..(n * M - 1)
  <2>1. q * M <= (n - 1) * M
    BY <1>2
  <2>2. (n - 1) * M = n * M - M
    OBVIOUS
  <2>3. q * M \in Nat /\ n * M \in Nat
    BY <1>2
  <2> QED
    BY <1>2, <2>1, <2>2, <2>3
<1>5. PICK a : a = q * M + r
  OBVIOUS
<1>6. p = a + 1 /\ a \in Nat
  BY <1>1, <1>2, <1>4, <1>5
<1> HIDE DEF p
<1>7. p - 1 = a
  BY <1>6
<1>8. p \in 1..(n * M)
  <2>1. n * M \in Nat
    OBVIOUS
  <2> QED
    BY <1>4, <1>5, <1>6, <2>1
<1>9. (p - 1) \div M + 1 = i /\ ((p - 1) % M) + 1 = k
  BY <1>1, <1>3, <1>5, <1>7
<1> QED
  BY <1>8, <1>9 DEF HasPosition

\* The relations have names of their own.
LEMMA RelationNames ==
  /\ Len(RelationSpecs) = 6 /\ DOMAIN RelationSpecs = 1..6
  /\ \A i \in 1..6 : RelationSpecs[i].relationship \notin {"__target__", "__pad__"}
  /\ \A i, j \in 1..6 : RelationSpecs[i].relationship = RelationSpecs[j].relationship => i = j
BY DEF RelationSpecs, Relation

\* The records encoded for a relation.
Block(encoded, relationship) ==
  {encoded[s].record : s \in {s \in DOMAIN encoded : encoded[s].relationship = relationship}}

\* encode_batch writes the target first.
LEMMA TargetFirst ==
  ASSUME NEW target, NEW related
  PROVE  Encode(target, related)[0].record = target
<1>1. 0 \in 0..(Len(RelationSpecs) * MaxRecords)
  BY ModelRulesAssumption, RelationNames
<1> QED
  BY <1>1 DEF Encode, Token

\* What encode_batch writes for one relation are its records.
LEMMA BlockExact ==
  ASSUME NEW target, NEW related, NEW i \in 1..6, Len(related[i]) \in 0..MaxRecords,
         NEW encoded, encoded = Encode(target, related)
  PROVE  Block(encoded, RelationSpecs[i].relationship) = Elements(related[i])
<1>1. MaxRecords \in Nat \ {0} /\ Len(RelationSpecs) * MaxRecords = 6 * MaxRecords
  BY ModelRulesAssumption, RelationNames
<1>2. PICK owner : owner = [p \in 1..(6 * MaxRecords) |-> (p - 1) \div MaxRecords + 1]
  OBVIOUS
<1>3. PICK slot : slot = [p \in 1..(6 * MaxRecords) |-> ((p - 1) % MaxRecords) + 1]
  OBVIOUS
<1>4. /\ DOMAIN encoded = 0..(6 * MaxRecords)
      /\ encoded[0] = Token("__target__", target)
      /\ \A p \in 1..(6 * MaxRecords) : encoded[p] =
           IF slot[p] <= Len(related[owner[p]])
           THEN Token(RelationSpecs[owner[p]].relationship, related[owner[p]][slot[p]])
           ELSE Padding
  <2>1. 6 * MaxRecords \in Nat
    BY <1>1
  <2>2. DOMAIN encoded = 0..(6 * MaxRecords)
    BY <1>1 DEF Encode
  <2>3. encoded[0] = Token("__target__", target)
    BY <1>1, <2>1 DEF Encode
  <2>4. ASSUME NEW p \in 1..(6 * MaxRecords)
        PROVE  encoded[p] =
                 IF slot[p] <= Len(related[owner[p]])
                 THEN Token(RelationSpecs[owner[p]].relationship, related[owner[p]][slot[p]])
                 ELSE Padding
    <3>1. p \in 0..(6 * MaxRecords) /\ p # 0
      BY <2>1
    <3>2. owner[p] = (p - 1) \div MaxRecords + 1 /\ slot[p] = ((p - 1) % MaxRecords) + 1
      BY <1>2, <1>3
    <3> QED
      BY <1>1, <3>1, <3>2 DEF Encode
  <2> QED
    BY <2>2, <2>3, <2>4
<1>5. ASSUME NEW p \in 1..(6 * MaxRecords)
      PROVE  owner[p] \in 1..6 /\ slot[p] \in 1..MaxRecords
  BY <1>1, <1>2, <1>3, PositionOf
<1>6. ASSUME NEW s \in DOMAIN encoded, encoded[s].relationship = RelationSpecs[i].relationship
      PROVE  \E k \in 1..Len(related[i]) : encoded[s].record = related[i][k]
  <2>1. s # 0
    BY <1>4, <1>6, RelationNames DEF Token
  <2>2. s \in 1..(6 * MaxRecords)
    BY <1>1, <1>4, <2>1
  <2>3. slot[s] <= Len(related[owner[s]])
    <3>1. Padding.relationship = "__pad__"
      BY DEF Padding, Token
    <3>2. encoded[s] # Padding
      BY <1>6, <3>1, RelationNames
    <3> QED
      BY <1>4, <2>2, <3>2
  <2>4. encoded[s] = Token(RelationSpecs[owner[s]].relationship, related[owner[s]][slot[s]])
    BY <1>4, <2>2, <2>3
  <2>5. owner[s] = i
    BY <1>5, <1>6, <2>2, <2>4, RelationNames DEF Token
  <2>6. slot[s] \in 1..Len(related[i])
    BY <1>1, <1>5, <2>2, <2>3, <2>5
  <2> QED
    BY <2>4, <2>5, <2>6 DEF Token
<1>7. ASSUME NEW k \in 1..Len(related[i])
      PROVE  \E s \in DOMAIN encoded : /\ encoded[s].relationship = RelationSpecs[i].relationship
                                       /\ encoded[s].record = related[i][k]
  <2>1. PICK n \in Nat : n = 6
    OBVIOUS
  <2>2. i \in 1..n /\ k \in 1..MaxRecords
    BY <1>1, <2>1
  <2>3. PICK p \in 1..(6 * MaxRecords) :
          (p - 1) \div MaxRecords + 1 = i /\ ((p - 1) % MaxRecords) + 1 = k
    <3>1. HasPosition(MaxRecords, n, i, k)
      BY <1>1, <2>2, PositionFor
    <3> QED
      BY <2>1, <3>1 DEF HasPosition
  <2>4. owner[p] = i /\ slot[p] = k
    BY <1>2, <1>3, <2>3
  <2>5. encoded[p] = Token(RelationSpecs[i].relationship, related[i][k])
    BY <1>4, <2>3, <2>4
  <2>6. p \in DOMAIN encoded
    BY <1>1, <1>4, <2>3
  <2> QED
    BY <2>5, <2>6 DEF Token
<1>8. \A r : r \in Block(encoded, RelationSpecs[i].relationship) <=>
              \E s \in DOMAIN encoded : /\ encoded[s].relationship = RelationSpecs[i].relationship
                                       /\ r = encoded[s].record
  BY DEF Block
<1>9. \A r : r \in Elements(related[i]) <=> \E k \in 1..Len(related[i]) : r = related[i][k]
  BY DEF Elements
<1>10. ASSUME NEW r PROVE r \in Block(encoded, RelationSpecs[i].relationship)
                            <=> r \in Elements(related[i])
  <2>1. r \in Block(encoded, RelationSpecs[i].relationship) => r \in Elements(related[i])
    BY <1>6, <1>8, <1>9
  <2>2. r \in Elements(related[i]) => r \in Block(encoded, RelationSpecs[i].relationship)
    BY <1>7, <1>8, <1>9
  <2> QED
    BY <2>1, <2>2
<1> QED
  BY <1>10

\* The sequences of a finite set list exactly its elements.
LEMMA SetToSeqsRange ==
  ASSUME NEW S, IsFiniteSet(S), NEW s \in SetToSeqs(S)
  PROVE  Len(s) = Cardinality(S) /\ Elements(s) = S
<1>1. PICK n : n = Cardinality(S)
  OBVIOUS
<1>2. n \in Nat
  BY <1>1, FS_CardinalityType
<1>3. s \in [1..n -> S] /\ \A i, j \in 1..n : i # j => s[i] # s[j]
  BY <1>1 DEF SetToSeqs
<1>4. s \in Seq(S) /\ Len(s) = n
  BY <1>2, <1>3, SeqDef, LenProperties
<1>5. s \in Injection(1..n, S)
  BY <1>3 DEF Injection, IsInjective
<1>6. Cardinality(1..n) = n
  BY <1>2, FS_Interval
<1>7. s \in Surjection(1..n, S)
  BY <1>1, <1>5, <1>6, FS_Injection
<1>8. {s[k] : k \in 1..n} = S
  BY <1>3, <1>7 DEF Surjection
<1> QED
  BY <1>1, <1>4, <1>8 DEF Elements

\* What an answer of a relation with a key and a timestamp holds.
LEMMA TimedAnswer ==
  ASSUME NEW source, NEW docs, NEW row, NEW p, NEW spec,
         IsFiniteSet(source[spec.entity]), docs[spec.entity] # None, row[spec.key] # None,
         Mapped(docs[spec.entity], spec.key), Mapped(docs[spec.entity], spec.stamp),
         NEW answer \in RelatedAnswers(source, docs, row, p, spec),
         NEW S, S = Elements(answer)
  PROVE  /\ Len(answer) \in 0..MaxRecords
         /\ \A r \in S : Before(r[spec.stamp], p)
         /\ \A r \in source[spec.entity] \ S :
              r[spec.key] = row[spec.key] /\ Before(r[spec.stamp], p) =>
                /\ Cardinality(S) = MaxRecords
                /\ \A q \in S : q[spec.stamp] >= r[spec.stamp]
<1>1. PICK doc : doc = docs[spec.entity]
  OBVIOUS
<1>2. PICK fit : fit = {r \in source[spec.entity] :
                          r[spec.key] = row[spec.key] /\ Before(r[spec.stamp], p)}
  OBVIOUS
<1>3. Records(source[spec.entity], doc, spec.key, row[spec.key], spec.stamp, p) = fit
  BY <1>1, <1>2 DEF Records
<1>4. PICK T \in RelatedRecords(source[spec.entity], doc, spec.key, row[spec.key], spec.stamp, p,
                                MaxRecords) : answer \in SetToSeqs(T)
  BY <1>1 DEF RelatedAnswers
<1>5. /\ T \in SUBSET fit /\ Cardinality(T) = Min({MaxRecords, Cardinality(fit)})
      /\ \A r \in T, s \in fit \ T : r[spec.stamp] >= s[spec.stamp]
  BY <1>1, <1>3, <1>4 DEF RelatedRecords
<1>6. IsFiniteSet(fit) /\ Cardinality(fit) \in Nat
  <2>1. fit \in SUBSET source[spec.entity]
    BY <1>2
  <2> QED
    BY <2>1, FS_Subset, FS_CardinalityType
<1>7. /\ IsFiniteSet(T) /\ Cardinality(T) \in Nat /\ Cardinality(T) <= Cardinality(fit)
      /\ Cardinality(T) = Cardinality(fit) => T = fit
  BY <1>5, <1>6, FS_Subset, FS_CardinalityType
<1>8. /\ Cardinality(T) <= MaxRecords
      /\ Cardinality(T) = MaxRecords \/ Cardinality(T) = Cardinality(fit)
  <2>1. PICK pair : pair = {MaxRecords, Cardinality(fit)}
    OBVIOUS
  <2>2. IsFiniteSet(pair)
    <3>1. IsFiniteSet({Cardinality(fit)})
      BY FS_Singleton
    <3>2. IsFiniteSet({Cardinality(fit)} \cup {MaxRecords})
      BY <3>1, FS_AddElement
    <3>3. pair = {Cardinality(fit)} \cup {MaxRecords}
      BY <2>1
    <3> QED
      BY <3>2, <3>3
  <2>3. pair # {} /\ pair \subseteq Int
    BY <1>6, <2>1, ModelRulesAssumption
  <2>4. Min(pair) \in pair /\ \A y \in pair : Min(pair) <= y
    BY <2>2, <2>3, MinLeast
  <2>5. Cardinality(T) = Min(pair)
    BY <1>5, <2>1
  <2>6. MaxRecords \in pair
    BY <2>1
  <2> QED
    BY <2>1, <2>4, <2>5, <2>6
<1>9. Len(answer) = Cardinality(T) /\ S = T
  BY <1>4, <1>7, SetToSeqsRange
<1>10. Len(answer) \in 0..MaxRecords
  BY <1>7, <1>8, <1>9, ModelRulesAssumption
<1>11. \A r \in S : Before(r[spec.stamp], p)
  BY <1>2, <1>5, <1>9
<1>12. ASSUME NEW r \in source[spec.entity] \ S, r[spec.key] = row[spec.key],
              Before(r[spec.stamp], p)
       PROVE  Cardinality(S) = MaxRecords /\ \A q \in S : q[spec.stamp] >= r[spec.stamp]
  <2>1. r \in fit \ T
    BY <1>2, <1>9, <1>12
  <2>2. Cardinality(T) # Cardinality(fit)
    BY <1>7, <2>1
  <2> QED
    BY <1>5, <1>8, <1>9, <2>1, <2>2
<1> QED
  BY <1>10, <1>11, <1>12

\* The related history of a target is encoded as of the prediction time.
LEMMA HistoryEncodedOf ==
  ASSUME RulesInv
  PROVE  HistoryEncoded
<1> SUFFICES ASSUME Done("context"), Len(output) = Len(RelationSpecs) PROVE HistoryEncoded
  BY DEF HistoryEncoded
<1>1. /\ input.kind = "context" /\ input \in Inputs
      /\ \A i \in 1..6 : output[i] \in RelatedAnswers(input.db, input.docs, input.row,
                                                     input.time, RelationSpecs[i])
  BY RelationNames DEF Done, RulesInv, ContextInv
<1>2. ASSUME NEW i \in DOMAIN RelationSpecs, NEW spec, spec = RelationSpecs[i],
             NEW doc, doc = input.docs[spec.entity], doc # None, input.row[spec.key] # None,
             Mapped(doc, spec.key), Mapped(doc, spec.stamp), NEW encoded,
             encoded = Encode(input.row, output), NEW block,
             block = {encoded[s].record : s \in {s \in DOMAIN encoded :
                        encoded[s].relationship = spec.relationship}}
      PROVE  /\ \A r \in block : Before(r[spec.stamp], input.time)
             /\ \A r \in input.db[spec.entity] \ block :
                  r[spec.key] = input.row[spec.key] /\ Before(r[spec.stamp], input.time) =>
                    /\ Cardinality(block) = MaxRecords
                    /\ \A q \in block : q[spec.stamp] >= r[spec.stamp]
  <2>1. i \in 1..6 /\ output[i] \in RelatedAnswers(input.db, input.docs, input.row, input.time, spec)
    BY <1>1, <1>2, RelationNames
  <2>2. IsFiniteSet(input.db[spec.entity])
    BY <1>1, <1>2, InputAssumption
  <2>3. PICK S : S = Elements(output[i])
    OBVIOUS
  <2>4. /\ Len(output[i]) \in 0..MaxRecords
        /\ \A r \in S : Before(r[spec.stamp], input.time)
        /\ \A r \in input.db[spec.entity] \ S :
             r[spec.key] = input.row[spec.key] /\ Before(r[spec.stamp], input.time) =>
               /\ Cardinality(S) = MaxRecords
               /\ \A q \in S : q[spec.stamp] >= r[spec.stamp]
    <3>1. /\ input.docs[spec.entity] # None /\ Mapped(input.docs[spec.entity], spec.key)
          /\ Mapped(input.docs[spec.entity], spec.stamp)
      BY <1>2
    <3>2. input.row[spec.key] # None
      BY <1>2
    <3> QED
      BY <2>1, <2>2, <2>3, <3>1, <3>2, TimedAnswer
  <2>5. block = S
    <3>1. block = Block(encoded, RelationSpecs[i].relationship)
      BY <1>2 DEF Block
    <3>2. Block(encoded, RelationSpecs[i].relationship) = Elements(output[i])
      BY <1>2, <2>1, <2>4, BlockExact
    <3> QED
      BY <2>3, <3>1, <3>2
  <2> QED
    BY <2>4, <2>5
<1>3. Encode(input.row, output)[0].record = input.row
  BY TargetFirst
<1> QED
  BY <1>2, <1>3, ZenonT(40) DEF HistoryEncoded

\* No record at or after the prediction time is encoded, and no earlier one left out is newer.
THEOREM HistoryEncodedHolds == RulesSpec => []HistoryEncoded
  BY RulesInvariance, HistoryEncodedOf, PTL

-----------------------------------------------------------------------------
(* The fleet.                                                              *)

Earlier(S, m) == {j \in S : j < m}
Segment(T, S) == T \subseteq S /\ \A t \in T : \A u \in S \ T : t < u

\* The element after an initial segment is the one with the segment before it.
LEMMA NextRank ==
  ASSUME NEW S, IsFiniteSet(S), S \subseteq Nat, NEW T, Segment(T, S),
         Cardinality(T) < Cardinality(S)
  PROVE  \E m, U : /\ m \in S /\ Earlier(S, m) = T /\ Segment(U, S)
                  /\ Cardinality(U) = Cardinality(T) + 1
<1>0. T \subseteq S /\ \A t \in T : \A u \in S \ T : t < u
  BY DEF Segment
<1>1. IsFiniteSet(T) /\ IsFiniteSet(S \ T) /\ Cardinality(T) \in Nat
  BY <1>0, FS_Subset, FS_CardinalityType
<1>2. S \ T # {}
  <2> SUFFICES ASSUME S \ T = {} PROVE FALSE
    OBVIOUS
  <2>1. S = T
    BY <1>0
  <2> QED
    BY <1>1, <2>1
<1>3. PICK m \in S \ T : \A u \in S \ T : m <= u
  <2>1. \A x \in S \ T : x \in Int
    OBVIOUS
  <2>2. S \ T \subseteq Int
    BY <2>1
  <2> QED
    BY <1>1, <1>2, <2>2, MinLeast
<1>4. m \in Nat
  BY <1>3
<1>5. Earlier(S, m) = T
  <2>1. ASSUME NEW j \in S PROVE j < m <=> j \in T
    <3>1. CASE j \in T
      BY <1>0, <1>3, <3>1
    <3>2. CASE j \notin T
      <4>1. j \in Nat /\ m <= j
        BY <1>3, <3>2
      <4> QED
        BY <1>4, <3>2, <4>1
    <3> QED
      BY <3>1, <3>2
  <2> QED
    BY <1>0, <2>1 DEF Earlier
<1>6. Segment(T \cup {m}, S)
  <2>1. ASSUME NEW t \in T \cup {m}, NEW u \in S \ (T \cup {m}) PROVE t < u
    <3>1. u \in S \ T /\ u # m /\ u \in Nat
      BY <2>1
    <3>2. m <= u
      BY <1>3, <3>1
    <3> QED
      BY <1>0, <1>4, <3>1, <3>2
  <2> QED
    BY <1>0, <1>3, <2>1 DEF Segment
<1>7. Cardinality(T \cup {m}) = Cardinality(T) + 1
  BY <1>1, <1>3, FS_AddElement
<1> QED
  BY <1>3, <1>5, <1>6, <1>7

\* Of four completed trips there is one with each number of completed trips before it.
LEMMA FirstFour ==
  ASSUME NEW S, IsFiniteSet(S), S \subseteq Nat, Cardinality(S) >= 4, NEW n \in 0..3
  PROVE  \E i \in S : Cardinality(Earlier(S, i)) = n
<1>1. Cardinality(S) \in Nat /\ Cardinality({}) = 0 /\ Segment({}, S)
  BY FS_CardinalityType, FS_EmptySet DEF Segment
<1>2. PICK a, A : /\ a \in S /\ Earlier(S, a) = {} /\ Segment(A, S)
                 /\ Cardinality(A) = 1
  <2>1. Cardinality({}) = 0 /\ Cardinality({}) < Cardinality(S)
    BY <1>1
  <2>2. \E m, U : /\ m \in S /\ Earlier(S, m) = {} /\ Segment(U, S)
                 /\ Cardinality(U) = Cardinality({}) + 1
    BY <1>1, <2>1, NextRank, Zenon
  <2> QED
    BY <2>1, <2>2
<1>3. PICK b, B : /\ b \in S /\ Earlier(S, b) = A /\ Segment(B, S)
                 /\ Cardinality(B) = 2
  <2>1. Cardinality(A) = 1 /\ Cardinality(A) < Cardinality(S)
    BY <1>1, <1>2
  <2>2. \E m, U : /\ m \in S /\ Earlier(S, m) = A /\ Segment(U, S)
                 /\ Cardinality(U) = Cardinality(A) + 1
    BY <1>1, <1>2, <2>1, NextRank, Zenon
  <2> QED
    BY <2>1, <2>2
<1>4. PICK c, C : /\ c \in S /\ Earlier(S, c) = B /\ Segment(C, S)
                 /\ Cardinality(C) = 3
  <2>1. Cardinality(B) = 2 /\ Cardinality(B) < Cardinality(S)
    BY <1>1, <1>3
  <2>2. \E m, U : /\ m \in S /\ Earlier(S, m) = B /\ Segment(U, S)
                 /\ Cardinality(U) = Cardinality(B) + 1
    BY <1>1, <1>3, <2>1, NextRank, Zenon
  <2> QED
    BY <2>1, <2>2
<1>5. PICK d \in S : Earlier(S, d) = C
  <2>1. Cardinality(C) < Cardinality(S)
    BY <1>1, <1>4
  <2> QED
    BY <1>4, <2>1, NextRank, Zenon
<1>6. /\ Cardinality(Earlier(S, a)) = 0 /\ Cardinality(Earlier(S, b)) = 1
      /\ Cardinality(Earlier(S, c)) = 2 /\ Cardinality(Earlier(S, d)) = 3
  BY <1>1, <1>2, <1>3, <1>4, <1>5
<1> QED
  BY <1>2, <1>3, <1>4, <1>5, <1>6

\* What a set has an element of is counted.
LEMMA Counted ==
  ASSUME NEW S, IsFiniteSet(S), NEW x \in S
  PROVE  Cardinality(S) > 0
BY FS_CardinalityType, FS_EmptySet

\* An outcome is known before the end of the range.
LEMMA OutcomeBeforeEnd ==
  ASSUME NEW draw \in Draws, NEW id, NEW end \in Int
  PROVE  LET trip == Trip(draw, id, end) IN
         trip.actual_arrival_at # None => trip.actual_arrival_at < end
<1> DEFINE trip == Trip(draw, id, end)
<1>1. /\ draw.departure \in Int /\ draw.duration \in 30..450
      /\ draw.delay # None => draw.delay \in (-10)..240
      /\ None \notin Int
  BY FleetAssumption
<1>2. /\ trip.planned_departure_at = draw.departure
      /\ trip.actual_arrival_at = IF ~TooClose(draw.departure, end) /\ draw.delay # None
                                  THEN draw.departure + draw.duration + draw.delay ELSE None
  BY DEF Trip
<1>3. trip.actual_arrival_at # None => trip.actual_arrival_at < end
  <2> SUFFICES ASSUME ~TooClose(draw.departure, end), draw.delay # None
               PROVE  draw.departure + draw.duration + draw.delay < end
    BY <1>2
  <2>1. draw.departure <= end - 1080
    BY <1>1 DEF TooClose, CutoffMinutes
  <2>2. draw.duration <= 450 /\ draw.delay <= 240 /\ draw.duration \in Int /\ draw.delay \in Int
    BY <1>1
  <2> QED
    BY <1>1, <2>1, <2>2
<1> QED
  BY <1>1, <1>2, <1>3 DEF Trip

\* The quality report sees each of the four defects.
LEMMA DefectsSeen ==
  ASSUME RulesInv, input.kind = "fleet",
         NEW bad, bad = InjectDefects(output.trips, input.now, input.end), bad # output.trips
  PROVE  /\ InvalidDates(bad) > 0 /\ NegativeDistances(bad) > 0 /\ UnrecognisedStatuses(bad) > 0
         /\ input.now < input.end - 1 => FutureTimestamps(bad, input.now) > 0
         /\ ~QualityPassed(bad, input.now)
<1> DEFINE trips == output.trips
           completed == Completed(trips)
           before(i) == Cardinality({j \in completed : j < i})
<1>1. /\ input.now \in Int /\ input.end \in Int
      /\ DOMAIN trips = 1..Len(trips) /\ Len(trips) \in Nat
      /\ \A i \in 1..Len(trips) : \E draw \in Draws : trips[i] = Trip(draw, i, input.end)
  BY InputAssumption DEF RulesInv, FleetInv
<1>2. completed \subseteq 1..Len(trips) /\ completed \subseteq Nat /\ IsFiniteSet(1..Len(trips))
  <2>1. IsFiniteSet(1..Len(trips))
    <3>1. 1 \in Int /\ Len(trips) \in Int
      BY <1>1
    <3> HIDE DEF trips
    <3> QED
      BY <3>1, FS_Interval
  <2> QED
    BY <1>1, <2>1 DEF Completed
<1>3. IsFiniteSet(completed) /\ Cardinality(completed) \in Nat
  BY <1>2, FS_Subset, FS_CardinalityType
<1>4. /\ Cardinality(completed) >= 4
      /\ bad = [i \in DOMAIN trips |->
                  IF i \in completed THEN Defect(trips[i], before(i), input.now, input.end)
                  ELSE trips[i]]
  BY <1>3 DEF InjectDefects
<1>5. ASSUME NEW n \in 0..3
      PROVE  \E i \in 1..Len(trips) : bad[i] = Defect(trips[i], n, input.now, input.end)
  <2>1. PICK i \in completed : before(i) = n
    BY <1>2, <1>3, <1>4, FirstFour DEF Earlier
  <2>2. i \in DOMAIN trips
    BY <1>1, <1>2
  <2> HIDE DEF trips, completed, before
  <2>3. bad[i] = Defect(trips[i], n, input.now, input.end)
    BY <1>4, <2>1, <2>2
  <2> QED
    BY <1>1, <2>2, <2>3
<1>6. DOMAIN bad = 1..Len(trips)
  BY <1>1, <1>4
<1> HIDE DEF trips, completed, before
<1>7. ASSUME NEW P, P \subseteq DOMAIN bad PROVE IsFiniteSet(P) /\ Cardinality(P) \in Nat
  BY <1>2, <1>6, <1>7, FS_Subset, FS_CardinalityType
<1>8. InvalidDates(bad) > 0
  <2>1. PICK i \in 1..Len(trips) : bad[i] = Defect(trips[i], 0, input.now, input.end)
    BY <1>5
  <2>2. PICK draw \in Draws : trips[i] = Trip(draw, i, input.end)
    BY <1>1 DEF trips
  <2>3. /\ bad[i].planned_departure_at = draw.departure
        /\ bad[i].actual_arrival_at = draw.departure - 60
    BY <2>1, <2>2 DEF Defect, Trip
  <2>4. draw.departure \in Int /\ None \notin Int
    BY FleetAssumption
  <2>5. /\ bad[i].planned_departure_at # None /\ bad[i].actual_arrival_at # None
        /\ bad[i].actual_arrival_at < bad[i].planned_departure_at
    BY <2>3, <2>4
  <2> QED
    BY <1>6, <1>7, <2>5, Counted DEF InvalidDates, CountWhere
<1>9. NegativeDistances(bad) > 0
  <2>1. PICK i \in 1..Len(trips) : bad[i] = Defect(trips[i], 1, input.now, input.end)
    BY <1>5
  <2>2. PICK draw \in Draws : trips[i] = Trip(draw, i, input.end)
    BY <1>1 DEF trips
  <2>3. bad[i].planned_distance_km = -42
    BY <2>1, <2>2 DEF Defect, Trip
  <2>4. bad[i].planned_distance_km # None /\ bad[i].planned_distance_km < 0
    BY <2>3, FleetAssumption
  <2> QED
    BY <1>6, <1>7, <2>4, Counted DEF NegativeDistances, CountWhere
<1>10. UnrecognisedStatuses(bad) > 0
  <2>1. PICK i \in 1..Len(trips) : bad[i] = Defect(trips[i], 2, input.now, input.end)
    BY <1>5
  <2>2. PICK draw \in Draws : trips[i] = Trip(draw, i, input.end)
    BY <1>1 DEF trips
  <2>3. bad[i].status = "delayed_indefinitely"
    BY <2>1, <2>2 DEF Defect, Trip
  <2>4. bad[i].status # None /\ bad[i].status \notin TripStatusValues
    BY <2>3, FleetAssumption DEF TripStatusValues
  <2> QED
    BY <1>6, <1>7, <2>4, Counted DEF UnrecognisedStatuses, CountWhere
<1>11. ASSUME input.now < input.end - 1 PROVE FutureTimestamps(bad, input.now) > 0
  <2>1. PICK i \in 1..Len(trips) : bad[i] = Defect(trips[i], 3, input.now, input.end)
    BY <1>5
  <2>2. PICK draw \in Draws : trips[i] = Trip(draw, i, input.end)
    BY <1>1 DEF trips
  <2>3. bad[i].planned_departure_at = Min({input.now + 6 * 60, input.end - 1})
    BY <2>1, <2>2 DEF Defect, Trip
  <2>4. /\ bad[i].planned_departure_at \in Int /\ bad[i].planned_departure_at # None
        /\ bad[i].planned_departure_at > input.now
    <3>1. input.now + 6 * 60 \in Int /\ input.end - 1 \in Int
      BY <1>1
    <3>2. bad[i].planned_departure_at = IF input.now + 6 * 60 < input.end - 1
                                        THEN input.now + 6 * 60 ELSE input.end - 1
      BY <2>3, <3>1, MinOfTwo
    <3> QED
      BY <1>1, <1>11, <3>2, FleetAssumption
  <2> QED
    BY <1>6, <1>7, <2>4, Counted DEF FutureTimestamps, CountWhere
<1>12. ~QualityPassed(bad, input.now)
  <2>1. InvalidDates(bad) \in Nat /\ NegativeDistances(bad) \in Nat
    BY <1>7 DEF InvalidDates, NegativeDistances, CountWhere
  <2>2. FutureTimestamps(bad, input.now) \in Nat
    BY <1>7 DEF FutureTimestamps, CountWhere
  <2>3. DuplicateIds(bad) \in Nat
    <3> DEFINE ids == {bad[i].trip_id : i \in DOMAIN bad}
    <3>1. IsFiniteSet(ids)
      <4>1. PICK S : S = DOMAIN bad
        OBVIOUS
      <4>2. PICK f : f = [i \in S |-> bad[i].trip_id]
        OBVIOUS
      <4>3. IsFiniteSet(S)
        BY <1>7, <4>1
      <4>4. ids = {f[i] : i \in S}
        BY <4>1, <4>2
      <4> HIDE DEF ids
      <4>5. f \in Surjection(S, ids)
        BY <4>2, <4>4 DEF Surjection
      <4> QED
        BY <4>3, <4>5, FS_Surjection
    <3>2. \A P \in SUBSET (ids \ {None}) : Cardinality(P) \in Nat
      BY <3>1, FS_Subset, FS_CardinalityType
    <3> QED
      BY <3>2 DEF DuplicateIds
  <2> QED
    BY <1>8, <2>1, <2>2, <2>3 DEF QualityPassed
<1> QED
  BY <1>8, <1>9, <1>10, <1>11, <1>12

\* What the generator remembers is what is labelled, no outcome lies at or after the end of
\* the range, and every injected defect is in the quality report.
THEOREM FleetConsistentHolds == RulesSpec => []FleetConsistent
<1>1. RulesInv => HistoryMatchesLabel
  BY DEF RulesInv, FleetInv, HistoryMatchesLabel
<1>2. RulesInv => OutcomesKnown
  <2> SUFFICES ASSUME RulesInv, input.kind = "fleet", NEW i \in DOMAIN output.trips,
                      output.trips[i].actual_arrival_at # None
               PROVE  output.trips[i].actual_arrival_at < input.end
    BY DEF OutcomesKnown
  <2>1. input.end \in Int /\ i \in 1..Len(output.trips)
    BY InputAssumption DEF RulesInv, FleetInv
  <2>2. PICK draw \in Draws : output.trips[i] = Trip(draw, i, input.end)
    BY <2>1 DEF RulesInv, FleetInv
  <2> QED
    BY <2>1, <2>2, OutcomeBeforeEnd
<1>3. RulesInv => DefectsCaught
  BY DefectsSeen DEF DefectsCaught
<1>4. RulesInv => FleetConsistent
  BY <1>1, <1>2, <1>3 DEF FleetConsistent
<1> QED
  BY <1>4, RulesInvariance, PTL

-----------------------------------------------------------------------------
(* Mapping documents.                                                      *)

\* An expression that passed validation evaluates on every row of the table it was checked
\* against, within the stack, and a suggestion passes over no better pair.
THEOREM DocumentsSoundHolds == RulesSpec => []DocumentsSound
<1>1. RulesInv => ValidatedEvaluates
  <2> SUFFICES ASSUME RulesInv, input.kind = "expression", Len(output) = Len(input.nodes),
                      ValidateDerived(output[Len(output)], input.available) = {}
               PROVE  /\ output[Len(output)].frames <= StackLimit
                      /\ input.available # None => output[Len(output)].value # Fails
    BY DEF ValidatedEvaluates
  <2> DEFINE root == output[Len(output)]
  <2>1. Len(output) \in 1..Len(output) /\ EntryInv(root)
    BY InputAssumption DEF RulesInv, ExpressionInv, Expression
  <2>2. input.available \in {None, DOMAIN input.row}
    BY InputAssumption DEF RulesInv
  <2> HIDE DEF root
  <2>3. root.height <= MaxDepth
    <3>1. ~(root.height > MaxDepth)
      BY DEF ValidateDerived, root
    <3> QED
      BY <2>1, <3>1, DocumentAssumption DEF EntryInv
  <2>4. root.frames <= StackLimit
    BY <2>1, <2>3, DocumentAssumption DEF EntryInv
  <2>5. ASSUME input.available # None PROVE root.value # Fails
    <3>1. root.columns \ DOMAIN input.row = {}
      BY <2>2, <2>3, <2>5, DocumentAssumption DEF ValidateDerived, EntryInv, root
    <3> QED
      BY <2>1, <2>3, <3>1 DEF EntryInv
  <2> QED
    BY <2>4, <2>5 DEF root
<1>2. RulesInv => StableSuggestion
  <2> SUFFICES ASSUME RulesInv, Done("suggestion"), output.done
               PROVE  /\ \A p, q \in output.claimed :
                           p # q => p.field # q.field /\ p.column # q.column
                      /\ \A p \in input.pairs \ output.claimed : p.score >= MinConfidence =>
                           \E q \in output.claimed :
                             (q.field = p.field \/ q.column = p.column) /\ q.score >= p.score
    BY DEF StableSuggestion
  <2>1. input.kind = "suggestion" /\ output # Fails
    BY DEF Done
  <2>2. /\ \A p, q \in output.claimed : p # q => p.field # q.field /\ p.column # q.column
        /\ \A p \in output.seen : \E q \in output.claimed :
             (q.field = p.field \/ q.column = p.column) /\ q.score >= p.score
        /\ \A q \in input.pairs \ output.seen : q.score < MinConfidence
    BY <2>1 DEF RulesInv, SuggestionInv
  <2>3. ASSUME NEW p \in input.pairs, p.score >= MinConfidence PROVE p \in output.seen
    <3>1. p.score \in Int /\ ~(p.score < MinConfidence)
      BY <2>1, <2>3, PairsLeft, DocumentAssumption
    <3> QED
      BY <2>2, <3>1
  <2> QED
    BY <2>2, <2>3
<1>3. RulesInv => DocumentsSound
  BY <1>1, <1>2 DEF DocumentsSound
<1> QED
  BY <1>3, RulesInvariance, PTL
===============================================================================
