------------------------------ MODULE ModelLoader ------------------------------
(***************************************************************************)
(* The process-wide ModelLoader: its cache and lock, the retries of        *)
(* retry_with_backoff, and the CircuitBreaker around the artifact store.   *)
(*                                                                         *)
(* The loader runs on one event loop, so what it does between two awaits   *)
(* is one step.  It awaits the lock, the load itself (bounded by           *)
(* with_timeout) and the backoff between two attempts.                     *)
(***************************************************************************)
EXTENDS Naturals, Common

CONSTANTS
  LoadCalls,    \* concurrent calls of load
  Versions,     \* model version ids
  Threshold,    \* CircuitBreaker.failure_threshold
  MaxAttempts,  \* RetryConfig.max_attempts
  MaxFailures   \* bound: value of failure_count

ASSUME ConfigAssumption == Threshold \in Nat \ {0} /\ MaxAttempts \in Nat \ {0}
ASSUME LimitAssumption == MaxFailures \in Nat
ASSUME LoaderNoneAssumption == None \notin LoadCalls \cup Versions

VARIABLES
  breaker,  \* the CircuitBreaker
  holder,   \* the call that holds the lock, or None
  load,     \* load[c]: where the call c of load is
  cache,    \* models in the cache
  loads,    \* history: loads[m], completed loads of m from the store
  streak    \* history: failed loads since the last success or reset timeout

loaderVars == <<breaker, holder, load, cache, loads, streak>>

CircuitStates == {"closed", "open", "half_open"}
Failures == {"timeout", "unavailable", "integrity"}  \* with_timeout, the store, _verify_checksum

\* elapsed: reset_timeout_seconds have passed since opened_at.
Breakers == [state : CircuitStates, failures : Nat, elapsed : BOOLEAN]
LoadStates == [pc : {"idle", "waiting", "running", "backoff"}, model : Versions \cup {None},
               attempt : 0..MaxAttempts, error : Failures \cup {"open", "none"}]
Idle == [pc |-> "idle", model |-> None, attempt |-> 0, error |-> "none"]

LoaderTypeOK ==
  /\ breaker \in Breakers
  /\ holder \in LoadCalls \cup {None}
  /\ load \in [LoadCalls -> LoadStates]
  /\ cache \subseteq Versions
  /\ loads \in [Versions -> Nat]
  /\ streak \in Nat

LoaderInit ==
  /\ breaker = [state |-> "closed", failures |-> 0, elapsed |-> FALSE]
  /\ holder = None
  /\ load = [c \in LoadCalls |-> Idle]
  /\ cache = {}
  /\ loads = [m \in Versions |-> 0]
  /\ streak = 0

-----------------------------------------------------------------------------
(***************************************************************************)
(* The circuit breaker.                                                    *)
(***************************************************************************)

\* CircuitBreaker.state.
Current == IF breaker.state = "open" /\ breaker.elapsed THEN "half_open" ELSE breaker.state

\* The breaker once it has let a call through.
Admitted == [breaker EXCEPT !.state = Current]

\* _on_success.
OnSuccess == [state |-> "closed", failures |-> 0, elapsed |-> FALSE]

\* Mutant: the circuit opens one failure late.
OnFailureLate ==
  IF breaker.failures >= Threshold
  THEN [state |-> "open", failures |-> breaker.failures + 1, elapsed |-> FALSE]
  ELSE [breaker EXCEPT !.failures = @ + 1]

\* _on_failure.
OnFailure ==
  IF breaker.failures + 1 >= Threshold
  THEN [state |-> "open", failures |-> breaker.failures + 1, elapsed |-> FALSE]
  ELSE [breaker EXCEPT !.failures = @ + 1]

\* The reset timeout of an open circuit passes.
Elapse ==
  /\ breaker.state = "open" /\ ~breaker.elapsed
  /\ breaker' = [breaker EXCEPT !.elapsed = TRUE]
  /\ streak' = 0
  /\ UNCHANGED <<holder, load, cache, loads>>

-----------------------------------------------------------------------------
(***************************************************************************)
(* ModelLoader.load.                                                       *)
(***************************************************************************)

\* Mutant: the lock is not released when the last attempt fails.
ReleaseForgotten(c, e) == /\ holder' = IF e = "none" THEN None ELSE c
                          /\ load' = [load EXCEPT ![c] = Idle]

\* load returns, or raises e, and leaves the lock.
Release(c, e) == /\ holder' = None
                 /\ load' = [load EXCEPT ![c] = Idle]

\* retry_with_backoff catches the exception e of attempt n: it sleeps, still
\* holding the lock, or raises after the last attempt.
Raised(c, n, e) ==
  \/ n = MaxAttempts /\ Release(c, e)
  \/ /\ n < MaxAttempts
     /\ holder' = c
     /\ load' = [load EXCEPT ![c].pc = "backoff", ![c].attempt = n, ![c].error = e]

\* Attempt n goes to the circuit breaker: CircuitOpenError, or the load begins.
Attempt(c, n) ==
  \/ Current = "open" /\ Raised(c, n, "open") /\ UNCHANGED breaker
  \/ /\ Current # "open"
     /\ breaker' = Admitted
     /\ holder' = c
     /\ load' = [load EXCEPT ![c].pc = "running", ![c].attempt = n]

\* A prediction asks for a model.
Request(c, m) ==
  /\ load[c].pc = "idle"
  /\ load' = [load EXCEPT ![c] = [Idle EXCEPT !.pc = "waiting", !.model = m]]
  /\ UNCHANGED <<breaker, holder, cache, loads, streak>>

\* The call gets the lock; a cached model is returned at once.
Acquire(c) ==
  /\ load[c].pc = "waiting" /\ holder = None
  /\ \/ load[c].model \in cache /\ Release(c, "none") /\ UNCHANGED breaker
     \/ load[c].model \notin cache /\ Attempt(c, 1)
  /\ UNCHANGED <<cache, loads, streak>>

\* The backoff is over.
Retry(c) ==
  /\ load[c].pc = "backoff"
  /\ Attempt(c, load[c].attempt + 1)
  /\ UNCHANGED <<cache, loads, streak>>

\* _load_sklearn or _load_hermes_rpt returns: the artifact matched its checksum
\* and was loaded.
Loaded(c) ==
  /\ load[c].pc = "running"
  /\ breaker' = OnSuccess
  /\ cache' = cache \cup {load[c].model}
  /\ loads' = [loads EXCEPT ![load[c].model] = @ + 1]
  /\ streak' = 0
  /\ Release(c, "none")

\* The load raises or times out.
Failed(c, e) ==
  /\ load[c].pc = "running" /\ breaker.failures < MaxFailures
  /\ breaker' = OnFailure
  /\ streak' = streak + 1
  /\ Raised(c, load[c].attempt, e)
  /\ UNCHANGED <<cache, loads>>

\* The task is cancelled.  CancelledError is no Exception: it is neither
\* counted by the breaker nor retried, and it leaves the lock.
Cancel(c) ==
  /\ load[c].pc # "idle"
  /\ \/ load[c].pc = "waiting" /\ load' = [load EXCEPT ![c] = Idle] /\ UNCHANGED holder
     \/ load[c].pc # "waiting" /\ Release(c, "none")
  /\ UNCHANGED <<breaker, cache, loads, streak>>

Finish(c) == Loaded(c) \/ \E e \in Failures : Failed(c, e)

LoaderNext ==
  \/ \E c \in LoadCalls :
       \/ \E m \in Versions : Request(c, m)
       \/ Acquire(c)
       \/ Retry(c)
       \/ Finish(c)
       \/ Cancel(c)
  \/ Elapse

LoaderSpec == LoaderInit /\ [][LoaderNext]_loaderVars

\* A load ends because with_timeout bounds it and a backoff because it is a
\* sleep; asyncio.Lock wakes its waiters in order, so none waits for ever while
\* the lock is released again and again.
LoaderFairSpec == LoaderSpec /\ \A c \in LoadCalls : /\ WF_loaderVars(Finish(c)) /\ WF_loaderVars(Retry(c))
                                     /\ SF_loaderVars(Acquire(c))

-----------------------------------------------------------------------------
(***************************************************************************)
(* Safety and liveness.                                                    *)
(***************************************************************************)

\* At most one load is under way, so a half-open circuit makes one trial call.
OneLoadAtATime ==
  \A c, d \in LoadCalls : load[c].pc = "running" /\ load[d].pc = "running" => c = d

\* A model version is loaded at most once in a process, however many calls ask
\* for it while the first load is running, failing or being cancelled.
LoadedOnce == \A m \in Versions : loads[m] <= 1

\* A failed trial call opens the circuit again for a whole reset timeout.
TrialFailureReopens ==
  [][breaker.state = "half_open" /\ breaker'.failures > breaker.failures =>
       breaker'.state = "open" /\ ~breaker'.elapsed]_loaderVars

\* A struggling store gets at most Threshold failing loads in a row before it is
\* left alone for a reset timeout, whichever calls they come from.
NoHammering == streak <= Threshold

\* Every call ends, also the ones that wait behind failing loads and backoffs.
EveryLoadEnds == \A c \in LoadCalls : (load[c].pc # "idle") ~> (load[c].pc = "idle")

-----------------------------------------------------------------------------
(***************************************************************************)
(* The inductive invariant.                                                *)
(***************************************************************************)

\* The lock is held by the call past the cache lookup, which has found nothing.
LockInv(c) ==
  /\ load[c].pc \in {"running", "backoff"} <=> holder = c
  /\ load[c].pc # "idle" => load[c].model \in Versions
  /\ holder = c => load[c].model \notin cache /\ load[c].attempt \in 1..MaxAttempts
  /\ load[c].pc = "backoff" => load[c].attempt < MaxAttempts
  /\ load[c].pc = "running" => breaker.state # "open"

\* The circuit is closed below the threshold, and the failures it lets through
\* are the ones it has counted.
BreakerInv ==
  /\ breaker.state = "closed" => breaker.failures < Threshold /\ streak <= breaker.failures
                                 /\ ~breaker.elapsed
  /\ breaker.state # "closed" => breaker.failures >= Threshold
  /\ breaker.state = "half_open" => streak = 0
  /\ breaker.state = "open" /\ breaker.elapsed => streak = 0
  /\ streak <= Threshold

CacheInv == \A m \in Versions : loads[m] = IF m \in cache THEN 1 ELSE 0

LoaderInv == LoaderTypeOK /\ BreakerInv /\ CacheInv /\ \A c \in LoadCalls : LockInv(c)

-----------------------------------------------------------------------------
(***************************************************************************)
(* What the documentation says and the code does not do.                   *)
(***************************************************************************)

\* retry_with_backoff: everything that is not transient propagates immediately.
\* load retries whatever Exception it gets, the open circuit included.
RetryOnlyTransient ==
  \A c \in LoadCalls : load[c].pc = "backoff" => load[c].error \in {"timeout", "unavailable"}

=============================================================================
