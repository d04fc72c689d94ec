-------------------------- MODULE PredictionContract --------------------------
(***************************************************************************)
(* What the prediction endpoint promises its callers: a call is answered   *)
(* in one atomic step, which either predicts and stores the prediction     *)
(* with its audit event, or repeats the stored prediction of the caller's  *)
(* tenant and key, or stores nothing.  A key predicts at most once.        *)
(* PredictionFlow is shown to implement this.                              *)
(***************************************************************************)
CONSTANTS Calls, Tenants, Keys, EmptyKey, Trips, Models, Owner, Shared, None

VARIABLES
  asked,   \* asked[c]: what call c asked for and was answered
  stored,  \* stored[c]: the prediction that call c made, or None
  audit    \* the audit events

vars == <<asked, stored, audit>>

Unsent == [status |-> "unsent", tenant |-> None, key |-> None, trip |-> None, answer |-> None]

Init ==
  /\ asked = [c \in Calls |-> Unsent]
  /\ stored = [c \in Calls |-> None]
  /\ audit = {}

Answer(c, a) ==
  /\ asked[c].status = "waiting"
  /\ asked' = [asked EXCEPT ![c].status = "answered", ![c].answer = a]

\* The stored predictions of the caller's tenant and key.
Same(c) == {d \in Calls : /\ stored[d] # None
                          /\ stored[d].tenant = asked[c].tenant
                          /\ stored[d].key = asked[c].key}

Ask(c, t, k, trip) ==
  /\ asked[c].status = "unsent"
  /\ asked' = [asked EXCEPT ![c] = [status |-> "waiting", tenant |-> t, key |-> k,
                                    trip |-> trip, answer |-> None]]
  /\ UNCHANGED <<stored, audit>>

\* A new prediction, by a model that the tenant may use; its answer may get lost.
Predict(c, m) ==
  /\ Owner[m] \in {Shared, asked[c].tenant}
  /\ asked[c].key = None \/ Same(c) = {}
  /\ stored' = [stored EXCEPT ![c] =
       [tenant |-> asked[c].tenant, key |-> asked[c].key, trip |-> asked[c].trip,
        model |-> m, status |-> "completed"]]
  /\ audit' = audit \cup {<<c, "success">>}
  /\ Answer(c, c) \/ Answer(c, "lost")

\* The prediction made earlier for the key.
Repeat(c) ==
  /\ asked[c].key \notin {None, EmptyKey}
  /\ \E d \in Same(c) : Answer(c, d)
  /\ UNCHANGED <<stored, audit>>

\* The key is taken: refused, although a repetition was possible.
Conflict(c) ==
  /\ asked[c].key # None /\ Same(c) # {}
  /\ Answer(c, "conflict")
  /\ UNCHANGED <<stored, audit>>

\* No prediction, and nothing is left of the attempt.
Refuse(c) ==
  /\ \E e \in {"not_configured", "failed", "lost"} : Answer(c, e)
  /\ UNCHANGED <<stored, audit>>

Next ==
  \E c \in Calls :
    \/ \E t \in Tenants, k \in Keys \cup {None}, trip \in Trips : Ask(c, t, k, trip)
    \/ \E m \in Models : Predict(c, m)
    \/ Repeat(c) \/ Conflict(c) \/ Refuse(c)

Spec == Init /\ [][Next]_vars

=============================================================================
