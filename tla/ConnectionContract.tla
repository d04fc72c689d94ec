-------------------------- MODULE ConnectionContract --------------------------
(***************************************************************************)
(* What the connection API promises its callers: every operation takes     *)
(* effect on a connection in one atomic step, on the row as it is at that  *)
(* moment.  ConnectionLifecycle is checked to implement this.              *)
(***************************************************************************)
CONSTANTS Conns, Refs, None

VARIABLE conn   \* conn[c]: status, credential key and whether ever validated

Absent == [status |-> "none", cred |-> None, validated |-> FALSE]

Init == conn = [c \in Conns |-> Absent]

Exists(c) == conn[c].status \notin {"none", "gone"}

\* A key no existing connection uses.
Unshared(s) == \A c \in Conns : Exists(c) => conn[c].cred # s

Register(c, s) ==
  /\ conn[c] = Absent /\ Unshared(s)
  /\ conn' = [conn EXCEPT ![c] =
       [status |-> "pending_validation", cred |-> s, validated |-> FALSE]]

Validate(c, status) ==
  /\ Exists(c) /\ status \in {"active", "error"}
  /\ conn' = [conn EXCEPT ![c] =
       [status |-> status, cred |-> conn[c].cred, validated |-> TRUE]]

Enable(c) ==
  /\ Exists(c) /\ conn[c].validated
  /\ conn' = [conn EXCEPT ![c].status = "active"]

Disable(c) ==
  /\ Exists(c)
  /\ conn' = [conn EXCEPT ![c].status = "disabled"]

Rotate(c, s) ==
  /\ Exists(c) /\ Unshared(s)
  /\ conn' = [conn EXCEPT ![c] =
       [status |-> "pending_validation", cred |-> s, validated |-> conn[c].validated]]

Delete(c) ==
  /\ Exists(c)
  /\ conn' = [conn EXCEPT ![c].status = "gone"]

Next ==
  \E c \in Conns :
    \/ \E s \in Refs : Register(c, s) \/ Rotate(c, s)
    \/ \E status \in {"active", "error"} : Validate(c, status)
    \/ Enable(c) \/ Disable(c) \/ Delete(c)

Spec == Init /\ [][Next]_conn

=============================================================================
