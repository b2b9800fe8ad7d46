----------------------------- MODULE UnitOfWork -----------------------------
(***************************************************************************)
(* What an application may take a connection to be, whatever savepoints    *)
(* and blocks the driver works with: a store, and one unit of work that is *)
(* committed or rolled back as a whole.  A statement either adds all of    *)
(* its work or, when it returns an error, changes nothing of the unit.     *)
(***************************************************************************)
CONSTANT Work

VARIABLES durable,    \* committed work
          pending,    \* the unit of work in progress
          answer      \* what the last call returned

vars == <<durable, pending, answer>>

Init == durable = {} /\ pending = {} /\ answer = "success"

\* A statement of the unit succeeds.
Accept ==
  /\ \E work \in SUBSET Work : pending' = pending \union work
  /\ answer' = "success"
  /\ UNCHANGED durable

\* A statement that is a transaction of its own: what it did before it failed,
\* or before the link broke, may stay.
AcceptAlone ==
  /\ pending = {} /\ pending' = {}
  /\ \E work \in SUBSET Work : durable' = durable \union work
  /\ answer' \in {"success", "error"}

\* A statement fails: the unit is as it was.
Reject == answer' = "error" /\ UNCHANGED <<durable, pending>>

Commit ==
  /\ durable' = durable \union pending
  /\ pending' = {}
  /\ answer' = "success"

Rollback == pending' = {} /\ answer' = "success" /\ UNCHANGED durable

\* The commit fails, an error rolls the unit back, or the link breaks: the unit
\* is over with an error or unnoticed, and it is committed as a whole or not at
\* all.
Fail ==
  /\ durable' \in {durable, durable \union pending}
  /\ pending' = {}
  /\ answer' \in {"error", answer}

Next == Accept \/ AcceptAlone \/ Reject \/ Commit \/ Rollback \/ Fail

Spec == Init /\ [][Next]_vars
=============================================================================
