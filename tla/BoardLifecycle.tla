---------------------------- MODULE BoardLifecycle ----------------------------
(***************************************************************************)
(* What the parse pipeline promises of each board, seen by an admin who    *)
(* only looks at its parse status: a board is created once, waits or is    *)
(* parsed only while someone owes it an outcome, changes outcome only by   *)
(* the one who owes it, and once deleted stays deleted.                    *)
(***************************************************************************)
CONSTANT Board

VARIABLES
    status,     \* what the admin list shows for each primary key
    owed        \* the boards an outcome of a parse is still to come for

lifecycleVars == <<status, owed>>

Unsettled == {"pending", "parsing"}
Settled == {"success", "failed"}
Live == Unsettled \cup Settled

LifecycleInit ==
    /\ status = [b \in Board |-> "absent"]
    /\ owed = {}

Become(b, st) == status' = [status EXCEPT ![b] = st]

Create(b) == status[b] = "absent" /\ Become(b, "pending") /\ owed' = owed \cup {b}

Requeue(b) == status[b] \in Live /\ Become(b, "pending") /\ owed' = owed \cup {b}

Begin(b) == status[b] \in Live /\ b \in owed /\ Become(b, "parsing") /\ UNCHANGED owed

\* Other tasks may owe the same board an outcome too.
Finish(b) ==
    /\ status[b] \in Live /\ b \in owed
    /\ \E st \in Settled : Become(b, st)
    /\ owed' \in {owed, owed \ {b}}

Remove(b) == status[b] \in Live /\ Become(b, "deleted") /\ UNCHANGED owed

\* A task finds its board gone.
Lapse(b) == status[b] = "deleted" /\ owed' = owed \ {b} /\ UNCHANGED status

LifecycleNext ==
    \E b \in Board :
        Create(b) \/ Requeue(b) \/ Begin(b) \/ Finish(b) \/ Remove(b) \/ Lapse(b)

LifecycleSpec == LifecycleInit /\ [][LifecycleNext]_lifecycleVars

=============================================================================
