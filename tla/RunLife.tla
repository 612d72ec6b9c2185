------------------------------- MODULE RunLife -------------------------------
(***************************************************************************)
(* What the records of a session's managed runs promise, whatever the      *)
(* number of runs: the life of a ManagedRunRecord of crates/core/src/work/ *)
(* model.rs.  A launch or a resume opens it while no driver works; then it *)
(* is written by its own driver, by its own park, and by reconciliations,  *)
(* those of other runs' parks among them.  A conclusion stands until the   *)
(* next launch.                                                            *)
(***************************************************************************)
EXTENDS Naturals

CONSTANTS Graphs, Conclusions

VARIABLES
    record,     \* [status, generation] of each graph's latest run
    working     \* graphs that a driver works on

vars == <<record, working>>

Init ==
    /\ record = [g \in Graphs |-> [status |-> "None", generation |-> 0]]
    /\ working = {}

(* A launch opens a new record, a resume goes on with a parked one, and    *)
(* neither while a driver works.                                           *)
Launch(g) ==
    /\ g \notin working /\ record[g].status \notin {"Running", "Parked"}
    /\ record' = [record EXCEPT ![g] = [status |-> "Running", generation |-> 0]]
    /\ UNCHANGED working

Resume(g) ==
    /\ g \notin working /\ record[g].status = "Parked"
    /\ record' = [record EXCEPT ![g] = [status     |-> "Running",
                                        generation |-> record[g].generation + 1]]
    /\ UNCHANGED working

(* A driver starts for a record that was opened and not concluded: a       *)
(* reconciliation may have come in between.                                *)
Start(g) ==
    /\ g \notin working /\ record[g].status \in {"Running", "Parked"}
    /\ working' = working \cup {g}
    /\ UNCHANGED record

(* Only the driver concludes, and only what still reads Running.           *)
Conclude(g) ==
    /\ g \in working /\ record[g].status = "Running"
    /\ \E c \in Conclusions : record' = [record EXCEPT ![g].status = c]
    /\ UNCHANGED working

Stop(g) ==
    /\ g \in working /\ record[g].status # "Running"
    /\ working' = working \ {g}
    /\ UNCHANGED record

Fence(g) ==
    /\ record[g].status = "Running"
    /\ record' = [record EXCEPT ![g].status = "Parking"]
    /\ UNCHANGED working

Reconciled ==
    [g \in Graphs |-> IF record[g].status \in {"Running", "Parking"}
                      THEN [record[g] EXCEPT !.status = "Parked"] ELSE record[g]]

(* A park, of this run or of another one of the session, or a restart.     *)
Reconcile ==
    /\ record' = Reconciled
    /\ working' \in {working, {}}

Next ==
    \/ \E g \in Graphs : Launch(g) \/ Resume(g) \/ Start(g) \/ Conclude(g) \/ Stop(g) \/ Fence(g)
    \/ Reconcile

Spec == Init /\ [][Next]_vars
=============================================================================
