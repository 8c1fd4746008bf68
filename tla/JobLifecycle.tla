---------------------------- MODULE JobLifecycle ----------------------------
(***************************************************************************)
(* What the job queue promises about the status column of its rows, with   *)
(* no word about processes, executions, tokens or statements: a row is     *)
(* inserted once, it alternates between waiting and running, and it ends.  *)
(* The promise is void for a row that a reclaim has taken from the         *)
(* execution that was running it; such a row only never disappears.        *)
(***************************************************************************)
CONSTANT Jobs

VARIABLES
    state,  \* status of every row, "absent" before its INSERT
    taken   \* rows that a reclaim has taken from an execution

vars == <<state, taken>>

Ends == {"success", "cancelled", "dead"}
States == {"absent", "pending", "running", "error"} \cup Ends

Init ==
    /\ state = [j \in Jobs |-> "absent"]
    /\ taken = {}

(* What enqueue, a claim, the outcome of an execution and a cancellation   *)
(* may do to a row.                                                        *)
Moves ==
    {<<"absent", "pending">>, <<"absent", "running">>,
     <<"pending", "running">>, <<"pending", "cancelled">>,
     <<"running", "pending">>} \cup {<<"running", s>> : s \in Ends}

Keeps(j) == state'[j] = state[j] /\ (j \in taken' <=> j \in taken)

Advances(j) ==
    /\ j \notin taken /\ j \notin taken'
    /\ <<state[j], state'[j]>> \in Moves

(* Taken from its execution: back to the queue, or closed as an error.     *)
Taken(j) ==
    /\ state[j] = "running"
    /\ j \in taken'
    /\ state'[j] \in {"pending", "error"}

(* Several executions may then write their outcomes over each other.       *)
Disputed(j) ==
    /\ j \in taken /\ j \in taken'
    /\ state[j] # "absent"
    /\ state'[j] \in States \ {"absent"}

(* One statement may change several rows.                                  *)
Next ==
    /\ state' \in [Jobs -> States] /\ taken' \subseteq Jobs
    /\ \A j \in Jobs : Keeps(j) \/ Advances(j) \/ Taken(j) \/ Disputed(j)

Spec == Init /\ [][Next]_vars
=============================================================================
