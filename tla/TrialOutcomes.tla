--------------------------- MODULE TrialOutcomes ----------------------------
(***************************************************************************)
(* What the trial journal promises to the campaign that writes it: a unit  *)
(* of the work plan is planned, then perhaps running, then in one terminal *)
(* state for ever; and the target is contacted for a unit at most once,    *)
(* only while the unit is durably recorded as running.  Whatever happens   *)
(* to the processes and the machine, nothing else does.                    *)
(***************************************************************************)
CONSTANTS Unit, Terminal

VARIABLES
    outcome,    \* outcome[u]: the state durably recorded for unit u
    contacted   \* the units for which target delivery was permitted

ovars == <<outcome, contacted>>

Init ==
    /\ outcome = [u \in Unit |-> "planned"]
    /\ contacted = {}

(* The states a unit in state s may be found in later.                     *)
Successors(s) ==
    CASE s = "planned" -> {"planned", "running"} \cup Terminal
      [] s = "running" -> {"running"} \cup Terminal
      [] OTHER         -> {s}

(* Several transitions may reach the disk together: an earlier directory   *)
(* sync that failed is made good by the next one.                          *)
Record ==
    /\ outcome' \in [Unit -> {"planned", "running"} \cup Terminal]
    /\ \A u \in Unit : outcome'[u] \in Successors(outcome[u])
    /\ UNCHANGED contacted

Contact(u) ==
    /\ outcome[u] = "running"
    /\ u \notin contacted
    /\ contacted' = contacted \cup {u}
    /\ UNCHANGED outcome

Next == Record \/ \E u \in Unit : Contact(u)

Spec == Init /\ [][Next]_ovars
=============================================================================
