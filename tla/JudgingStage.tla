----------------------------- MODULE JudgingStage -----------------------------
(***************************************************************************)
(* What an evaluation promises to whoever reads its root: a row gets one   *)
(* result, once, and a report covers rows that have theirs.  Nothing of    *)
(* the worker pool, the requests, the repeated runs and the faults is      *)
(* left.                                                                   *)
(***************************************************************************)
CONSTANTS Rows,     \* evaluation inputs
          Outcomes, \* what a judge call may come to, failures included
          Absent

VARIABLES results,  \* the result of each row, Absent while it has none
          covered   \* for each report, the rows it is about

vars == <<results, covered>>

Init ==
  /\ results = [r \in Rows |-> Absent]
  /\ covered = {}

Judge(r) ==
  /\ results[r] = Absent
  /\ \E outcome \in Outcomes : results' = [results EXCEPT ![r] = outcome]
  /\ UNCHANGED covered

Report(rows) ==
  /\ \A r \in rows : results[r] # Absent
  /\ covered' = covered \cup {rows}
  /\ UNCHANGED results

Next ==
  \/ \E r \in Rows : Judge(r)
  \/ \E rows \in SUBSET Rows : Report(rows)

Spec == Init /\ [][Next]_vars

==============================================================================
