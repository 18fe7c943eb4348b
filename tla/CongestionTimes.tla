---------------------------- MODULE CongestionTimes ----------------------------
(***************************************************************************)
(* CongestionEntry with a history variable: which failures were reported.  *)
(* It changes with the steps of the entry and has no influence on them, so *)
(* that what the entry remembers (its bins and their total) can be         *)
(* compared with what happened.                                            *)
(***************************************************************************)
EXTENDS CongestionEntry

VARIABLE reported    \* how many reports of each kind carried each second

\* The threads whose event enters a history in this step.
Registering == {p \in Threads : call[p].at = "register" /\ call'[p].at # "register"}

Observe ==
    reported' = [k \in Hists |-> [t \in Seconds |-> reported[k][t]
        + Cardinality({p \in Registering : call[p].kind = k /\ call[p].time = t})]]

TimesSpec ==
    /\ Init
    /\ reported = [k \in Hists |-> [t \in Seconds |-> 0]]
    /\ [][Next /\ Observe]_<<vars, reported>>

TimesFairSpec == TimesSpec /\ Fairness

ReportsBetween(k, from, to) ==
    Total(reported[k], {t \in Seconds : from <= t /\ t <= to})

(***************************************************************************)
(* A report blacklists the server only if at least the configured number   *)
(* of failures was reported inside one window: late and reordered reports, *)
(* lost ones and the slack of the bins never make it come early.           *)
(***************************************************************************)
RaisedByReports ==
    [][\A p \in Threads :
         LET k == call[p].kind
             h == fail_history[k]
         IN  (call[p].at = "test_and_set" /\ ~congested[k] /\ congested'[k])
             => ReportsBetween(k, h.last_event - h.length, h.last_event) >= Threshold(k)
      ]_<<vars, reported>>
=============================================================================
