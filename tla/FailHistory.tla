------------------------------ MODULE FailHistory ------------------------------
(***************************************************************************)
(* One ObFailHistory under a running clock.  Reporters read the clock      *)
(* before they take the history lock (set_alive_failed_at takes            *)
(* hrtime_to_sec(t) first and the lock after), so a report may be          *)
(* registered up to MaxLag seconds late and out of order.                  *)
(***************************************************************************)
EXTENDS FailWindow

CONSTANTS
    Window,      \* fail_window_sec_ of the control configuration
    Epoch,       \* the clock's value when the history is created
    MaxTime,     \* bound on the clock
    MaxLag,      \* bound on how late a report is registered
    MaxReports   \* bound on the number of reports

\* Wall-clock seconds are far beyond one window length.
ASSUME ClockAssumption ==
    /\ Window \in Nat /\ MaxLag \in Nat /\ MaxReports \in Nat
    /\ Epoch \in Nat /\ Epoch > 2 * BinLen(Window) * CONG_HIST_ENTRIES + MaxLag
    /\ MaxTime \in Nat /\ MaxTime >= Epoch

VARIABLES
    hist,      \* the ObFailHistory
    now,       \* the clock, in seconds
    reported   \* history variable: how many reports carried each second

vars == <<hist, now, reported>>

Seconds == (Epoch - MaxLag) .. MaxTime

\* The reports of the seconds in S.
Reports(S) == Total(reported, S)

Init ==
    /\ hist = InitHistory(Window)
    /\ now = Epoch
    /\ reported = [s \in Seconds |-> 0]

Tick ==
    /\ now < MaxTime
    /\ now' = now + 1
    /\ UNCHANGED <<hist, reported>>

Report(t) ==
    /\ Reports(Seconds) < MaxReports
    /\ hist' = RegistEvent(hist, t)
    /\ reported' = [reported EXCEPT ![t] = @ + 1]
    /\ UNCHANGED now

Next ==
    \/ Tick
    \/ \E lag \in 0 .. MaxLag : Report(now - lag)

Spec == Init /\ [][Next]_vars

TypeOK ==
    /\ hist \in Histories
    /\ now \in Seconds
    /\ reported \in [Seconds -> Nat]

(***************************************************************************)
(* A failure is never forgotten too early: every report that is less than  *)
(* a window minus one bin older than the newest one is in `events`,        *)
(* however the window slid, restarted or received late reports.            *)
(***************************************************************************)
RecentCounted ==
    hist.events >= Reports({s \in Seconds : s > hist.last_event - (hist.length - hist.bin_len)})

\* BIN_MODULUS reports close enough together to make one bin wrap around.
BinOverflow ==
    \E first \in Seconds :
        Reports({s \in Seconds : first <= s /\ s <= first + hist.bin_len}) >= BIN_MODULUS

(***************************************************************************)
(* A failure is never kept too long: nothing older than one window length  *)
(* before the newest report is still in `events`, unless a 16-bit bin has  *)
(* overflowed.                                                             *)
(***************************************************************************)
StaleForgotten ==
    ~BinOverflow => hist.events <= Reports({s \in Seconds : s >= hist.last_event - hist.length})

(***************************************************************************)
(* The running total and the bins it summarises never disagree by anything *)
(* but whole wrap-arounds of the 16-bit bins, and a wrapped bin only ever  *)
(* leaves the total too high.                                              *)
(***************************************************************************)
TotalMatchesBins ==
    LET binned == Total(hist.bins, BinIndex)
    IN  /\ hist.events >= binned
        /\ (hist.events - binned) % BIN_MODULUS = 0
=============================================================================
