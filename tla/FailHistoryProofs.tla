--------------------------- MODULE FailHistoryProofs ---------------------------
(***************************************************************************)
(* Proofs about one history under a running clock, for every number of     *)
(* bins, every window and every lag of the reports.                        *)
(***************************************************************************)
EXTENDS FailHistory, FailWindowProofs

\* What the assumptions on the clock give.
LEMMA ClockTypes ==
  /\ Window \in Nat /\ MaxLag \in Nat /\ Epoch \in Nat /\ MaxTime \in Nat
  /\ BinLen(Window) \in Nat /\ BinLen(Window) > 0 /\ CONG_HIST_ENTRIES \in Nat
  /\ BinLen(Window) * CONG_HIST_ENTRIES \in Nat
  /\ Epoch > 2 * (BinLen(Window) * CONG_HIST_ENTRIES) + MaxLag
  /\ IsFiniteSet(Seconds) /\ \A s \in Seconds : s \in Nat
<1>1. Window \in Nat /\ MaxLag \in Nat /\ Epoch \in Nat /\ MaxTime \in Nat
  BY ClockAssumption
<1>2. PICK l \in Nat, n \in Nat : l = BinLen(Window) /\ l > 0 /\ n = CONG_HIST_ENTRIES
  BY <1>1, InitType, BinsAssumption
<1>3. 2 * l * n = 2 * (l * n) /\ l * n \in Nat
  OBVIOUS
<1>4. Epoch > 2 * l * n + MaxLag
  BY <1>2, ClockAssumption
<1>5. Epoch - MaxLag \in Nat
  BY <1>1, <1>3, <1>4
<1>6. IsFiniteSet(Seconds) /\ \A s \in Seconds : s \in Nat
  <2>1. IsFiniteSet((Epoch - MaxLag) .. MaxTime)
    BY <1>1, <1>5, FS_Interval
  <2> QED
    BY <1>1, <1>5, <2>1 DEF Seconds
<1> QED
  BY <1>1, <1>2, <1>3, <1>4, <1>6

(***************************************************************************)
(* The inductive invariant: the account of the reports that regist_event   *)
(* keeps, the configured window, and the last event in the newest bin once *)
(* there is one.                                                           *)
(***************************************************************************)
HistInv ==
  /\ now \in Epoch .. MaxTime
  /\ reported \in [Seconds -> Nat]
  /\ WindowInv(hist, reported)
  /\ hist.bin_len = BinLen(Window)
  /\ Newest(hist) \/ (hist.last_event = 0 /\ \A s \in Seconds : reported[s] = 0)

\* The history at the start.
LEMMA InitHist ==
  ASSUME Init
  PROVE  HistInv
<1>1. reported \in [Seconds -> Nat] /\ \A s \in Seconds : reported[s] = 0
  BY DEF Init
<1>2. WindowInv(hist, reported)
  BY <1>1, ClockTypes, InitWindow DEF Init
<1>3. hist.bin_len = BinLen(Window) /\ hist.last_event = 0
  BY DEF Init, InitHistory
<1>4. now \in Epoch .. MaxTime
  BY ClockAssumption DEF Init
<1> QED
  BY <1>1, <1>2, <1>3, <1>4 DEF HistInv

\* A report, however late.
LEMMA ReportHist ==
  ASSUME HistInv, NEW lag \in 0 .. MaxLag, Report(now - lag)
  PROVE  HistInv'
<1>1. PICK t : t = now - lag
  OBVIOUS
<1>2. t \in Seconds /\ t \in Nat /\ t >= Epoch - MaxLag
  BY <1>1, ClockTypes DEF HistInv, Seconds
<1>3. hist' = RegistEvent(hist, t) /\ reported' = More(reported, t) /\ now' = now
  BY <1>1 DEF Report, More
<1>4. reported' \in [Seconds -> Nat]
  BY <1>2, <1>3, MoreType DEF HistInv
<1>5. WindowInv(hist', reported')
  BY <1>2, <1>3, ClockTypes, RegistKeepsWindow DEF HistInv
<1>6. Fits(hist) /\ hist \in Histories /\ hist.length = hist.bin_len * CONG_HIST_ENTRIES
  BY DEF HistInv, WindowInv, Fits
<1>7. Newest(hist) \/ t > hist.last_event + hist.length
  <2>1. CASE hist.last_event = 0
    <3>1. hist.length = BinLen(Window) * CONG_HIST_ENTRIES
      BY <1>6 DEF HistInv
    <3> QED
      BY <1>2, <2>1, <3>1, ClockTypes
  <2> QED
    BY <2>1 DEF HistInv
<1>8. Newest(hist') /\ hist'.bin_len = hist.bin_len
  BY <1>2, <1>3, <1>6, <1>7, RegistKeepsNewest
<1> QED
  BY <1>3, <1>4, <1>5, <1>8 DEF HistInv

\* The invariant holds in every behaviour.
LEMMA HistAlways == Spec => []HistInv
<1>1. Init => HistInv
  BY InitHist
<1>2. HistInv /\ [Next]_vars => HistInv'
  <2> SUFFICES ASSUME HistInv, [Next]_vars PROVE HistInv'
    OBVIOUS
  <2>1. CASE Tick
    <3>1. now' \in Epoch .. MaxTime
      BY <2>1, ClockTypes DEF HistInv, Tick
    <3> QED
      BY <2>1, <3>1 DEF HistInv, Tick
  <2>2. CASE \E lag \in 0 .. MaxLag : Report(now - lag)
    BY <2>2, ReportHist
  <2>3. CASE UNCHANGED vars
    BY <2>3 DEF HistInv, vars
  <2> QED
    BY <2>1, <2>2, <2>3 DEF Next
<1> QED
  BY <1>1, <1>2, PTL DEF Spec

(***************************************************************************)
(* Type correctness: however reports come, cur_index stays a bin of the    *)
(* ring and no bin leaves the range of its counter.                        *)
(***************************************************************************)
THEOREM HistoryTypes == Spec => []TypeOK
<1>1. HistInv => TypeOK
  <2> SUFFICES ASSUME HistInv PROVE TypeOK
    OBVIOUS
  <2>1. hist \in Histories
    BY DEF HistInv, WindowInv, Fits
  <2>2. now \in Seconds
    BY ClockTypes DEF HistInv, Seconds
  <2> QED
    BY <2>1, <2>2 DEF HistInv, TypeOK
<1> QED
  BY <1>1, HistAlways, PTL

(***************************************************************************)
(* A failure is never forgotten too early, whatever the number of bins,    *)
(* the window, the lag and the order of the reports.                       *)
(***************************************************************************)
THEOREM RecentAreCounted == Spec => []RecentCounted
<1>1. HistInv => RecentCounted
  <2> SUFFICES ASSUME HistInv PROVE RecentCounted
    OBVIOUS
  <2>1. hist \in Histories /\ WindowInv(hist, reported) /\ reported \in [Seconds -> Nat]
    BY DEF HistInv, WindowInv, Fits
  <2>2. hist.start \in Int /\ hist.last_event \in Nat /\ hist.events \in Int /\ hist.length \in Nat /\ hist.bin_len \in Nat
    BY <2>1, Fields
  <2>3. PICK a \in Int : a = hist.last_event - (hist.length - hist.bin_len) + 1
    BY <2>2
  <2>4. Since(reported, a) <= hist.events
    <3>1. CASE Newest(hist)
      <4>1. hist.start < a
        BY <2>2, <2>3, <3>1 DEF Newest
      <4>2. \A s \in Seconds : s \in Int
        BY ClockTypes
      <4> QED
        BY <2>1, <4>1, <4>2, ClockTypes, WindowCounts
    <3>2. CASE hist.last_event = 0 /\ \A s \in Seconds : reported[s] = 0
      <4>1. Since(reported, a) = 0
        BY <2>1, <3>2, ClockTypes, SinceLast
      <4>2. hist.events - Aged(hist, CONG_HIST_ENTRIES) \in Nat /\ Aged(hist, CONG_HIST_ENTRIES) \in Nat
        BY <2>1, RingEnds, AgedType DEF WindowInv, Wrapped
      <4> QED
        BY <2>2, <4>1, <4>2
    <3> QED
      BY <3>1, <3>2 DEF HistInv
  <2>5. {s \in Seconds : s > hist.last_event - (hist.length - hist.bin_len)} = {s \in Seconds : a <= s}
    <3>1. ASSUME NEW s \in Seconds PROVE s > hist.last_event - (hist.length - hist.bin_len) <=> a <= s
      <4>1. s \in Nat
        BY ClockTypes
      <4> QED
        BY <2>2, <2>3, <4>1
    <3> QED
      BY <3>1
  <2>6. Since(reported, a) = Total(reported, {s \in Seconds : a <= s}) /\ Since(reported, a) \in Nat
    BY <2>1, ClockTypes, SinceNat
  <2>7. Reports({s \in Seconds : s > hist.last_event - (hist.length - hist.bin_len)}) = Since(reported, a)
    BY <2>5, <2>6 DEF Reports
  <2> QED
    BY <2>2, <2>4, <2>6, <2>7 DEF RecentCounted
<1> QED
  BY <1>1, HistAlways, PTL

(***************************************************************************)
(* A failure is never kept too long, unless a bin has overflowed.          *)
(***************************************************************************)
THEOREM StaleAreForgotten == Spec => []StaleForgotten
<1>1. HistInv => StaleForgotten
  <2> SUFFICES ASSUME HistInv, ~BinOverflow
               PROVE  hist.events <= Reports({s \in Seconds : s >= hist.last_event - hist.length})
    BY DEF StaleForgotten
  <2>1. hist \in Histories /\ WindowInv(hist, reported) /\ reported \in [Seconds -> Nat]
          /\ hist.last_event <= hist.start + hist.length
    BY DEF HistInv, WindowInv, Fits
  <2>2. hist.start \in Int /\ hist.last_event \in Nat /\ hist.events \in Int /\ hist.length \in Nat
    BY <2>1, Fields
  <2>3. PICK a \in Int : a = hist.last_event - hist.length
    BY <2>2
  <2>4. ~Overflow(reported, hist.bin_len)
    BY <2>1, DOMAIN reported = Seconds DEF BinOverflow, Overflow, Within, Reports
  <2>5. hist.events <= Since(reported, a)
    <3>1. a <= hist.start /\ \A s \in Seconds : s \in Int
      BY <2>1, <2>2, <2>3, ClockTypes
    <3> QED
      BY <2>1, <2>4, <3>1, ClockTypes, WindowCounts
  <2>6. {s \in Seconds : s >= hist.last_event - hist.length} = {s \in Seconds : a <= s}
    <3>1. ASSUME NEW s \in Seconds PROVE s >= hist.last_event - hist.length <=> a <= s
      <4>1. s \in Nat
        BY ClockTypes
      <4> QED
        BY <2>2, <2>3, <4>1
    <3> QED
      BY <3>1
  <2>7. Since(reported, a) = Total(reported, {s \in Seconds : a <= s})
    BY <2>1, ClockTypes, SinceNat
  <2> QED
    BY <2>5, <2>6, <2>7 DEF Reports
<1> QED
  BY <1>1, HistAlways, PTL

(***************************************************************************)
(* The total and the bins never disagree but by whole wrap-arounds.        *)
(***************************************************************************)
THEOREM TotalsMatch == Spec => []TotalMatchesBins
<1>1. HistInv => TotalMatchesBins
  <2> SUFFICES ASSUME HistInv PROVE TotalMatchesBins
    OBVIOUS
  <2>1. hist \in Histories /\ Wrapped(hist)
    BY DEF HistInv, WindowInv, Fits
  <2>2. Aged(hist, CONG_HIST_ENTRIES) = Total(hist.bins, BinIndex)
    BY <2>1, RingEnds DEF Aged
  <2>3. hist.events \in Int /\ Aged(hist, CONG_HIST_ENTRIES) \in Nat
    BY <2>1, Fields, RingEnds, AgedType
  <2>4. /\ hist.events - Aged(hist, CONG_HIST_ENTRIES) \in Nat
        /\ (hist.events - Aged(hist, CONG_HIST_ENTRIES)) % BIN_MODULUS = 0
    BY <2>1 DEF Wrapped
  <2> QED
    BY <2>2, <2>3, <2>4 DEF TotalMatchesBins
<1> QED
  BY <1>1, HistAlways, PTL

=============================================================================
