------------------------------ MODULE FailWindow ------------------------------
(***************************************************************************)
(* ObFailHistory (obutils/ob_congestion_entry.{h,cpp}): the sliding count  *)
(* of failures that decides when a server is put on the congestion list.   *)
(*                                                                         *)
(* The last `length` seconds are cut into CONG_HIST_ENTRIES bins of        *)
(* `bin_len` seconds; `bins` is a ring whose newest bin is `cur_index`,    *)
(* `start` is the second at which the oldest bin begins and `events` is    *)
(* the running total.  This module holds the operations as operators on    *)
(* one history record; FailHistory runs them as a state machine and        *)
(* CongestionEntry embeds three of them in one server's entry.             *)
(***************************************************************************)
EXTENDS Integers, FiniteSetsExt

CONSTANTS
    CONG_HIST_ENTRIES,  \* the number of bins (17 in the code)
    BIN_MODULUS         \* a bin is a uint16_t: its count is kept mod 2^16

ASSUME BinsAssumption ==
    /\ CONG_HIST_ENTRIES \in Nat \ {0}
    /\ BIN_MODULUS \in Nat \ {0, 1}

BinIndex == 0 .. (CONG_HIST_ENTRIES - 1)

\* The fields of ObFailHistory.
Histories ==
    [start : Int, last_event : Nat, cur_index : BinIndex, events : Int,
     bins : [BinIndex -> 0 .. (BIN_MODULUS - 1)],
     bin_len : Nat \ {0}, length : Nat \ {0}]

NoEvents == [i \in BinIndex |-> 0]

\* The sum of the counts of S.
Total(counts, S) == MapThenSumSet(LAMBDA x : counts[x], S)

(***************************************************************************)
(* init(window): the bins get the rounded-up share of the window.          *)
(***************************************************************************)
\* Seeded fault: the share is rounded down.
BinLenTruncated(window) == window \div CONG_HIST_ENTRIES

BinLen(window) ==
    LET share == (window + CONG_HIST_ENTRIES) \div CONG_HIST_ENTRIES
    IN  IF share <= 0 THEN 1 ELSE share

InitHistory(window) ==
    [start |-> 0, last_event |-> 0, cur_index |-> 0, events |-> 0,
     bins |-> NoEvents,
     bin_len |-> BinLen(window),
     length |-> BinLen(window) * CONG_HIST_ENTRIES]

(***************************************************************************)
(* init_event(t, 1): forget everything and start a window whose newest bin *)
(* holds t.                                                                *)
(***************************************************************************)
InitEvent(h, t) ==
    [h EXCEPT !.last_event = t, !.cur_index = 0, !.events = 1,
              !.bins = [NoEvents EXCEPT ![0] = 1 % BIN_MODULUS],
              !.start = (t + h.bin_len) - (t % h.bin_len) - h.length]

\* The bin of a second that lies inside the window.
BinOf(h, t) ==
    ((t - h.start) \div h.bin_len + 1 + h.cur_index) % CONG_HIST_ENTRIES

\* Seeded fault: a bin that does not wrap around.
CountInWide(h, t) ==
    [h EXCEPT !.bins[BinOf(h, t)] = @ + 1]

CountIn(h, t) ==
    [h EXCEPT !.bins[BinOf(h, t)] = (@ + 1) % BIN_MODULUS]

(***************************************************************************)
(* The do/while loop of regist_event: the window moves on by k bins, where *)
(* k is the first count of at least one at which the end of the window is  *)
(* no longer before t.  The k bins after cur_index leave the total and are *)
(* cleared, and the newest one receives the event.                         *)
(***************************************************************************)
Slides(h, t) ==
    LET beyond == t - (h.start + h.length)
    IN  Max({1, (beyond + h.bin_len - 1) \div h.bin_len})

\* Seeded faults: one bin too many, or none at all.
ExpiredOneMore(h, t) ==
    {(h.cur_index + j) % CONG_HIST_ENTRIES : j \in 0 .. Slides(h, t)}
ExpiredNone(h, t) == {}

Expired(h, t) ==
    {(h.cur_index + j) % CONG_HIST_ENTRIES : j \in 1 .. Slides(h, t)}

SlideTo(h, t) ==
    LET cur     == (h.cur_index + Slides(h, t)) % CONG_HIST_ENTRIES
        expired == Expired(h, t)
    IN  [h EXCEPT !.start = @ + Slides(h, t) * h.bin_len,
                  !.cur_index = cur,
                  !.events = @ - Total(h.bins, expired),
                  !.bins = [i \in BinIndex |->
                              IF i = cur THEN 1 % BIN_MODULUS
                              ELSE IF i \in expired THEN 0 ELSE h.bins[i]]]

(***************************************************************************)
(* regist_event(t, 1).                                                     *)
(***************************************************************************)
RegistEvent(h, t) ==
    IF t < h.start THEN h
    ELSE IF t > h.last_event + h.length THEN InitEvent(h, t)
    ELSE LET g == IF t < h.start + h.length THEN CountIn(h, t) ELSE SlideTo(h, t)
         IN  [g EXCEPT !.events = @ + 1,
                       !.last_event = Max({h.last_event, t})]

=============================================================================
