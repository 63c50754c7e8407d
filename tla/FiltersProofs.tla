--------------------------- MODULE FiltersProofs ---------------------------
(***************************************************************************)
(* The windowing scheme for every filter, window, clock and sampling       *)
(* interval: the DCC hears in time, and rejected values stay rare.         *)
(***************************************************************************)
EXTENDS Filters, TLAPS

USE ZenonT(30)

W == Window

TypeInv ==
    /\ self \in Settings
    /\ W \in Nat
    /\ sample_passed \in BOOLEAN
    /\ next_window_time \in Nat /\ now \in 0..MaxTime /\ sampled \in Nat
    /\ heard \in Nat /\ overrides \in Nat /\ start = 0
    /\ result \in Values \cup {None}

(* Samples are taken in time, and the window that runs began before the    *)
(* last of them.                                                           *)
Sampling ==
    /\ heard <= sampled /\ sampled <= now /\ now <= sampled + MaxGap
    /\ next_window_time - W <= sampled

(* The last value returned lies in this window or the one before; in this  *)
(* one if a sample has passed.  When even the last sample is past the end  *)
(* of the window (samples are late), the value is not older than a window  *)
(* and a sampling interval.                                                *)
Hearing ==
    /\ next_window_time - 2 * W <= heard
    /\ sample_passed => next_window_time - W <= heard /\ sampled < next_window_time
    /\ sampled < next_window_time \/ sampled - heard < W + MaxGap

(* The windows that ended pay for the rejected values.                     *)
Paid == overrides * W <= next_window_time - W

IInv == TypeInv /\ Sampling /\ Hearing /\ Paid

(* The integers that the documentation of class Type lists for a filter.   *)
Listed(t, lo, hi) ==
    {v \in Int :
        \/ t = "CLOSED" /\ v \in lo .. hi
        \/ t = "OPEN" /\ v \in lo + 1 .. hi - 1
        \/ t = "CLOSED_OPEN" /\ v \in lo .. hi - 1
        \/ t = "OPEN_CLOSED" /\ v \in lo + 1 .. hi
        \/ t = "CLOSED_REJECT" /\ v \notin lo .. hi
        \/ t = "OPEN_REJECT" /\ v \notin lo + 1 .. hi - 1
        \/ t = "CLOSED_OPEN_REJECT" /\ v \notin lo .. hi - 1
        \/ t = "OPEN_CLOSED_REJECT" /\ v \notin lo + 1 .. hi
        \/ t = "LESS_THAN" /\ v < lo
        \/ t = "AT_MOST" /\ v < lo + 1
        \/ t = "GREATER_THAN" /\ ~ (v < hi + 1)
        \/ t = "AT_LEAST" /\ ~ (v < hi)}

(* A filter with two bounds, by type: first those that accept a range.     *)
LEMMA AcceptsListed ==
  ASSUME NEW t \in Accepting, NEW lo \in Int, NEW hi \in Int, NEW v \in Int
  PROVE  Inside(t, lo, v, hi) <=> v \in Listed(t, lo, hi)
<1>1. CASE t = "CLOSED"
  BY SMTT(30), <1>1 DEF Inside, Listed
<1>2. CASE t = "OPEN"
  BY SMTT(30), <1>2 DEF Inside, Listed
<1>3. CASE t = "CLOSED_OPEN"
  BY SMTT(30), <1>3 DEF Inside, Listed
<1>4. CASE t = "OPEN_CLOSED"
  BY SMTT(30), <1>4 DEF Inside, Listed
<1> QED
  BY <1>1, <1>2, <1>3, <1>4 DEF Accepting

(* Then those that reject one.                                             *)
LEMMA RejectsOthers ==
  ASSUME NEW t \in Rejecting, NEW lo \in Int, NEW hi \in Int, NEW v \in Int
  PROVE  ~ Inside(t, lo, v, hi) <=> v \in Listed(t, lo, hi)
<1>1. CASE t = "CLOSED_REJECT"
  BY SMTT(30), <1>1 DEF Inside, Listed
<1>2. CASE t = "OPEN_REJECT"
  BY SMTT(30), <1>2 DEF Inside, Listed
<1>3. CASE t = "CLOSED_OPEN_REJECT"
  BY SMTT(30), <1>3 DEF Inside, Listed
<1>4. CASE t = "OPEN_CLOSED_REJECT"
  BY SMTT(30), <1>4 DEF Inside, Listed
<1> QED
  BY <1>1, <1>2, <1>3, <1>4 DEF Rejecting

(* RangeFilter.filter lets an integer through if and only if the           *)
(* documentation of its filter type lists it, for all bounds a constructor *)
(* accepts: also equal ones and those in the wrong order.                  *)
THEOREM RangeIsExact ==
  ASSUME NEW c, c.filter_type \in Type, _validate(c), NEW v \in Number
  PROVE  Passes(c, v) <=> v \in Listed(c.filter_type, c.lower_bound, c.upper_bound)
<1> DEFINE t == c.filter_type
           lo == c.lower_bound
           hi == c.upper_bound
<1>1. v \in Int
  BY FilterAssumption
<1>2. CASE t \in Accepting
  <2>1. lo \in Int /\ hi \in Int
    BY <1>2, FilterAssumption DEF _validate
  <2>2. Passes(c, v) <=> Inside(t, lo, v, hi)
    BY <1>2 DEF Passes, Accepting, Rejecting
  <2> HIDE DEF t, lo, hi
  <2>3. Inside(t, lo, v, hi) <=> v \in Listed(t, lo, hi)
    BY <1>1, <1>2, <2>1, AcceptsListed
  <2> QED
    BY <2>2, <2>3 DEF t, lo, hi
<1>3. CASE t \in Rejecting
  <2>1. lo \in Int /\ hi \in Int
    BY <1>3, FilterAssumption DEF _validate
  <2>2. Passes(c, v) <=> ~ Inside(t, lo, v, hi)
    BY <1>3 DEF Passes, Accepting, Rejecting
  <2> HIDE DEF t, lo, hi
  <2>3. ~ Inside(t, lo, v, hi) <=> v \in Listed(t, lo, hi)
    BY <1>1, <1>3, <2>1, RejectsOthers
  <2> QED
    BY <2>2, <2>3 DEF t, lo, hi
<1>4. CASE t = "LESS_THAN"
  <2>1. lo \in Int
    BY <1>4, FilterAssumption DEF _validate
  <2>2. Passes(c, v) <=> v < lo
    BY <1>4 DEF Passes, Accepting, Rejecting
  <2> HIDE DEF t, lo, hi
  <2>3. v < lo <=> v \in Listed(t, lo, hi)
    BY <1>1, <1>4, <2>1 DEF Listed
  <2> QED
    BY <2>2, <2>3 DEF t, lo, hi
<1>5. CASE t = "AT_MOST"
  <2>1. lo \in Int
    BY <1>5, FilterAssumption DEF _validate
  <2>2. Passes(c, v) <=> v <= lo
    BY <1>5 DEF Passes, Accepting, Rejecting
  <2> HIDE DEF t, lo, hi
  <2>3. v <= lo <=> v \in Listed(t, lo, hi)
    BY SMTT(30), <1>1, <1>5, <2>1 DEF Listed
  <2> QED
    BY <2>2, <2>3 DEF t, lo, hi
<1>6. CASE t = "GREATER_THAN"
  <2>1. hi \in Int
    BY <1>6, FilterAssumption DEF _validate
  <2>2. Passes(c, v) <=> v > hi
    BY <1>6 DEF Passes, Accepting, Rejecting
  <2> HIDE DEF t, lo, hi
  <2>3. v > hi <=> v \in Listed(t, lo, hi)
    BY SMTT(30), <1>1, <1>6, <2>1 DEF Listed
  <2> QED
    BY <2>2, <2>3 DEF t, lo, hi
<1>7. CASE t = "AT_LEAST"
  <2>1. hi \in Int
    BY <1>7, FilterAssumption DEF _validate
  <2>2. Passes(c, v) <=> v >= hi
    BY <1>7 DEF Passes, Accepting, Rejecting
  <2> HIDE DEF t, lo, hi
  <2>3. v >= hi <=> v \in Listed(t, lo, hi)
    BY SMTT(30), <1>1, <1>7, <2>1 DEF Listed
  <2> QED
    BY <2>2, <2>3 DEF t, lo, hi
<1> QED
  BY <1>2, <1>3, <1>4, <1>5, <1>6, <1>7 DEF Type

(* One more rejected value costs one more window.                          *)
LEMMA OneMore == ASSUME NEW o \in Nat, NEW w \in Nat PROVE (o + 1) * w = o * w + w /\ o * w \in Nat
  BY SMTT(30)

(* A value of the window that ends at n is not much older than the first   *)
(* sample t after its end.                                                 *)
LEMMA LateGap ==
  ASSUME NEW n \in Nat, NEW h \in Nat, NEW s \in Nat, NEW t \in Nat, NEW w \in Nat, NEW d \in Nat,
         n - w <= h, s < n, t <= s + d
  PROVE  t - h < w + d
  BY SMTT(30)

(* The filter is created at the beginning of its first window.             *)
LEMMA InitInv == Init => IInv
<1> SUFFICES ASSUME Init PROVE IInv
  OBVIOUS
<1>1. self \in Settings /\ self.window_size_sec \in Nat
  BY SMTT(30), FilterAssumption DEF Init
<1>2. W \in Nat
  BY SMTT(30), <1>1, FilterAssumption DEF W, Window
<1>3. next_window_time = W
  BY SMTT(30), <1>2 DEF Init, W
<1>4. TypeInv
  <2>1. next_window_time \in Nat /\ now \in 0..MaxTime /\ sampled \in Nat
        /\ heard \in Nat /\ overrides \in Nat /\ start = 0
    BY SMTT(30), <1>2, <1>3, FilterAssumption DEF Init
  <2>2. sample_passed \in BOOLEAN /\ result \in Values \cup {None}
    BY DEF Init
  <2> QED
    BY <1>1, <1>2, <2>1, <2>2 DEF TypeInv
<1>5. Sampling /\ Hearing
  BY SMTT(30), <1>2, <1>3, FilterAssumption DEF Init, Sampling, Hearing
<1>6. Paid
  BY SMTT(30), <1>2, <1>3 DEF Init, Paid
<1> QED
  BY <1>4, <1>5, <1>6 DEF IInv

(* What a call of filter does, without the values: in every case, after    *)
(* the window is over, and before.                                         *)
Sampled ==
    /\ UNCHANGED <<self, now, start>>
    /\ sampled' = now /\ now > sampled
    /\ heard' \in {heard, now}
    /\ result' \in Values \cup {None}

LateStep ==
    /\ now >= next_window_time
    /\ next_window_time' = next_window_time + W
    /\ sample_passed' = FALSE
    /\ sample_passed \/ heard' = now
    /\ overrides' \in {overrides, overrides + 1}

EarlyStep ==
    /\ now < next_window_time
    /\ next_window_time' = next_window_time
    /\ sample_passed' \in BOOLEAN
    /\ sample_passed' => sample_passed \/ heard' = now
    /\ overrides' = overrides

(* Every call is of one of the two kinds.                                  *)
LEMMA FilterStep == TypeInv /\ filter => Sampled /\ (LateStep \/ EarlyStep)
<1> SUFFICES ASSUME TypeInv, filter PROVE Sampled /\ (LateStep \/ EarlyStep)
  OBVIOUS
<1>1. PICK v \in Values :
        /\ _window(v, range_filter(self, v))
        /\ overrides' = overrides
             + (IF range_filter(self, v) = None /\ result' # None THEN 1 ELSE 0)
  BY DEF filter
<1> DEFINE f == range_filter(self, v)
<1>2. f \in {v, None} /\ v # None
  BY FilterAssumption DEF range_filter
<1>3. /\ UNCHANGED <<self, now, start>> /\ sampled' = now /\ now > sampled
      /\ heard' = IF result' = None THEN heard ELSE now
  BY DEF filter
<1>4. result' = IF now >= next_window_time /\ ~ sample_passed /\ f = None THEN v ELSE f
  BY <1>1 DEF _window, Windowed
<1>5. result' \in Values \cup {None} /\ heard' \in {heard, now}
  BY <1>2, <1>3, <1>4
<1>6. CASE now >= next_window_time
  <2>1. next_window_time' = next_window_time + W /\ sample_passed' = FALSE
    BY <1>1, <1>6 DEF _window, _set_next_window_time, W
  <2>2. sample_passed \/ heard' = now
    BY <1>2, <1>3, <1>4, <1>6
  <2>3. overrides' \in {overrides, overrides + 1}
    BY SMTT(30), <1>1 DEF TypeInv
  <2> QED
    BY <1>3, <1>5, <1>6, <2>1, <2>2, <2>3 DEF Sampled, LateStep
<1>7. CASE ~ (now >= next_window_time)
  <2>1. next_window_time' = next_window_time /\ sample_passed' = (sample_passed \/ f # None)
    BY <1>1, <1>7 DEF _window
  <2>2. result' = f
    BY <1>4, <1>7
  <2>3. sample_passed' \in BOOLEAN /\ (sample_passed' => sample_passed \/ heard' = now)
    BY <1>3, <2>1, <2>2
  <2>4. overrides' = overrides
    BY SMTT(30), <1>1, <2>2 DEF TypeInv
  <2>5. now < next_window_time
    BY SMTT(30), <1>7 DEF TypeInv
  <2> QED
    BY <1>3, <1>5, <2>1, <2>3, <2>4, <2>5 DEF Sampled, EarlyStep
<1> QED
  BY <1>6, <1>7

(* A call of filter and the passing of time preserve the invariant.        *)
LEMMA NextInv == IInv /\ [Next]_vars => IInv'
<1> SUFFICES ASSUME IInv, [Next]_vars PROVE IInv'
  OBVIOUS
<1> USE DEF IInv
<1>1. CASE filter
  <2>1. Sampled /\ (LateStep \/ EarlyStep)
    BY <1>1, FilterStep
  <2>2. W' = W
    BY <2>1 DEF Sampled, W, Window
  <2>3. TypeInv'
    <3>1. /\ next_window_time' \in Nat /\ now' \in 0..MaxTime /\ sampled' \in Nat
          /\ heard' \in Nat /\ overrides' \in Nat
      BY SMTT(30), <2>1 DEF TypeInv, Sampled, LateStep, EarlyStep
    <3>2. sample_passed' \in BOOLEAN
      BY <2>1 DEF LateStep, EarlyStep
    <3> QED
      BY <2>1, <2>2, <3>1, <3>2 DEF TypeInv, Sampled
  <2>4. Sampling'
    BY SMTT(30), <2>1, <2>2, FilterAssumption DEF TypeInv, Sampling, Sampled, LateStep, EarlyStep
  <2>5. Hearing'
    <3>1. CASE LateStep
      <4>1. /\ next_window_time' - 2 * W <= heard'
            /\ sampled' < next_window_time' \/ sampled' - heard' < W + MaxGap
        <5>1. CASE sample_passed /\ heard' = heard
          <6>1. next_window_time - W <= heard /\ sampled < next_window_time
            BY <5>1 DEF Hearing
          <6>2. now - heard < W + MaxGap
            BY SMTT(30), <6>1, LateGap, FilterAssumption DEF TypeInv, Sampling
          <6>3. next_window_time' - 2 * W <= heard
            BY SMTT(30), <3>1, <6>1 DEF TypeInv, LateStep
          <6> QED
            BY <2>1, <5>1, <6>2, <6>3 DEF Sampled
        <5>2. CASE heard' = now
          BY SMTT(30), <2>1, <3>1, <5>2, FilterAssumption DEF TypeInv, Sampling, Sampled, LateStep
        <5> QED
          BY <2>1, <3>1, <5>1, <5>2 DEF Sampled, LateStep
      <4>2. ~ sample_passed'
        BY <3>1 DEF LateStep
      <4> QED
        BY <2>2, <4>1, <4>2 DEF Hearing
    <3>2. CASE EarlyStep
      <4>1. /\ next_window_time' - 2 * W <= heard'
            /\ sampled' < next_window_time'
        BY SMTT(30), <2>1, <3>2, FilterAssumption DEF TypeInv, Sampling, Hearing, Sampled, EarlyStep
      <4>2. ASSUME sample_passed' PROVE next_window_time' - W <= heard'
        <5>1. CASE sample_passed
          <6>1. next_window_time - W <= heard
            BY <5>1 DEF Hearing
          <6> QED
            BY SMTT(30), <2>1, <3>2, <6>1 DEF TypeInv, Sampling, Sampled, EarlyStep
        <5>2. CASE heard' = now
          BY SMTT(30), <2>1, <3>2, <5>2 DEF TypeInv, Sampling, Sampled, EarlyStep
        <5> QED
          BY <3>2, <4>2, <5>1, <5>2 DEF EarlyStep
      <4> QED
        BY <2>2, <4>1, <4>2 DEF Hearing
    <3> QED
      BY <2>1, <3>1, <3>2
  <2>6. Paid'
    <3>1. (overrides + 1) * W = overrides * W + W /\ overrides * W \in Nat
      BY OneMore DEF TypeInv
    <3>2. overrides' * W <= next_window_time' - W
      <4>1. CASE overrides' = overrides
        BY SMTT(30), <2>1, <3>1, <4>1 DEF TypeInv, Paid, LateStep, EarlyStep
      <4>2. CASE LateStep /\ overrides' = overrides + 1
        BY SMTT(30), <3>1, <4>2 DEF TypeInv, Paid, LateStep
      <4> QED
        BY <2>1, <4>1, <4>2 DEF LateStep, EarlyStep
    <3> QED
      BY <2>2, <3>2 DEF Paid
  <2> QED
    BY <2>3, <2>4, <2>5, <2>6
<1>2. CASE Tick
  BY SMTT(30), <1>2, FilterAssumption DEF Tick, window, W, Window, TypeInv, Sampling, Hearing, Paid
<1>3. CASE UNCHANGED vars
  BY <1>3 DEF vars, window, W, Window, TypeInv, Sampling, Hearing, Paid
<1> QED
  BY <1>1, <1>2, <1>3 DEF Next

(* The attributes of the filter keep their types.                          *)
THEOREM TypeCorrect == Spec => []TypeOK
<1>1. IInv => TypeOK
  BY DEF IInv, TypeInv, TypeOK
<1> QED
  BY <1>1, InitInv, NextInv, PTL DEF Spec

(* The promise of the class WindowingScheme, for every window and sampling *)
(* interval: filter returns a value in less than Silence.                  *)
THEOREM Heard == Spec => []HeardInTime
<1>1. IInv => HeardInTime
  BY SMTT(30), FilterAssumption DEF IInv, TypeInv, Sampling, Hearing, HeardInTime, Silence, W
<1> QED
  BY <1>1, InitInv, NextInv, PTL DEF Spec

(* A rejected value is returned at most once for every window that has     *)
(* gone by.                                                                *)
THEOREM Rare == Spec => []RareOverrides
<1>1. IInv => RareOverrides
  <2> SUFFICES ASSUME IInv PROVE RareOverrides
    OBVIOUS
  <2>1. overrides * W \in Nat
    BY OneMore DEF IInv, TypeInv
  <2>2. overrides * W <= now - start
    BY SMTT(30), <2>1 DEF IInv, TypeInv, Sampling, Paid
  <2> QED
    BY <2>2 DEF RareOverrides, W
<1> QED
  BY <1>1, InitInv, NextInv, PTL DEF Spec
=============================================================================
