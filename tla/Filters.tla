------------------------------ MODULE Filters ------------------------------
(***************************************************************************)
(* The range filter and the windowing scheme around it                     *)
(* (liota/lib/utilities/filters), called by a sampling function at the     *)
(* times the metric is collected.  None stands for Python's None, every    *)
(* other value that is not an integer for one that is not a number.        *)
(***************************************************************************)
EXTENDS Integers

CONSTANTS
    Settings,    \* [filter_type, lower_bound, upper_bound, window_size_sec]
    Values,      \* what the sampling function may measure
    None,        \* no value
    Number,      \* the members of Values and of the bounds that are numbers
    Millis,      \* the length of a second on the clock
    MaxGap,      \* the longest time between two samples
    MaxTime      \* the bound of the clock

ASSUME FilterAssumption ==
    /\ Millis \in Nat /\ MaxGap \in Nat \ {0} /\ MaxTime \in Nat
    /\ None \notin Values /\ Number \subseteq Int
    /\ \A c \in Settings : c.window_size_sec \in Int

VARIABLES
    self,              \* the filter: one of Settings
    sample_passed,     \* a sample has passed in this window
    next_window_time,
    now,               \* getUTCmillis()
    sampled,           \* ghost: when the last sample was taken
    result,            \* what filter returned for it
    heard,             \* ghost: when filter last returned a value
    start,             \* ghost: when the filter was created
    overrides          \* ghost: how often a rejected value was returned

window == <<sample_passed, next_window_time>>
vars == <<self, window, now, sampled, result, heard, start, overrides>>

---------------------------------------------------------------------------
Accepting == {"CLOSED", "OPEN", "CLOSED_OPEN", "OPEN_CLOSED"}
Rejecting == {"CLOSED_REJECT", "OPEN_REJECT", "CLOSED_OPEN_REJECT", "OPEN_CLOSED_REJECT"}
Type == Accepting \cup Rejecting \cup {"LESS_THAN", "AT_MOST", "GREATER_THAN", "AT_LEAST"}

(* The bounds a constructor accepts.                                       *)
_validate(c) ==
    /\ c.filter_type \in Accepting \cup Rejecting =>
           c.lower_bound \in Number /\ c.upper_bound \in Number
    /\ c.filter_type \in {"LESS_THAN", "AT_MOST"} => c.lower_bound \in Number
    /\ c.filter_type \in {"GREATER_THAN", "AT_LEAST"} => c.upper_bound \in Number

Inside(t, lo, v, hi) ==
    \/ t \in {"CLOSED", "CLOSED_REJECT"} /\ lo <= v /\ v <= hi
    \/ t \in {"OPEN", "OPEN_REJECT"} /\ lo < v /\ v < hi
    \/ t \in {"CLOSED_OPEN", "CLOSED_OPEN_REJECT"} /\ lo <= v /\ v < hi
    \/ t \in {"OPEN_CLOSED", "OPEN_CLOSED_REJECT"} /\ lo < v /\ v <= hi

Passes(c, v) ==
    \/ c.filter_type \in Accepting /\ Inside(c.filter_type, c.lower_bound, v, c.upper_bound)
    \/ c.filter_type \in Rejecting /\ ~ Inside(c.filter_type, c.lower_bound, v, c.upper_bound)
    \/ c.filter_type = "LESS_THAN" /\ v < c.lower_bound
    \/ c.filter_type = "AT_MOST" /\ v <= c.lower_bound
    \/ c.filter_type = "GREATER_THAN" /\ v > c.upper_bound
    \/ c.filter_type = "AT_LEAST" /\ v >= c.upper_bound

(* RangeFilter.filter: what is not a number passes as it is.               *)
range_filter(c, v) == IF v \in Number => Passes(c, v) THEN v ELSE None

---------------------------------------------------------------------------
Window == self.window_size_sec * Millis

Init ==
    /\ self \in {c \in Settings : _validate(c) /\ c.window_size_sec >= 0}
    /\ now = 0 /\ start = 0
    /\ sample_passed = FALSE
    /\ next_window_time = now + Window
    /\ sampled = 0 /\ heard = 0 /\ overrides = 0
    /\ result = None

_set_next_window_time_now ==
    /\ next_window_time' = now
    /\ sample_passed' = FALSE

_set_next_window_time ==
    /\ next_window_time' = next_window_time + Window
    /\ sample_passed' = FALSE

Windowed_passed(v, filtered) ==
    IF now >= next_window_time /\ sample_passed /\ filtered = None THEN v ELSE filtered

(* The result of _window: the value itself when its window is over and     *)
(* nothing has passed in it.                                               *)
Windowed(v, filtered) ==
    IF now >= next_window_time /\ ~ sample_passed /\ filtered = None THEN v ELSE filtered

_window(v, filtered) ==
    /\ result' = Windowed(v, filtered)
    /\ IF now >= next_window_time
       THEN _set_next_window_time
       ELSE /\ sample_passed' = (sample_passed \/ filtered # None)
            /\ UNCHANGED next_window_time

(* WindowingScheme.filter, called with a measured value.                   *)
filter ==
    /\ now > sampled
    /\ \E v \in Values :
          /\ _window(v, range_filter(self, v))
          /\ overrides' = overrides
                 + (IF range_filter(self, v) = None /\ result' # None THEN 1 ELSE 0)
    /\ sampled' = now
    /\ heard' = IF result' = None THEN heard ELSE now
    /\ UNCHANGED <<self, now, start>>

(* Time passes; the metric is sampled before more than MaxGap has gone by. *)
Tick ==
    /\ now < MaxTime /\ now < sampled + MaxGap
    /\ now' = now + 1
    /\ UNCHANGED <<self, window, sampled, result, heard, start, overrides>>

Next == filter \/ Tick
Spec == Init /\ [][Next]_vars

---------------------------------------------------------------------------
TypeOK ==
    /\ sample_passed \in BOOLEAN
    /\ next_window_time \in Nat
    /\ now \in 0..MaxTime
    /\ result \in Values \cup {None}

(* The bound on the time filter returns nothing for: two windows and a     *)
(* sampling interval, or one window and two intervals.                     *)
Silence == IF MaxGap <= Window THEN 2 * Window + MaxGap ELSE Window + 2 * MaxGap

(* "Even if all values has been filtered out at the end of every time      *)
(* window, collected value is returned so that DCC is aware of it"         *)
(* (class WindowingScheme): whatever passes and whenever it is sampled,    *)
(* the DCC hears of the metric in less than Silence.                       *)
HeardInTime == now - heard < Silence

(* Rejected values are let through at most once a window, counted from the *)
(* creation of the filter, also when samples come late and several windows *)
(* are over at once.                                                       *)
RareOverrides == overrides * Window <= now - start
=============================================================================
