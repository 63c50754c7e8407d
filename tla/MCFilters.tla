----------------------------- MODULE MCFilters -----------------------------
(* Every type of filter, with bounds in order, equal and in the wrong      *)
(* order, and those the constructor refuses; a window of no length, one    *)
(* that is longer and one that is shorter than the sampling interval.      *)
EXTENDS Filters

CONSTANTS Text   \* a value that is not a number

MCSettings ==
    [filter_type : Type, lower_bound : {2}, upper_bound : {1, 2, 4},
     window_size_sec : {1}]
    \cup [filter_type : {"CLOSED", "AT_MOST", "AT_LEAST"}, lower_bound : {None, 2},
          upper_bound : {None, 3}, window_size_sec : {-1, 0, 1, 2}]

MCValues == {1, 2, 3, 4, 5, Text}
MCNumber == -1 .. 6
=============================================================================
