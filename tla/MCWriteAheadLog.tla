----------------------------- MODULE MCWriteAheadLog ----------------------------
(****************************************************************************)
(* WriteAheadLog for TLC: an empty and a one-letter key, a one-letter value *)
(* (a delete has an empty one), and a millisecond clock of the year 2025.   *)
(* What is left of an entry that was cut off ends in each of its fields, so *)
(* each test of deserializeEntry is once the one that fails.                *)
(****************************************************************************)
EXTENDS WriteAheadLog

ClockBytes == <<0, 104, 229, 173, 148, 1, 0, 0>>
LeftBytes == {0, 3, 11, 19, 21, 22, 24, 25}
SmallKeys == {<<>>, <<107>>}
SmallValues == {<<118>>}
================================================================================
