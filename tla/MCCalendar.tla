----------------------------- MODULE MCCalendar -----------------------------
(* Calendar from 1970 to 2101, past the leap year 2000 and the common year *)
(* 2100, with a few times of day.                                          *)
EXTENDS Calendar

FewTimes == {<<0, 0, 0>>, <<0, 0, 59>>, <<11, 59, 1>>, <<23, 59, 59>>}
=============================================================================
