------------------------- MODULE MCCrontabSchedule -------------------------
(***************************************************************************)
(* A small calendar with the irregularities of the real one: of two months *)
(* the first has its third day in even years only, and years and months    *)
(* are no multiples of the week of three days.                             *)
(***************************************************************************)
EXTENDS CrontabSchedule

MCDaysInMonth(y, m) == IF m = 1 /\ y % 2 = 1 THEN 2 ELSE 3

MCDayOfWeek(y, m, d) ==
    (5 * y + (y - 1) \div 2 + (IF m = 2 THEN MCDaysInMonth(y, 1) ELSE 0) + d) % 3
=============================================================================
