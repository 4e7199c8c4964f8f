------------------------------- MODULE MCHost -------------------------------
(***************************************************************************)
(* Two transports and two schedules, over eight milliseconds: a minute is  *)
(* four, a day four minutes.  Boot is in the second minute of the day and  *)
(* the clocks go forward, past midnight, at instant 13.                   *)
(***************************************************************************)
EXTENDS HostProperties

MCOffset == [t \in Instants |-> IF t < 13 THEN 0 ELSE MinuteMs]
MCDaylight == 7 .. 10
(* Both have occurrences together, one also at the instant of boot, and    *)
(* one three in a row.                                                     *)
MCOccurrences == <<{6, 9, 13}, {9, 10, 11}>>
=============================================================================
