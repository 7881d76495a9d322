---------------------------- MODULE MCTimeSlots -----------------------------
(* Attributes for model checking TimeSlots. *)
EXTENDS TimeSlots

Single(t) == [kind |-> "time", start |-> t, finish |-> t, incr |-> 0, relative |-> FALSE]
Series(s, f, i) == [kind |-> "time", start |-> s, finish |-> f, incr |-> i, relative |-> FALSE]
Cron(a) == [a EXCEPT !.kind = "cron"]

SeriesOnly == <<Series(2, 8, 2)>>
SingleAndSeries == <<Single(2), Series(4, 8, 2)>>
SingleAndUneven == <<Single(2), Series(3, 6, 2)>>
LateSeries == <<Series(5, 7, 1)>>
OneCron == <<Cron(Series(1, 5, 2))>>
Unsorted == <<Single(4), Single(2)>>
=============================================================================
