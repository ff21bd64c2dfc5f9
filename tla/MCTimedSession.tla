--------------------------- MODULE MCTimedSession ---------------------------
(* The times of the TLC instance of TimedSession: the shortest and the       *)
(* longest, and those around every unit and every carry into the next one.  *)
EXTENDS TimedSession

Around(n) == {n - 1, n, n + 1}

MCTimes ==
  {0, 1, MaxLong - 1} \cup
  UNION {Around(u) : u \in {Second, Minute, Hour, Day, 59 * Minute + 59 * Second,
                            23 * Hour + 59 * Minute, 24 * Day + 20 * Hour}}

MCFractions == {0, 1, 4999, 5000, 9994, 9995, 9999}

=============================================================================
