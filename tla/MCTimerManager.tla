--------------------------- MODULE MCTimerManager ---------------------------
(* Two timers, each used for a fast or slow repetition and for a single      *)
(* expiration as a low power timer; and two slow ones of the same period.    *)
EXTENDS TimerManager

CONSTANTS t1, t2

Use(repeats, timeout) ==
  [mode |-> [repeats |-> repeats, lowPower |-> ~repeats], timeout |-> timeout]

TwoUses == [t \in Timers |-> IF t = t1 THEN {Use(TRUE, 1), Use(FALSE, 2)}
                                      ELSE {Use(TRUE, 3), Use(FALSE, 1)}]
SamePeriod == [t \in Timers |-> {Use(TRUE, 2)}]
=============================================================================
