-------------------------- MODULE MCSerialManager --------------------------
(***************************************************************************)
(* The ways of using the serial manager that the runs look at.  Two        *)
(* callers on one level, whose handles block or not in every mix; the same *)
(* two with one above the other, where only the lower one writes blocking; *)
(* and with other components filling the common task's queue.  One handle  *)
(* that is also cancelled, closed and opened again, below the task; and    *)
(* one caller with several handles that cancels one of them.               *)
(***************************************************************************)
EXTENDS SerialManager

CONSTANTS w1, w2, w3, t1, t2

Owners == [w \in {w1, w2, w3} |-> IF w = w2 THEN t2 ELSE t1]
Owned(c) == {w \in Handles : Owners[w] = c}
Usage(blocks, above, others) ==
  [owner |-> Owners, blocking |-> blocks, cancels |-> {}, taskFirst |-> FALSE,
   high |-> above, reads |-> TRUE, crowded |-> others]

OneLevel == {Usage(b, {}, FALSE) : b \in SUBSET Handles}
TwoLevels == UNION {{Usage(b, {c}, FALSE) : b \in SUBSET (Handles \ Owned(c))} :
                      c \in Callers}
Crowded == {Usage({w1}, {}, TRUE)}

Cancels(owners) ==
  [owner |-> owners, blocking |-> {}, cancels |-> {w1}, taskFirst |-> TRUE,
   high |-> {}, reads |-> FALSE, crowded |-> FALSE]
OneHandle == Cancels([w \in Handles |-> IF w = w1 THEN t1 ELSE None])
OneCaller == Cancels([w \in Handles |-> t1])

Safe == OneLevel \cup TwoLevels \cup Crowded \cup {OneHandle}
Cancelling == {OneCaller}
=============================================================================
