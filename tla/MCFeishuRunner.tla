--------------------------- MODULE MCFeishuRunner ---------------------------
(* Three tasks, two of one session and one of another, and a channel of two:     *)
(* tasks queue behind their own session, sessions compete for permits.           *)
EXTENDS FeishuRunner

CONSTANTS t1, t2, t3, k1, k2

MCTasks == {t1, t2, t3}
MCKeys == {k1, k2}
MCSessionOf == [t \in MCTasks |-> IF t = t3 THEN k2 ELSE k1]
=============================================================================
