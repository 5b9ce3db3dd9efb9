------------------------------ MODULE MCNotify -------------------------------
(***************************************************************************)
(* The instances for NotificationBell: three notifications, the last of    *)
(* them a dead letter; up to three streams.                                *)
(***************************************************************************)
EXTENDS NotificationBell, TLC

MCLoopOf(n) == IF n = 3 THEN "dlq" ELSE "events"

None0 == [a \in {"publish", "burst", "database", "ack", "die", "smtp", "day", "purge",
                 "mount", "leave", "lose", "break", "press"} |-> 0]
Instance(stored, read, mailing, left) == [stored |-> stored, read |-> read, digest |-> mailing, left |-> left @@ None0]

MCPlans ==
  {\* messages redelivered while a process dies
   Instance({}, {}, FALSE, [publish |-> 1, ack |-> 1, database |-> 1, die |-> 1, mount |-> 1, break |-> 1]),
   Instance({}, {}, FALSE, [publish |-> 1, ack |-> 1, mount |-> 1, press |-> 2, lose |-> 1]),
   \* the stream and the bell that comes and goes
   Instance({1}, {}, FALSE, [publish |-> 1, mount |-> 2, leave |-> 2, lose |-> 1, break |-> 1]),
   \* reading while notifications arrive, in pages
   Instance({1, 2}, {}, FALSE, [publish |-> 1, mount |-> 1, press |-> 3, lose |-> 1]),
   Instance({1, 2}, {1}, FALSE, [purge |-> 1, mount |-> 1, press |-> 4]),
   Instance({1}, {}, FALSE, [publish |-> 2, burst |-> 1, mount |-> 1, press |-> 2]),
   \* the digest
   Instance({1}, {}, TRUE, [publish |-> 1, smtp |-> 1, database |-> 1, day |-> 2, die |-> 1]),
   Instance({1}, {}, TRUE, [publish |-> 1, day |-> 1, mount |-> 1, press |-> 2])}
=============================================================================
