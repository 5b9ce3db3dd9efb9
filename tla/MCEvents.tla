------------------------------ MODULE MCEvents ------------------------------
(* Small instances of the event store and its page, one per question.     *)
EXTENDS EventList, TLC

CONSTANTS t1, t2

Event(id, type, at, us) == [id |-> id, type |-> type, at |-> at, us |-> us, ok |-> TRUE]
Stray == [Event(5, "b", 2, 0) EXCEPT !.ok = FALSE]

Old == Event(1, "a", 0, 0)
Near == Event(2, "b", 1, 1)
Twin == Event(3, "a", 1, 2)
Today == Event(4, "b", 2, 0)
Ahead == Event(6, "a", 4, 0)
MCEvents == {Old, Near, Twin, Today, Stray, Ahead}

Kinds == {"publish", "skew", "day", "neglect", "crash", "fault", "others", "job", "replay", "move"}
Do(some) == some @@ [k \in Kinds |-> 0]
Plan(start, table, queue, acts) == [now |-> start, rows |-> table, stream |-> queue, left |-> Do(acts)]

(* The page over a full table, rows arriving the while.                    *)
Walk == {Plan(2, {Old, Near, Today}, {Twin}, ("move" :> 4) @@ ("fault" :> 1)),
         Plan(2, {Old, Near, Twin, Today}, {}, ("move" :> 5))}

(* Days and months pass: events late and new, the job, its death.          *)
Months == {Plan(0, {Old}, {}, ("publish" :> 2) @@ ("day" :> 6) @@ ("job" :> 3) @@ ("crash" :> 1)),
           Plan(2, {Old, Near}, {Twin}, ("day" :> 4) @@ ("job" :> 2) @@ ("fault" :> 1) @@ ("publish" :> 1))}

(* An event dies, is replayed from two tabs, a process at a time.          *)
Dead == {Plan(2, {}, {Near}, ("fault" :> 3) @@ ("replay" :> 3) @@ ("crash" :> 1)),
         Plan(2, {Old, Near}, {Stray}, ("others" :> 1) @@ ("replay" :> 2) @@ ("crash" :> 1) @@ ("fault" :> 1)
                                       @@ ("job" :> 1) @@ ("day" :> 2))}

MCPlans == Walk \cup Months \cup Dead

(* No plan lets a clock run ahead or the partitions run out.               *)
ASSUME PlansKeepTime == ClocksAgree
=============================================================================
