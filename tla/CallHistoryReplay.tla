------------------------- MODULE CallHistoryReplay --------------------------
(* The calls table against the stream it is derived from.                    *)
EXTENDS CallHistory

Says(m, d) == Usable(m) /\ CallOf(m) = d

(* 003_calls.sql: the table "is derived, so it is rebuildable by replaying   *)
(* the EVENTS stream".  What the stream's first events make of a call.       *)
Replays(d) ==
    LET upTo[n \in 0 .. Len(stream)] ==
            IF n = 0 THEN NoRow
            ELSE IF Says(stream[n], d) THEN Upsert(upTo[n - 1], ToProjection(EventOf[stream[n]]))
            ELSE upTo[n - 1]
    IN upTo
Replayed(d) == Replays(d)[Len(stream)]

(* Events that do not differ on when the call was answered, and one of them  *)
(* at most that ends it.                                                     *)
OneAnswer(said) ==
    \A m, n \in said : \/ EventOf[m].answered = EventOf[n].answered
                       \/ Null \in {EventOf[m].answered, EventOf[n].answered}
OneEnding(said) == \A m, n \in said : Ending(m) /\ Ending(n) => m = n

(* projectCall, "an ended that overtakes its started converges on the same   *)
(* row either way": once every event of a call came through, and they tell   *)
(* of one answer and of one end at most, its row is what one replay of the   *)
(* stream, in order and without repetition, would make of them.              *)
Rebuildable ==
    \A d \in Calls :
        LET said == {m \in Published : Says(m, d)}
        IN ConvOf[d] \in exists /\ d \notin swept /\ said \subseteq applied /\ OneAnswer(said) /\ OneEnding(said)
             => row[d] = Replayed(d)
=============================================================================
