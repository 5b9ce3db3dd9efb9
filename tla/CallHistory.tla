---------------------------- MODULE CallHistory -----------------------------
(***************************************************************************)
(* messenger-service's call history: the consumer that projects the call   *)
(* events of realtime-service onto Postgres (nats/calls-consumer.ts,       *)
(* services/calls.ts), the sweep that closes calls nobody reported the end *)
(* of (plugins/call-sweep.ts), and what a reader is shown.                 *)
(***************************************************************************)
EXTENDS PullConsumer

CONSTANTS
    Calls, Conversations, Owners,
    EventOf,      \* what each message says, see Events
    StartOf,      \* [Calls -> Nat], started_at, the same in every event of a call
    ConvOf,       \* [Calls -> Conversations]
    InvitedTo,    \* [Calls -> SUBSET Owners], participant_ids, likewise
    Lifetime,     \* CALL_MAX_LIFETIME_SECONDS
    Null,         \* SQL's
    Ageing,       \* bound: calls that reach their lifetime
    Droppable,    \* bound: conversations that are deleted
    MaxFaults     \* bound: transactions and dead letters that fail

VARIABLES
    exists,       \* conversations there are
    row,          \* calls
    rung,         \* call_participants
    joined,       \* call_participants with joined set
    activity,     \* conversations.last_activity_at
    old,          \* calls that began a lifetime ago
    dead,         \* messages published to the DLQ
    applied,      \* history: messages whose transaction committed
    swept,        \* history: calls the sweep closed
    faults        \* how much of MaxFaults is used

tables == <<exists, row, rung, joined, activity>>
vars == <<consumer, tables, old, dead, applied, swept, faults>>

(* The reasons the column takes from an event, and the one it does not.      *)
EventReasons == {"hangup", "declined", "missed", "busy", "ice_failed"}
RowReasons == EventReasons \cup {"expired"}
(* The reasons realtime-service gives; "none" is an absent field.            *)
Reasons == EventReasons \cup {"empty", "answered_elsewhere", "none"}
Kinds == {"started", "ended", "missed"}

Events ==
    [kind : Kinds, call : Calls, at : Nat, answered : Nat \cup {Null},
     reason : Reasons, talk : Nat, joined : SUBSET Owners]
    \cup [kind : {"garbage", "unusable"}]

ASSUME HistoryAssumption ==
    /\ EventOf \in [Msgs -> Events]
    /\ StartOf \in [Calls -> Nat] /\ Lifetime \in Nat
    /\ ConvOf \in [Calls -> Conversations]
    /\ InvitedTo \in [Calls -> SUBSET Owners]
    /\ Ageing \in SUBSET Calls /\ Droppable \in SUBSET Conversations
    /\ MaxFaults \in Nat
    /\ Null \notin Nat \cup RowReasons

NoRow == [there |-> FALSE, answered |-> Null, ended |-> Null, reason |-> Null, talk |-> 0]
Rows == [there : BOOLEAN, answered : Nat \cup {Null}, ended : Nat \cup {Null},
         reason : RowReasons \cup {Null}, talk : Nat]

TypeOK ==
    /\ ConsumerTypeOK
    /\ exists \in SUBSET Conversations
    /\ row \in [Calls -> Rows]
    /\ rung \in [Calls -> SUBSET Owners]
    /\ joined \in [Calls -> SUBSET Owners]
    /\ activity \in [Conversations -> Nat]
    /\ old \in SUBSET Calls
    /\ dead \in SUBSET Msgs
    /\ applied \in SUBSET Msgs
    /\ swept \in SUBSET Calls
    /\ faults \in Nat

Init ==
    /\ ConsumerInit
    /\ exists = Conversations
    /\ row = [d \in Calls |-> NoRow]
    /\ rung = [d \in Calls |-> {}]
    /\ joined = [d \in Calls |-> {}]
    /\ activity = [v \in Conversations |-> 0]
    /\ old = {}
    /\ dead = {}
    /\ applied = {}
    /\ swept = {}
    /\ faults = 0

-----------------------------------------------------------------------------
(* Reading an event. *)

Usable(m) == EventOf[m].kind \in Kinds
CallOf(m) == EventOf[m].call
Ending(m) == EventOf[m].kind \in {"ended", "missed"}

(* asEndReason, and the default of an ending whose reason the column would   *)
(* not take.                                                                 *)
EndReason(e) ==
    IF e.reason \in EventReasons THEN e.reason
    ELSE IF e.kind = "missed" THEN "missed" ELSE "hangup"

(* The envelope's own timestamp is when the call ended.                      *)
ToProjection(e) ==
    IF e.kind = "started"
    THEN [answered |-> e.answered, ended |-> Null, reason |-> Null, talk |-> 0]
    ELSE [answered |-> e.answered, ended |-> e.at, reason |-> EndReason(e), talk |-> e.talk]

-----------------------------------------------------------------------------
(* The transaction. *)

Coalesce(x, y) == IF x = Null THEN y ELSE x
Greatest(x, y) == IF x < y THEN y ELSE x

(* Mutant of Upsert: SET duration_seconds = EXCLUDED.duration_seconds.       *)
UpsertOver(r, p) ==
    [there |-> TRUE, answered |-> Coalesce(r.answered, p.answered),
     ended |-> Coalesce(r.ended, p.ended), reason |-> Coalesce(r.reason, p.reason),
     talk |-> p.talk]

Upsert(r, p) ==
    [there |-> TRUE, answered |-> Coalesce(r.answered, p.answered),
     ended |-> Coalesce(r.ended, p.ended), reason |-> Coalesce(r.reason, p.reason),
     talk |-> Greatest(r.talk, p.talk)]

(* Mutant of ProjectCall: joined is overwritten by the later event.          *)
ProjectOver(m) ==
    LET e == EventOf[m]
        d == e.call
    IN /\ row' = [row EXCEPT ![d] = Upsert(@, ToProjection(e))]
       /\ rung' = [rung EXCEPT ![d] = @ \cup InvitedTo[d] \cup e.joined]
       /\ joined' = [joined EXCEPT ![d] = e.joined]
       /\ activity' = [activity EXCEPT ![ConvOf[d]] =
              Greatest(@, Coalesce(ToProjection(e).ended, StartOf[d]))]
       /\ UNCHANGED exists

(* The row, the participants and the conversation's place in the list, at    *)
(* once.                                                                     *)
ProjectCall(m) ==
    LET e == EventOf[m]
        d == e.call
    IN /\ row' = [row EXCEPT ![d] = Upsert(@, ToProjection(e))]
       /\ rung' = [rung EXCEPT ![d] = @ \cup InvitedTo[d] \cup e.joined]
       /\ joined' = [joined EXCEPT ![d] = @ \cup e.joined]
       /\ activity' = [activity EXCEPT ![ConvOf[d]] =
              Greatest(@, Coalesce(ToProjection(e).ended, StartOf[d]))]
       /\ UNCHANGED exists

-----------------------------------------------------------------------------
(* handleMessage. *)

(* Undecodable: terminated.  Decodable and not a call event the projection   *)
(* understands: acknowledged.                                                *)
SetAside(w) ==
    /\ At(w, "taken") /\ ~Usable(InHand(w))
    /\ Answer(w, IF EventOf[InHand(w)].kind = "garbage" THEN "termed" ELSE "acked")
    /\ UNCHANGED <<tables, old, dead, applied, swept, faults>>

Project(w) ==
    /\ At(w, "taken") /\ Usable(InHand(w)) /\ ConvOf[CallOf(InHand(w))] \in exists
    /\ ProjectCall(InHand(w))
    /\ applied' = applied \cup {InHand(w)}
    /\ Reach(w, "done")
    /\ UNCHANGED <<old, dead, swept, faults>>

Acknowledge(w) ==
    /\ At(w, "done")
    /\ Answer(w, "acked")
    /\ UNCHANGED <<tables, old, dead, applied, swept, faults>>

(* The foreign key says the conversation is gone.                            *)
TermOrphan(w) ==
    /\ At(w, "taken") /\ Usable(InHand(w)) /\ ConvOf[CallOf(InHand(w))] \notin exists
    /\ Answer(w, "termed")
    /\ UNCHANGED <<tables, old, dead, applied, swept, faults>>

(* Mutant of GiveUpOrRetry: the last failure is acknowledged outright.       *)
GiveUpSilently(w) ==
    IF hand[w].nth >= MaxDeliver THEN Reach(w, "done") ELSE Nak(w)

GiveUpOrRetry(w) ==
    IF hand[w].nth >= MaxDeliver THEN Reach(w, "giveup") ELSE Nak(w)

(* The transaction fails.  It may have committed all the same, when it is    *)
(* the answer that was lost.                                                 *)
ProjectFails(w) ==
    /\ At(w, "taken") /\ Usable(InHand(w)) /\ faults < MaxFaults
    /\ \/ UNCHANGED <<tables, applied>>
       \/ /\ ConvOf[CallOf(InHand(w))] \in exists
          /\ ProjectCall(InHand(w))
          /\ applied' = applied \cup {InHand(w)}
    /\ GiveUpOrRetry(w)
    /\ faults' = faults + 1
    /\ UNCHANGED <<old, dead, swept>>

PublishDlq(w) ==
    /\ At(w, "giveup")
    /\ dead' = dead \cup {InHand(w)}
    /\ Reach(w, "done")
    /\ UNCHANGED <<tables, old, applied, swept, faults>>

(* Not caught in the handler: the exception leaves through the loop.         *)
DlqFails(w) ==
    /\ At(w, "giveup") /\ faults < MaxFaults
    /\ Throw(w)
    /\ faults' = faults + 1
    /\ UNCHANGED <<tables, old, dead, applied, swept>>

-----------------------------------------------------------------------------
(* The sweep, time, and the conversation's end. *)

Expiry(d) == StartOf[d] + Lifetime
Stale(d) == row[d].there /\ row[d].ended = Null /\ d \in old

(* Mutant of SweepStaleCalls: every open call is closed, whatever its age.   *)
SweepOpenCalls ==
    /\ \E d \in Calls : row[d].there /\ row[d].ended = Null
    /\ row' = [d \in Calls |-> IF row[d].there /\ row[d].ended = Null
                               THEN [row[d] EXCEPT !.ended = Expiry(d), !.reason = "expired"]
                               ELSE row[d]]
    /\ swept' = swept \cup {d \in Calls : Stale(d)}
    /\ UNCHANGED <<consumer, exists, rung, joined, activity, old, dead, applied, faults>>

SweepStaleCalls ==
    /\ \E d \in Calls : Stale(d)
    /\ row' = [d \in Calls |-> IF Stale(d)
                               THEN [row[d] EXCEPT !.ended = Expiry(d), !.reason = "expired"]
                               ELSE row[d]]
    /\ swept' = swept \cup {d \in Calls : Stale(d)}
    /\ UNCHANGED <<consumer, exists, rung, joined, activity, old, dead, applied, faults>>

Age(d) ==
    /\ d \in Ageing \ old
    /\ old' = old \cup {d}
    /\ UNCHANGED <<consumer, tables, dead, applied, swept, faults>>

(* ON DELETE CASCADE.                                                        *)
DropConversation(v) ==
    /\ v \in exists \cap Droppable
    /\ exists' = exists \ {v}
    /\ row' = [d \in Calls |-> IF ConvOf[d] = v THEN NoRow ELSE row[d]]
    /\ rung' = [d \in Calls |-> IF ConvOf[d] = v THEN {} ELSE rung[d]]
    /\ joined' = [d \in Calls |-> IF ConvOf[d] = v THEN {} ELSE joined[d]]
    /\ UNCHANGED <<consumer, activity, old, dead, applied, swept, faults>>

(* What a reader is shown: the lifetime applied on the way out.              *)
SettleStaleCall(d) ==
    IF Stale(d)
    THEN [row[d] EXCEPT !.ended = Expiry(d), !.reason = "expired", !.talk = 0]
    ELSE row[d]

-----------------------------------------------------------------------------
HandleMessage(w) ==
    \/ SetAside(w)
    \/ Project(w)
    \/ Acknowledge(w)
    \/ TermOrphan(w)
    \/ ProjectFails(w)
    \/ PublishDlq(w)
    \/ DlqFails(w)

service == <<tables, old, dead, applied, swept, faults>>

Next ==
    \/ \E m \in Msgs : (Publish(m) \/ AckWaitOver(m)) /\ UNCHANGED service
    \/ \E w \in Workers : (Consuming(w) \/ Failing(w) \/ StartAgain(w)) /\ UNCHANGED service
    \/ \E w \in Workers : HandleMessage(w)
    \/ SweepStaleCalls
    \/ \E d \in Calls : Age(d)
    \/ \E v \in Conversations : DropConversation(v)

(* The broker delivers and waits no longer than the ack wait, and a worker   *)
(* that runs gets on with its batch.  Nothing brings a stopped worker back.  *)
Fairness ==
    /\ \A w \in Workers :
          /\ WF_vars(Consuming(w) /\ UNCHANGED service)
          /\ WF_vars(HandleMessage(w))
    /\ \A m \in Msgs : WF_vars(AckWaitOver(m) /\ UNCHANGED service)

Spec == Init /\ [][Next]_vars /\ Fairness

-----------------------------------------------------------------------------
(* Properties. *)

(* handleMessage: a message is acknowledged only when its transaction        *)
(* committed, it is in the DLQ, or it is nothing the projection understands; *)
(* it is terminated only when undecodable or when its conversation is gone.  *)
(* So whatever stops, dies, is slow or is delivered again, the broker never  *)
(* forgets an event that the service has not dealt with.                     *)
AnsweredIsDealtWith ==
    \A m \in Msgs :
        /\ fate[m] = "acked" => m \in applied \cup dead \/ EventOf[m].kind = "unusable"
        /\ fate[m] = "termed" => \/ EventOf[m].kind = "garbage"
                                 \/ Usable(m) /\ ConvOf[CallOf(m)] \notin exists

(* projectCall: however often and in whatever order events came, a row sums  *)
(* them up.  It is answered when any of them says so; it ended as one of     *)
(* them says, time and reason of the same event, or as the sweep concluded   *)
(* before any of them came; it lasted as long as the longest says; whoever   *)
(* joined according to any of them joined.                                   *)
SaidOf(d) == {ToProjection(EventOf[m]) : m \in {n \in applied : CallOf(n) = d}}

JoinedIn(d) == UNION {EventOf[m].joined : m \in {n \in applied : CallOf(n) = d}}

AnsweredAsSaid(r, said) ==
    IF r.answered = Null THEN \A p \in said : p.answered = Null
    ELSE \E p \in said : p.answered = r.answered

EndedAsSaid(r, said) ==
    IF r.ended = Null THEN r.reason = Null /\ \A p \in said : p.ended = Null
    ELSE \E p \in said : p.ended = r.ended /\ p.reason = r.reason

LastedAsSaid(r, said) ==
    /\ \A p \in said : p.talk <= r.talk
    /\ r.talk = 0 \/ \E p \in said : p.talk = r.talk

RowSumsUpEvents ==
    \A d \in Calls : ConvOf[d] \in exists =>
        /\ row[d].there <=> SaidOf(d) # {}
        /\ AnsweredAsSaid(row[d], SaidOf(d))
        /\ IF d \in swept THEN row[d].ended = Expiry(d) /\ row[d].reason = "expired"
           ELSE EndedAsSaid(row[d], SaidOf(d))
        /\ LastedAsSaid(row[d], SaidOf(d))
        /\ joined[d] = JoinedIn(d)

(* settleStaleCall, sweepStaleCalls: one rule governs the read and the       *)
(* sweep.  A step that reads no event and drops no conversation shows        *)
(* nobody anything new, but that a call has reached its lifetime.            *)
OnlyNewsIsShown ==
    [][applied' = applied /\ exists' = exists /\ old' = old
         => \A d \in Calls : SettleStaleCall(d)' = SettleStaleCall(d)]_vars

(* The broker and the loop: every event is answered, or spent its            *)
(* deliveries.                                                               *)
EventsAreAnswered ==
    \A m \in Msgs : m \in Published ~> fate[m] \in {"acked", "termed", "lost"}

-----------------------------------------------------------------------------
(* What comments say, and the code does not guarantee.                       *)

(* nats/streams.ts, DLQ_SINK_CALLS: "DLQ sink when the call projection       *)
(* exhausts max_deliver".                                                    *)
LostIsDeadLettered == \A m \in Msgs : fate[m] = "lost" => m \in applied \cup dead
=============================================================================
