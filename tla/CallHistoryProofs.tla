------------------------- MODULE CallHistoryProofs --------------------------
(***************************************************************************)
(* Theorems about CallHistory for every set of messages, whatever they say *)
(* and in whatever order they come, every number of workers and every      *)
(* bound.  What is said of the broker and the loop alone comes first.      *)
(***************************************************************************)
EXTENDS CallHistoryReplay, WellFoundedInduction, TLAPS

-----------------------------------------------------------------------------
(* The broker and the loop: what each of their steps preserves.              *)

(* A step after which no worker is past its work that was not before, and no *)
(* message is answered that was not before.                                  *)
NobodyGetsDone ==
    \A w \in Workers : At(w, "done")' => At(w, "done") /\ InHand(w)' = InHand(w)
NothingIsAnswered ==
    \A m \in Msgs : fate'[m] \in {"acked", "termed"} => fate'[m] = fate[m]
Quiet == ConsumerTypeOK' /\ NobodyGetsDone /\ NothingIsAnswered

LEMMA ConsumerInitTyped == ConsumerInit => ConsumerTypeOK
BY ConsumerAssumption DEF ConsumerInit, ConsumerTypeOK, Fates, InHands, Delivery

LEMMA AgainTyped ==
    ASSUME NEW m \in Msgs
    PROVE  Again(m) \in {"due", "lost"}
BY DEF Again

(* A busy hand holds a delivery; empty hands and batches are in their types. *)
LEMMA BusyHand ==
    ASSUME ConsumerTypeOK, NEW w \in Workers, NEW stage, At(w, stage)
    PROVE  /\ hand[w] \in [busy : {TRUE}, msg : Msgs, nth : Nat, stage : Stages]
           /\ InHand(w) \in Msgs
<1>1. hand[w] \in InHands /\ hand[w].busy
  BY DEF ConsumerTypeOK, At
<1>2. Nothing.busy = FALSE
  BY DEF Nothing
<1>3. hand[w] \in [busy : {TRUE}, msg : Msgs, nth : Nat, stage : Stages]
  BY <1>1, <1>2 DEF InHands
<1> QED
  BY <1>3 DEF InHand

LEMMA EmptyTyped ==
    ASSUME ConsumerTypeOK, NEW w
    PROVE  /\ [hand EXCEPT ![w] = Nothing] \in [Workers -> InHands]
           /\ [batch EXCEPT ![w] = <<>>] \in [Workers -> Seq(Delivery)]
<1>1. Nothing \in InHands
  BY DEF InHands
<1>2. <<>> \in Seq(Delivery)
  OBVIOUS
<1> QED
  BY <1>1, <1>2 DEF ConsumerTypeOK

LEMMA StopCounted ==
    ASSUME ConsumerTypeOK
    PROVE  [used EXCEPT !.stops = @ + 1] \in [stops : Nat, slow : Nat]
<1>1. used \in [stops : Nat, slow : Nat]
  BY DEF ConsumerTypeOK
<1>2. used.stops + 1 \in Nat
  BY <1>1
<1> QED
  BY <1>1, <1>2

LEMMA PublishQuiet ==
    ASSUME ConsumerTypeOK, NEW m \in Msgs, Publish(m)
    PROVE  Quiet
<1>1. stream' \in Seq(Msgs) /\ next' \in 0 .. Len(stream')
  BY DEF ConsumerTypeOK, Publish
<1>2. ConsumerTypeOK'
  BY <1>1 DEF ConsumerTypeOK, Publish
<1> QED
  BY <1>2 DEF Publish, Quiet, NobodyGetsDone, NothingIsAnswered, At, InHand

LEMMA DeliverQuiet ==
    ASSUME ConsumerTypeOK, NEW m \in Msgs, NEW w \in Workers, Deliver(m, w)
    PROVE  Quiet
<1>1. next' \in 0 .. Len(stream)
  BY DEF ConsumerTypeOK, Deliver
<1>2. fate' \in [Msgs -> Fates] /\ tries' \in [Msgs -> Nat]
  BY DEF ConsumerTypeOK, Deliver, Fates
<1>3. [msg |-> m, nth |-> tries[m] + 1] \in Delivery
  BY DEF ConsumerTypeOK, Delivery
<1>4. batch' \in [Workers -> Seq(Delivery)]
  BY <1>3 DEF ConsumerTypeOK, Deliver
<1>5. ConsumerTypeOK'
  BY <1>1, <1>2, <1>4 DEF ConsumerTypeOK, Deliver
<1> QED
  BY <1>5 DEF Deliver, ConsumerTypeOK, Quiet, NobodyGetsDone, NothingIsAnswered, At, InHand

LEMMA AckWaitQuiet ==
    ASSUME ConsumerTypeOK, NEW m \in Msgs, AckWaitOver(m)
    PROVE  Quiet
<1>1. used' \in [stops : Nat, slow : Nat]
  BY DEF ConsumerTypeOK, AckWaitOver
<1>2. ConsumerTypeOK'
  BY <1>1, AgainTyped DEF ConsumerTypeOK, AckWaitOver, Fates
<1> QED
  BY <1>2, AgainTyped
  DEF AckWaitOver, ConsumerTypeOK, Quiet, NobodyGetsDone, NothingIsAnswered, At, InHand

LEMMA TakeUpQuiet ==
    ASSUME ConsumerTypeOK, NEW w \in Workers, TakeUp(w)
    PROVE  Quiet
<1>1. Head(batch[w]) \in Delivery /\ Tail(batch[w]) \in Seq(Delivery)
  BY DEF ConsumerTypeOK, TakeUp
<1>2. hand' \in [Workers -> InHands] /\ batch' \in [Workers -> Seq(Delivery)]
  BY <1>1 DEF ConsumerTypeOK, TakeUp, InHands, Delivery, Stages
<1>3. ConsumerTypeOK'
  BY <1>2 DEF ConsumerTypeOK, TakeUp
<1>4. NobodyGetsDone
  BY DEF ConsumerTypeOK, TakeUp, NobodyGetsDone, At, InHand
<1> QED
  BY <1>3, <1>4 DEF TakeUp, Quiet, NothingIsAnswered

LEMMA StopQuiet ==
    ASSUME ConsumerTypeOK, NEW w \in Workers, Stop(w)
    PROVE  Quiet
<1>1. used' \in [stops : Nat, slow : Nat] /\ batch' \in [Workers -> Seq(Delivery)]
  BY EmptyTyped, StopCounted DEF Stop
<1>2. fate' \in [Msgs -> Fates] /\ NothingIsAnswered
  <2>1. CASE batch[w] = <<>>
    BY <2>1 DEF ConsumerTypeOK, Stop, NothingIsAnswered
  <2>2. CASE batch[w] # <<>>
    <3>1. Head(batch[w]) \in Delivery
      BY <2>2 DEF ConsumerTypeOK
    <3>2. Head(batch[w]).msg \in Msgs
      BY <3>1 DEF Delivery
    <3> QED
      BY <2>2, <3>2, AgainTyped DEF ConsumerTypeOK, Stop, Nacked, Fates, NothingIsAnswered
  <2> QED
    BY <2>1, <2>2
<1>3. ConsumerTypeOK'
  BY <1>1, <1>2 DEF ConsumerTypeOK, Stop
<1> QED
  BY <1>2, <1>3 DEF Stop, Quiet, NobodyGetsDone, At, InHand

LEMMA DieQuiet ==
    ASSUME ConsumerTypeOK, NEW w \in Workers, Die(w)
    PROVE  Quiet
<1>1. used' \in [stops : Nat, slow : Nat]
  BY StopCounted DEF Die
<1>2. ConsumerTypeOK'
  BY <1>1, EmptyTyped DEF ConsumerTypeOK, Die
<1>3. NobodyGetsDone
  BY DEF ConsumerTypeOK, Die, NobodyGetsDone, At, InHand, Nothing
<1> QED
  BY <1>2, <1>3 DEF Die, Quiet, NothingIsAnswered

LEMMA StartQuiet ==
    ASSUME ConsumerTypeOK, NEW w \in Workers, StartAgain(w)
    PROVE  Quiet
BY DEF ConsumerTypeOK, StartAgain, Quiet, NobodyGetsDone, NothingIsAnswered, At, InHand

LEMMA NakQuiet ==
    ASSUME ConsumerTypeOK, NEW w \in Workers, NEW stage, At(w, stage), Nak(w)
    PROVE  Quiet
<1>1. InHand(w) \in Msgs
  BY BusyHand
<1>2. ConsumerTypeOK'
  BY <1>1, AgainTyped, EmptyTyped DEF ConsumerTypeOK, Nak, Nacked, Fates
<1>3. NobodyGetsDone
  BY DEF ConsumerTypeOK, Nak, NobodyGetsDone, At, InHand, Nothing
<1>4. NothingIsAnswered
  BY <1>1, AgainTyped DEF ConsumerTypeOK, Nak, Nacked, NothingIsAnswered
<1> QED
  BY <1>2, <1>3, <1>4 DEF Quiet

LEMMA ThrowQuiet ==
    ASSUME ConsumerTypeOK, NEW w \in Workers, Throw(w)
    PROVE  Quiet
<1>1. ConsumerTypeOK'
  BY EmptyTyped DEF ConsumerTypeOK, Throw
<1>2. NobodyGetsDone
  BY DEF ConsumerTypeOK, Throw, NobodyGetsDone, At, InHand, Nothing
<1> QED
  BY <1>1, <1>2 DEF Throw, Quiet, NothingIsAnswered

(* The broker, the loop and their failures.                                  *)
LEMMA ConsumerQuiet ==
    ASSUME ConsumerTypeOK,
           \/ \E m \in Msgs : Publish(m) \/ AckWaitOver(m)
           \/ \E w \in Workers : Consuming(w) \/ Failing(w) \/ StartAgain(w)
    PROVE  Quiet
BY PublishQuiet, AckWaitQuiet, DeliverQuiet, TakeUpQuiet, StopQuiet, DieQuiet, StartQuiet
DEF Consuming, Failing

(* A handler that moves on with the message it has.                          *)
LEMMA ReachMoves ==
    ASSUME ConsumerTypeOK, NEW w \in Workers, NEW stage, At(w, stage),
           NEW to \in Stages, Reach(w, to)
    PROVE  /\ ConsumerTypeOK' /\ NothingIsAnswered /\ InHand(w) \in Msgs
           /\ \A x \in Workers : At(x, "done")' =>
                 \/ At(x, "done") /\ InHand(x)' = InHand(x)
                 \/ to = "done" /\ InHand(x)' = InHand(w)
<1>1. hand[w] \in [busy : {TRUE}, msg : Msgs, nth : Nat, stage : Stages]
  BY BusyHand
<1>2. hand'[w] \in [busy : {TRUE}, msg : Msgs, nth : Nat, stage : Stages]
  BY <1>1 DEF ConsumerTypeOK, Reach
<1>3. ConsumerTypeOK'
  BY <1>2 DEF ConsumerTypeOK, Reach, InHands
<1>4. hand'[w].msg = hand[w].msg /\ hand'[w].stage = to
  BY <1>1 DEF ConsumerTypeOK, Reach
<1>5. \A x \in Workers \ {w} : hand'[x] = hand[x]
  BY DEF ConsumerTypeOK, Reach
<1> QED
  BY <1>1, <1>3, <1>4, <1>5 DEF At, InHand, NothingIsAnswered, Reach

(* A handler that answers.                                                   *)
LEMMA AnswerMoves ==
    ASSUME ConsumerTypeOK, NEW w \in Workers, NEW stage, At(w, stage),
           NEW answer \in {"acked", "termed"}, Answer(w, answer)
    PROVE  /\ ConsumerTypeOK' /\ NobodyGetsDone /\ InHand(w) \in Msgs
           /\ \A m \in Msgs : fate'[m] # fate[m] => m = InHand(w) /\ fate'[m] = answer
<1>1. InHand(w) \in Msgs
  BY BusyHand
<1>2. ConsumerTypeOK'
  BY <1>1, EmptyTyped DEF ConsumerTypeOK, Answer, Answered, Fates
<1>3. NobodyGetsDone
  BY DEF ConsumerTypeOK, Answer, NobodyGetsDone, At, InHand, Nothing
<1> QED
  BY <1>1, <1>2, <1>3 DEF ConsumerTypeOK, Answer, Answered

-----------------------------------------------------------------------------
(* The calls consumer.                                                       *)

(* The values the service and the history variables range over.             *)
ServiceTypeOK ==
    /\ exists \in SUBSET Conversations
    /\ row \in [Calls -> Rows]
    /\ rung \in [Calls -> SUBSET Owners]
    /\ joined \in [Calls -> SUBSET Owners]
    /\ activity \in [Conversations -> Nat]
    /\ old \in SUBSET Calls
    /\ dead \in SUBSET Msgs
    /\ applied \in SUBSET Msgs
    /\ swept \in SUBSET Calls
    /\ faults \in Nat

Projections == [answered : Nat \cup {Null}, ended : Nat \cup {Null},
                reason : EventReasons \cup {Null}, talk : Nat]

(* Only call events are projected, a handler is past its transaction only    *)
(* with one of them, committed or dead-lettered, and the calls of a dropped  *)
(* conversation are gone.                                                    *)
HandsOK ==
    /\ \A m \in applied : Usable(m)
    /\ \A w \in Workers : At(w, "done") =>
          InHand(w) \in applied \cup dead
OrphansOK == \A d \in Calls : ConvOf[d] \notin exists => row[d] = NoRow

Inv ==
    /\ ConsumerTypeOK /\ ServiceTypeOK
    /\ HandsOK /\ OrphansOK
    /\ AnsweredIsDealtWith /\ RowSumsUpEvents

-----------------------------------------------------------------------------
(* What the operators make of an event and a row. *)

LEMMA ProjectionTyped ==
    ASSUME NEW m \in Msgs, Usable(m)
    PROVE  /\ CallOf(m) \in Calls /\ EventOf[m].joined \in SUBSET Owners
           /\ ToProjection(EventOf[m]) \in Projections
           /\ ToProjection(EventOf[m]).ended = Null <=> ToProjection(EventOf[m]).reason = Null
           /\ ToProjection(EventOf[m]).ended = Null => ToProjection(EventOf[m]).talk = 0
<1>1. EventOf[m] \in Events /\ EventOf[m].kind \in Kinds
  BY HistoryAssumption DEF Usable
<1>2. EventOf[m] \in [kind : Kinds, call : Calls, at : Nat, answered : Nat \cup {Null},
                      reason : Reasons, talk : Nat, joined : SUBSET Owners]
  BY <1>1 DEF Events, Kinds
<1>3. EndReason(EventOf[m]) \in EventReasons
  BY <1>2 DEF EndReason, EventReasons
<1>4. Null \notin Nat /\ Null \notin EventReasons
  BY HistoryAssumption DEF RowReasons
<1> QED
  BY <1>2, <1>3, <1>4 DEF CallOf, ToProjection, Projections

LEMMA UpsertTyped ==
    ASSUME NEW r \in Rows, NEW p \in Projections
    PROVE  Upsert(r, p) \in Rows
BY DEF Upsert, Rows, Projections, Coalesce, Greatest, RowReasons

(* The facts a row sums up, once more for one event more.                    *)
LEMMA AnsweredSums ==
    ASSUME NEW r \in Rows, NEW p \in Projections, NEW said, AnsweredAsSaid(r, said)
    PROVE  AnsweredAsSaid(Upsert(r, p), said \cup {p})
BY DEF AnsweredAsSaid, Upsert, Coalesce

LEMMA EndedSums ==
    ASSUME NEW r \in Rows, NEW p \in Projections, NEW said, EndedAsSaid(r, said),
           p.ended = Null <=> p.reason = Null,
           \A q \in said : q.ended = Null <=> q.reason = Null
    PROVE  EndedAsSaid(Upsert(r, p), said \cup {p})
<1>1. CASE r.ended = Null
  BY <1>1 DEF EndedAsSaid, Upsert, Coalesce
<1>2. CASE r.ended # Null
  <2>1. PICK q \in said : q.ended = r.ended /\ q.reason = r.reason
    BY <1>2 DEF EndedAsSaid
  <2>2. r.reason # Null
    BY <1>2, <2>1
  <2>3. Upsert(r, p).ended = r.ended /\ Upsert(r, p).reason = r.reason
    BY <1>2, <2>2 DEF Upsert, Coalesce
  <2> QED
    BY <1>2, <2>1, <2>3 DEF EndedAsSaid
<1> QED
  BY <1>1, <1>2

LEMMA LastedSums ==
    ASSUME NEW r \in Rows, NEW p \in Projections, NEW said,
           \A q \in said : q.talk \in Nat, LastedAsSaid(r, said)
    PROVE  LastedAsSaid(Upsert(r, p), said \cup {p})
BY DEF LastedAsSaid, Upsert, Greatest, Rows, Projections

(* A redelivery changes nothing: a row that sums up an event already is not  *)
(* changed by it.                                                            *)
LEMMA UpsertIdempotent ==
    ASSUME NEW r \in Rows, NEW p \in Projections, NEW said, p \in said, r.there,
           AnsweredAsSaid(r, said), LastedAsSaid(r, said),
           r.ended = Null => EndedAsSaid(r, said),
           r.ended # Null => r.reason # Null,
           p.ended = Null <=> p.reason = Null
    PROVE  Upsert(r, p) = r
<1>1. Coalesce(r.answered, p.answered) = r.answered
  BY DEF AnsweredAsSaid, Coalesce
<1>2. Coalesce(r.ended, p.ended) = r.ended /\ Coalesce(r.reason, p.reason) = r.reason
  BY DEF EndedAsSaid, Coalesce
<1>3. Greatest(r.talk, p.talk) = r.talk
  BY DEF LastedAsSaid, Greatest, Rows, Projections
<1>4. r = [there |-> r.there, answered |-> r.answered, ended |-> r.ended,
           reason |-> r.reason, talk |-> r.talk]
  BY DEF Rows
<1>5. r.there = TRUE
  BY DEF Rows
<1> QED
  BY <1>1, <1>2, <1>3, <1>4, <1>5 DEF Upsert

-----------------------------------------------------------------------------
(* What an event's transaction does to the tables. *)

LEMMA SaysTyped ==
    ASSUME ServiceTypeOK, HandsOK, NEW d \in Calls, NEW p \in SaidOf(d)
    PROVE  /\ p \in Projections
           /\ p.ended = Null <=> p.reason = Null
           /\ p.ended = Null => p.talk = 0
<1>1. PICK m \in applied : p = ToProjection(EventOf[m])
  BY DEF SaidOf
<1>2. m \in Msgs /\ Usable(m)
  BY DEF ServiceTypeOK, HandsOK
<1> QED
  BY <1>1, <1>2, ProjectionTyped

LEMMA SaidGrows ==
    ASSUME NEW m \in Msgs, applied' = applied \cup {m}, NEW d \in Calls
    PROVE  /\ CallOf(m) = d => SaidOf(d)' = SaidOf(d) \cup {ToProjection(EventOf[m])}
           /\ CallOf(m) = d => JoinedIn(d)' = JoinedIn(d) \cup EventOf[m].joined
           /\ CallOf(m) # d => SaidOf(d)' = SaidOf(d) /\ JoinedIn(d)' = JoinedIn(d)
<1> DEFINE Before == {n \in applied : CallOf(n) = d}
           After == {n \in applied' : CallOf(n) = d}
<1>1. CallOf(m) = d => After = Before \cup {m}
  OBVIOUS
<1>2. CallOf(m) # d => After = Before
  OBVIOUS
<1>3. SaidOf(d)' = {ToProjection(EventOf[n]) : n \in After}
  BY DEF SaidOf, CallOf, ToProjection, EndReason
<1>4. JoinedIn(d)' = UNION {EventOf[n].joined : n \in After}
  BY DEF JoinedIn, CallOf
<1> HIDE DEF After
<1> QED
  BY <1>1, <1>2, <1>3, <1>4 DEF SaidOf, JoinedIn

LEMMA ProjectTyped ==
    ASSUME ServiceTypeOK, NEW m \in Msgs, Usable(m), ProjectCall(m)
    PROVE  /\ row' \in [Calls -> Rows] /\ rung' \in [Calls -> SUBSET Owners]
           /\ joined' \in [Calls -> SUBSET Owners] /\ activity' \in [Conversations -> Nat]
           /\ exists' = exists
<1> DEFINE e == EventOf[m]
           d == CallOf(m)
           p == ToProjection(EventOf[m])
<1>1. d \in Calls /\ e.joined \in SUBSET Owners /\ p \in Projections
  BY ProjectionTyped
<1>2. row[d] \in Rows
  BY <1>1 DEF ServiceTypeOK
<1>3. Upsert(row[d], p) \in Rows
  BY <1>1, <1>2, UpsertTyped
<1>4. row' = [row EXCEPT ![d] = Upsert(row[d], p)]
  BY DEF ProjectCall, CallOf
<1>5. row' \in [Calls -> Rows]
  BY <1>3, <1>4 DEF ServiceTypeOK
<1>6. /\ rung' = [rung EXCEPT ![d] = @ \cup InvitedTo[d] \cup e.joined]
      /\ joined' = [joined EXCEPT ![d] = @ \cup e.joined]
  BY DEF ProjectCall, CallOf
<1>7. InvitedTo[d] \in SUBSET Owners
  BY <1>1, HistoryAssumption
<1>8. rung' \in [Calls -> SUBSET Owners] /\ joined' \in [Calls -> SUBSET Owners]
  BY <1>1, <1>6, <1>7 DEF ServiceTypeOK
<1>9. Coalesce(p.ended, StartOf[d]) \in Nat
  BY <1>1, HistoryAssumption DEF Coalesce, Projections
<1>10. activity' = [activity EXCEPT ![ConvOf[d]] = Greatest(@, Coalesce(p.ended, StartOf[d]))]
  BY DEF ProjectCall, CallOf
<1>11. activity' \in [Conversations -> Nat]
  BY <1>9, <1>10 DEF ServiceTypeOK, Greatest
<1> QED
  BY <1>5, <1>8, <1>11 DEF ProjectCall

LEMMA ProjectSums ==
    ASSUME ServiceTypeOK, HandsOK, OrphansOK, RowSumsUpEvents,
           NEW m \in Msgs, Usable(m), ConvOf[CallOf(m)] \in exists,
           ProjectCall(m), applied' = applied \cup {m}, swept' = swept
    PROVE  RowSumsUpEvents' /\ OrphansOK'
<1> DEFINE p == ToProjection(EventOf[m])
<1>1. exists' = exists
  BY DEF ProjectCall
<1>2. CallOf(m) \in Calls /\ p \in Projections /\ (p.ended = Null <=> p.reason = Null)
  BY ProjectionTyped
<1>3. /\ row' = [row EXCEPT ![CallOf(m)] = Upsert(row[CallOf(m)], p)]
      /\ joined' = [joined EXCEPT ![CallOf(m)] = joined[CallOf(m)] \cup EventOf[m].joined]
  BY DEF ProjectCall, CallOf
<1>4. OrphansOK'
  BY <1>1, <1>2, <1>3 DEF OrphansOK, ServiceTypeOK
<1> HIDE DEF p
<1>5. ASSUME NEW d \in Calls, ConvOf[d] \in exists
      PROVE  /\ row'[d].there <=> SaidOf(d)' # {}
             /\ AnsweredAsSaid(row'[d], SaidOf(d)')
             /\ IF d \in swept THEN row'[d].ended = Expiry(d) /\ row'[d].reason = "expired"
                ELSE EndedAsSaid(row'[d], SaidOf(d)')
             /\ LastedAsSaid(row'[d], SaidOf(d)')
             /\ joined'[d] = JoinedIn(d)'
  <2> DEFINE said == SaidOf(d)
  <2>1. /\ row[d].there <=> said # {}
        /\ AnsweredAsSaid(row[d], said)
        /\ IF d \in swept THEN row[d].ended = Expiry(d) /\ row[d].reason = "expired"
           ELSE EndedAsSaid(row[d], said)
        /\ LastedAsSaid(row[d], said)
        /\ joined[d] = JoinedIn(d)
    BY <1>5 DEF RowSumsUpEvents
  <2>2. CASE CallOf(m) # d
    <3>1. row'[d] = row[d] /\ joined'[d] = joined[d]
      BY <1>3, <2>2 DEF ServiceTypeOK
    <3>2. SaidOf(d)' = said /\ JoinedIn(d)' = JoinedIn(d)
      BY <2>2, SaidGrows
    <3> QED
      BY <2>1, <3>1, <3>2
  <2>3. CASE CallOf(m) = d
    <3>1. row'[d] = Upsert(row[d], p) /\ joined'[d] = joined[d] \cup EventOf[m].joined
      BY <1>3, <2>3 DEF ServiceTypeOK
    <3>2. SaidOf(d)' = said \cup {p} /\ JoinedIn(d)' = JoinedIn(d) \cup EventOf[m].joined
      BY <2>3, SaidGrows DEF p
    <3>3. row[d] \in Rows
      BY DEF ServiceTypeOK
    <3>4. \A q \in said : q.talk \in Nat /\ (q.ended = Null <=> q.reason = Null)
      BY SaysTyped DEF Projections
    <3> HIDE DEF said
    <3>5. AnsweredAsSaid(Upsert(row[d], p), said \cup {p})
      BY <1>2, <2>1, <3>3, AnsweredSums
    <3>6. LastedAsSaid(Upsert(row[d], p), said \cup {p})
      BY <1>2, <2>1, <3>3, <3>4, LastedSums
    <3>7. d \notin swept => EndedAsSaid(Upsert(row[d], p), said \cup {p})
      BY <1>2, <2>1, <3>3, <3>4, EndedSums
    <3>8. d \in swept => /\ Upsert(row[d], p).ended = Expiry(d)
                         /\ Upsert(row[d], p).reason = "expired"
      <4>1. Expiry(d) \in Nat /\ Null \notin Nat /\ Null # "expired"
        BY HistoryAssumption DEF Expiry, RowReasons
      <4> QED
        BY <2>1, <4>1 DEF Upsert, Coalesce
    <3>9. Upsert(row[d], p).there
      BY DEF Upsert
    <3> QED
      BY <2>1, <3>1, <3>2, <3>5, <3>6, <3>7, <3>8, <3>9
  <2> QED
    BY <2>2, <2>3
<1>6. \A d \in Calls : Expiry(d)' = Expiry(d)
  BY DEF Expiry
<1> QED
  BY <1>1, <1>4, <1>5, <1>6 DEF RowSumsUpEvents, SaidOf, JoinedIn, AnsweredAsSaid, EndedAsSaid, LastedAsSaid

-----------------------------------------------------------------------------
(* Every step preserves Inv. *)

LEMMA InvInit == Init => Inv
<1> SUFFICES ASSUME Init
             PROVE  Inv
  OBVIOUS
<1>1. ConsumerTypeOK
  BY ConsumerInitTyped DEF Init
<1>2. NoRow \in Rows
  BY DEF NoRow, Rows
<1>3. ServiceTypeOK
  BY <1>2 DEF Init, ServiceTypeOK
<1>4. HandsOK /\ OrphansOK
  BY DEF Init, HandsOK, OrphansOK, ConsumerInit, At, Nothing
<1>5. AnsweredIsDealtWith
  BY DEF Init, ConsumerInit, AnsweredIsDealtWith
<1>6. \A d \in Calls : SaidOf(d) = {} /\ JoinedIn(d) = {}
  BY DEF Init, SaidOf, JoinedIn
<1>7. RowSumsUpEvents
  BY <1>6 DEF Init, RowSumsUpEvents, AnsweredAsSaid, EndedAsSaid, LastedAsSaid, NoRow
<1> QED
  BY <1>1, <1>3, <1>4, <1>5, <1>7 DEF Inv

(* A step that leaves the tables and what was applied alone.                 *)
LEMMA TablesAlone ==
    ASSUME Inv, UNCHANGED <<tables, applied, swept>>
    PROVE  OrphansOK' /\ RowSumsUpEvents'
<1>1. \A d \in Calls : /\ SaidOf(d)' = SaidOf(d) /\ JoinedIn(d)' = JoinedIn(d)
                       /\ Expiry(d)' = Expiry(d)
  BY DEF SaidOf, JoinedIn, Expiry, CallOf, ToProjection, EndReason
<1> QED
  BY <1>1 DEF Inv, tables, OrphansOK, RowSumsUpEvents, AnsweredAsSaid, EndedAsSaid, LastedAsSaid

(* A quiet step of the consumer, with what was dealt with only growing.      *)
LEMMA QuietDealtWith ==
    ASSUME Inv, Quiet, applied \subseteq applied', dead \subseteq dead',
           exists' \subseteq exists, \A m \in applied' : Usable(m)
    PROVE  HandsOK' /\ AnsweredIsDealtWith'
<1>1. HandsOK'
  BY DEF Inv, HandsOK, Quiet, NobodyGetsDone, Usable
<1>2. AnsweredIsDealtWith'
  BY DEF Inv, AnsweredIsDealtWith, Quiet, NothingIsAnswered, Usable, CallOf
<1> QED
  BY <1>1, <1>2

LEMMA ConsumerSteps ==
    ASSUME Inv, UNCHANGED service,
           \/ \E m \in Msgs : Publish(m) \/ AckWaitOver(m)
           \/ \E w \in Workers : Consuming(w) \/ Failing(w) \/ StartAgain(w)
    PROVE  Inv'
<1>1. Quiet
  BY ConsumerQuiet DEF Inv
<1>2. UNCHANGED <<tables, applied, swept, dead, old, faults>>
  BY DEF service
<1>3. ServiceTypeOK'
  BY <1>2 DEF Inv, ServiceTypeOK, tables
<1>4. HandsOK' /\ AnsweredIsDealtWith'
  BY <1>1, <1>2, QuietDealtWith DEF tables, Inv, HandsOK
<1>5. OrphansOK' /\ RowSumsUpEvents'
  BY <1>2, TablesAlone
<1> QED
  BY <1>1, <1>3, <1>4, <1>5 DEF Inv, Quiet

(* An answer the service may give.                                           *)
LEMMA AnswerSteps ==
    ASSUME Inv, NEW w \in Workers, NEW stage, At(w, stage),
           NEW answer \in {"acked", "termed"}, Answer(w, answer),
           UNCHANGED <<tables, old, dead, applied, swept, faults>>,
           answer = "acked" => \/ InHand(w) \in applied \cup dead
                               \/ EventOf[InHand(w)].kind = "unusable",
           answer = "termed" => \/ EventOf[InHand(w)].kind = "garbage"
                                \/ Usable(InHand(w)) /\ ConvOf[CallOf(InHand(w))] \notin exists
    PROVE  Inv'
<1>1. /\ ConsumerTypeOK' /\ NobodyGetsDone /\ InHand(w) \in Msgs
      /\ \A m \in Msgs : fate'[m] # fate[m] => m = InHand(w) /\ fate'[m] = answer
  BY AnswerMoves DEF Inv
<1>2. ServiceTypeOK'
  BY DEF Inv, ServiceTypeOK, tables
<1>3. OrphansOK' /\ RowSumsUpEvents'
  BY TablesAlone
<1>4. HandsOK'
  BY <1>1 DEF Inv, HandsOK, NobodyGetsDone, Usable
<1> DEFINE AckOK(m) == m \in applied \cup dead \/ EventOf[m].kind = "unusable"
           TermOK(m) == \/ EventOf[m].kind = "garbage"
                        \/ Usable(m) /\ ConvOf[CallOf(m)] \notin exists
<1>5. ASSUME NEW m \in Msgs
      PROVE  (fate'[m] = "acked" => AckOK(m)) /\ (fate'[m] = "termed" => TermOK(m))
  <2>1. (fate[m] = "acked" => AckOK(m)) /\ (fate[m] = "termed" => TermOK(m))
    BY DEF Inv, AnsweredIsDealtWith
  <2>2. (answer = "acked" => AckOK(InHand(w))) /\ (answer = "termed" => TermOK(InHand(w)))
    OBVIOUS
  <2> HIDE DEF AckOK, TermOK
  <2> QED
    BY <1>1, <2>1, <2>2
<1>6. AnsweredIsDealtWith'
  BY <1>5 DEF AnsweredIsDealtWith, tables, Usable, CallOf
<1> QED
  BY <1>1, <1>2, <1>3, <1>4, <1>6 DEF Inv

LEMMA SetAsideStep ==
    ASSUME Inv, NEW w \in Workers, SetAside(w)
    PROVE  Inv'
<1>1. At(w, "taken") /\ ~Usable(InHand(w))
  BY DEF SetAside
<1>2. InHand(w) \in Msgs
  BY <1>1, BusyHand DEF Inv
<1>3. EventOf[InHand(w)].kind \in Kinds \cup {"garbage", "unusable"}
  BY <1>2, HistoryAssumption DEF Events
<1>4. EventOf[InHand(w)].kind \in {"garbage", "unusable"}
  BY <1>1, <1>3 DEF Usable
<1> DEFINE answer == IF EventOf[InHand(w)].kind = "garbage" THEN "termed" ELSE "acked"
<1>5. Answer(w, answer) /\ UNCHANGED <<tables, old, dead, applied, swept, faults>>
  BY DEF SetAside
<1>6. CASE EventOf[InHand(w)].kind = "garbage"
  <2>1. Answer(w, "termed")
    BY <1>5, <1>6
  <2> QED
    BY <1>1, <1>5, <1>6, <2>1, AnswerSteps
<1>7. CASE EventOf[InHand(w)].kind = "unusable"
  <2>1. Answer(w, "acked")
    BY <1>5, <1>7
  <2> QED
    BY <1>1, <1>5, <1>7, <2>1, AnswerSteps
<1> QED
  BY <1>4, <1>6, <1>7

LEMMA AcknowledgeStep ==
    ASSUME Inv, NEW w \in Workers, Acknowledge(w)
    PROVE  Inv'
<1>1. At(w, "done") /\ Answer(w, "acked") /\ UNCHANGED <<tables, old, dead, applied, swept, faults>>
  BY DEF Acknowledge
<1>2. InHand(w) \in applied \cup dead
  BY <1>1 DEF Inv, HandsOK
<1> QED
  BY <1>1, <1>2, AnswerSteps

LEMMA TermOrphanStep ==
    ASSUME Inv, NEW w \in Workers, TermOrphan(w)
    PROVE  Inv'
BY AnswerSteps DEF TermOrphan

(* A transaction that commits, or fails without a trace, whatever the        *)
(* handler does then.                                                        *)
LEMMA TransactionSums ==
    ASSUME Inv, NEW m \in Msgs, Usable(m), UNCHANGED <<old, dead, swept>>,
           faults' \in Nat,
           \/ UNCHANGED <<tables, applied>>
           \/ /\ ConvOf[CallOf(m)] \in exists
              /\ ProjectCall(m)
              /\ applied' = applied \cup {m}
    PROVE  /\ ServiceTypeOK' /\ OrphansOK' /\ RowSumsUpEvents'
           /\ exists' = exists /\ applied \subseteq applied'
           /\ \A n \in applied' : Usable(n)
<1>1. CASE UNCHANGED <<tables, applied>>
  BY <1>1, TablesAlone DEF Inv, ServiceTypeOK, HandsOK, tables
<1>2. CASE ConvOf[CallOf(m)] \in exists /\ ProjectCall(m) /\ applied' = applied \cup {m}
  <2>1. OrphansOK' /\ RowSumsUpEvents'
    BY <1>2, ProjectSums DEF Inv
  <2>2. ServiceTypeOK'
    BY <1>2, ProjectTyped DEF Inv, ServiceTypeOK
  <2>3. exists' = exists
    BY <1>2 DEF ProjectCall
  <2> QED
    BY <1>2, <2>1, <2>2, <2>3 DEF Inv, HandsOK
<1> QED
  BY <1>1, <1>2

LEMMA ReachDealtWith ==
    ASSUME Inv, NEW w \in Workers, NEW stage, At(w, stage), NEW to \in Stages, Reach(w, to),
           applied \subseteq applied', dead \subseteq dead', exists' = exists,
           \A m \in applied' : Usable(m),
           to = "done" => InHand(w) \in applied' \cup dead'
    PROVE  ConsumerTypeOK' /\ HandsOK' /\ AnsweredIsDealtWith'
<1>1. /\ ConsumerTypeOK' /\ NothingIsAnswered
      /\ \A x \in Workers : At(x, "done")' =>
            \/ At(x, "done") /\ InHand(x)' = InHand(x)
            \/ to = "done" /\ InHand(x)' = InHand(w)
  BY ReachMoves DEF Inv
<1>2. HandsOK'
  BY <1>1 DEF Inv, HandsOK, Usable
<1>3. AnsweredIsDealtWith'
  BY <1>1 DEF Inv, AnsweredIsDealtWith, NothingIsAnswered, Usable, CallOf
<1> QED
  BY <1>1, <1>2, <1>3

LEMMA ProjectStep ==
    ASSUME Inv, NEW w \in Workers, Project(w)
    PROVE  Inv'
<1>1. /\ At(w, "taken") /\ Usable(InHand(w)) /\ ConvOf[CallOf(InHand(w))] \in exists
      /\ ProjectCall(InHand(w)) /\ applied' = applied \cup {InHand(w)}
      /\ Reach(w, "done") /\ UNCHANGED <<old, dead, swept, faults>>
  BY DEF Project
<1>2. InHand(w) \in Msgs /\ faults' \in Nat
  BY <1>1, BusyHand DEF Inv, ServiceTypeOK
<1>3. /\ ServiceTypeOK' /\ OrphansOK' /\ RowSumsUpEvents'
      /\ exists' = exists /\ applied \subseteq applied'
      /\ \A n \in applied' : Usable(n)
  BY <1>1, <1>2, TransactionSums
<1>4. ConsumerTypeOK' /\ HandsOK' /\ AnsweredIsDealtWith'
  BY <1>1, <1>3, ReachDealtWith DEF Stages
<1> QED
  BY <1>3, <1>4 DEF Inv

LEMMA ProjectFailsStep ==
    ASSUME Inv, NEW w \in Workers, ProjectFails(w)
    PROVE  Inv'
<1>1. At(w, "taken") /\ Usable(InHand(w)) /\ UNCHANGED <<old, dead, swept>> /\ faults' = faults + 1
  BY DEF ProjectFails
<1>2. InHand(w) \in Msgs /\ faults' \in Nat
  <2>1. faults \in Nat
    BY DEF Inv, ServiceTypeOK
  <2>2. faults' \in Nat
    BY <1>1, <2>1
  <2>3. InHand(w) \in Msgs
    BY <1>1, BusyHand DEF Inv
  <2> QED
    BY <2>2, <2>3
<1>3. /\ ServiceTypeOK' /\ OrphansOK' /\ RowSumsUpEvents'
      /\ exists' = exists /\ applied \subseteq applied'
      /\ \A n \in applied' : Usable(n)
  BY <1>1, <1>2, TransactionSums DEF ProjectFails
<1>4. CASE Reach(w, "giveup")
  <2>1. ConsumerTypeOK' /\ HandsOK' /\ AnsweredIsDealtWith'
    BY <1>1, <1>3, <1>4, ReachDealtWith DEF Stages
  <2> QED
    BY <1>3, <2>1 DEF Inv
<1>5. CASE Nak(w)
  <2>1. Quiet
    BY <1>1, <1>5, NakQuiet DEF Inv
  <2>2. HandsOK' /\ AnsweredIsDealtWith'
    BY <1>1, <1>3, <2>1, QuietDealtWith
  <2> QED
    BY <1>3, <2>1, <2>2 DEF Inv, Quiet
<1> QED
  BY <1>4, <1>5 DEF ProjectFails, GiveUpOrRetry

LEMMA PublishDlqStep ==
    ASSUME Inv, NEW w \in Workers, PublishDlq(w)
    PROVE  Inv'
<1>1. /\ At(w, "giveup") /\ dead' = dead \cup {InHand(w)} /\ Reach(w, "done")
      /\ UNCHANGED <<tables, old, applied, swept, faults>>
  BY DEF PublishDlq
<1>2. InHand(w) \in Msgs
  BY <1>1, BusyHand DEF Inv
<1>3. ServiceTypeOK'
  BY <1>1, <1>2 DEF Inv, ServiceTypeOK, tables
<1>4. OrphansOK' /\ RowSumsUpEvents'
  BY <1>1, TablesAlone
<1>5. exists' = exists /\ \A n \in applied' : Usable(n)
  BY <1>1 DEF tables, Inv, HandsOK
<1>6. ConsumerTypeOK' /\ HandsOK' /\ AnsweredIsDealtWith'
  BY <1>1, <1>5, ReachDealtWith DEF Stages
<1> QED
  BY <1>3, <1>4, <1>6 DEF Inv

LEMMA DlqFailsStep ==
    ASSUME Inv, NEW w \in Workers, DlqFails(w)
    PROVE  Inv'
<1>1. Throw(w) /\ faults' = faults + 1 /\ UNCHANGED <<tables, old, dead, applied, swept>>
  BY DEF DlqFails
<1>2. Quiet
  BY <1>1, ThrowQuiet DEF Inv
<1>3. ServiceTypeOK'
  BY <1>1 DEF Inv, ServiceTypeOK, tables
<1>4. OrphansOK' /\ RowSumsUpEvents'
  BY <1>1, TablesAlone
<1>5. HandsOK' /\ AnsweredIsDealtWith'
  BY <1>1, <1>2, QuietDealtWith DEF tables, Inv, HandsOK
<1> QED
  BY <1>2, <1>3, <1>4, <1>5 DEF Inv, Quiet

(* The consumer's part of Inv, in a step that leaves it alone.               *)
LEMMA ConsumerAlone ==
    ASSUME Inv, UNCHANGED <<consumer, dead, applied>>, exists' \subseteq exists
    PROVE  ConsumerTypeOK' /\ HandsOK' /\ AnsweredIsDealtWith'
<1>1. Quiet
  BY DEF Inv, Quiet, consumer, ConsumerTypeOK, NobodyGetsDone, NothingIsAnswered, At, InHand
<1>2. HandsOK' /\ AnsweredIsDealtWith'
  BY <1>1, QuietDealtWith DEF Inv, HandsOK
<1> QED
  BY <1>1, <1>2 DEF Quiet

LEMMA SweepStep ==
    ASSUME Inv, SweepStaleCalls
    PROVE  Inv'
<1>1. \A d \in Calls : Expiry(d) \in Nat /\ Null # Expiry(d)
  BY HistoryAssumption DEF Expiry
<1>2. row' \in [Calls -> Rows]
  <2>1. \A d \in Calls : row[d] \in Rows
    BY DEF Inv, ServiceTypeOK
  <2>2. \A d \in Calls : [row[d] EXCEPT !.ended = Expiry(d), !.reason = "expired"] \in Rows
    BY <1>1, <2>1 DEF Rows, RowReasons
  <2> QED
    BY <2>1, <2>2 DEF SweepStaleCalls
<1>3. ServiceTypeOK'
  BY <1>2 DEF Inv, ServiceTypeOK, SweepStaleCalls
<1>4. ConsumerTypeOK' /\ HandsOK' /\ AnsweredIsDealtWith'
  BY ConsumerAlone DEF SweepStaleCalls
<1>5. \A d \in Calls : /\ SaidOf(d)' = SaidOf(d) /\ JoinedIn(d)' = JoinedIn(d)
                       /\ Expiry(d)' = Expiry(d)
  BY DEF SweepStaleCalls, SaidOf, JoinedIn, Expiry, CallOf, ToProjection, EndReason
<1>6. ASSUME NEW d \in Calls
      PROVE  /\ ~Stale(d) => row'[d] = row[d] /\ (d \in swept' <=> d \in swept)
             /\ Stale(d) => /\ row'[d].there = row[d].there
                            /\ row'[d].answered = row[d].answered
                            /\ row'[d].talk = row[d].talk
                            /\ row'[d].ended = Expiry(d) /\ row'[d].reason = "expired"
                            /\ d \in swept'
  <2>1. row[d] \in Rows
    BY DEF Inv, ServiceTypeOK
  <2> QED
    BY <2>1 DEF SweepStaleCalls, Rows
<1>7. exists' = exists /\ joined' = joined
  BY DEF SweepStaleCalls
<1>8. OrphansOK'
  <2>1. NoRow.there = FALSE
    BY DEF NoRow
  <2>2. \A d \in Calls : row[d] = NoRow => ~Stale(d)
    BY <2>1 DEF Stale
  <2> QED
    BY <1>6, <1>7, <2>2 DEF Inv, OrphansOK
<1>9. RowSumsUpEvents'
  <2> SUFFICES ASSUME NEW d \in Calls, ConvOf[d] \in exists
               PROVE  /\ row'[d].there <=> SaidOf(d) # {}
                      /\ AnsweredAsSaid(row'[d], SaidOf(d))
                      /\ IF d \in swept' THEN row'[d].ended = Expiry(d) /\ row'[d].reason = "expired"
                         ELSE EndedAsSaid(row'[d], SaidOf(d))
                      /\ LastedAsSaid(row'[d], SaidOf(d))
                      /\ joined[d] = JoinedIn(d)
    BY <1>5, <1>7 DEF RowSumsUpEvents, AnsweredAsSaid, EndedAsSaid, LastedAsSaid
  <2>1. /\ row[d].there <=> SaidOf(d) # {}
        /\ AnsweredAsSaid(row[d], SaidOf(d))
        /\ IF d \in swept THEN row[d].ended = Expiry(d) /\ row[d].reason = "expired"
           ELSE EndedAsSaid(row[d], SaidOf(d))
        /\ LastedAsSaid(row[d], SaidOf(d))
        /\ joined[d] = JoinedIn(d)
    BY DEF Inv, RowSumsUpEvents
  <2>2. CASE ~Stale(d)
    BY <1>6, <2>1, <2>2
  <2>3. CASE Stale(d)
    BY <1>6, <2>1, <2>3 DEF AnsweredAsSaid, LastedAsSaid
  <2> QED
    BY <2>2, <2>3
<1> QED
  BY <1>3, <1>4, <1>8, <1>9 DEF Inv

LEMMA AgeStep ==
    ASSUME Inv, NEW d \in Calls, Age(d)
    PROVE  Inv'
<1>1. ServiceTypeOK'
  BY DEF Inv, ServiceTypeOK, Age, tables
<1>2. ConsumerTypeOK' /\ HandsOK' /\ AnsweredIsDealtWith'
  BY ConsumerAlone DEF Age, tables
<1>3. OrphansOK' /\ RowSumsUpEvents'
  BY TablesAlone DEF Age
<1> QED
  BY <1>1, <1>2, <1>3 DEF Inv

LEMMA DropStep ==
    ASSUME Inv, NEW v \in Conversations, DropConversation(v)
    PROVE  Inv'
<1>1. NoRow \in Rows
  BY DEF NoRow, Rows
<1>2. ServiceTypeOK'
  BY <1>1 DEF Inv, ServiceTypeOK, DropConversation
<1>3. ConsumerTypeOK' /\ HandsOK' /\ AnsweredIsDealtWith'
  BY ConsumerAlone DEF DropConversation
<1>4. OrphansOK'
  BY DEF Inv, OrphansOK, DropConversation
<1>5. \A d \in Calls : /\ SaidOf(d)' = SaidOf(d) /\ JoinedIn(d)' = JoinedIn(d)
                       /\ Expiry(d)' = Expiry(d)
  BY DEF DropConversation, SaidOf, JoinedIn, Expiry, CallOf, ToProjection, EndReason
<1>6. \A d \in Calls : ConvOf[d] \in exists' =>
          /\ ConvOf[d] \in exists /\ row'[d] = row[d] /\ joined'[d] = joined[d]
  BY DEF DropConversation
<1>7. swept' = swept
  BY DEF DropConversation
<1>8. RowSumsUpEvents'
  BY <1>5, <1>6, <1>7 DEF Inv, RowSumsUpEvents, AnsweredAsSaid, EndedAsSaid, LastedAsSaid
<1> QED
  BY <1>2, <1>3, <1>4, <1>8 DEF Inv

LEMMA InvNext == Inv /\ [Next]_vars => Inv'
<1> SUFFICES ASSUME Inv, [Next]_vars
             PROVE  Inv'
  OBVIOUS
<1>1. ASSUME NEW m \in Msgs, Publish(m) \/ AckWaitOver(m), UNCHANGED service
      PROVE  Inv'
  BY <1>1, ConsumerSteps
<1>2. ASSUME NEW w \in Workers, Consuming(w) \/ Failing(w) \/ StartAgain(w), UNCHANGED service
      PROVE  Inv'
  BY <1>2, ConsumerSteps
<1>3. ASSUME NEW w \in Workers, HandleMessage(w)
      PROVE  Inv'
  BY <1>3, SetAsideStep, ProjectStep, AcknowledgeStep, TermOrphanStep, ProjectFailsStep,
     PublishDlqStep, DlqFailsStep DEF HandleMessage
<1>4. CASE UNCHANGED vars
  <2>1. UNCHANGED service /\ UNCHANGED consumer /\ UNCHANGED <<tables, dead, applied, swept>>
    BY <1>4 DEF vars, service
  <2>2. ServiceTypeOK'
    BY <2>1 DEF Inv, ServiceTypeOK, service, tables
  <2>3. exists' = exists
    BY <2>1 DEF tables
  <2> QED
    BY <2>1, <2>2, <2>3, ConsumerAlone, TablesAlone DEF Inv
<1> QED
  BY <1>1, <1>2, <1>3, <1>4, SweepStep, AgeStep, DropStep DEF Next

LEMMA InvHolds == Spec => []Inv
BY InvInit, InvNext, PTL DEF Spec

-----------------------------------------------------------------------------
(* The results. *)

(* Every variable of the consumer and of the call history keeps its type.    *)
THEOREM HistoryTypeCorrect == Spec => []TypeOK
<1>1. Inv => TypeOK
  BY DEF Inv, ServiceTypeOK, TypeOK
<1> QED
  BY <1>1, InvHolds, PTL

(* handleMessage never lets the broker forget an event it has not projected, *)
(* dead-lettered or rightly set aside.                                       *)
THEOREM DealtWith == Spec => []AnsweredIsDealtWith
<1>1. Inv => AnsweredIsDealtWith
  BY DEF Inv
<1> QED
  BY <1>1, InvHolds, PTL

(* projectCall and sweepStaleCalls: a row sums up the events projected into  *)
(* it, in whatever order and however often they were.                        *)
THEOREM SumsUp == Spec => []RowSumsUpEvents
<1>1. Inv => RowSumsUpEvents
  BY DEF Inv
<1> QED
  BY <1>1, InvHolds, PTL

-----------------------------------------------------------------------------
(* What a reader is shown. *)

(* A row shows an end with its reason, or neither and no duration.           *)
LEMMA RowShape ==
    ASSUME Inv, NEW d \in Calls
    PROVE  /\ row[d] \in Rows
           /\ row[d].ended # Null => row[d].reason # Null
           /\ row[d].ended = Null => row[d].reason = Null /\ row[d].talk = 0
<1>1. row[d] \in Rows
  BY DEF Inv, ServiceTypeOK
<1>2. CASE ConvOf[d] \notin exists
  BY <1>1, <1>2 DEF Inv, OrphansOK, NoRow
<1>3. CASE ConvOf[d] \in exists
  <2>1. /\ IF d \in swept THEN row[d].ended = Expiry(d) /\ row[d].reason = "expired"
           ELSE EndedAsSaid(row[d], SaidOf(d))
        /\ LastedAsSaid(row[d], SaidOf(d))
    BY <1>3 DEF Inv, RowSumsUpEvents
  <2>2. \A p \in SaidOf(d) :
           /\ p.ended = Null <=> p.reason = Null
           /\ p.ended = Null => p.talk = 0
    BY SaysTyped DEF Inv
  <2>3. Expiry(d) # Null /\ Null # "expired"
    BY HistoryAssumption DEF Expiry, RowReasons
  <2>4. CASE d \in swept
    BY <1>1, <2>1, <2>3, <2>4
  <2>5. CASE d \notin swept /\ row[d].ended = Null
    <3>1. row[d].reason = Null /\ \A p \in SaidOf(d) : p.ended = Null
      BY <2>1, <2>5 DEF EndedAsSaid
    <3>2. row[d].talk = 0 \/ \E p \in SaidOf(d) : p.talk = row[d].talk
      BY <2>1 DEF LastedAsSaid
    <3> QED
      BY <1>1, <2>2, <2>5, <3>1, <3>2
  <2>6. CASE d \notin swept /\ row[d].ended # Null
    <3>1. \E p \in SaidOf(d) : p.ended = row[d].ended /\ p.reason = row[d].reason
      BY <2>1, <2>6 DEF EndedAsSaid
    <3> QED
      BY <1>1, <2>2, <2>6, <3>1
  <2> QED
    BY <2>4, <2>5, <2>6
<1> QED
  BY <1>2, <1>3

(* A redelivered event finds its row as it left it.                          *)
LEMMA RedeliveryShowsNothing ==
    ASSUME Inv, NEW m \in applied, ConvOf[CallOf(m)] \in exists, ProjectCall(m)
    PROVE  row' = row
<1> DEFINE p == ToProjection(EventOf[m])
           d == CallOf(m)
<1>1. m \in Msgs /\ Usable(m)
  BY DEF Inv, ServiceTypeOK, HandsOK
<1>2. d \in Calls /\ p \in Projections /\ (p.ended = Null <=> p.reason = Null)
  BY <1>1, ProjectionTyped
<1>3. p \in SaidOf(d)
  BY DEF SaidOf
<1>4. /\ row[d].there /\ AnsweredAsSaid(row[d], SaidOf(d)) /\ LastedAsSaid(row[d], SaidOf(d))
      /\ IF d \in swept THEN row[d].ended = Expiry(d) /\ row[d].reason = "expired"
         ELSE EndedAsSaid(row[d], SaidOf(d))
  BY <1>2, <1>3 DEF Inv, RowSumsUpEvents
<1>5. Expiry(d) # Null
  BY <1>2, HistoryAssumption DEF Expiry
<1>6. /\ row[d] \in Rows
      /\ row[d].ended # Null => row[d].reason # Null
  BY <1>2, RowShape
<1>7. row' = [row EXCEPT ![d] = Upsert(row[d], p)]
  BY DEF ProjectCall, CallOf
<1> HIDE DEF p, d
<1>8. Upsert(row[d], p) = row[d]
  BY <1>2, <1>3, <1>4, <1>5, <1>6, UpsertIdempotent
<1> QED
  BY <1>7, <1>8 DEF Inv, ServiceTypeOK

(* sweepStaleCalls writes what settleStaleCall showed already.               *)
LEMMA SweepShowsNothing ==
    ASSUME Inv, SweepStaleCalls, NEW d \in Calls
    PROVE  SettleStaleCall(d)' = SettleStaleCall(d)
<1>1. /\ row[d] \in Rows
      /\ row[d].ended = Null => row[d].talk = 0
  BY RowShape
<1>2. Expiry(d)' = Expiry(d) /\ Expiry(d) # Null
  BY HistoryAssumption DEF Expiry
<1>3. CASE Stale(d)
  <2>1. row'[d] = [row[d] EXCEPT !.ended = Expiry(d), !.reason = "expired"]
    BY <1>3 DEF SweepStaleCalls
  <2>2. row[d].talk = 0
    BY <1>1, <1>3 DEF Stale
  <2>3. row'[d].ended = Expiry(d)
    BY <1>1, <2>1 DEF Rows
  <2>4. ~Stale(d)'
    BY <1>2, <2>3 DEF Stale
  <2>5. [row[d] EXCEPT !.ended = Expiry(d), !.reason = "expired", !.talk = 0]
          = [row[d] EXCEPT !.ended = Expiry(d), !.reason = "expired"]
    BY <1>1, <2>2 DEF Rows
  <2> QED
    BY <1>3, <2>1, <2>4, <2>5 DEF SettleStaleCall
<1>4. CASE ~Stale(d)
  <2>1. row'[d] = row[d] /\ old' = old
    BY <1>4 DEF SweepStaleCalls
  <2> QED
    BY <1>2, <1>4, <2>1 DEF SettleStaleCall, Stale
<1> QED
  BY <1>3, <1>4

(* settleStaleCall and sweepStaleCalls: neither a redelivery, a retry, a     *)
(* restart nor the sweep shows anybody anything new.                         *)
THEOREM OnlyNews == Spec => OnlyNewsIsShown
<1> DEFINE News == applied' = applied /\ exists' = exists /\ old' = old
                     => \A d \in Calls : SettleStaleCall(d)' = SettleStaleCall(d)
<1>1. Inv /\ [Next]_vars => [News]_vars
  <2> SUFFICES ASSUME Inv, Next, applied' = applied, exists' = exists, old' = old
               PROVE  \A d \in Calls : SettleStaleCall(d)' = SettleStaleCall(d)
    OBVIOUS
  <2>1. ASSUME row' = row
        PROVE  \A d \in Calls : SettleStaleCall(d)' = SettleStaleCall(d)
    BY <2>1 DEF SettleStaleCall, Stale, Expiry
  <2>2. CASE UNCHANGED tables
    BY <2>1, <2>2 DEF tables
  <2>3. CASE UNCHANGED service
    BY <2>2, <2>3 DEF service
  <2>4. ASSUME NEW w \in Workers, HandleMessage(w)
        PROVE  \A d \in Calls : SettleStaleCall(d)' = SettleStaleCall(d)
    <3>1. CASE Project(w)
      BY <2>1, <3>1, RedeliveryShowsNothing DEF Project
    <3>2. CASE ProjectFails(w)
      BY <2>1, <2>2, <3>2, RedeliveryShowsNothing DEF ProjectFails
    <3>3. CASE SetAside(w) \/ Acknowledge(w) \/ TermOrphan(w) \/ PublishDlq(w) \/ DlqFails(w)
      BY <2>2, <3>3 DEF SetAside, Acknowledge, TermOrphan, PublishDlq, DlqFails
    <3> QED
      BY <2>4, <3>1, <3>2, <3>3 DEF HandleMessage
  <2>5. ASSUME NEW d \in Calls
        PROVE  ~Age(d)
    BY DEF Age
  <2>6. ASSUME NEW v \in Conversations
        PROVE  ~DropConversation(v)
    BY DEF DropConversation
  <2> QED
    BY <2>3, <2>4, <2>5, <2>6, SweepShowsNothing DEF Next
<1> QED
  BY <1>1, InvHolds, PTL DEF Spec, OnlyNewsIsShown

-----------------------------------------------------------------------------
(* The table and the stream.                                                *)

(* Nobody has read, or acted on, what is not in the stream.                  *)
FetchedOK ==
    /\ \A m \in Msgs : fate[m] # "new" => m \in Published
    /\ \A w \in Workers : \A n \in 1 .. Len(batch[w]) : batch[w][n].msg \in Published
    /\ \A w \in Workers : hand[w].busy => InHand(w) \in Published
ReadOK == FetchedOK /\ applied \subseteq Published

LEMMA PublishedTyped ==
    ASSUME ConsumerTypeOK
    PROVE  Published \in SUBSET Msgs /\ \A n \in 1 .. Len(stream) : stream[n] \in Published
BY DEF ConsumerTypeOK, Published

(* The stream only grows.                                                    *)
LEMMA PublishFetched ==
    ASSUME ConsumerTypeOK, FetchedOK, NEW m \in Msgs, Publish(m)
    PROVE  FetchedOK' /\ Published \subseteq Published'
<1>1. Published \subseteq Published'
  <2>1. stream \in Seq(Msgs) /\ stream' = Append(stream, m)
    BY DEF ConsumerTypeOK, Publish
  <2>2. Len(stream') = Len(stream) + 1 /\ \A n \in 1 .. Len(stream) : stream'[n] = stream[n]
    BY <2>1
  <2>3. \A n \in 1 .. Len(stream) : n \in 1 .. Len(stream')
    BY <2>1, <2>2
  <2> QED
    BY <2>2, <2>3 DEF Published
<1>2. UNCHANGED <<fate, batch, hand>>
  BY DEF Publish
<1> QED
  BY <1>1, <1>2 DEF FetchedOK, InHand

(* A step of the broker or the loop that publishes nothing: what is new in a *)
(* batch or a hand was open at the broker, next in the stream, or in that    *)
(* worker's batch.                                                           *)
LEMMA DeliverFetched ==
    ASSUME ConsumerTypeOK, FetchedOK, NEW m \in Msgs, NEW w \in Workers, Deliver(m, w)
    PROVE  FetchedOK' /\ Published' = Published
<1>1. Published' = Published
  BY DEF Deliver, Published
<1>2. m \in Published
  <2>1. next \in 0 .. Len(stream) /\ Len(stream) \in Nat
    BY DEF ConsumerTypeOK
  <2>2. CASE next < Len(stream) /\ stream[next + 1] = m
    <3>1. next + 1 \in 1 .. Len(stream)
      BY <2>1, <2>2
    <3> QED
      BY <2>2, <3>1, PublishedTyped
  <2>3. CASE fate[m] = "due"
    BY <2>3 DEF FetchedOK
  <2>4. (next < Len(stream) /\ stream[next + 1] = m) \/ fate[m] = "due"
    BY DEF Deliver
  <2> QED
    BY <2>2, <2>3, <2>4
<1>3. \A x \in Msgs : fate'[x] # "new" => x \in Published
  BY <1>2 DEF ConsumerTypeOK, FetchedOK, Deliver
<1>4. ASSUME NEW x \in Workers, NEW n \in 1 .. Len(batch'[x])
      PROVE  batch'[x][n].msg \in Published
  <2> DEFINE it == [msg |-> m, nth |-> tries[m] + 1]
  <2>0. it \in Delivery /\ it.msg = m
    BY DEF ConsumerTypeOK, Delivery
  <2> HIDE DEF it
  <2>1. batch[x] \in Seq(Delivery) /\ it \in Delivery /\ it.msg = m
    BY <2>0 DEF ConsumerTypeOK
  <2>2. batch' = [batch EXCEPT ![w] = Append(batch[w], it)]
    BY DEF Deliver, it
  <2>3. CASE x # w
    <3>1. batch'[x] = batch[x]
      BY <2>2, <2>3 DEF ConsumerTypeOK
    <3> QED
      BY <3>1 DEF FetchedOK
  <2>4. CASE x = w
    <3>1. batch'[x] = Append(batch[x], it)
      BY <2>2, <2>4 DEF ConsumerTypeOK
    <3>2. n \in 1 .. Len(batch[x]) \/ n = Len(batch[x]) + 1
      BY <2>1, <3>1
    <3>3. n \in 1 .. Len(batch[x]) => batch'[x][n] = batch[x][n]
      BY <2>1, <3>1
    <3>4. n = Len(batch[x]) + 1 => batch'[x][n] = it
      BY <2>1, <3>1
    <3> QED
      BY <1>2, <2>1, <3>2, <3>3, <3>4 DEF FetchedOK
  <2> QED
    BY <2>3, <2>4
<1>5. hand' = hand
  BY DEF Deliver
<1> QED
  BY <1>1, <1>3, <1>4, <1>5 DEF FetchedOK, InHand

LEMMA TakeUpFetched ==
    ASSUME ConsumerTypeOK, FetchedOK, NEW w \in Workers, TakeUp(w)
    PROVE  FetchedOK' /\ Published' = Published
<1>1. Published' = Published /\ fate' = fate
  BY DEF TakeUp, Published
<1>2. batch[w] \in Seq(Delivery) /\ batch[w] # <<>>
  BY DEF ConsumerTypeOK, TakeUp
<1>3. 1 \in 1 .. Len(batch[w]) /\ Head(batch[w]) = batch[w][1]
  BY <1>2
<1>4. Head(batch[w]).msg \in Published
  BY <1>3 DEF FetchedOK
<1>5. \A x \in Workers : hand'[x].busy => hand'[x].msg \in Published
  BY <1>4 DEF TakeUp, ConsumerTypeOK, FetchedOK, InHand
<1>6. ASSUME NEW x \in Workers, NEW n \in 1 .. Len(batch'[x])
      PROVE  batch'[x][n].msg \in Published
  <2>1. CASE x # w
    <3>1. batch'[x] = batch[x]
      BY <2>1 DEF TakeUp, ConsumerTypeOK
    <3> QED
      BY <3>1 DEF FetchedOK
  <2>2. CASE x = w
    <3>1. batch'[x] = Tail(batch[w])
      BY <2>2 DEF TakeUp, ConsumerTypeOK
    <3>2. n + 1 \in 1 .. Len(batch[w]) /\ batch'[x][n] = batch[w][n + 1]
      BY <1>2, <3>1
    <3> QED
      BY <3>2 DEF FetchedOK
  <2> QED
    BY <2>1, <2>2
<1> QED
  BY <1>1, <1>5, <1>6 DEF FetchedOK, InHand

(* A step that puts messages down and answers them, and takes up nothing.    *)
LEMMA DropFetched ==
    ASSUME ConsumerTypeOK, FetchedOK, stream' = stream,
           \A m \in Msgs : fate[m] = "new" => fate'[m] = "new",
           \A w \in Workers : batch'[w] = batch[w] \/ batch'[w] = <<>>,
           \A w \in Workers : hand'[w].busy => hand[w].busy /\ hand'[w].msg = hand[w].msg
    PROVE  FetchedOK' /\ Published' = Published
<1>1. Published' = Published
  BY DEF Published
<1>2. \A m \in Msgs : fate'[m] # "new" => m \in Published
  BY DEF FetchedOK
<1>3. \A w \in Workers : \A n \in 1 .. Len(batch'[w]) : batch'[w][n].msg \in Published
  BY DEF FetchedOK
<1>4. \A w \in Workers : hand'[w].busy => hand'[w].msg \in Published
  BY DEF FetchedOK, InHand
<1> QED
  BY <1>1, <1>2, <1>3, <1>4 DEF FetchedOK, InHand

(* Hands that are emptied, or keep what they have.                           *)
LEMMA EmptiedHands ==
    ASSUME NEW w, hand'[w] = Nothing \/ hand'[w] = hand[w]
    PROVE  hand'[w].busy => hand[w].busy /\ hand'[w].msg = hand[w].msg
BY DEF Nothing

LEMMA AckWaitFetched ==
    ASSUME ConsumerTypeOK, FetchedOK, NEW m \in Msgs, AckWaitOver(m)
    PROVE  FetchedOK' /\ Published' = Published
BY DropFetched DEF AckWaitOver, ConsumerTypeOK

LEMMA StopFetched ==
    ASSUME ConsumerTypeOK, FetchedOK, NEW w \in Workers, Failing(w) \/ StartAgain(w)
    PROVE  FetchedOK' /\ Published' = Published
<1>1. CASE Stop(w)
  <2>1. \A m \in Msgs : fate[m] = "new" => fate'[m] = "new"
    <3>1. CASE batch[w] = <<>>
      BY <1>1, <3>1 DEF Stop
    <3>2. CASE batch[w] # <<>>
      BY <1>1, <3>2 DEF Stop, Nacked, ConsumerTypeOK
    <3> QED
      BY <3>1, <3>2
  <2>2. stream' = stream /\ hand' = hand
    BY <1>1 DEF Stop
  <2>3. \A x \in Workers : batch'[x] = batch[x] \/ batch'[x] = <<>>
    BY <1>1 DEF Stop, ConsumerTypeOK
  <2> QED
    BY <2>1, <2>2, <2>3, DropFetched
<1>2. CASE Die(w)
  <2>1. stream' = stream /\ fate' = fate
    BY <1>2 DEF Die
  <2>2. \A x \in Workers : hand'[x] = Nothing \/ hand'[x] = hand[x]
    BY <1>2 DEF Die, ConsumerTypeOK
  <2>3. \A x \in Workers : batch'[x] = batch[x] \/ batch'[x] = <<>>
    BY <1>2 DEF Die, ConsumerTypeOK
  <2> QED
    BY <2>1, <2>2, <2>3, EmptiedHands, DropFetched
<1>3. CASE StartAgain(w)
  BY <1>3, DropFetched DEF StartAgain, ConsumerTypeOK
<1> QED
  BY <1>1, <1>2, <1>3 DEF Failing

LEMMA ConsumerFetched ==
    ASSUME ConsumerTypeOK, FetchedOK,
           \/ \E m \in Msgs : Publish(m) \/ AckWaitOver(m)
           \/ \E w \in Workers : Consuming(w) \/ Failing(w) \/ StartAgain(w)
    PROVE  FetchedOK' /\ Published \subseteq Published'
BY PublishFetched, AckWaitFetched, DeliverFetched, TakeUpFetched, StopFetched DEF Consuming

(* However a handler leaves its message.                                     *)
LEMMA HandlerFetched ==
    ASSUME ConsumerTypeOK, FetchedOK, NEW w \in Workers, NEW stage, At(w, stage),
           \/ \E to \in Stages : Reach(w, to)
           \/ \E answer \in {"acked", "termed"} : Answer(w, answer)
           \/ Nak(w)
           \/ Throw(w)
    PROVE  FetchedOK' /\ Published' = Published /\ InHand(w) \in Published
<1>1. InHand(w) \in Published
  BY DEF At, FetchedOK
<1>2. hand[w] \in [busy : {TRUE}, msg : Msgs, nth : Nat, stage : Stages] /\ InHand(w) \in Msgs
  BY BusyHand
<1>3. CASE \E to \in Stages : Reach(w, to)
  <2>1. PICK to \in Stages : Reach(w, to)
    BY <1>3
  <2>2. hand'[w].msg = hand[w].msg /\ hand'[w].busy = hand[w].busy
    BY <1>2, <2>1 DEF Reach, ConsumerTypeOK
  <2>3. \A x \in Workers \ {w} : hand'[x] = hand[x]
    BY <2>1 DEF Reach, ConsumerTypeOK
  <2>4. stream' = stream /\ fate' = fate /\ batch' = batch
    BY <2>1 DEF Reach
  <2> QED
    BY <1>1, <2>2, <2>3, <2>4, DropFetched
<1>4. CASE \E answer \in {"acked", "termed"} : Answer(w, answer)
  <2>1. PICK answer \in {"acked", "termed"} : Answer(w, answer)
    BY <1>4
  <2>2. \A m \in Msgs : fate[m] = "new" => fate'[m] = "new"
    BY <1>2, <2>1 DEF Answer, Answered, Open, ConsumerTypeOK
  <2>3. /\ stream' = stream /\ batch' = batch
        /\ \A x \in Workers : hand'[x] = Nothing \/ hand'[x] = hand[x]
    BY <2>1 DEF Answer, ConsumerTypeOK
  <2> QED
    BY <1>1, <2>2, <2>3, EmptiedHands, DropFetched
<1>5. CASE Nak(w)
  <2>1. \A m \in Msgs : fate[m] = "new" => fate'[m] = "new"
    BY <1>2, <1>5 DEF Nak, Nacked, ConsumerTypeOK
  <2>2. /\ stream' = stream /\ batch' = batch
        /\ \A x \in Workers : hand'[x] = Nothing \/ hand'[x] = hand[x]
    BY <1>5 DEF Nak, ConsumerTypeOK
  <2> QED
    BY <1>1, <2>1, <2>2, EmptiedHands, DropFetched
<1>6. CASE Throw(w)
  <2>1. /\ stream' = stream /\ fate' = fate
        /\ \A x \in Workers : hand'[x] = Nothing \/ hand'[x] = hand[x]
    BY <1>6 DEF Throw, ConsumerTypeOK
  <2>2. \A x \in Workers : batch'[x] = batch[x] \/ batch'[x] = <<>>
    BY <1>6 DEF Throw, ConsumerTypeOK
  <2> QED
    BY <1>1, <2>1, <2>2, EmptiedHands, DropFetched
<1> QED
  BY <1>3, <1>4, <1>5, <1>6

LEMMA ReadNext == Inv /\ ReadOK /\ [Next]_vars => ReadOK'
<1> SUFFICES ASSUME Inv, ReadOK, [Next]_vars
             PROVE  ReadOK'
  OBVIOUS
<1>1. ConsumerTypeOK /\ FetchedOK
  BY DEF Inv, ReadOK
<1>2. ASSUME \/ \E m \in Msgs : Publish(m) \/ AckWaitOver(m)
             \/ \E w \in Workers : Consuming(w) \/ Failing(w) \/ StartAgain(w),
             UNCHANGED service
      PROVE  ReadOK'
  BY <1>1, <1>2, ConsumerFetched DEF ReadOK, service
<1>3. ASSUME NEW w \in Workers, HandleMessage(w)
      PROVE  ReadOK'
  <2>1. ASSUME NEW stage, At(w, stage),
               \/ \E to \in Stages : Reach(w, to)
               \/ \E answer \in {"acked", "termed"} : Answer(w, answer)
               \/ Nak(w)
               \/ Throw(w),
               applied' = applied \/ applied' = applied \cup {InHand(w)}
        PROVE  ReadOK'
    BY <1>1, <2>1, HandlerFetched DEF ReadOK
  <2>2. CASE SetAside(w)
    BY <2>1, <2>2 DEF SetAside
  <2>3. CASE Project(w)
    BY <2>1, <2>3 DEF Project, Stages
  <2>4. CASE Acknowledge(w)
    BY <2>1, <2>4 DEF Acknowledge
  <2>5. CASE TermOrphan(w)
    BY <2>1, <2>5 DEF TermOrphan
  <2>6. CASE ProjectFails(w)
    BY <2>1, <2>6 DEF ProjectFails, GiveUpOrRetry, Stages
  <2>7. CASE PublishDlq(w)
    BY <2>1, <2>7 DEF PublishDlq, Stages
  <2>8. CASE DlqFails(w)
    BY <2>1, <2>8 DEF DlqFails
  <2> QED
    BY <1>3, <2>2, <2>3, <2>4, <2>5, <2>6, <2>7, <2>8 DEF HandleMessage
<1>4. ASSUME UNCHANGED <<consumer, applied>>
      PROVE  ReadOK'
  BY <1>4 DEF ReadOK, FetchedOK, Published, InHand, consumer
<1>5. CASE SweepStaleCalls
  BY <1>4, <1>5 DEF SweepStaleCalls
<1>6. ASSUME NEW d \in Calls, Age(d) PROVE ReadOK'
  BY <1>4, <1>6 DEF Age
<1>7. ASSUME NEW v \in Conversations, DropConversation(v) PROVE ReadOK'
  BY <1>4, <1>7 DEF DropConversation
<1>8. CASE UNCHANGED vars
  BY <1>4, <1>8 DEF vars
<1> QED
  BY <1>2, <1>3, <1>5, <1>6, <1>7, <1>8 DEF Next

LEMMA ReadInit == Init => ReadOK
BY DEF Init, ConsumerInit, ReadOK, FetchedOK, Nothing, InHand

LEMMA ReadHolds == Spec => [](Inv /\ ReadOK)
BY InvInit, InvNext, ReadInit, ReadNext, PTL DEF Spec

Less == {ss \in Nat \X Nat : ss[1] < ss[2]}

(* Induction, for a set of numbers.                                          *)
LEMMA Inducts == ASSUME NEW S \in SUBSET Nat, 0 \in S, \A n \in S : n + 1 \in S PROVE S = Nat
<1>1. IsWellFoundedOn(Less, Nat)
  BY NatLessThanWellFounded DEF OpToRel, Less
<1>2. ASSUME Nat \ S # {} PROVE FALSE
  <2>1. PICK x \in Nat \ S : \A y \in Nat \ S : ~(<<y, x>> \in Less)
    BY <1>1, <1>2, WFMin
  <2>2. x - 1 \in Nat /\ x - 1 < x
    OBVIOUS
  <2>3. <<x - 1, x>> \in Less
    BY <2>2 DEF Less
  <2> QED
    BY <2>1, <2>2, <2>3
<1> QED
  BY <1>2

(* One event of a replay, and what a replay is.                              *)
Folded(r, m, d) == IF Says(m, d) THEN Upsert(r, ToProjection(EventOf[m])) ELSE r
Step(F, d, n) == IF n = 0 THEN NoRow ELSE Folded(F[n - 1], stream[n], d)
IsReplay(F, d) == F = [n \in 0 .. Len(stream) |-> Step(F, d, n)]

(* A replay reaches every length of the stream's beginning.                  *)
Reaches(d, n) == \E F \in [0 .. n -> Rows] : \A k \in 0 .. n : F[k] = Step(F, d, k)

LEMMA FoldedTyped ==
    ASSUME NEW r \in Rows, NEW m \in Msgs, NEW d
    PROVE  Folded(r, m, d) \in Rows
BY ProjectionTyped, UpsertTyped DEF Folded, Says

LEMMA ReachesNext ==
    ASSUME ConsumerTypeOK, NEW d, NEW n \in Nat, n + 1 <= Len(stream), Reaches(d, n)
    PROVE  Reaches(d, n + 1)
<1>1. PICK F \in [0 .. n -> Rows] : \A k \in 0 .. n : F[k] = Step(F, d, k)
  BY DEF Reaches
<1> DEFINE last == Folded(F[n], stream[n + 1], d)
           G == [k \in 0 .. n + 1 |-> IF k <= n THEN F[k] ELSE last]
<1>2. n + 1 \in 1 .. Len(stream) /\ n \in 0 .. n
  BY DEF ConsumerTypeOK
<1>3. stream[n + 1] \in Msgs
  BY <1>2 DEF ConsumerTypeOK
<1>4. last \in Rows
  BY <1>1, <1>2, <1>3, FoldedTyped
<1> HIDE DEF last
<1>5. G \in [0 .. n + 1 -> Rows]
  BY <1>1, <1>4
<1>6. ASSUME NEW k \in 0 .. n PROVE G[k] = Step(G, d, k)
  <2>1. G[k] = F[k] /\ (k # 0 => G[k - 1] = F[k - 1])
    OBVIOUS
  <2> HIDE DEF G
  <2> QED
    BY <1>1, <2>1 DEF Step
<1>7. G[n + 1] = Step(G, d, n + 1)
  <2>1. G[n + 1] = last /\ G[n] = F[n] /\ n + 1 # 0 /\ n + 1 - 1 = n
    OBVIOUS
  <2> HIDE DEF G
  <2> QED
    BY <2>1 DEF Step, last
<1>8. \A k \in 0 .. n + 1 : k \in 0 .. n \/ k = n + 1
  OBVIOUS
<1> HIDE DEF G
<1> QED
  BY <1>5, <1>6, <1>7, <1>8 DEF Reaches

(* The recursive definition of Replays has a solution, so it is one.         *)
LEMMA ReplayIs ==
    ASSUME ConsumerTypeOK, NEW d
    PROVE  \A n \in 0 .. Len(stream) : Replays(d)[n] = Step(Replays(d), d, n)
<1> DEFINE N == {n \in Nat : n <= Len(stream) => Reaches(d, n)}
<1>1. Len(stream) \in Nat
  BY DEF ConsumerTypeOK
<1>2. 0 \in N
  <2>1. NoRow \in Rows
    BY DEF NoRow, Rows
  <2>2. [k \in 0 .. 0 |-> NoRow] \in [0 .. 0 -> Rows]
    BY <2>1
  <2>3. \A k \in 0 .. 0 : [i \in 0 .. 0 |-> NoRow][k] = Step([i \in 0 .. 0 |-> NoRow], d, k)
    BY DEF Step
  <2>4. Reaches(d, 0)
    BY <2>2, <2>3 DEF Reaches
  <2> QED
    BY <2>4
<1>3. ASSUME NEW n \in N PROVE n + 1 \in N
  BY <1>1, ReachesNext
<1>4. N = Nat
  <2>1. N \in SUBSET Nat
    OBVIOUS
  <2> HIDE DEF N
  <2> QED
    BY <1>2, <1>3, <2>1, Inducts
<1>5. Reaches(d, Len(stream))
  BY <1>1, <1>4
<1>6. \E F : IsReplay(F, d)
  <2>1. PICK F \in [0 .. Len(stream) -> Rows] : \A k \in 0 .. Len(stream) : F[k] = Step(F, d, k)
    BY <1>5 DEF Reaches
  <2>2. IsReplay(F, d)
    BY <2>1 DEF IsReplay
  <2> QED
    BY <2>2
<1>7. Replays(d) = CHOOSE F : IsReplay(F, d)
  BY DEF Replays, IsReplay, Step, Folded
<1>8. IsReplay(Replays(d), d)
  BY <1>6, <1>7
<1> QED
  BY <1>8 DEF IsReplay

(* What a row tells of a set of projections, and of what a beginning of the  *)
(* stream says.                                                              *)
Accounts(r, said) ==
    /\ r.there <=> said # {}
    /\ AnsweredAsSaid(r, said) /\ EndedAsSaid(r, said) /\ LastedAsSaid(r, said)
Told(d, n) == {ToProjection(EventOf[stream[k]]) : k \in {i \in 1 .. n : Says(stream[i], d)}}

LEMMA ToldTyped ==
    ASSUME ConsumerTypeOK, NEW d, NEW n \in 0 .. Len(stream), NEW p \in Told(d, n)
    PROVE  p \in Projections /\ (p.ended = Null <=> p.reason = Null)
<1>1. PICK k \in 1 .. n : Says(stream[k], d) /\ p = ToProjection(EventOf[stream[k]])
  BY DEF Told
<1>2. stream[k] \in Msgs
  BY DEF ConsumerTypeOK
<1> QED
  BY <1>1, <1>2, ProjectionTyped DEF Says

LEMMA ToldGrows ==
    ASSUME NEW d, NEW n \in Nat
    PROVE  Told(d, n + 1) = IF Says(stream[n + 1], d)
                            THEN Told(d, n) \cup {ToProjection(EventOf[stream[n + 1]])}
                            ELSE Told(d, n)
<1>1. 1 .. n + 1 = (1 .. n) \cup {n + 1}
  OBVIOUS
<1> DEFINE At1 == {i \in 1 .. n + 1 : Says(stream[i], d)}
           At0 == {i \in 1 .. n : Says(stream[i], d)}
<1>2. At1 = IF Says(stream[n + 1], d) THEN At0 \cup {n + 1} ELSE At0
  BY <1>1
<1>3. Told(d, n + 1) = {ToProjection(EventOf[stream[k]]) : k \in At1}
      /\ Told(d, n) = {ToProjection(EventOf[stream[k]]) : k \in At0}
  BY DEF Told
<1> HIDE DEF At0, At1
<1> QED
  BY <1>2, <1>3

LEMMA AccountsGrows ==
    ASSUME ConsumerTypeOK, NEW d, NEW n \in Nat, n + 1 <= Len(stream),
           NEW r \in Rows, Accounts(r, Told(d, n))
    PROVE  /\ Folded(r, stream[n + 1], d) \in Rows
           /\ Accounts(Folded(r, stream[n + 1], d), Told(d, n + 1))
<1> DEFINE m == stream[n + 1]
           p == ToProjection(EventOf[m])
           said == Told(d, n)
<1>1. m \in Msgs
  BY DEF ConsumerTypeOK
<1>2. Folded(r, m, d) \in Rows
  BY <1>1, FoldedTyped
<1>3. CASE ~Says(m, d)
  <2>1. Told(d, n + 1) = said /\ Folded(r, m, d) = r
    BY <1>3, ToldGrows DEF Folded
  <2> QED
    BY <1>2, <2>1
<1>4. CASE Says(m, d)
  <2>1. Told(d, n + 1) = said \cup {p} /\ Folded(r, m, d) = Upsert(r, p)
    BY <1>4, ToldGrows DEF Folded
  <2>2. p \in Projections /\ (p.ended = Null <=> p.reason = Null)
    BY <1>1, <1>4, ProjectionTyped DEF Says
  <2>3. n \in 0 .. Len(stream)
    BY DEF ConsumerTypeOK
  <2>4. \A q \in said : q \in Projections /\ (q.ended = Null <=> q.reason = Null)
    BY <2>3, ToldTyped
  <2>5. \A q \in said : q.talk \in Nat
    BY <2>4 DEF Projections
  <2>6. AnsweredAsSaid(r, said) /\ EndedAsSaid(r, said) /\ LastedAsSaid(r, said)
    BY DEF Accounts
  <2> HIDE DEF p, said, m
  <2>7. /\ AnsweredAsSaid(Upsert(r, p), said \cup {p})
        /\ EndedAsSaid(Upsert(r, p), said \cup {p})
        /\ LastedAsSaid(Upsert(r, p), said \cup {p})
    BY <2>2, <2>4, <2>5, <2>6, AnsweredSums, EndedSums, LastedSums
  <2>8. Upsert(r, p).there = TRUE
    BY DEF Upsert
  <2> QED
    BY <1>2, <2>1, <2>7, <2>8 DEF Accounts, m
<1> QED
  BY <1>3, <1>4

(* A replay's row accounts for the whole stream.                             *)
LEMMA ReplayAccounts ==
    ASSUME ConsumerTypeOK, NEW d
    PROVE  Replayed(d) \in Rows /\ Accounts(Replayed(d), Told(d, Len(stream)))
<1> DEFINE R == Replays(d)
           Good(n) == R[n] \in Rows /\ Accounts(R[n], Told(d, n))
           N == {n \in Nat : n <= Len(stream) => Good(n)}
<1>1. Len(stream) \in Nat
  BY DEF ConsumerTypeOK
<1>2. \A n \in 0 .. Len(stream) : R[n] = Step(R, d, n)
  BY ReplayIs
<1>3. 0 \in N
  <2>1. R[0] = NoRow
    BY <1>1, <1>2 DEF Step
  <2>2. Told(d, 0) = {}
    BY DEF Told
  <2>3. NoRow \in Rows /\ Accounts(NoRow, {})
    BY DEF NoRow, Rows, Accounts, AnsweredAsSaid, EndedAsSaid, LastedAsSaid
  <2> HIDE DEF R
  <2> QED
    BY <2>1, <2>2, <2>3
<1> HIDE DEF R
<1>4. ASSUME NEW n \in N PROVE n + 1 \in N
  <2>1. SUFFICES ASSUME n + 1 <= Len(stream) PROVE Good(n + 1)
    OBVIOUS
  <2>2. Good(n)
    BY <1>1, <2>1
  <2>3. n + 1 \in 0 .. Len(stream) /\ n + 1 # 0 /\ n + 1 - 1 = n
    BY <1>1, <2>1
  <2>4. R[n + 1] = Folded(R[n], stream[n + 1], d)
    BY <1>2, <2>3 DEF Step
  <2> QED
    BY <2>1, <2>2, <2>4, AccountsGrows
<1>5. N = Nat
  <2>1. N \in SUBSET Nat
    OBVIOUS
  <2> HIDE DEF N
  <2> QED
    BY <1>3, <1>4, <2>1, Inducts
<1>6. Good(Len(stream))
  BY <1>1, <1>5
<1> QED
  BY <1>6 DEF Replayed, R

(* Only one row accounts for events that tell of one answer and one end.     *)
LEMMA AccountsAgree ==
    ASSUME NEW r \in Rows, NEW q \in Rows, NEW said,
           \A p \in said : p \in Projections /\ (p.ended = Null <=> p.reason = Null),
           \A p, o \in said : p.answered = o.answered \/ Null \in {p.answered, o.answered},
           \A p, o \in said : p.ended # Null /\ o.ended # Null => p = o,
           Accounts(r, said), Accounts(q, said)
    PROVE  r = q
<1>1. r.there = q.there
  BY DEF Accounts, Rows
<1>2. r.answered = q.answered
  BY DEF Accounts, AnsweredAsSaid
<1>3. r.ended = q.ended /\ r.reason = q.reason
  <2>1. CASE r.ended = Null \/ q.ended = Null
    BY <2>1 DEF Accounts, EndedAsSaid
  <2>2. CASE r.ended # Null /\ q.ended # Null
    <3>1. PICK p \in said : p.ended = r.ended /\ p.reason = r.reason
      BY <2>2 DEF Accounts, EndedAsSaid
    <3>2. PICK o \in said : o.ended = q.ended /\ o.reason = q.reason
      BY <2>2 DEF Accounts, EndedAsSaid
    <3>3. p = o
      BY <2>2, <3>1, <3>2
    <3> QED
      BY <3>1, <3>2, <3>3
  <2> QED
    BY <2>1, <2>2
<1>4. r.talk = q.talk
  <2>1. r.talk \in Nat /\ q.talk \in Nat /\ \A p \in said : p.talk \in Nat
    BY DEF Rows, Projections
  <2>2. LastedAsSaid(r, said) /\ LastedAsSaid(q, said)
    BY DEF Accounts
  <2>3. r.talk <= q.talk
    BY <2>1, <2>2 DEF LastedAsSaid
  <2>4. q.talk <= r.talk
    BY <2>1, <2>2 DEF LastedAsSaid
  <2> QED
    BY <2>1, <2>3, <2>4
<1> QED
  BY <1>1, <1>2, <1>3, <1>4 DEF Rows

(* Once every event of a call came through, its row was made from what the   *)
(* stream says of it: nothing else was ever projected.                       *)
LEMMA ToldIsSaid ==
    ASSUME Inv, ReadOK, NEW d \in Calls, {m \in Published : Says(m, d)} \subseteq applied
    PROVE  Told(d, Len(stream)) = SaidOf(d)
<1>1. ASSUME NEW p \in Told(d, Len(stream)) PROVE p \in SaidOf(d)
  <2>1. PICK k \in 1 .. Len(stream) : Says(stream[k], d) /\ p = ToProjection(EventOf[stream[k]])
    BY DEF Told
  <2>2. stream[k] \in applied /\ CallOf(stream[k]) = d
    BY <2>1 DEF Published, Says
  <2> QED
    BY <2>1, <2>2 DEF SaidOf
<1>2. ASSUME NEW p \in SaidOf(d) PROVE p \in Told(d, Len(stream))
  <2>1. PICK m \in applied : CallOf(m) = d /\ p = ToProjection(EventOf[m])
    BY DEF SaidOf
  <2>2. PICK k \in 1 .. Len(stream) : stream[k] = m
    BY DEF ReadOK, Published
  <2>3. Says(stream[k], d)
    BY <2>1, <2>2 DEF Says, Inv, HandsOK
  <2> QED
    BY <2>1, <2>2, <2>3 DEF Told
<1> QED
  BY <1>1, <1>2

(* 003_calls.sql and projectCall: whatever was lost, repeated, reordered or  *)
(* retried on the way, a call all of whose events came through has the row   *)
(* that one replay of the stream gives it.                                   *)
THEOREM Rebuilds == Spec => []Rebuildable
<1>1. Inv /\ ReadOK => Rebuildable
  <2> SUFFICES ASSUME Inv, ReadOK, NEW d \in Calls,
                      ConvOf[d] \in exists, d \notin swept,
                      {m \in Published : Says(m, d)} \subseteq applied,
                      OneAnswer({m \in Published : Says(m, d)}),
                      OneEnding({m \in Published : Says(m, d)})
               PROVE  row[d] = Replayed(d)
    BY DEF Rebuildable
  <2> DEFINE said == SaidOf(d)
             msgs == {m \in Published : Says(m, d)}
  <2>1. ConsumerTypeOK /\ Len(stream) \in Nat
    BY DEF Inv, ConsumerTypeOK
  <2>2. Told(d, Len(stream)) = said
    BY ToldIsSaid
  <2>3. Replayed(d) \in Rows /\ Accounts(Replayed(d), said)
    BY <2>1, <2>2, ReplayAccounts
  <2>4. row[d] \in Rows /\ Accounts(row[d], said)
    BY DEF Inv, ServiceTypeOK, RowSumsUpEvents, Accounts
  <2>5. \A p \in said : p \in Projections /\ (p.ended = Null <=> p.reason = Null)
    BY SaysTyped DEF Inv
  <2>6. \A p \in said : \E m \in msgs :
           /\ p = ToProjection(EventOf[m]) /\ p.answered = EventOf[m].answered
           /\ p.ended # Null => Ending(m)
    <3>1. SUFFICES ASSUME NEW p \in said
                   PROVE  \E m \in msgs : /\ p = ToProjection(EventOf[m])
                                          /\ p.answered = EventOf[m].answered
                                          /\ p.ended # Null => Ending(m)
      OBVIOUS
    <3>2. PICK m \in applied : CallOf(m) = d /\ p = ToProjection(EventOf[m])
      BY DEF SaidOf
    <3>3. Usable(m) /\ m \in msgs
      BY <3>2 DEF Inv, HandsOK, ReadOK, Says
    <3>4. p.answered = EventOf[m].answered /\ (EventOf[m].kind = "started" => p.ended = Null)
      BY <3>2 DEF ToProjection
    <3>5. p.ended # Null => Ending(m)
      BY <3>3, <3>4 DEF Usable, Kinds, Ending
    <3> QED
      BY <3>2, <3>3, <3>4, <3>5
  <2> HIDE DEF said, msgs
  <2>7. OneAnswer(msgs) /\ OneEnding(msgs)
    BY DEF msgs
  <2>8. \A p, o \in said : p.answered = o.answered \/ Null \in {p.answered, o.answered}
    BY <2>6, <2>7 DEF OneAnswer
  <2>9. \A p, o \in said : p.ended # Null /\ o.ended # Null => p = o
    BY <2>6, <2>7 DEF OneEnding
  <2> QED
    BY <2>3, <2>4, <2>5, <2>8, <2>9, AccountsAgree
<1> QED
  BY <1>1, ReadHolds, PTL

=============================================================================
