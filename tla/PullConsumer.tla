---------------------------- MODULE PullConsumer ----------------------------
(***************************************************************************)
(* A durable JetStream pull consumer and the loop the services read it     *)
(* with (nats/run-pull-consumer.ts, the same loop in messenger-service,    *)
(* event-store and notification-service).  What a service does with a      *)
(* message is the business of the module that extends this one; here are   *)
(* the broker's side, the loop, and the ways a handler can leave a         *)
(* message.                                                                *)
(***************************************************************************)
EXTENDS Naturals, Sequences, FiniteSets

CONSTANTS
    Msgs,         \* the messages the durable's filter lets through
    Workers,      \* processes of the service, which share the durable
    MaxDeliver,   \* max_deliver, at the broker and in the service alike
    BatchSize,    \* max_messages of a fetch
    Mortal,       \* bound: workers that may stop or die
    MaxStops,     \* bound: how often they do
    MaxSlow       \* bound: ack waits that run out while a worker has the message

ASSUME ConsumerAssumption ==
    /\ MaxDeliver \in Nat \ {0} /\ BatchSize \in Nat \ {0}
    /\ Mortal \in SUBSET Workers
    /\ {MaxStops, MaxSlow} \subseteq Nat

VARIABLES
    stream,   \* the messages published so far, in order
    next,     \* how many of them the broker has delivered for the first time
    fate,     \* what the broker holds of each message
    tries,    \* how often each was delivered
    batch,    \* each worker: deliveries it fetched and has not taken up
    hand,     \* each worker: the delivery its handler is at work on
    up,       \* workers that run
    used      \* how much of each bound is used

consumer == <<stream, next, fate, tries, batch, hand, up, used>>

(* "out" to a worker and not answered, "due" to be delivered again, "lost"   *)
(* when max_deliver deliveries went unanswered.                              *)
Fates == {"new", "out", "due", "acked", "termed", "lost"}
Open == {"out", "due"}
Stages == {"taken", "done", "giveup"}
Nothing == [busy |-> FALSE]
Delivery == [msg : Msgs, nth : Nat]
InHands == {Nothing} \cup [busy : {TRUE}, msg : Msgs, nth : Nat, stage : Stages]

ConsumerTypeOK ==
    /\ stream \in Seq(Msgs)
    /\ next \in 0 .. Len(stream)
    /\ fate \in [Msgs -> Fates]
    /\ tries \in [Msgs -> Nat]
    /\ batch \in [Workers -> Seq(Delivery)]
    /\ hand \in [Workers -> InHands]
    /\ up \in SUBSET Workers
    /\ used \in [stops : Nat, slow : Nat]

ConsumerInit ==
    /\ stream = <<>>
    /\ next = 0
    /\ fate = [m \in Msgs |-> "new"]
    /\ tries = [m \in Msgs |-> 0]
    /\ batch = [w \in Workers |-> <<>>]
    /\ hand = [w \in Workers |-> Nothing]
    /\ up = Workers
    /\ used = [stops |-> 0, slow |-> 0]

Published == {stream[n] : n \in 1 .. Len(stream)}
At(w, stage) == hand[w].busy /\ hand[w].stage = stage
InHand(w) == hand[w].msg

-----------------------------------------------------------------------------
(* The broker. *)

Publish(m) ==
    /\ m \notin Published
    /\ stream' = Append(stream, m)
    /\ UNCHANGED <<next, fate, tries, batch, hand, up, used>>

(* To a worker whose fetch has room: the next message of the stream, or one  *)
(* that is due again.                                                        *)
Deliver(m, w) ==
    /\ w \in up /\ Len(batch[w]) < BatchSize
    /\ \/ next < Len(stream) /\ stream[next + 1] = m /\ next' = next + 1
       \/ fate[m] = "due" /\ UNCHANGED next
    /\ fate' = [fate EXCEPT ![m] = "out"]
    /\ tries' = [tries EXCEPT ![m] = @ + 1]
    /\ batch' = [batch EXCEPT ![w] = Append(@, [msg |-> m, nth |-> tries[m] + 1])]
    /\ UNCHANGED <<stream, hand, up, used>>

(* What becomes of a delivery that failed.                                   *)
Again(m) == IF tries[m] < MaxDeliver THEN "due" ELSE "lost"

Held(m) == \E w \in Workers :
    \/ hand[w].busy /\ hand[w].msg = m
    \/ \E n \in 1 .. Len(batch[w]) : batch[w][n].msg = m

(* No answer within the ack wait: everyone who had the message has dropped   *)
(* it, or somebody is slow.                                                  *)
AckWaitOver(m) ==
    /\ fate[m] = "out"
    /\ fate' = [fate EXCEPT ![m] = Again(m)]
    /\ IF Held(m)
       THEN used.slow < MaxSlow /\ used' = [used EXCEPT !.slow = @ + 1]
       ELSE UNCHANGED used
    /\ UNCHANGED <<stream, next, tries, batch, hand, up>>

(* The answers.  A late one still counts, unless the broker gave up.         *)
Answered(m, answer) ==
    fate' = IF fate[m] \in Open THEN [fate EXCEPT ![m] = answer] ELSE fate
Nacked(m) ==
    fate' = IF fate[m] = "out" THEN [fate EXCEPT ![m] = Again(m)] ELSE fate

-----------------------------------------------------------------------------
(* The loop. *)

TakeUp(w) ==
    /\ w \in up /\ hand[w] = Nothing /\ batch[w] # <<>>
    /\ hand' = [hand EXCEPT ![w] = [busy |-> TRUE, msg |-> Head(batch[w]).msg,
                                    nth |-> Head(batch[w]).nth, stage |-> "taken"]]
    /\ batch' = [batch EXCEPT ![w] = Tail(@)]
    /\ UNCHANGED <<stream, next, fate, tries, up, used>>

(* stop(): the message at hand is finished, the next of the batch nacked,    *)
(* the rest left to the ack wait.                                            *)
Stop(w) ==
    /\ w \in up \cap Mortal /\ hand[w] = Nothing /\ used.stops < MaxStops
    /\ IF batch[w] = <<>> THEN UNCHANGED fate ELSE Nacked(Head(batch[w]).msg)
    /\ batch' = [batch EXCEPT ![w] = <<>>]
    /\ up' = up \ {w}
    /\ used' = [used EXCEPT !.stops = @ + 1]
    /\ UNCHANGED <<stream, next, tries, hand>>

Die(w) ==
    /\ w \in up \cap Mortal /\ used.stops < MaxStops
    /\ batch' = [batch EXCEPT ![w] = <<>>]
    /\ hand' = [hand EXCEPT ![w] = Nothing]
    /\ up' = up \ {w}
    /\ used' = [used EXCEPT !.stops = @ + 1]
    /\ UNCHANGED <<stream, next, fate, tries>>

StartAgain(w) ==
    /\ w \in Workers \ up
    /\ up' = up \cup {w}
    /\ UNCHANGED <<stream, next, fate, tries, batch, hand, used>>

-----------------------------------------------------------------------------
(* How a handler leaves the message at hand. *)

Reach(w, stage) ==
    /\ hand' = [hand EXCEPT ![w].stage = stage]
    /\ UNCHANGED <<stream, next, fate, tries, batch, up, used>>

Answer(w, answer) ==
    /\ Answered(InHand(w), answer)
    /\ hand' = [hand EXCEPT ![w] = Nothing]
    /\ UNCHANGED <<stream, next, tries, batch, up, used>>

Nak(w) ==
    /\ Nacked(InHand(w))
    /\ hand' = [hand EXCEPT ![w] = Nothing]
    /\ UNCHANGED <<stream, next, tries, batch, up, used>>

(* Mutant of Throw: the exception ends the loop, not the batch.              *)
ThrowOut(w) ==
    /\ hand' = [hand EXCEPT ![w] = Nothing]
    /\ up' = up \ {w}
    /\ batch' = [batch EXCEPT ![w] = <<>>]
    /\ UNCHANGED <<stream, next, fate, tries, used>>

(* An exception is caught around the whole batch: its other deliveries are   *)
(* dropped unanswered, and the loop fetches anew.                            *)
Throw(w) ==
    /\ hand' = [hand EXCEPT ![w] = Nothing]
    /\ batch' = [batch EXCEPT ![w] = <<>>]
    /\ UNCHANGED <<stream, next, fate, tries, up, used>>

-----------------------------------------------------------------------------
(* The broker and the loop by themselves; handlers and clients are others'.  *)
Consuming(w) ==
    \/ \E m \in Msgs : Deliver(m, w)
    \/ TakeUp(w)
Failing(w) == Stop(w) \/ Die(w)
=============================================================================
