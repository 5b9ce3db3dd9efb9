------------------------- MODULE NotificationService -------------------------
(***************************************************************************)
(* notification-service for one owner: the events and dead letters it      *)
(* turns into notifications, the streams it pushes them to, the digest     *)
(* mail, and what its routes do to the rows.                               *)
(***************************************************************************)
EXTENDS Naturals, Sequences, FiniteSets, SequencesExt

CONSTANTS
  Notices,     \* 1 .. n: the messages that become notifications, in the order they are published
  LoopOf(_),   \* the consumer a message comes through
  Streams,     \* the EventSource connections of a tab, in the order it opens them
  MaxDeliver,
  PageSize,
  Plans,       \* the bounded instances to look at
  None

ASSUME ServiceAssumption == /\ MaxDeliver \in Nat \ {0} /\ PageSize \in Nat \ {0}
                            /\ \A n \in Notices : LoopOf(n) \in {"events", "dlq"}
                            /\ (\A n \in Notices : n \in Nat \ {0})
                            /\ None \notin Streams /\ None \notin [n : Notices, fresh : BOOLEAN]
(* What is in the table at first are the first messages there were.        *)
ASSUME PlansAssumption == \A p \in Plans :
                            /\ p.stored \subseteq Notices
                            /\ p.stored = {} \/ \E n \in p.stored : \A m \in p.stored : m <= n

VARIABLES
  plan,        \* what is left of the instance's bounds
  queue,       \* the messages at the broker
  hand,        \* what each consumer loop has inserted and not told yet
  rows,        \* the table notifications
  subscribed,  \* the connections the stream plugin knows
  wire,        \* what was written to them and not read yet
  digest,      \* the sweep under way, and digest_state.last_sent_at
  mailed,      \* history: the rows counted in a mail that went out
  exempt       \* history: the rows a stamped digest had no reason to count

store == <<queue, hand, rows>>
mails == <<digest, mailed, exempt>>
service == <<queue, hand, rows, subscribed, wire, digest, mailed, exempt>>

Loops == {"events", "dlq"}
Spend(act) == plan.left[act] > 0 /\ plan' = [plan EXCEPT !.left[act] = @ - 1]

-----------------------------------------------------------------------------
(* The table.  at orders the rows; rows of one ms were created within the  *)
(* same millisecond, which is all a page's cursor tells; a purged row      *)
(* leaves its place in time.                                               *)

NoRow == [at |-> 0, ms |-> 0, read |-> FALSE, gone |-> FALSE]
Exists(n) == rows[n].at > 0 /\ ~rows[n].gone
Unread == {n \in Notices : Exists(n) /\ ~rows[n].read}
Newest == IF \E n \in Notices : rows[n].at > 0
          THEN CHOOSE r \in {rows[n] : n \in Notices} : \A x \in Notices : rows[x].at <= r.at
          ELSE NoRow

(* INSERT ... ON CONFLICT DO NOTHING.                                      *)
insertNotification(n, burst) ==
    IF Exists(n) THEN rows
    ELSE [rows EXCEPT ![n] = [at |-> Newest.at + 1, ms |-> IF burst THEN Newest.ms ELSE Newest.ms + 1,
                              read |-> FALSE, gone |-> FALSE]]

(* The members of a finite set in their order R.                           *)
Ordered(S, R) == [k \in 1 .. Cardinality(S) |-> CHOOSE x \in S : Cardinality({y \in S : <<y, x>> \in R}) = k]

listNotifications(only, before) ==
    LET found == {n \in Notices : Exists(n) /\ (only => ~rows[n].read) /\ (before # None => rows[n].ms < before)}
        newestFirst == Ordered(found, {p \in found \X found : rows[p[1]].at >= rows[p[2]].at})
    IN SubSeq(newestFirst, 1, IF Len(newestFirst) < PageSize THEN Len(newestFirst) ELSE PageSize)

setReadState(n, read) == [rows EXCEPT ![n].read = read]
markAllRead == [n \in Notices |-> [rows[n] EXCEPT !.read = Exists(n)]]

-----------------------------------------------------------------------------
(* The consumers.                                                          *)

Publish ==
    \E n \in Notices :
        /\ queue[n].fate = "unborn" /\ \A m \in Notices : m < n => queue[m].fate # "unborn"
        /\ Spend("publish")
        /\ queue' = [queue EXCEPT ![n].fate = "waiting"]
        /\ UNCHANGED <<hand, rows, subscribed, wire, mails>>

Taken(n) == [queue EXCEPT ![n] = [fate |-> "held", tries |-> @.tries + 1]]
Unacked(n) == IF queue[n].tries < MaxDeliver THEN "waiting" ELSE "lost"
Waits(n) == queue[n].fate = "waiting" /\ hand[LoopOf(n)] = None

Project ==
    \E n \in Notices, burst \in BOOLEAN :
        /\ Waits(n)
        /\ IF burst THEN ~Exists(n) /\ Newest # NoRow /\ Spend("burst") ELSE UNCHANGED plan
        /\ queue' = Taken(n)
        /\ rows' = insertNotification(n, burst)
        /\ hand' = [hand EXCEPT ![LoopOf(n)] = [n |-> n, fresh |-> ~Exists(n)]]
        /\ UNCHANGED <<subscribed, wire, mails>>

(* Mutant: a redelivery is pushed again.                                   *)
publishAlways(h) == [c \in Streams |-> IF c \in subscribed THEN Append(wire[c], h.n) ELSE wire[c]]
(* What a loop does after its insert: push to every connection, then ack.  *)
publish(h) == [c \in Streams |-> IF h.fresh /\ c \in subscribed THEN Append(wire[c], h.n) ELSE wire[c]]

(* The acknowledgement may be lost with the connection to the broker.      *)
Tell ==
    \E l \in Loops :
        /\ hand[l] # None
        /\ wire' = publish(hand[l])
        /\ \/ UNCHANGED plan /\ queue' = [queue EXCEPT ![hand[l].n].fate = "done"]
           \/ Spend("ack") /\ queue' = [queue EXCEPT ![hand[l].n].fate = Unacked(hand[l].n)]
        /\ hand' = [hand EXCEPT ![l] = None]
        /\ UNCHANGED <<rows, subscribed, mails>>

(* The insert fails, before or after it took effect: nak, or after the     *)
(* last delivery a dead letter (events) or nothing (dead letters).         *)
ProjectFails ==
    \E n \in Notices, committed \in BOOLEAN :
        /\ Waits(n) /\ Spend("database")
        /\ rows' = IF committed THEN insertNotification(n, FALSE) ELSE rows
        /\ queue' = [queue EXCEPT ![n] = [fate |-> IF @.tries + 1 >= MaxDeliver THEN "done" ELSE "waiting",
                                          tries |-> @.tries + 1]]
        /\ UNCHANGED <<hand, subscribed, wire, mails>>

(* The process dies: its connections end, its messages are redelivered.    *)
Die ==
    /\ Spend("die")
    /\ hand' = [l \in Loops |-> None]
    /\ queue' = [n \in Notices |->
                   IF queue[n].fate # "held" THEN queue[n]
                   ELSE [queue[n] EXCEPT !.fate = Unacked(n)]]
    /\ subscribed' = {}
    /\ digest' = [digest EXCEPT !.step = "idle", !.counted = {}]
    /\ UNCHANGED <<rows, wire, mailed, exempt>>

-----------------------------------------------------------------------------
(* The digest sweep; last is the newest row there was when last_sent_at    *)
(* was written.                                                            *)

findCandidates ==
    /\ digest.step = "idle" /\ digest.due
    /\ \E n \in Unread : rows[n].at > digest.last
    /\ digest' = [digest EXCEPT !.step = "candidate"]
    /\ UNCHANGED <<plan, store, subscribed, wire, mailed, exempt>>

unreadStats ==
    /\ digest.step = "candidate"
    /\ digest' = IF Unread = {} THEN [digest EXCEPT !.step = "idle"]
                 ELSE [digest EXCEPT !.step = "rendered", !.counted = Unread]
    /\ UNCHANGED <<plan, store, subscribed, wire, mailed, exempt>>

(* Mutant: the stamp is written whatever became of the mail.               *)
stampAnyway ==
    /\ digest.step = "rendered"
    /\ \/ digest' = [digest EXCEPT !.step = "sent"] /\ mailed' = mailed \cup digest.counted /\ UNCHANGED plan
       \/ Spend("smtp") /\ digest' = [digest EXCEPT !.step = "sent"] /\ UNCHANGED mailed
    /\ UNCHANGED <<store, subscribed, wire, exempt>>
(* The catalog and the mail server answer, or the owner waits for the next *)
(* sweep, unstamped.                                                       *)
sendMail ==
    /\ digest.step = "rendered"
    /\ \/ digest' = [digest EXCEPT !.step = "sent"] /\ mailed' = mailed \cup digest.counted /\ UNCHANGED plan
       \/ Spend("smtp") /\ digest' = [digest EXCEPT !.step = "idle", !.counted = {}] /\ UNCHANGED mailed
    /\ UNCHANGED <<store, subscribed, wire, exempt>>

stampSent ==
    /\ digest.step = "sent"
    /\ \/ /\ digest' = [step |-> "idle", counted |-> {}, last |-> Newest.at, due |-> FALSE]
          /\ exempt' = exempt \cup ({n \in Notices : Exists(n)} \ digest.counted)
          /\ UNCHANGED plan
       \/ Spend("database") /\ digest' = [digest EXCEPT !.step = "idle", !.counted = {}] /\ UNCHANGED exempt
    /\ UNCHANGED <<store, subscribed, wire, mailed>>

IntervalPasses ==
    /\ ~digest.due /\ Spend("day")
    /\ digest' = [digest EXCEPT !.due = TRUE]
    /\ UNCHANGED <<store, subscribed, wire, mailed, exempt>>

(* The retention sweep deletes what was read long ago.                     *)
purgeReadNotifications ==
    \E n \in Notices :
        /\ Exists(n) /\ rows[n].read /\ queue[n].fate = "done" /\ Spend("purge")
        /\ rows' = [rows EXCEPT ![n].gone = TRUE]
        /\ UNCHANGED <<queue, hand, subscribed, wire, mails>>

-----------------------------------------------------------------------------
ServiceInit ==
    /\ plan \in Plans
    /\ queue = [n \in Notices |-> [fate |-> IF n \in plan.stored THEN "done" ELSE "unborn", tries |-> 0]]
    /\ hand = [l \in Loops |-> None]
    /\ rows = [n \in Notices |-> IF n \in plan.stored THEN [at |-> n, ms |-> n, read |-> n \in plan.read, gone |-> FALSE] ELSE NoRow]
    /\ subscribed = {} /\ wire = [c \in Streams |-> <<>>]
    /\ digest = [step |-> "idle", counted |-> {}, last |-> 0, due |-> plan.digest]
    /\ mailed = {} /\ exempt = {}

ServiceStep ==
    \/ Publish \/ Project \/ Tell \/ ProjectFails \/ Die
    \/ findCandidates \/ unreadStats \/ sendMail \/ stampSent \/ IntervalPasses \/ purgeReadNotifications

-----------------------------------------------------------------------------
(* The digest passes nobody over (sweepDigests): an unread notification    *)
(* older than the stamp was counted in a mail that went out, unless it was *)
(* read, or not there, when that mail's rows were counted.                 *)
DigestPassesNobodyOver ==
    \A n \in Unread : rows[n].at <= digest.last => n \in mailed \cup exempt
=============================================================================
