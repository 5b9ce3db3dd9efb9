----------------------------- MODULE EventStore -----------------------------
(***************************************************************************)
(* The event store: the consumer that writes the EVENTS stream to a        *)
(* table partitioned by month, the dead letters and their replay, the      *)
(* partitions made ahead, and the daily retention job.                     *)
(*                                                                         *)
(* Time is a count of days, PerMonth to a month.  An event is              *)
(* [id, type, at, us, ok]: at is its time, us what the time holds below a  *)
(* millisecond, ok whether the envelope parses.                            *)
(***************************************************************************)
EXTENDS Integers, FiniteSets, FiniteSetsExt

CONSTANTS Events, PerMonth, MonthsAhead, EventsRetention, DlqRetention, MaxDeliver, Tabs, Plans, None

ASSUME StoreSizes == /\ PerMonth \in Nat \ {0} /\ MonthsAhead \in Nat \ {0}
                     /\ EventsRetention \in Nat \ {0} /\ DlqRetention \in Nat \ {0}
                     /\ MaxDeliver \in Nat \ {0}
(* An envelope's id is a UUID: no two events share it, and ids are ordered. *)
ASSUME EventsAreNamed == /\ \A e \in Events : e.at \in Int /\ e.us \in Nat /\ e.id \in Int
                         /\ \A e, f \in Events : e.id = f.id => e = f
ASSUME PlansAreSound == \A plan \in Plans : /\ plan.now \in Int
                                           /\ plan.rows \subseteq Events /\ plan.stream \subseteq Events
                                           /\ IsFiniteSet(plan.rows)

VARIABLES now,      \* the day
          parts,    \* the months that have a partition of their own
          rows,     \* the table, whatever the partition
          stream,   \* messages of EVENTS the consumer has not acked: [n, ev, tries]
          letters,  \* messages of the DLQ stream not yet ingested: [n, ev, at]
          dlq,      \* the dead letter table: [id, n, ev, at, replayed]
          up,       \* the service runs
          job,      \* the retention job
          replay,   \* the dead letter page of each tab, its request included
          upkept,   \* the month of the last boot or retention job
          gone,     \* events given up for good by the ingest consumer
          seq,      \* the last number given to a message or a dead letter's row
          left      \* what may still happen in this instance

store == <<now, parts, rows, stream, letters, dlq, up, job, replay, upkept, gone, seq, left>>

Month(t) == t \div PerMonth
EndOf(p) == (p + 1) * PerMonth
Drift(what, n) == [left EXCEPT ![what] = @ - n]
May(what) == left[what] > 0

(***************************************************************************)
(* The publishers, and time.                                               *)
(***************************************************************************)
(* A number is never given twice, whatever was acked or deleted since.     *)
Numbered == seq' = seq + 1
Sent(ev) == [n |-> seq + 1, ev |-> ev, tries |-> 0]
Letter(ev) == [n |-> seq + 1, ev |-> ev, at |-> now]

(* A service publishes an event stamped with its own clock.                *)
Publishes(ev) ==
  /\ ev \notin rows /\ ~\E x \in stream \cup letters \cup dlq : x.ev = ev
  /\ ev.at = now \/ (May("skew") /\ ev.at > now)
  /\ May("publish")
  /\ stream' = stream \cup {Sent(ev)} /\ Numbered
  /\ left' = [Drift("publish", 1) EXCEPT !["skew"] = IF ev.at > now THEN @ - 1 ELSE @]
  /\ UNCHANGED <<now, parts, rows, letters, dlq, up, job, replay, upkept, gone>>

(* A day passes.  Operations see to it that the service boots or the job   *)
(* runs before the partitions made ahead are used up.                      *)
DayPasses ==
  /\ May("day")
  /\ Month(now + 1) <= upkept + MonthsAhead \/ May("neglect")
  /\ now' = now + 1
  /\ left' = Drift("day", 1)
  /\ UNCHANGED <<parts, rows, stream, letters, dlq, up, job, replay, upkept, gone, seq>>

(***************************************************************************)
(* The partitions.  A row goes to the partition of its month, or to the    *)
(* default one; a partition cannot be made while the default one holds a   *)
(* row of its month.                                                       *)
(***************************************************************************)
InDefault(e) == Month(e.at) \notin parts
Window == Month(now) .. Month(now) + MonthsAhead
EnsureFails == \E e \in rows : InDefault(e) /\ Month(e.at) \in Window
events_ensure_partitions == parts \cup Window

(***************************************************************************)
(* The ingest consumer.                                                    *)
(***************************************************************************)
ingestEvent(e) == IF \E r \in rows : r.id = e.id /\ r.at = e.at /\ r.us = e.us
                  THEN rows ELSE rows \cup {e}
Acked(x) == stream \ {x}
Again(x) == Acked(x) \cup {[x EXCEPT !.tries = @ + 1]}
LastTry(x) == x.tries + 1 >= MaxDeliver

(* The process dies, and the replays it was at work on with it.            *)
AtServer == {"asked", "read", "published"}
Broken(r) == IF r.pc \in AtServer THEN [r EXCEPT !.pc = "shown"] ELSE r
Dies == /\ May("crash") /\ left' = Drift("crash", 1)
        /\ up' = FALSE /\ replay' = [t \in Tabs |-> Broken(replay[t])]

Terminates(x) ==
  /\ up /\ x \in stream /\ ~x.ev.ok
  /\ stream' = Acked(x) /\ gone' = gone \cup {x.ev}
  /\ UNCHANGED <<now, parts, rows, letters, dlq, up, job, replay, upkept, seq, left>>

Stores(x) ==
  /\ up /\ x \in stream /\ x.ev.ok
  /\ rows' = ingestEvent(x.ev)
  /\ stream' = Acked(x)
  /\ UNCHANGED <<now, parts, letters, dlq, up, job, replay, upkept, gone, seq, left>>

(* The insert is committed, the process dies before the ack.               *)
StoresAndDies(x) ==
  /\ up /\ x \in stream /\ x.ev.ok /\ Dies
  /\ rows' = ingestEvent(x.ev)
  /\ stream' = IF LastTry(x) THEN Acked(x) ELSE Again(x)
  /\ UNCHANGED <<now, parts, letters, dlq, job, upkept, gone, seq>>

(* The insert fails: another delivery, or the dead letter.                 *)
InsertFails(x) ==
  /\ up /\ x \in stream /\ x.ev.ok /\ May("fault")
  /\ left' = Drift("fault", 1)
  /\ stream' = IF LastTry(x) THEN Acked(x) ELSE Again(x)
  /\ \/ ~LastTry(x) /\ UNCHANGED <<letters, gone, seq>>
     \/ LastTry(x) /\ letters' = letters \cup {Letter(x.ev)} /\ Numbered /\ gone' = gone
     \/ LastTry(x) /\ gone' = gone \cup {x.ev} /\ UNCHANGED <<letters, seq>>   \* publishDlq throws
  /\ UNCHANGED <<now, parts, rows, dlq, up, job, replay, upkept>>

Consumes(x) == Terminates(x) \/ Stores(x) \/ StoresAndDies(x) \/ InsertFails(x)

(* Another consumer of EVENTS gives up an event this one has stored.       *)
OthersGiveUp(e) ==
  /\ May("others") /\ e \in rows
  /\ letters' = letters \cup {Letter(e)} /\ Numbered
  /\ left' = Drift("others", 1)
  /\ UNCHANGED <<now, parts, rows, stream, dlq, up, job, replay, upkept, gone>>

(* The other consumer writes the letter to its table; the process may die  *)
(* before the ack, and the letter comes again.                             *)
ingestDlqMessage(x) ==
  IF \E r \in dlq : r.n = x.n THEN UNCHANGED <<dlq, seq>>
  ELSE /\ dlq' = dlq \cup {[id |-> seq + 1, n |-> x.n, ev |-> x.ev, at |-> x.at, replayed |-> FALSE]}
       /\ Numbered
handleDlqMessage(x) ==
  /\ up /\ x \in letters
  /\ ingestDlqMessage(x)
  /\ \/ letters' = letters \ {x} /\ UNCHANGED <<up, replay, left>>
     \/ Dies /\ UNCHANGED letters
  /\ UNCHANGED <<now, parts, rows, stream, job, upkept, gone>>

(***************************************************************************)
(* Boot and the retention job.                                             *)
(***************************************************************************)
buildApp ==
  /\ ~up /\ ~EnsureFails
  /\ parts' = events_ensure_partitions
  /\ up' = TRUE /\ upkept' = Month(now)
  /\ UNCHANGED <<now, rows, stream, letters, dlq, job, replay, gone, seq, left>>

Crashes ==
  /\ up /\ Dies
  /\ UNCHANGED <<now, parts, rows, stream, letters, dlq, job, upkept, gone, seq>>

Idle == [pc |-> "idle", before |-> 0, dlqBefore |-> 0, names |-> {}]

(* Mutant: retention alone, the window left to the service's boot.        *)
RetentionOnly ==
  /\ job.pc = "idle" /\ May("job")
  /\ left' = Drift("job", 1) /\ upkept' = Month(now)
  /\ job' = [job EXCEPT !.pc = "ensured"]
  /\ UNCHANGED <<now, parts, rows, stream, letters, dlq, up, replay, gone, seq>>

(* retain.ts: the window first, then runRetention.                         *)
JobStarts ==
  /\ job.pc = "idle" /\ May("job")
  /\ left' = Drift("job", 1) /\ upkept' = Month(now)
  /\ IF EnsureFails THEN UNCHANGED <<parts, job>>
     ELSE parts' = events_ensure_partitions /\ job' = [job EXCEPT !.pc = "ensured"]
  /\ UNCHANGED <<now, rows, stream, letters, dlq, up, replay, gone, seq>>

expiredEventPartitions(before) == {p \in parts : EndOf(p) <= before}
JobReads ==
  /\ job.pc = "ensured"
  /\ LET before == now - EventsRetention
     IN job' = [pc |-> "drops", before |-> before, dlqBefore |-> now - DlqRetention,
                names |-> expiredEventPartitions(before)]
  /\ UNCHANGED <<now, parts, rows, stream, letters, dlq, up, replay, upkept, gone, seq, left>>

JobDrops ==
  /\ job.pc = "drops"
  /\ \E p \in job.names :
        /\ \A later \in job.names : p <= later
        /\ parts' = parts \ {p}
        /\ rows' = {e \in rows : ~(p \in parts /\ Month(e.at) = p)}
        /\ job' = [job EXCEPT !.names = @ \ {p}]
  /\ UNCHANGED <<now, stream, letters, dlq, up, replay, upkept, gone, seq, left>>

JobDeletes ==
  /\ job.pc = "drops" /\ job.names = {}
  /\ rows' = {e \in rows : ~(InDefault(e) /\ e.at < job.before)}
  /\ job' = [job EXCEPT !.pc = "letters"]
  /\ UNCHANGED <<now, parts, stream, letters, dlq, up, replay, upkept, gone, seq, left>>

JobDeletesLetters ==
  /\ job.pc = "letters"
  /\ dlq' = {r \in dlq : r.at >= job.dlqBefore}
  /\ job' = Idle
  /\ UNCHANGED <<now, parts, rows, stream, letters, up, replay, upkept, gone, seq, left>>

JobDies ==
  /\ job.pc # "idle" /\ May("crash")
  /\ job' = Idle /\ left' = Drift("crash", 1)
  /\ UNCHANGED <<now, parts, rows, stream, letters, dlq, up, replay, upkept, gone, seq>>

runRetention == JobReads \/ JobDrops \/ JobDeletes \/ JobDeletesLetters

(***************************************************************************)
(* Replay: the dead letter's page in a tab, and the request it makes.      *)
(***************************************************************************)
Closed == [pc |-> "closed", id |-> 0, ev |-> None, replayed |-> FALSE]
Stage(t, from, to) == replay[t].pc = from /\ replay' = [replay EXCEPT ![t].pc = to]

OpenLetter(t, r) ==
  /\ up /\ r \in dlq /\ replay[t].pc = "closed"
  /\ replay' = [replay EXCEPT ![t] = [pc |-> "shown", id |-> r.id, ev |-> r.ev, replayed |-> r.replayed]]
  /\ UNCHANGED <<now, parts, rows, stream, letters, dlq, up, job, upkept, gone, seq, left>>

(* The button, the confirmation, the request.                              *)
requestReplay(t) ==
  /\ up /\ May("replay") /\ ~replay[t].replayed /\ Stage(t, "shown", "asked")
  /\ left' = Drift("replay", 1)
  /\ UNCHANGED <<now, parts, rows, stream, letters, dlq, up, job, upkept, gone, seq>>

Row(t) == {r \in dlq : r.id = replay[t].id}

ReplayReads(t) ==
  /\ up
  /\ IF \E r \in Row(t) : ~r.replayed /\ r.ev.ok
     THEN Stage(t, "asked", "read") ELSE Stage(t, "asked", "shown")   \* 404, 409, 400
  /\ UNCHANGED <<now, parts, rows, stream, letters, dlq, up, job, upkept, gone, seq, left>>

(* The stored envelope goes out word for word, its time included.          *)
Envelope(ev) == ev
ReplayPublishes(t) ==
  /\ up
  /\ \/ /\ Stage(t, "read", "published") /\ UNCHANGED left
        /\ stream' = stream \cup {Sent(Envelope(replay[t].ev))} /\ Numbered
     \/ Stage(t, "read", "shown") /\ May("fault") /\ left' = Drift("fault", 1) /\ UNCHANGED <<stream, seq>>
  /\ UNCHANGED <<now, parts, rows, letters, dlq, up, job, upkept, gone>>

(* The update takes only a letter not yet marked; the answer may be lost.  *)
(* Mutant: the letter is marked before it is published.                    *)
MarkFirst == "read"
MarkFrom == "published"
markDlqReplayed(t) ==
  /\ up /\ replay[t].pc = MarkFrom
  /\ LET free == {r \in Row(t) : ~r.replayed}
     IN /\ dlq' = (dlq \ free) \cup {[r EXCEPT !.replayed = TRUE] : r \in free}
        /\ \E heard \in {TRUE} \cup {~May("fault")} :
             /\ replay' = [replay EXCEPT ![t] = [@ EXCEPT !.pc = "shown", !.replayed = heard /\ free # {}]]
             /\ left' = IF heard THEN left ELSE Drift("fault", 1)
  /\ UNCHANGED <<now, parts, rows, stream, letters, up, job, upkept, gone, seq>>

LeaveLetter(t) ==
  /\ replay[t].pc = "shown" /\ May("replay")
  /\ replay' = [replay EXCEPT ![t] = Closed]
  /\ UNCHANGED <<now, parts, rows, stream, letters, dlq, up, job, upkept, gone, seq, left>>

replayDlqRecord(t) == ReplayReads(t) \/ ReplayPublishes(t) \/ markDlqReplayed(t)

-----------------------------------------------------------------------------
StoreInit ==
  \E plan \in Plans :
    /\ now = plan.now /\ rows = plan.rows /\ left = plan.left
    /\ parts = {Month(e.at) : e \in plan.rows} \cup (Month(plan.now) .. Month(plan.now) + MonthsAhead)
    /\ stream = {[n |-> 0, ev |-> e, tries |-> 0] : e \in plan.stream}
    /\ letters = {} /\ dlq = {} /\ gone = {} /\ seq = 0
    /\ up = TRUE /\ job = Idle /\ upkept = Month(plan.now)
    /\ replay = [t \in Tabs |-> Closed]

StoreNext ==
  \/ \E e \in Events : Publishes(e) \/ OthersGiveUp(e)
  \/ DayPasses \/ buildApp \/ Crashes
  \/ \E x \in stream : Consumes(x)
  \/ \E x \in letters : handleDlqMessage(x)
  \/ JobStarts \/ runRetention \/ JobDies
  \/ \E t \in Tabs : \/ \E r \in dlq : OpenLetter(t, r)
                     \/ requestReplay(t) \/ replayDlqRecord(t) \/ LeaveLetter(t)

-----------------------------------------------------------------------------
(* Clocks agree, and a boot or a job comes in time: no plan has a publisher *)
(* whose clock is ahead, or a day pass once the partitions are used up.    *)
ClocksAgree ==
  \A plan \in Plans : /\ {"skew", "neglect"} \subseteq DOMAIN plan.left
                      /\ plan.left["skew"] = 0 /\ plan.left["neglect"] = 0
                      /\ \A e \in plan.rows \cup plan.stream : e.at <= plan.now

(* Only events older than every living partition rest in the default one:  *)
(* one of this month or a later month there would make the next boot and   *)
(* every retention job fail.  It rests on ClocksAgree, which the instances *)
(* checked assume.                                                         *)
WindowIsOpen == \A e \in rows : InDefault(e) => Month(e.at) < Month(now)

(* A letter marked replayed has been published again: its event is on its  *)
(* way, in the table, past retention, a dead letter once more, or given    *)
(* up by the consumer.  A crash or a second tab changes nothing in that.   *)
ReplayedIsStored ==
  \A r \in dlq : r.replayed =>
     \/ r.ev \in rows \cup gone
     \/ \E x \in stream \cup letters : x.ev = r.ev
     \/ \E x \in dlq : x.ev = r.ev /\ x.n > r.n
     \/ r.ev.at < now - EventsRetention

=============================================================================
