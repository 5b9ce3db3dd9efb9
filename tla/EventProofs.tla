----------------------------- MODULE EventProofs -----------------------------
(***************************************************************************)
(* Theorems about the event store and its list page, for any events, tabs, *)
(* sizes and plans: a dead letter marked replayed has been published, the  *)
(* partitions made ahead stay open, the page at rest is of one mind, and   *)
(* its walk past the count's cap misses nothing.                           *)
(***************************************************************************)
EXTENDS EventList, FiniteSetTheorems, WellFoundedInduction, TLAPS

-----------------------------------------------------------------------------
(* What the steps of the store write. *)

Messages == [n : Nat, ev : Events, tries : Nat]
Letters == [n : Nat, ev : Events, at : Int]
Records == [id : Nat, n : Nat, ev : Events, at : Int, replayed : BOOLEAN]
Replays == [pc : {"closed", "shown"} \cup AtServer, id : Nat, ev : Events \cup {None}, replayed : BOOLEAN]
Jobs == [pc : {"idle", "ensured", "drops", "letters"}, before : Int, dlqBefore : Int, names : SUBSET Int]

StoreTypeOK ==
    /\ now \in Int /\ parts \subseteq Int /\ rows \subseteq Events /\ gone \subseteq Events
    /\ stream \subseteq Messages /\ letters \subseteq Letters /\ dlq \subseteq Records
    /\ job \in Jobs /\ replay \in [Tabs -> Replays] /\ seq \in Nat
    /\ \A t \in Tabs : replay[t].pc # "closed" => replay[t].ev \in Events

LEMMA InMonth == ASSUME NEW t \in Int PROVE Month(t) \in Int /\ t < EndOf(Month(t))
<1>1. PerMonth \in Nat /\ PerMonth > 0
  BY StoreSizes
<1>2. t \div PerMonth \in Int
  BY <1>1
<1>3. t = PerMonth * (t \div PerMonth) + (t % PerMonth) /\ t % PerMonth \in 0 .. PerMonth - 1
  BY <1>1
<1>4. (t \div PerMonth + 1) * PerMonth = PerMonth * (t \div PerMonth) + PerMonth
  BY <1>1, <1>2
<1> QED
  BY <1>1, <1>2, <1>3, <1>4 DEF Month, EndOf

(* The messages, the letters and their rows, and the table of events.       *)
books == <<rows, stream, letters, dlq, gone, seq>>

(* The steps that write in the books or let a day pass.                     *)
Writes ==
    \/ \E e \in Events : Publishes(e) \/ OthersGiveUp(e)
    \/ DayPasses
    \/ \E x \in stream : Consumes(x)
    \/ \E x \in letters : handleDlqMessage(x)
    \/ JobDrops \/ JobDeletes \/ JobDeletesLetters
    \/ \E t \in Tabs : ReplayPublishes(t) \/ markDlqReplayed(t)

LEMMA PageLeaves == ASSUME PageNext PROVE UNCHANGED <<now, parts, books, job, replay>>
<1>1. ASSUME Moves \/ queryEvents \/ AnswerLands \/ RequestFails
      PROVE  UNCHANGED <<now, parts, books, job, replay>>
  BY <1>1 DEF Moves, queryEvents, Counts, Lists, AnswerLands, RequestFails, store, books
<1>2. PageNext => Moves \/ queryEvents \/ AnswerLands \/ RequestFails
  BY DEF PageNext, Edit, search, clearFilters, removeActiveFilter, onTableSort, goToPage,
     onSizeChange, onPageChange, onCursorMove, CursorNext, CursorPrev, CursorFirst, ngOnInit
<1> QED
  BY <1>1, <1>2

LEMMA BooksFrame == ASSUME [Next]_vars PROVE UNCHANGED <<now, books>> \/ Writes
<1>1. ASSUME buildApp \/ Crashes \/ JobStarts \/ JobReads \/ JobDies PROVE UNCHANGED <<now, books>>
  BY <1>1 DEF buildApp, Crashes, JobStarts, JobReads, JobDies, books
<1>2. ASSUME NEW t \in Tabs, \/ \E r \in dlq : OpenLetter(t, r)
                             \/ requestReplay(t) \/ ReplayReads(t) \/ LeaveLetter(t)
      PROVE  UNCHANGED <<now, books>>
  BY <1>2 DEF OpenLetter, requestReplay, ReplayReads, LeaveLetter, books
<1>3. CASE StoreNext
  BY <1>1, <1>2, <1>3 DEF StoreNext, runRetention, replayDlqRecord, Writes
<1>4. CASE PageNext
  BY <1>4, PageLeaves
<1>5. CASE UNCHANGED vars
  BY <1>5 DEF vars, store, books
<1> QED
  BY <1>3, <1>4, <1>5 DEF Next

(* The job, and the letters' pages in the tabs.                             *)
LEMMA JobFrame ==
    ASSUME [Next]_vars
    PROVE  UNCHANGED <<parts, job>> \/ buildApp \/ JobStarts \/ runRetention \/ JobDies
<1>1. ASSUME NEW e, Publishes(e) \/ OthersGiveUp(e) PROVE UNCHANGED <<parts, job>>
  BY <1>1 DEF Publishes, OthersGiveUp
<1>2. ASSUME NEW x, Consumes(x) \/ handleDlqMessage(x) PROVE UNCHANGED <<parts, job>>
  BY <1>2 DEF Consumes, Terminates, Stores, StoresAndDies, InsertFails, handleDlqMessage
<1>3. ASSUME DayPasses \/ Crashes PROVE UNCHANGED <<parts, job>>
  BY <1>3 DEF DayPasses, Crashes
<1>4. ASSUME NEW t, \/ \E r \in dlq : OpenLetter(t, r)
                    \/ requestReplay(t) \/ replayDlqRecord(t) \/ LeaveLetter(t)
      PROVE  UNCHANGED <<parts, job>>
  BY <1>4 DEF OpenLetter, requestReplay, replayDlqRecord, ReplayReads, ReplayPublishes,
     markDlqReplayed, LeaveLetter
<1>5. CASE StoreNext
  BY <1>1, <1>2, <1>3, <1>4, <1>5 DEF StoreNext
<1>6. CASE PageNext
  BY <1>6, PageLeaves
<1>7. CASE UNCHANGED vars
  BY <1>7 DEF vars, store
<1> QED
  BY <1>5, <1>6, <1>7 DEF Next

Tears == replay' = [t \in Tabs |-> Broken(replay[t])]
LEMMA ReplayFrame ==
    ASSUME [Next]_vars
    PROVE  \/ UNCHANGED replay
           \/ Tears
           \/ \E t \in Tabs : \/ \E r \in dlq : OpenLetter(t, r)
                              \/ requestReplay(t) \/ replayDlqRecord(t) \/ LeaveLetter(t)
<1>1. ASSUME NEW e, Publishes(e) \/ OthersGiveUp(e) PROVE UNCHANGED replay
  BY <1>1 DEF Publishes, OthersGiveUp
<1>2. ASSUME NEW x, Consumes(x) \/ handleDlqMessage(x) PROVE UNCHANGED replay \/ Tears
  BY <1>2 DEF Consumes, Terminates, Stores, StoresAndDies, InsertFails, handleDlqMessage, Dies, Tears
<1>3. ASSUME DayPasses \/ buildApp \/ Crashes \/ JobStarts \/ runRetention \/ JobDies
      PROVE  UNCHANGED replay \/ Tears
  BY <1>3 DEF DayPasses, buildApp, Crashes, Dies, Tears, JobStarts, runRetention, JobReads,
     JobDrops, JobDeletes, JobDeletesLetters, JobDies
<1>4. CASE StoreNext
  BY <1>1, <1>2, <1>3, <1>4 DEF StoreNext
<1>5. CASE PageNext
  BY <1>5, PageLeaves
<1>6. CASE UNCHANGED vars
  BY <1>6 DEF vars, store
<1> QED
  BY <1>4, <1>5, <1>6 DEF Next

-----------------------------------------------------------------------------
(* Types. *)

LEMMA InitTypes == Init => StoreTypeOK
<1> SUFFICES ASSUME Init PROVE StoreTypeOK
  OBVIOUS
<1>1. PICK plan \in Plans :
          /\ now = plan.now /\ rows = plan.rows
          /\ parts = {Month(e.at) : e \in plan.rows} \cup (Month(plan.now) .. Month(plan.now) + MonthsAhead)
          /\ stream = {[n |-> 0, ev |-> e, tries |-> 0] : e \in plan.stream}
          /\ letters = {} /\ dlq = {} /\ gone = {} /\ seq = 0
          /\ job = Idle /\ replay = [t \in Tabs |-> Closed]
  BY DEF Init, StoreInit
<1>2. plan.now \in Int /\ plan.rows \subseteq Events /\ plan.stream \subseteq Events
  BY PlansAreSound
<1>3. parts \subseteq Int
  BY <1>1, <1>2, InMonth, EventsAreNamed
<1>4. job \in Jobs /\ replay \in [Tabs -> Replays]
  BY <1>1 DEF Idle, Jobs, Closed, Replays
<1>5. stream \subseteq Messages
  BY <1>1, <1>2 DEF Messages
<1>6. \A t \in Tabs : replay[t].pc = "closed"
  BY <1>1 DEF Closed
<1> QED
  BY <1>1, <1>2, <1>3, <1>4, <1>5, <1>6 DEF StoreTypeOK

LEMMA BooksTypes ==
    ASSUME StoreTypeOK, Writes
    PROVE  /\ now' \in Int /\ rows' \subseteq Events /\ gone' \subseteq Events
           /\ stream' \subseteq Messages /\ letters' \subseteq Letters /\ dlq' \subseteq Records
           /\ seq' \in Nat
<1> DEFINE Typed == /\ now' \in Int /\ rows' \subseteq Events /\ gone' \subseteq Events
                    /\ stream' \subseteq Messages /\ letters' \subseteq Letters /\ dlq' \subseteq Records
                    /\ seq' \in Nat
<1> USE DEF StoreTypeOK
<1>1. ASSUME NEW e \in Events, Publishes(e) \/ OthersGiveUp(e) PROVE Typed
  BY <1>1 DEF Publishes, OthersGiveUp, Numbered, Sent, Letter, Messages, Letters
<1>2. CASE DayPasses
  BY <1>2 DEF DayPasses
<1>3. ASSUME NEW x \in stream, Consumes(x) PROVE Typed
  <2>1. x \in Messages /\ x.ev \in Events
    BY DEF Messages
  <2>2. Acked(x) \subseteq Messages /\ Again(x) \subseteq Messages
    BY <2>1 DEF Acked, Again, Messages
  <2>3. ingestEvent(x.ev) \subseteq Events /\ Letter(x.ev) \in Letters
    BY <2>1 DEF ingestEvent, Letter, Letters
  <2> HIDE DEF StoreTypeOK
  <2>4. CASE Terminates(x)
    BY <2>1, <2>2, <2>4 DEF Terminates, StoreTypeOK
  <2>5. CASE Stores(x)
    BY <2>2, <2>3, <2>5 DEF Stores, StoreTypeOK
  <2>6. CASE StoresAndDies(x)
    BY <2>2, <2>3, <2>6 DEF StoresAndDies, StoreTypeOK
  <2>7. CASE InsertFails(x)
    BY <2>1, <2>2, <2>3, <2>7 DEF InsertFails, Numbered, StoreTypeOK
  <2> QED
    BY <1>3, <2>4, <2>5, <2>6, <2>7 DEF Consumes
<1>4. ASSUME NEW x \in letters, handleDlqMessage(x) PROVE Typed
  <2> DEFINE row == [id |-> seq + 1, n |-> x.n, ev |-> x.ev, at |-> x.at, replayed |-> FALSE]
  <2>1. row \in Records /\ seq + 1 \in Nat
    BY DEF Letters, Records
  <2>3. UNCHANGED <<dlq, seq>> \/ (dlq' = dlq \cup {row} /\ seq' = seq + 1)
    BY <1>4 DEF handleDlqMessage, ingestDlqMessage, Numbered
  <2> HIDE DEF StoreTypeOK, row
  <2>2. dlq' \subseteq Records /\ seq' \in Nat
    BY <2>1, <2>3 DEF StoreTypeOK
  <2> USE DEF StoreTypeOK
  <2> QED
    BY <1>4, <2>2 DEF handleDlqMessage
<1>5. CASE JobDrops \/ JobDeletes \/ JobDeletesLetters
  BY <1>5 DEF JobDrops, JobDeletes, JobDeletesLetters
<1>6. ASSUME NEW t \in Tabs, ReplayPublishes(t) PROVE Typed
  <2>1. CASE Stage(t, "read", "shown") /\ UNCHANGED <<stream, seq>>
    BY <1>6, <2>1 DEF ReplayPublishes
  <2>2. CASE Stage(t, "read", "published") /\ stream' = stream \cup {Sent(Envelope(replay[t].ev))} /\ Numbered
    <3>1. replay[t].ev \in Events
      BY <2>2 DEF Stage
    <3> QED
      BY <1>6, <2>2, <3>1 DEF ReplayPublishes, Numbered, Sent, Envelope, Messages
  <2> QED
    BY <1>6, <2>1, <2>2 DEF ReplayPublishes
<1>7. ASSUME NEW t \in Tabs, markDlqReplayed(t) PROVE Typed
  <2>1. \A r \in Records : [r EXCEPT !.replayed = TRUE] \in Records
    BY DEF Records
  <2>2. Row(t) \subseteq Records
    BY DEF Row
  <2>3. dlq' \subseteq Records
    BY <1>7, <2>1, <2>2 DEF markDlqReplayed
  <2> QED
    BY <1>7, <2>3 DEF markDlqReplayed
<1> QED
  BY <1>1, <1>2, <1>3, <1>4, <1>5, <1>6, <1>7 DEF Writes

LEMMA JobTypes == ASSUME StoreTypeOK, [Next]_vars PROVE parts' \subseteq Int /\ job' \in Jobs
<1> DEFINE Typed == parts' \subseteq Int /\ job' \in Jobs
<1>1. \A m \in Int : m .. m + MonthsAhead \subseteq Int
  OBVIOUS
<1>2. Month(now) \in Int
  BY InMonth DEF StoreTypeOK
<1>3. events_ensure_partitions \subseteq Int
  BY <1>1, <1>2 DEF events_ensure_partitions, Window, StoreTypeOK
<1>4. Idle \in Jobs
  BY DEF Idle, Jobs
<1>5. CASE buildApp \/ JobStarts
  BY <1>3, <1>5 DEF buildApp, JobStarts, StoreTypeOK, Jobs
<1>6. CASE JobReads
  <2> DEFINE before == now - EventsRetention
             dlqBefore == now - DlqRetention
             names == expiredEventPartitions(before)
  <2>1. before \in Int /\ dlqBefore \in Int
    BY StoreSizes DEF StoreTypeOK
  <2>2. names \in SUBSET Int
    BY DEF expiredEventPartitions, StoreTypeOK
  <2>3. job' = [pc |-> "drops", before |-> before, dlqBefore |-> dlqBefore, names |-> names]
        /\ parts' = parts
    BY <1>6 DEF JobReads
  <2> HIDE DEF before, dlqBefore, names
  <2> QED
    BY <2>1, <2>2, <2>3 DEF Jobs, StoreTypeOK
<1>7. CASE JobDrops
  BY <1>7 DEF JobDrops, StoreTypeOK, Jobs
<1>8. CASE JobDeletes
  BY <1>8 DEF JobDeletes, StoreTypeOK, Jobs
<1>9. CASE JobDeletesLetters \/ JobDies
  BY <1>4, <1>9 DEF JobDeletesLetters, JobDies, StoreTypeOK
<1>10. CASE UNCHANGED <<parts, job>>
  BY <1>10 DEF StoreTypeOK
<1> QED
  BY JobFrame, <1>5, <1>6, <1>7, <1>8, <1>9, <1>10 DEF runRetention

(* What a step does to the page of a letter.                                *)
Reread(t) ==
    \/ replay'[t] = Closed
    \/ \E r \in dlq : replay'[t] = [pc |-> "shown", id |-> r.id, ev |-> r.ev, replayed |-> r.replayed]
    \/ /\ replay'[t].id = replay[t].id /\ replay'[t].ev = replay[t].ev
       /\ replay'[t].pc # "closed" => replay[t].pc # "closed"
       /\ replay'[t].pc = "published" => \/ replay[t].pc = "published"
                                         \/ ReplayPublishes(t) /\ replay[t].pc = "read"

LEMMA ReplayStep ==
    ASSUME StoreTypeOK, [Next]_vars
    PROVE  /\ replay' \in [Tabs -> Replays]
           /\ \A t \in Tabs : Reread(t)
<1> DEFINE Done == replay' \in [Tabs -> Replays] /\ \A t \in Tabs : Reread(t)
<1>1. replay \in [Tabs -> Replays]
  BY DEF StoreTypeOK
<1>2. CASE UNCHANGED replay
  BY <1>1, <1>2 DEF Reread
<1>3. CASE Tears
  <2>1. \A r \in Replays : /\ Broken(r) \in Replays /\ Broken(r).id = r.id /\ Broken(r).ev = r.ev
                           /\ Broken(r).pc # "closed" => r.pc # "closed"
                           /\ Broken(r).pc # "published"
    BY DEF Broken, Replays, AtServer
  <2> QED
    BY <1>1, <1>3, <2>1 DEF Tears, Reread
<1>4. ASSUME NEW t \in Tabs, NEW l \in Replays, replay' = [replay EXCEPT ![t] = l],
             Reread(t)
      PROVE  Done
  BY <1>1, <1>4 DEF Reread
<1>5. ASSUME NEW t \in Tabs, NEW from, NEW to \in {"shown"} \cup AtServer, Stage(t, from, to), from # "closed",
             to = "published" => ReplayPublishes(t) /\ from = "read"
      PROVE  Done
  <2> DEFINE l == [replay[t] EXCEPT !.pc = to]
  <2>1. /\ l \in Replays /\ l.id = replay[t].id /\ l.ev = replay[t].ev /\ l.pc = to
    BY <1>1 DEF Replays
  <2>2. replay' = [replay EXCEPT ![t] = l]
    BY <1>1, <1>5 DEF Stage
  <2> HIDE DEF l
  <2>3. Reread(t)
    BY <1>1, <1>5, <2>1, <2>2 DEF Reread, Stage
  <2> QED
    BY <1>4, <2>1, <2>2, <2>3
<1>6. ASSUME NEW t \in Tabs, NEW r \in dlq, OpenLetter(t, r) PROVE Done
  <2> DEFINE l == [pc |-> "shown", id |-> r.id, ev |-> r.ev, replayed |-> r.replayed]
  <2>1. l \in Replays
    BY DEF StoreTypeOK, Records, Replays
  <2>2. replay' = [replay EXCEPT ![t] = l]
    BY <1>6 DEF OpenLetter
  <2>3. Reread(t)
    BY <1>1, <2>2 DEF Reread
  <2> QED
    BY <1>4, <2>1, <2>2, <2>3
<1>7. ASSUME NEW t \in Tabs, requestReplay(t) \/ ReplayReads(t) \/ ReplayPublishes(t) PROVE Done
  BY <1>5, <1>7 DEF requestReplay, ReplayReads, ReplayPublishes, AtServer
<1>8. ASSUME NEW t \in Tabs, markDlqReplayed(t) PROVE Done
  <2>1. PICK heard \in BOOLEAN :
          replay' = [replay EXCEPT ![t] = [@ EXCEPT !.pc = "shown",
                        !.replayed = heard /\ {r \in Row(t) : ~r.replayed} # {}]]
    BY <1>8 DEF markDlqReplayed, May
  <2> DEFINE b == heard /\ {r \in Row(t) : ~r.replayed} # {}
             l == [replay[t] EXCEPT !.pc = "shown", !.replayed = b]
  <2>2. b \in BOOLEAN
    OBVIOUS
  <2>3. replay' = [replay EXCEPT ![t] = l]
    BY <1>1, <2>1
  <2> HIDE DEF b
  <2>4. /\ l \in Replays /\ l.id = replay[t].id /\ l.ev = replay[t].ev /\ l.pc = "shown"
    BY <1>1, <2>2 DEF Replays
  <2>5. replay[t].pc # "closed"
    BY <1>8 DEF markDlqReplayed, MarkFrom
  <2> HIDE DEF l
  <2>6. Reread(t)
    BY <1>1, <2>3, <2>4, <2>5 DEF Reread
  <2> QED
    BY <1>4, <2>3, <2>4, <2>6
<1>9. ASSUME NEW t \in Tabs, LeaveLetter(t) PROVE Done
  <2>1. replay' = [replay EXCEPT ![t] = Closed] /\ Closed \in Replays
    BY <1>9 DEF LeaveLetter, Closed, Replays
  <2>2. Reread(t)
    BY <1>1, <2>1 DEF Reread
  <2> QED
    BY <1>4, <2>1, <2>2
<1> QED
  BY ReplayFrame, <1>2, <1>3, <1>6, <1>7, <1>8, <1>9 DEF replayDlqRecord

LEMMA StoreTypes == ASSUME StoreTypeOK, [Next]_vars PROVE StoreTypeOK'
<1>1. /\ now' \in Int /\ rows' \subseteq Events /\ gone' \subseteq Events
      /\ stream' \subseteq Messages /\ letters' \subseteq Letters /\ dlq' \subseteq Records
      /\ seq' \in Nat
  BY BooksFrame, BooksTypes DEF StoreTypeOK, books
<1>2. ASSUME NEW t \in Tabs, replay'[t].pc # "closed" PROVE replay'[t].ev \in Events
  <2>1. Reread(t)
    BY ReplayStep
  <2> QED
    <3>1. \A r \in dlq : r.ev \in Events
      BY DEF StoreTypeOK, Records
    <3>2. replay[t].pc # "closed" => replay[t].ev \in Events
      BY DEF StoreTypeOK
    <3>3. CASE replay'[t] = Closed
      BY <1>2, <3>3 DEF Closed
    <3>4. ASSUME NEW r \in dlq,
                 replay'[t] = [pc |-> "shown", id |-> r.id, ev |-> r.ev, replayed |-> r.replayed]
          PROVE  replay'[t].ev \in Events
      BY <3>1, <3>4
    <3> QED
      BY <1>2, <2>1, <3>2, <3>3, <3>4 DEF Reread
<1> QED
  BY <1>1, <1>2, JobTypes, ReplayStep DEF StoreTypeOK

-----------------------------------------------------------------------------
(* What the retention job is about to drop is past retention. *)

Dropping ==
    job.pc = "drops" => /\ job.before <= now - EventsRetention
                        /\ \A p \in job.names : EndOf(p) <= job.before

LEMMA Later == ASSUME NEW a \in Int, NEW b \in Int, NEW c \in Int, a <= b PROVE a - c <= b - c
OBVIOUS

LEMMA NowGrows == ASSUME StoreTypeOK, [Next]_vars PROVE now' = now \/ now' = now + 1
<1>1. Writes => now' = now \/ now' = now + 1
  BY DEF Writes, Publishes, OthersGiveUp, DayPasses, Consumes, Terminates, Stores, StoresAndDies,
     InsertFails, handleDlqMessage, JobDrops, JobDeletes, JobDeletesLetters, ReplayPublishes,
     markDlqReplayed
<1> QED
  BY <1>1, BooksFrame

LEMMA NextDropping == ASSUME StoreTypeOK, Dropping, [Next]_vars PROVE Dropping'
<1>1. now \in Int /\ EventsRetention \in Int /\ job \in Jobs
  BY StoreSizes DEF StoreTypeOK
<1>2. now' >= now /\ now' \in Int
  BY <1>1, NowGrows
<1>3. CASE UNCHANGED job
  BY <1>1, <1>2, <1>3 DEF Dropping, Jobs
<1>4. CASE JobReads
  <2>1. /\ job'.before = now - EventsRetention
        /\ job'.names = expiredEventPartitions(now - EventsRetention)
    BY <1>4 DEF JobReads
  <2>2. \A p \in job'.names : EndOf(p) <= job'.before
    BY <2>1 DEF expiredEventPartitions
  <2>3. job'.before <= now' - EventsRetention
    <3>1. now - EventsRetention <= now' - EventsRetention
      BY <1>1, <1>2, Later
    <3>2. job'.before = now - EventsRetention
      BY <2>1
    <3> QED
      BY <3>1, <3>2
  <2> QED
    BY <2>2, <2>3 DEF Dropping
<1>5. CASE JobDrops
  <2>1. job'.before = job.before /\ job'.names \subseteq job.names /\ job.pc = "drops"
    BY <1>1, <1>5 DEF JobDrops, Jobs
  <2> QED
    BY <1>1, <1>2, <2>1 DEF Dropping, Jobs
<1>6. CASE buildApp \/ JobStarts \/ JobDeletes \/ JobDeletesLetters \/ JobDies
  <2>1. job'.pc # "drops" \/ UNCHANGED job
    BY <1>1, <1>6 DEF buildApp, JobStarts, JobDeletes, JobDeletesLetters, JobDies, Idle, Jobs
  <2> QED
    BY <1>3, <2>1 DEF Dropping
<1> QED
  BY JobFrame, <1>3, <1>4, <1>5, <1>6 DEF runRetention

(* An event the job drops is past retention.                                *)
LEMMA DroppedIsOld ==
    ASSUME StoreTypeOK, Dropping, [Next]_vars, NEW e \in rows, e \notin rows'
    PROVE  e.at < now - EventsRetention
<1>1. e \in Events /\ e.at \in Int /\ now \in Int /\ EventsRetention \in Int /\ job \in Jobs
  BY StoreSizes, EventsAreNamed DEF StoreTypeOK
<1>2. ASSUME NEW x, Consumes(x) PROVE e \in rows'
  BY <1>2 DEF Consumes, Terminates, Stores, StoresAndDies, InsertFails, ingestEvent
<1>3. JobDrops \/ JobDeletes
  BY <1>2, BooksFrame DEF Writes, books, Publishes, OthersGiveUp, DayPasses, handleDlqMessage,
     JobDeletesLetters, ReplayPublishes, markDlqReplayed
<1>4. CASE JobDrops
  <2>1. PICK p \in job.names : Month(e.at) = p
    BY <1>4 DEF JobDrops
  <2>2. e.at < EndOf(p) /\ EndOf(p) <= job.before /\ job.before <= now - EventsRetention
    BY <1>1, <1>4, <2>1, InMonth DEF JobDrops, Dropping
  <2>3. EndOf(p) \in Int /\ job.before \in Int
    BY <1>1, <2>1, InMonth, StoreSizes DEF EndOf, Jobs
  <2> QED
    BY <1>1, <2>2, <2>3
<1>5. CASE JobDeletes
  <2>1. e.at < job.before /\ job.before <= now - EventsRetention /\ job.before \in Int
    BY <1>1, <1>5 DEF JobDeletes, Dropping, Jobs
  <2> QED
    BY <1>1, <2>1
<1> QED
  BY <1>3, <1>4, <1>5

-----------------------------------------------------------------------------
(* The numbers. *)

SameRow(r, s) == s.id = r.id /\ s.n = r.n /\ s.ev = r.ev /\ s.at = r.at

(* Where the messages, letters and rows after a step come from.             *)
LEMMA SeqGrows == ASSUME StoreTypeOK, [Next]_vars PROVE seq' = seq \/ seq' = seq + 1
<1>1. Writes => seq' = seq \/ seq' = seq + 1
  BY DEF Writes, Publishes, OthersGiveUp, DayPasses, Consumes, Terminates, Stores, StoresAndDies,
     InsertFails, handleDlqMessage, ingestDlqMessage, JobDrops, JobDeletes, JobDeletesLetters,
     ReplayPublishes, markDlqReplayed, Numbered
<1> QED
  BY <1>1, BooksFrame DEF books

LEMMA FromStream ==
    ASSUME StoreTypeOK, [Next]_vars, NEW y \in stream'
    PROVE  (\E x \in stream : y.n = x.n /\ y.ev = x.ev) \/ (seq' = seq + 1 /\ y.n = seq + 1)
<1> DEFINE Known == (\E x \in stream : y.n = x.n /\ y.ev = x.ev) \/ (seq' = seq + 1 /\ y.n = seq + 1)
<1>1. ASSUME NEW e, Publishes(e) PROVE Known
  BY <1>1 DEF Publishes, Numbered, Sent
<1>2. ASSUME NEW x \in stream, Consumes(x) PROVE Known
  <2>1. x \in Messages
    BY DEF StoreTypeOK
  <2>2. /\ [x EXCEPT !.tries = @ + 1].n = x.n /\ [x EXCEPT !.tries = @ + 1].ev = x.ev
    BY <2>1 DEF Messages
  <2>3. y \in stream \/ y = [x EXCEPT !.tries = @ + 1]
    BY <1>2 DEF Consumes, Terminates, Stores, StoresAndDies, InsertFails, Acked, Again
  <2> QED
    BY <2>2, <2>3
<1>3. ASSUME NEW t, ReplayPublishes(t) PROVE Known
  BY <1>3 DEF ReplayPublishes, Numbered, Sent
<1>4. ASSUME UNCHANGED stream PROVE Known
  BY <1>4
<1> QED
  BY <1>1, <1>2, <1>3, <1>4, BooksFrame DEF Writes, books, OthersGiveUp, DayPasses, handleDlqMessage,
     JobDrops, JobDeletes, JobDeletesLetters, markDlqReplayed

NewLetter(y) == y.n = seq + 1 /\ y.at = now /\ seq' = seq + 1 /\ letters' = letters \cup {y} /\ UNCHANGED dlq

LEMMA FromLetters ==
    ASSUME StoreTypeOK, [Next]_vars, NEW y \in letters'
    PROVE  y \in letters \/ NewLetter(y)
<1>1. ASSUME NEW e, Publishes(e) \/ OthersGiveUp(e) PROVE y \in letters \/ NewLetter(y)
  BY <1>1 DEF Publishes, OthersGiveUp, Letter, Numbered, NewLetter
<1>2. ASSUME NEW x \in stream, Consumes(x) PROVE y \in letters \/ NewLetter(y)
  BY <1>2 DEF Consumes, Terminates, Stores, StoresAndDies, InsertFails, Letter, Numbered, NewLetter
<1>3. ASSUME NEW x \in letters, handleDlqMessage(x) PROVE y \in letters
  BY <1>3 DEF handleDlqMessage
<1> QED
  BY <1>1, <1>2, <1>3, BooksFrame DEF Writes, books, DayPasses, JobDrops, JobDeletes,
     JobDeletesLetters, ReplayPublishes, markDlqReplayed

NewRow(s) ==
    /\ s.id = seq + 1 /\ seq' = seq + 1 /\ dlq' = dlq \cup {s} /\ ~s.replayed /\ letters' \subseteq letters
    /\ \E x \in letters : s.n = x.n /\ s.ev = x.ev /\ s.at = x.at

Marks(t, r, s) ==
    /\ markDlqReplayed(t) /\ r.id = replay[t].id /\ replay[t].pc = "published" /\ SameRow(r, s)

LEMMA FromRows ==
    ASSUME StoreTypeOK, [Next]_vars, NEW s \in dlq'
    PROVE  s \in dlq \/ NewRow(s) \/ \E t \in Tabs, r \in dlq : Marks(t, r, s)
<1>1. ASSUME NEW e, Publishes(e) \/ OthersGiveUp(e) PROVE s \in dlq
  BY <1>1 DEF Publishes, OthersGiveUp
<1>2. ASSUME NEW x \in stream, Consumes(x) PROVE s \in dlq
  BY <1>2 DEF Consumes, Terminates, Stores, StoresAndDies, InsertFails
<1>3. ASSUME NEW x \in letters, handleDlqMessage(x) PROVE s \in dlq \/ NewRow(s)
  <2> DEFINE row == [id |-> seq + 1, n |-> x.n, ev |-> x.ev, at |-> x.at, replayed |-> FALSE]
  <2>1. UNCHANGED dlq \/ (dlq' = dlq \cup {row} /\ seq' = seq + 1)
    BY <1>3 DEF handleDlqMessage, ingestDlqMessage, Numbered
  <2>2. letters' \subseteq letters
    BY <1>3 DEF handleDlqMessage
  <2>3. row.id = seq + 1 /\ row.n = x.n /\ row.ev = x.ev /\ row.at = x.at /\ ~row.replayed
    OBVIOUS
  <2> HIDE DEF row
  <2> QED
    BY <2>1, <2>2, <2>3 DEF NewRow
<1>4. ASSUME NEW t \in Tabs, markDlqReplayed(t) PROVE s \in dlq \/ \E r \in dlq : Marks(t, r, s)
  <2>1. s \in dlq \/ \E r \in Row(t) : s = [r EXCEPT !.replayed = TRUE]
    BY <1>4 DEF markDlqReplayed
  <2>2. ASSUME NEW r \in Row(t), s = [r EXCEPT !.replayed = TRUE] PROVE Marks(t, r, s)
    <3>1. r \in Records /\ r.id = replay[t].id
      BY DEF Row, StoreTypeOK
    <3>2. SameRow(r, s)
      BY <2>2, <3>1 DEF SameRow, Records
    <3> QED
      BY <1>4, <3>1, <3>2 DEF Marks, markDlqReplayed, MarkFrom
  <2> QED
    BY <2>1, <2>2 DEF Row
<1> QED
  BY <1>1, <1>2, <1>3, <1>4, BooksFrame DEF Writes, books, DayPasses, JobDrops, JobDeletes,
     JobDeletesLetters, ReplayPublishes

(* Numbers are given once and in the order of time; a letter and its row    *)
(* say the same.                                                            *)
Bounded ==
    /\ \A x \in stream : x.n <= seq
    /\ \A x \in letters : x.n <= seq /\ x.at <= now
    /\ \A r \in dlq : r.id <= seq /\ r.n <= seq /\ r.at <= now
Single ==
    /\ \A x, y \in letters : x.n = y.n => x = y
    /\ \A x \in letters, r \in dlq : x.n = r.n => x.ev = r.ev /\ x.at = r.at
    /\ \A r, s \in dlq : r.id = s.id => SameRow(r, s)
Ordered == \A x, y \in letters \cup dlq : x.n > y.n => x.at >= y.at
Pages ==
    \A t \in Tabs :
        /\ replay[t].id <= seq
        /\ replay[t].pc # "closed" => \A r \in dlq : r.id = replay[t].id => r.ev = replay[t].ev

Ledger == StoreTypeOK /\ Dropping /\ Bounded /\ Single /\ Ordered /\ Pages

LEMMA Integral ==
    ASSUME StoreTypeOK
    PROVE  /\ now \in Int /\ seq \in Nat
           /\ \A x \in stream : x.n \in Nat /\ x.ev \in Events
           /\ \A x \in letters : x.n \in Nat /\ x.at \in Int /\ x.ev \in Events
           /\ \A r \in dlq : r.id \in Nat /\ r.n \in Nat /\ r.at \in Int /\ r.ev \in Events
           /\ \A t \in Tabs : replay[t].id \in Nat
<1>1. \A x \in stream : x.n \in Nat /\ x.ev \in Events
  BY DEF StoreTypeOK, Messages
<1>2. \A x \in letters : x.n \in Nat /\ x.at \in Int /\ x.ev \in Events
  BY DEF StoreTypeOK, Letters
<1>3. \A r \in dlq : r.id \in Nat /\ r.n \in Nat /\ r.at \in Int /\ r.ev \in Events
  BY DEF StoreTypeOK, Records
<1>4. \A t \in Tabs : replay[t].id \in Nat
  BY DEF StoreTypeOK, Replays
<1> QED
  BY <1>1, <1>2, <1>3, <1>4 DEF StoreTypeOK

(* A row after a step was there before it, but for its mark, or is new.     *)
LEMMA RowsBefore ==
    ASSUME StoreTypeOK, [Next]_vars, NEW s \in dlq', ~NewRow(s)
    PROVE  \E r \in dlq : SameRow(r, s)
BY FromRows DEF SameRow, Marks

LEMMA NextBounded == ASSUME Ledger, [Next]_vars PROVE Bounded'
<1> USE DEF Ledger, Bounded
<1>1. /\ seq \in Nat /\ (seq' = seq \/ seq' = seq + 1)
      /\ now \in Int /\ (now' = now \/ now' = now + 1)
  BY SeqGrows, NowGrows, Integral
<1>2. ASSUME NEW y \in stream' PROVE y.n <= seq'
  BY <1>1, <1>2, FromStream, Integral
<1>3. ASSUME NEW y \in letters' PROVE y.n <= seq' /\ y.at <= now'
  BY <1>1, <1>3, FromLetters, Integral DEF NewLetter
<1>4. ASSUME NEW s \in dlq' PROVE s.id <= seq' /\ s.n <= seq' /\ s.at <= now'
  <2>1. CASE NewRow(s)
    BY <1>1, <2>1, Integral DEF NewRow
  <2>2. CASE ~NewRow(s)
    BY <1>1, <2>2, RowsBefore, Integral DEF SameRow
  <2> QED
    BY <2>1, <2>2
<1> QED
  BY <1>2, <1>3, <1>4

LEMMA NextSingle == ASSUME Ledger, [Next]_vars PROVE Single'
<1> USE DEF Ledger
<1>1. ASSUME NEW x \in letters', NEW y \in letters', x.n = y.n PROVE x = y
  <2>1. CASE x \in letters /\ y \in letters
    BY <1>1, <2>1 DEF Single
  <2>2. \A z \in letters : z.n # seq + 1
    BY Integral DEF Bounded
  <2>3. ASSUME NEW z \in letters', NEW w \in letters', NewLetter(z) PROVE w \in letters \/ w = z
    BY <2>3 DEF NewLetter
  <2> QED
    BY <1>1, <2>1, <2>2, <2>3, FromLetters DEF NewLetter
<1>2. ASSUME NEW x \in letters', NEW s \in dlq', x.n = s.n PROVE x.ev = s.ev /\ x.at = s.at
  <2>1. CASE NewLetter(x)
    <3>1. s \in dlq
      BY <2>1 DEF NewLetter
    <3>2. s.n \in Nat /\ s.n <= seq /\ seq \in Nat
      BY <3>1, Integral DEF Bounded
    <3> QED
      BY <1>2, <2>1, <3>2 DEF NewLetter
  <2>2. CASE NewRow(s)
    <3>1. x \in letters
      BY <2>2 DEF NewRow
    <3>2. PICK y \in letters : s.n = y.n /\ s.ev = y.ev /\ s.at = y.at
      BY <2>2 DEF NewRow
    <3> QED
      BY <1>2, <3>1, <3>2 DEF Single
  <2>3. CASE ~NewLetter(x) /\ ~NewRow(s)
    BY <1>2, <2>3, FromLetters, RowsBefore DEF Single, SameRow
  <2> QED
    BY <2>1, <2>2, <2>3
<1>3. ASSUME NEW r \in dlq', NEW s \in dlq', r.id = s.id PROVE SameRow(r, s)
  <2>1. \A q \in dlq : q.id # seq + 1
    BY Integral DEF Bounded
  <2>2. CASE NewRow(r) \/ NewRow(s)
    BY <1>3, <2>1, <2>2 DEF NewRow, SameRow
  <2>3. CASE ~NewRow(r) /\ ~NewRow(s)
    <3>1. PICK p \in dlq : SameRow(p, r)
      BY <2>3, RowsBefore
    <3>2. PICK q \in dlq : SameRow(q, s)
      BY <2>3, RowsBefore
    <3>3. SameRow(p, q)
      BY ZenonT(60), <1>3, <3>1, <3>2 DEF Single, SameRow
    <3> QED
      BY <3>1, <3>2, <3>3 DEF SameRow
  <2> QED
    BY <2>2, <2>3
<1> QED
  BY <1>1, <1>2, <1>3 DEF Single

(* Of a letter or a row after a step: it says what one before it said, or   *)
(* it is a letter of now with a number of its own.                          *)
LEMMA SaidBefore ==
    ASSUME StoreTypeOK, [Next]_vars, NEW y \in letters' \cup dlq'
    PROVE  (\E x \in letters \cup dlq : y.n = x.n /\ y.at = x.at) \/ (y.n = seq + 1 /\ y.at = now)
<1>1. CASE y \in letters'
  BY <1>1, FromLetters DEF NewLetter
<1>2. CASE y \in dlq' /\ NewRow(y)
  BY <1>2 DEF NewRow
<1>3. CASE y \in dlq' /\ ~NewRow(y)
  BY <1>3, RowsBefore DEF SameRow
<1> QED
  BY <1>1, <1>2, <1>3

LEMMA NextOrdered == ASSUME Ledger, [Next]_vars PROVE Ordered'
<1> SUFFICES ASSUME NEW x \in letters' \cup dlq', NEW y \in letters' \cup dlq', x.n > y.n
             PROVE  x.at >= y.at
  BY DEF Ordered
<1>1. \A z \in letters \cup dlq : z.n \in Nat /\ z.at \in Int /\ z.n <= seq /\ z.at <= now
  BY Integral DEF Ledger, Bounded
<1>2. seq \in Nat /\ now \in Int
  BY Integral DEF Ledger
<1>3. /\ (\E z \in letters \cup dlq : x.n = z.n /\ x.at = z.at) \/ (x.n = seq + 1 /\ x.at = now)
      /\ (\E z \in letters \cup dlq : y.n = z.n /\ y.at = z.at) \/ (y.n = seq + 1 /\ y.at = now)
  BY SaidBefore DEF Ledger
<1>4. CASE y.n = seq + 1
  BY <1>1, <1>2, <1>3, <1>4
<1>5. CASE y.n # seq + 1
  <2>1. PICK v \in letters \cup dlq : y.n = v.n /\ y.at = v.at
    BY <1>3, <1>5
  <2>2. CASE x.n = seq + 1 /\ x.at = now
    BY <1>1, <1>2, <2>1, <2>2
  <2>3. ASSUME NEW u \in letters \cup dlq, x.n = u.n /\ x.at = u.at PROVE x.at >= y.at
    BY <2>1, <2>3 DEF Ledger, Ordered
  <2> QED
    BY <1>3, <2>2, <2>3
<1> QED
  BY <1>4, <1>5

LEMMA NextPages == ASSUME Ledger, [Next]_vars PROVE Pages'
<1> USE DEF Ledger
<1>1. seq \in Nat /\ (seq' = seq \/ seq' = seq + 1)
  BY SeqGrows, Integral
<1> SUFFICES ASSUME NEW t \in Tabs
             PROVE  /\ replay'[t].id <= seq'
                    /\ replay'[t].pc # "closed" =>
                          \A s \in dlq' : s.id = replay'[t].id => s.ev = replay'[t].ev
  BY DEF Pages
<1>2. Reread(t)
  BY ReplayStep
<1>3. ASSUME NEW i, NEW e, i \in Nat, i <= seq, \A r \in dlq : r.id = i => r.ev = e
      PROVE  \A s \in dlq' : s.id = i => s.ev = e
  <2> SUFFICES ASSUME NEW s \in dlq', s.id = i PROVE s.ev = e
    OBVIOUS
  <2>1. ~NewRow(s)
    BY <1>1, <1>3 DEF NewRow
  <2> QED
    BY <1>3, <2>1, RowsBefore DEF SameRow
<1>4. CASE replay'[t] = Closed
  BY <1>1, <1>4 DEF Closed
<1>5. ASSUME NEW r \in dlq, replay'[t].id = r.id, replay'[t].ev = r.ev
      PROVE  /\ replay'[t].id <= seq'
             /\ \A s \in dlq' : s.id = replay'[t].id => s.ev = replay'[t].ev
  <2>1. r.id \in Nat /\ r.id <= seq
    BY Integral DEF Bounded
  <2>2. \A q \in dlq : q.id = r.id => q.ev = r.ev
    BY DEF Single, SameRow
  <2> QED
    BY <1>1, <1>3, <1>5, <2>1, <2>2
<1>6. ASSUME replay'[t].id = replay[t].id, replay'[t].ev = replay[t].ev,
             replay'[t].pc # "closed" => replay[t].pc # "closed"
      PROVE  /\ replay'[t].id <= seq'
             /\ replay'[t].pc # "closed" =>
                   \A s \in dlq' : s.id = replay'[t].id => s.ev = replay'[t].ev
  <2>1. replay[t].id \in Nat /\ replay[t].id <= seq
    BY Integral DEF Pages
  <2>2. replay[t].pc # "closed" => \A q \in dlq : q.id = replay[t].id => q.ev = replay[t].ev
    BY DEF Pages
  <2> QED
    BY <1>1, <1>3, <1>6, <2>1, <2>2
<1>7. ASSUME NEW r \in dlq,
             replay'[t] = [pc |-> "shown", id |-> r.id, ev |-> r.ev, replayed |-> r.replayed]
      PROVE  replay'[t].id = r.id /\ replay'[t].ev = r.ev
  BY <1>7
<1> QED
  BY <1>2, <1>4, <1>5, <1>6, <1>7 DEF Reread

-----------------------------------------------------------------------------
(* What was replayed is stored. *)

(* Where the event of a row is, if it has been published again.             *)
Accounted(r) ==
    \/ r.ev \in rows \cup gone
    \/ \E x \in stream \cup letters \cup dlq : x.ev = r.ev /\ x.n > r.n
    \/ r.ev.at < now - EventsRetention

(* A row that is marked, or about to be by a replay that has published.     *)
Replayed ==
    \A r \in dlq :
        r.replayed \/ (\E t \in Tabs : replay[t].pc = "published" /\ replay[t].id = r.id)
        => Accounted(r)

(* A message goes on, is stored or given up, or becomes a later letter.     *)
LEMMA StreamGoesOn ==
    ASSUME Ledger, [Next]_vars, NEW x \in stream
    PROVE  \/ x.ev \in rows' \cup gone'
           \/ \E y \in stream' \cup letters' : y.ev = x.ev /\ y.n >= x.n
<1> DEFINE Goes == \/ x.ev \in rows' \cup gone'
                   \/ \E y \in stream' \cup letters' : y.ev = x.ev /\ y.n >= x.n
<1>1. /\ x \in Messages /\ x.ev \in Events /\ x.n \in Nat /\ x.n <= seq /\ seq \in Nat
      /\ rows \subseteq Events
  BY Integral DEF Ledger, Bounded, StoreTypeOK
<1>2. x \in stream' => Goes
  BY <1>1
<1>3. ASSUME NEW z \in stream, Consumes(z) PROVE Goes
  <2>1. CASE z # x
    BY <1>2, <1>3, <2>1 DEF Consumes, Terminates, Stores, StoresAndDies, InsertFails, Acked, Again
  <2>2. CASE z = x
    <3>1. x.ev \in ingestEvent(x.ev)
      BY <1>1, EventsAreNamed DEF ingestEvent
    <3>2. Terminates(x) \/ Stores(x) \/ StoresAndDies(x) => Goes
      BY <3>1 DEF Terminates, Stores, StoresAndDies
    <3>3. CASE InsertFails(x)
      <4>1. CASE LastTry(x)
        <5>1. /\ Letter(x.ev).ev = x.ev /\ Letter(x.ev).n >= x.n
          BY <1>1 DEF Letter
        <5>2. Letter(x.ev) \in letters' \/ x.ev \in gone'
          BY <3>3, <4>1 DEF InsertFails
        <5> QED
          BY <5>1, <5>2
      <4>2. CASE ~LastTry(x)
        <5> DEFINE y == [x EXCEPT !.tries = @ + 1]
        <5>1. y.ev = x.ev /\ y.n = x.n
          BY <1>1 DEF Messages
        <5>2. y \in stream'
          BY <3>3, <4>2 DEF InsertFails, Again
        <5> HIDE DEF y
        <5> QED
          BY <1>1, <5>1, <5>2
      <4> QED
        BY <4>1, <4>2
    <3> QED
      BY <1>3, <2>2, <3>2, <3>3 DEF Consumes
  <2> QED
    BY <2>1, <2>2
<1>4. (\E z \in stream : Consumes(z)) \/ x \in stream'
  BY BooksFrame DEF Writes, books, Publishes, OthersGiveUp, DayPasses, handleDlqMessage, JobDrops,
     JobDeletes, JobDeletesLetters, ReplayPublishes, markDlqReplayed
<1> QED
  BY <1>2, <1>3, <1>4

(* A letter stays, or its row is there.                                     *)
LEMMA LetterGoesOn ==
    ASSUME Ledger, [Next]_vars, NEW x \in letters
    PROVE  \E y \in letters' \cup dlq' : y.ev = x.ev /\ y.n = x.n
<1>1. ASSUME NEW z \in letters, handleDlqMessage(z) PROVE x \in letters' \/ x = z
  BY <1>1 DEF handleDlqMessage
<1>2. ASSUME handleDlqMessage(x) PROVE \E y \in dlq' : y.ev = x.ev /\ y.n = x.n
  <2> DEFINE row == [id |-> seq + 1, n |-> x.n, ev |-> x.ev, at |-> x.at, replayed |-> FALSE]
  <2>1. CASE \E r \in dlq : r.n = x.n
    <3>1. dlq' = dlq
      BY <1>2, <2>1 DEF handleDlqMessage, ingestDlqMessage
    <3>2. PICK r \in dlq : r.n = x.n
      BY <2>1
    <3>3. r.ev = x.ev
      BY <3>2 DEF Ledger, Single
    <3> QED
      BY <3>1, <3>2, <3>3
  <2>2. CASE ~\E r \in dlq : r.n = x.n
    <3>1. row \in dlq'
      BY <1>2, <2>2 DEF handleDlqMessage, ingestDlqMessage
    <3>2. row.ev = x.ev /\ row.n = x.n
      OBVIOUS
    <3> HIDE DEF row
    <3> QED
      BY <3>1, <3>2
  <2> QED
    BY <2>1, <2>2
<1>3. ASSUME NEW z, Publishes(z) \/ OthersGiveUp(z) \/ Consumes(z) PROVE x \in letters'
  BY <1>3 DEF Publishes, OthersGiveUp, Consumes, Terminates, Stores, StoresAndDies, InsertFails
<1>4. (\E z \in letters : handleDlqMessage(z)) \/ x \in letters'
  BY <1>3, BooksFrame DEF Writes, books, DayPasses, JobDrops, JobDeletes, JobDeletesLetters,
     ReplayPublishes, markDlqReplayed
<1> QED
  BY <1>1, <1>2, <1>4

(* A row stays, but for its mark, or is deleted with every older one.       *)
LEMMA RowGoesOn ==
    ASSUME Ledger, [Next]_vars, NEW x \in dlq
    PROVE  \/ \E y \in dlq' : SameRow(x, y)
           \/ \A s \in dlq' : s \in dlq /\ s.at > x.at
<1>1. x \in dlq' => \E y \in dlq' : SameRow(x, y)
  BY DEF SameRow
<1>2. ASSUME NEW t \in Tabs, markDlqReplayed(t) PROVE \E y \in dlq' : SameRow(x, y)
  <2> DEFINE free == {r \in Row(t) : ~r.replayed}
  <2>1. dlq' = (dlq \ free) \cup {[r EXCEPT !.replayed = TRUE] : r \in free}
    BY <1>2 DEF markDlqReplayed
  <2>2. SameRow(x, [x EXCEPT !.replayed = TRUE])
    <3>1. x \in Records
      BY DEF Ledger, StoreTypeOK
    <3> QED
      BY <3>1 DEF SameRow, Records
  <2> HIDE DEF free
  <2> QED
    BY <1>1, <2>1, <2>2
<1>3. ASSUME JobDeletesLetters, x \notin dlq' PROVE \A s \in dlq' : s \in dlq /\ s.at > x.at
  <2>1. dlq' = {r \in dlq : r.at >= job.dlqBefore}
    BY <1>3 DEF JobDeletesLetters
  <2>2. job.dlqBefore \in Int /\ \A s \in dlq : s.at \in Int
    BY Integral DEF Ledger, StoreTypeOK, Jobs
  <2> QED
    BY <1>3, <2>1, <2>2
<1>4. ASSUME NEW z, Publishes(z) \/ OthersGiveUp(z) \/ Consumes(z) \/ handleDlqMessage(z) PROVE x \in dlq'
  BY <1>4 DEF Publishes, OthersGiveUp, Consumes, Terminates, Stores, StoresAndDies, InsertFails,
     handleDlqMessage, ingestDlqMessage
<1>5. JobDeletesLetters \/ (\E t \in Tabs : markDlqReplayed(t)) \/ x \in dlq'
  BY <1>4, BooksFrame DEF Writes, books, DayPasses, JobDrops, JobDeletes, ReplayPublishes
<1> QED
  BY <1>1, <1>2, <1>3, <1>5

LEMMA GoneStays == ASSUME [Next]_vars PROVE gone \subseteq gone'
<1>1. ASSUME NEW z, Publishes(z) \/ OthersGiveUp(z) \/ Consumes(z) \/ handleDlqMessage(z)
      PROVE  gone \subseteq gone'
  BY <1>1 DEF Publishes, OthersGiveUp, Consumes, Terminates, Stores, StoresAndDies, InsertFails,
     handleDlqMessage
<1> QED
  BY <1>1, BooksFrame DEF Writes, books, DayPasses, JobDrops, JobDeletes, JobDeletesLetters,
     ReplayPublishes, markDlqReplayed

LEMMA AccountedStays ==
    ASSUME Ledger, [Next]_vars, NEW r \in dlq, Accounted(r), NEW s \in dlq', SameRow(r, s)
    PROVE  Accounted(s)'
<1>1. s.ev = r.ev /\ s.n = r.n /\ s.at = r.at
  BY DEF SameRow
<1>2. /\ now \in Int /\ now' \in Int /\ now <= now' /\ EventsRetention \in Int
      /\ r.ev \in Events /\ r.ev.at \in Int /\ r.n \in Nat /\ r.at \in Int
  BY NowGrows, Integral, StoreSizes, EventsAreNamed DEF Ledger
<1>3. CASE r.ev.at < now - EventsRetention
  <2>1. now - EventsRetention <= now' - EventsRetention
    BY <1>2, Later
  <2>2. r.ev.at < now' - EventsRetention
    BY <1>2, <1>3, <2>1
  <2> QED
    BY <1>1, <2>2 DEF Accounted
<1>4. CASE r.ev \in gone
  BY <1>1, <1>4, GoneStays DEF Accounted
<1>5. CASE r.ev \in rows
  <2>1. CASE r.ev \in rows'
    BY <1>1, <2>1 DEF Accounted
  <2>2. CASE r.ev \notin rows'
    <3>1. r.ev.at < now - EventsRetention
      BY <1>5, <2>2, DroppedIsOld DEF Ledger
    <3> QED
      BY <1>3, <3>1
  <2> QED
    BY <2>1, <2>2
<1>6. ASSUME NEW x \in stream, x.ev = r.ev, x.n > r.n PROVE Accounted(s)'
  <2>1. CASE x.ev \in rows' \cup gone'
    BY <1>1, <1>6, <2>1 DEF Accounted
  <2>2. ASSUME NEW y \in stream' \cup letters', y.ev = x.ev, y.n >= x.n PROVE Accounted(s)'
    <3>1. x.n \in Nat
      BY Integral DEF Ledger
    <3>2. y.n \in Nat
      BY StoreTypes DEF Ledger, StoreTypeOK, Messages, Letters
    <3>3. y.ev = s.ev /\ y.n > s.n
      BY <1>1, <1>2, <1>6, <2>2, <3>1, <3>2
    <3> QED
      BY <2>2, <3>3 DEF Accounted
  <2> QED
    BY <2>1, <2>2, StreamGoesOn
<1>7. ASSUME NEW x \in letters, x.ev = r.ev, x.n > r.n PROVE Accounted(s)'
  <2>1. PICK y \in letters' \cup dlq' : y.ev = x.ev /\ y.n = x.n
    BY LetterGoesOn
  <2> QED
    BY <1>1, <1>7, <2>1 DEF Accounted
<1>8. ASSUME NEW x \in dlq, x.ev = r.ev, x.n > r.n PROVE Accounted(s)'
  <2>1. ASSUME NEW y \in dlq', SameRow(x, y) PROVE Accounted(s)'
    <3>1. y.ev = s.ev /\ y.n > s.n
      BY <1>1, <1>8, <2>1 DEF SameRow
    <3> QED
      BY <2>1, <3>1 DEF Accounted
  <2>2. ASSUME \A q \in dlq' : q \in dlq /\ q.at > x.at PROVE FALSE
    <3>1. r.at > x.at
      BY <1>1, <2>2
    <3>2. x.at >= r.at /\ x.at \in Int
      BY <1>8, Integral DEF Ledger, Ordered
    <3> QED
      BY <1>2, <3>1, <3>2
  <2> QED
    BY <2>1, <2>2, RowGoesOn
<1> QED
  BY <1>3, <1>4, <1>5, <1>6, <1>7, <1>8 DEF Accounted

LEMMA NextReplayed == ASSUME Ledger, Replayed, [Next]_vars PROVE Replayed'
<1> SUFFICES ASSUME NEW s \in dlq',
                    s.replayed \/ \E t \in Tabs : replay'[t].pc = "published" /\ replay'[t].id = s.id
             PROVE  Accounted(s)'
  BY DEF Replayed
<1>1. ASSUME NEW r \in dlq, SameRow(r, s),
             r.replayed \/ \E t \in Tabs : replay[t].pc = "published" /\ replay[t].id = r.id
      PROVE  Accounted(s)'
  BY <1>1, AccountedStays DEF Replayed
<1>2. SameRow(s, s)
  BY DEF SameRow
<1>3. ASSUME NEW t \in Tabs, replay'[t].pc = "published", replay'[t].id = s.id
      PROVE  Accounted(s)'
  <2>1. /\ replay'[t].id = replay[t].id
        /\ replay[t].pc = "published" \/ (ReplayPublishes(t) /\ replay[t].pc = "read")
    <3>1. Reread(t)
      BY ReplayStep DEF Ledger
    <3>2. replay'[t] # Closed
      BY <1>3 DEF Closed
    <3>3. ASSUME NEW r \in dlq,
                 replay'[t] = [pc |-> "shown", id |-> r.id, ev |-> r.ev, replayed |-> r.replayed]
          PROVE  FALSE
      BY <1>3, <3>3
    <3> QED
      BY <1>3, <3>1, <3>2, <3>3 DEF Reread
  <2>2. seq \in Nat /\ replay[t].id \in Nat /\ replay[t].id <= seq
    BY Integral DEF Ledger, Pages
  <2>3. ~NewRow(s)
    BY <1>3, <2>1, <2>2 DEF NewRow
  <2>4. PICK r \in dlq : SameRow(r, s)
    BY <2>3, RowsBefore DEF Ledger
  <2>5. r.id = replay[t].id
    BY <1>3, <2>1, <2>4 DEF SameRow
  <2>6. CASE replay[t].pc = "published"
    BY <1>1, <2>4, <2>5, <2>6
  <2>7. CASE ReplayPublishes(t) /\ replay[t].pc = "read"
    <3>1. replay[t].ev = r.ev
      BY <2>5, <2>7 DEF Ledger, Pages
    <3>2. r.n \in Nat /\ r.n <= seq
      BY Integral DEF Ledger, Bounded
    <3>3. replay'[t].pc # "shown"
      BY <1>3
    <3>4. Sent(replay[t].ev) \in stream'
      BY <2>7, <3>3 DEF ReplayPublishes, Stage, Envelope, Ledger, StoreTypeOK, Replays
    <3>5. Sent(replay[t].ev).ev = s.ev /\ Sent(replay[t].ev).n > s.n
      BY <2>2, <2>4, <3>1, <3>2 DEF Sent, SameRow
    <3> QED
      BY <3>4, <3>5 DEF Accounted
  <2> QED
    BY <2>1, <2>6, <2>7
<1>4. CASE s.replayed
  <2>1. CASE s \in dlq
    BY <1>1, <1>2, <1>4, <2>1
  <2>2. ~NewRow(s)
    BY <1>4 DEF NewRow
  <2>3. ASSUME NEW t \in Tabs, NEW r \in dlq, Marks(t, r, s) PROVE Accounted(s)'
    BY <1>1, <2>3 DEF Marks
  <2> QED
    BY <2>1, <2>2, <2>3, FromRows DEF Ledger
<1> QED
  BY <1>3, <1>4

LEMMA StoreInvariance == Spec => [](Ledger /\ Replayed)
<1>1. Init => Ledger /\ Replayed
  <2> SUFFICES ASSUME Init PROVE Ledger /\ Replayed
    OBVIOUS
  <2>1. PICK plan \in Plans :
          /\ stream = {[n |-> 0, ev |-> e, tries |-> 0] : e \in plan.stream}
          /\ letters = {} /\ dlq = {} /\ seq = 0
          /\ job = Idle /\ replay = [t \in Tabs |-> Closed]
    BY DEF Init, StoreInit
  <2>2. StoreTypeOK
    BY InitTypes
  <2>3. Dropping
    BY <2>1 DEF Dropping, Idle
  <2>4. Bounded /\ Single /\ Ordered /\ Replayed
    BY <2>1 DEF Bounded, Single, Ordered, Replayed
  <2>5. Pages
    BY <2>1 DEF Pages, Closed
  <2> QED
    BY <2>2, <2>3, <2>4, <2>5 DEF Ledger
<1>2. Ledger /\ Replayed /\ [Next]_vars => (Ledger /\ Replayed)'
  BY StoreTypes, NextDropping, NextBounded, NextSingle, NextOrdered, NextPages, NextReplayed
     DEF Ledger
<1> QED
  BY <1>1, <1>2, PTL DEF Spec

(* replayDlqRecord and markDlqReplayed: a dead letter is marked as replayed *)
(* only once its event was published again, and from then on the event is   *)
(* on its way, stored, past retention, a later dead letter or given up,     *)
(* whatever crashes, fails, is redelivered, or is replayed from two tabs.   *)
THEOREM ReplaysAreStored == Spec => []ReplayedIsStored
<1>1. Ledger /\ Replayed => ReplayedIsStored
  BY DEF Replayed, Accounted, ReplayedIsStored
<1> QED
  BY <1>1, StoreInvariance, PTL

-----------------------------------------------------------------------------
(* The partitions made ahead.  With clocks that agree it stays so, every    *)
(* event the store knows of is of today or before, and the months from this *)
(* one to the last made ahead have a partition each.                        *)

Punctual == {"skew", "neglect"} \subseteq DOMAIN left /\ left["skew"] = 0 /\ left["neglect"] = 0
Told ==
    /\ \A e \in rows : e.at <= now
    /\ \A x \in stream \cup letters \cup dlq : x.ev.at <= now
    /\ \A t \in Tabs : replay[t].pc # "closed" => replay[t].ev.at <= now
Kept ==
    /\ upkept \in Int /\ Month(now) <= upkept + MonthsAhead
    /\ \A m \in Int : Month(now) <= m /\ m <= upkept + MonthsAhead => m \in parts

LEMMA LeftFrame ==
    ASSUME [Next]_vars
    PROVE  \/ UNCHANGED left
           \/ \E k \in {"publish", "day", "crash", "fault", "others", "job", "replay", "move"} : left' = Drift(k, 1)
           \/ \E e \in Events : Publishes(e)
<1> DEFINE Spends == \E k \in {"publish", "day", "crash", "fault", "others", "job", "replay", "move"} : left' = Drift(k, 1)
<1>1. ASSUME NEW e, OthersGiveUp(e) PROVE Spends
  BY <1>1 DEF OthersGiveUp
<1>2. ASSUME NEW x, Consumes(x) \/ handleDlqMessage(x) PROVE UNCHANGED left \/ Spends
  BY <1>2 DEF Consumes, Terminates, Stores, StoresAndDies, InsertFails, handleDlqMessage, Dies
<1>3. ASSUME DayPasses \/ buildApp \/ Crashes \/ JobStarts \/ runRetention \/ JobDies PROVE UNCHANGED left \/ Spends
  BY <1>3 DEF DayPasses, buildApp, Crashes, Dies, JobStarts, runRetention, JobReads, JobDrops,
     JobDeletes, JobDeletesLetters, JobDies
<1>4. ASSUME NEW t, \/ \E r \in dlq : OpenLetter(t, r)
                    \/ requestReplay(t) \/ replayDlqRecord(t) \/ LeaveLetter(t)
      PROVE  UNCHANGED left \/ Spends
  BY <1>4 DEF OpenLetter, requestReplay, replayDlqRecord, ReplayReads, ReplayPublishes,
     markDlqReplayed, LeaveLetter
<1>5. CASE StoreNext
  BY <1>1, <1>2, <1>3, <1>4, <1>5 DEF StoreNext
<1>6. ASSUME Moves \/ queryEvents \/ AnswerLands \/ RequestFails PROVE UNCHANGED left \/ Spends
  BY <1>6 DEF Moves, queryEvents, Counts, Lists, AnswerLands, RequestFails, store
<1>7. PageNext => Moves \/ queryEvents \/ AnswerLands \/ RequestFails
  BY DEF PageNext, Edit, search, clearFilters, removeActiveFilter, onTableSort, goToPage,
     onSizeChange, onPageChange, onCursorMove, CursorNext, CursorPrev, CursorFirst, ngOnInit
<1>8. CASE UNCHANGED vars
  BY <1>8 DEF vars, store
<1> QED
  BY <1>5, <1>6, <1>7, <1>8 DEF Next

LEMMA NextPunctual == ASSUME StoreTypeOK, Punctual, [Next]_vars PROVE Punctual'
<1>1. ASSUME NEW k \in {"publish", "day", "crash", "fault", "others", "job", "replay", "move"}, left' = Drift(k, 1)
      PROVE  Punctual'
  BY <1>1 DEF Punctual, Drift
<1>2. ASSUME NEW e \in Events, Publishes(e) PROVE Punctual'
  <2>1. e.at = now /\ now \in Int
    BY <1>2 DEF Publishes, May, Punctual, StoreTypeOK
  <2>2. ~(e.at > now)
    BY <2>1
  <2>3. left' = [Drift("publish", 1) EXCEPT !["skew"] = IF e.at > now THEN @ - 1 ELSE @]
    BY <1>2 DEF Publishes
  <2>4. DOMAIN Drift("publish", 1) = DOMAIN left
    BY DEF Drift
  <2>5. Drift("publish", 1)["skew"] = 0 /\ Drift("publish", 1)["neglect"] = 0
    BY DEF Drift, Punctual
  <2> HIDE DEF Drift
  <2> QED
    BY <2>2, <2>3, <2>4, <2>5 DEF Punctual
<1> QED
  BY <1>1, <1>2, LeftFrame DEF Punctual

LEMMA NextTold == ASSUME Ledger, Punctual, Told, [Next]_vars PROVE Told'
<1> USE DEF Ledger
<1>1. now \in Int /\ (now' = now \/ now' = now + 1) /\ \A e \in Events : e.at \in Int
  BY NowGrows, EventsAreNamed DEF StoreTypeOK
<1>2. \A e \in Events : e.at <= now => e.at <= now'
  BY <1>1
<1>3. ASSUME NEW e \in Events, Publishes(e) PROVE e.at <= now'
  BY <1>1, <1>2, <1>3 DEF Publishes, May, Punctual
<1>4. ASSUME NEW e \in rows' PROVE e.at <= now'
  <2>1. ASSUME NEW x \in stream, Consumes(x), e \notin rows PROVE e = x.ev
    BY <2>1, <1>4 DEF Consumes, Terminates, Stores, StoresAndDies, InsertFails, ingestEvent
  <2>2. e \in rows \/ \E x \in stream : e = x.ev
    BY <1>4, <2>1, BooksFrame DEF Writes, books, Publishes, OthersGiveUp, DayPasses, handleDlqMessage,
       JobDrops, JobDeletes, JobDeletesLetters, ReplayPublishes, markDlqReplayed
  <2> QED
    BY <1>2, <2>2, Integral DEF Told, StoreTypeOK
<1>5. ASSUME NEW y \in stream' PROVE y.ev.at <= now'
  <2>1. ASSUME NEW e \in Events, Publishes(e), y \notin stream PROVE y.ev = e
    BY <1>5, <2>1 DEF Publishes, Sent
  <2>2. ASSUME NEW x \in stream, Consumes(x), y \notin stream PROVE y.ev = x.ev
    <3>1. x \in Messages
      BY DEF StoreTypeOK
    <3>2. y = [x EXCEPT !.tries = @ + 1]
      BY <1>5, <2>2 DEF Consumes, Terminates, Stores, StoresAndDies, InsertFails, Acked, Again
    <3> QED
      BY <3>1, <3>2 DEF Messages
  <2>3. ASSUME NEW t \in Tabs, ReplayPublishes(t), y \notin stream
        PROVE  y.ev = replay[t].ev /\ replay[t].pc # "closed"
    BY <1>5, <2>3 DEF ReplayPublishes, Sent, Stage, Envelope
  <2>4. \/ y \in stream \/ \E x \in stream : y.ev = x.ev
        \/ \E e \in Events : Publishes(e) /\ y.ev = e
        \/ \E t \in Tabs : y.ev = replay[t].ev /\ replay[t].pc # "closed"
    BY <1>5, <2>1, <2>2, <2>3, BooksFrame DEF Writes, books, OthersGiveUp, DayPasses, handleDlqMessage,
       JobDrops, JobDeletes, JobDeletesLetters, markDlqReplayed
  <2> QED
    BY <1>2, <1>3, <2>4, Integral DEF Told, StoreTypeOK
<1>6. ASSUME NEW y \in letters' PROVE y.ev.at <= now'
  <2>1. ASSUME NEW e \in Events, OthersGiveUp(e), y \notin letters PROVE y.ev = e /\ e \in rows
    BY <1>6, <2>1 DEF OthersGiveUp, Letter
  <2>2. ASSUME NEW x \in stream, Consumes(x), y \notin letters PROVE y.ev = x.ev
    BY <1>6, <2>2 DEF Consumes, Terminates, Stores, StoresAndDies, InsertFails, Letter
  <2>3. \/ y \in letters \/ y.ev \in rows \/ \E x \in stream : y.ev = x.ev
    BY <1>6, <2>1, <2>2, BooksFrame DEF Writes, books, Publishes, DayPasses, handleDlqMessage,
       JobDrops, JobDeletes, JobDeletesLetters, ReplayPublishes, markDlqReplayed
  <2> QED
    BY <1>2, <2>3, Integral DEF Told, StoreTypeOK
<1>7. ASSUME NEW s \in dlq' PROVE s.ev.at <= now'
  <2>1. s \in dlq \/ (\E x \in letters : s.ev = x.ev) \/ \E r \in dlq : s.ev = r.ev
    BY <1>7, FromRows DEF NewRow, Marks, SameRow
  <2> QED
    BY <1>2, <2>1, Integral DEF Told
<1>8. ASSUME NEW t \in Tabs, replay'[t].pc # "closed" PROVE replay'[t].ev.at <= now'
  <2>1. Reread(t)
    BY ReplayStep
  <2>2. \/ replay[t].pc # "closed" /\ replay'[t].ev = replay[t].ev
        \/ \E r \in dlq : replay'[t].ev = r.ev
    <3>1. replay'[t] # Closed
      BY <1>8 DEF Closed
    <3>2. ASSUME NEW r \in dlq,
                 replay'[t] = [pc |-> "shown", id |-> r.id, ev |-> r.ev, replayed |-> r.replayed]
          PROVE  replay'[t].ev = r.ev
      BY <3>2
    <3> QED
      BY <1>8, <2>1, <3>1, <3>2 DEF Reread
  <2> QED
    BY <1>2, <2>2, Integral DEF Told, StoreTypeOK
<1> QED
  BY <1>4, <1>5, <1>6, <1>7, <1>8 DEF Told

(* Boot and the job make the window; only the job takes a month away, and   *)
(* one past retention at that.                                              *)
LEMMA Upkeep ==
    ASSUME StoreTypeOK, Dropping, [Next]_vars
    PROVE  \/ UNCHANGED upkept /\ \A m \in parts : m \in parts' \/ EndOf(m) <= now - EventsRetention
           \/ upkept' = Month(now) /\ UNCHANGED <<parts, now, rows>> /\ EnsureFails
           \/ upkept' = Month(now) /\ UNCHANGED <<now, rows>> /\ parts' = events_ensure_partitions
<1> DEFINE Keeps == UNCHANGED upkept /\ \A m \in parts : m \in parts' \/ EndOf(m) <= now - EventsRetention
<1>1. ASSUME NEW e, Publishes(e) \/ OthersGiveUp(e) PROVE Keeps
  BY <1>1 DEF Publishes, OthersGiveUp
<1>2. ASSUME NEW x, Consumes(x) \/ handleDlqMessage(x) PROVE Keeps
  BY <1>2 DEF Consumes, Terminates, Stores, StoresAndDies, InsertFails, handleDlqMessage
<1>3. ASSUME DayPasses \/ Crashes \/ JobReads \/ JobDeletes \/ JobDeletesLetters \/ JobDies PROVE Keeps
  BY <1>3 DEF DayPasses, Crashes, JobReads, JobDeletes, JobDeletesLetters, JobDies
<1>4. ASSUME NEW t, \/ \E r \in dlq : OpenLetter(t, r)
                    \/ requestReplay(t) \/ replayDlqRecord(t) \/ LeaveLetter(t)
      PROVE  Keeps
  BY <1>4 DEF OpenLetter, requestReplay, replayDlqRecord, ReplayReads, ReplayPublishes,
     markDlqReplayed, LeaveLetter
<1>5. ASSUME JobDrops PROVE Keeps
  <2>1. PICK p \in job.names : parts' = parts \ {p}
    BY <1>5 DEF JobDrops
  <2>2. /\ EndOf(p) <= job.before /\ job.before <= now - EventsRetention
        /\ p \in Int /\ job.before \in Int /\ now - EventsRetention \in Int
    BY <1>5, StoreSizes DEF JobDrops, Dropping, StoreTypeOK, Jobs
  <2>3. EndOf(p) \in Int
    BY <2>2, StoreSizes DEF EndOf
  <2>4. EndOf(p) <= now - EventsRetention
    BY <2>2, <2>3
  <2> QED
    BY <1>5, <2>1, <2>4 DEF JobDrops
<1>6. CASE StoreNext
  BY <1>1, <1>2, <1>3, <1>4, <1>5, <1>6 DEF StoreNext, runRetention, buildApp, JobStarts
<1>7. ASSUME Moves \/ queryEvents \/ AnswerLands \/ RequestFails PROVE Keeps
  BY <1>7 DEF Moves, queryEvents, Counts, Lists, AnswerLands, RequestFails, store
<1>8. PageNext => Moves \/ queryEvents \/ AnswerLands \/ RequestFails
  BY DEF PageNext, Edit, search, clearFilters, removeActiveFilter, onTableSort, goToPage,
     onSizeChange, onPageChange, onCursorMove, CursorNext, CursorPrev, CursorFirst, ngOnInit
<1>9. CASE UNCHANGED vars
  BY <1>9 DEF vars, store
<1> QED
  BY <1>6, <1>7, <1>8, <1>9 DEF Next

LEMMA MonthsInOrder ==
    ASSUME NEW s \in Int, NEW t \in Int, s <= t
    PROVE  Month(s) \in Int /\ Month(t) \in Int /\ Month(s) <= Month(t)
<1>1. PerMonth \in Nat /\ PerMonth > 0
  BY StoreSizes
<1> DEFINE a == s \div PerMonth
           b == t \div PerMonth
<1>2. a \in Int /\ b \in Int
  BY <1>1
<1>3. /\ s = PerMonth * a + (s % PerMonth) /\ s % PerMonth \in 0 .. PerMonth - 1
      /\ t = PerMonth * b + (t % PerMonth) /\ t % PerMonth \in 0 .. PerMonth - 1
  BY <1>1
<1>4. PerMonth * b < PerMonth * a + PerMonth => b < a + 1
  BY <1>1, <1>2
<1>5. ASSUME b < a PROVE FALSE
  <2>1. b + 1 <= a
    BY <1>2, <1>5
  <2>2. PerMonth * (b + 1) <= PerMonth * a
    BY <1>1, <1>2, <2>1
  <2>3. PerMonth * (b + 1) = PerMonth * b + PerMonth
    BY <1>1, <1>2
  <2> HIDE DEF a, b
  <2> QED
    BY <1>1, <1>2, <1>3, <2>2, <2>3
<1> QED
  BY <1>2, <1>5 DEF Month

(* A month that has ended is before the month of any later day.             *)
LEMMA EndedIsPast ==
    ASSUME NEW m \in Int, NEW t \in Int, EndOf(m) <= t
    PROVE  m < Month(t)
<1>1. Month(t) \in Int /\ t < EndOf(Month(t))
  BY InMonth
<1>2. PerMonth \in Nat /\ PerMonth > 0
  BY StoreSizes
<1>3. ASSUME Month(t) <= m PROVE FALSE
  <2>1. Month(t) + 1 <= m + 1
    BY <1>1, <1>3
  <2>2. (Month(t) + 1) * PerMonth <= (m + 1) * PerMonth
    BY <1>1, <1>2, <2>1
  <2>3. (Month(t) + 1) * PerMonth \in Int /\ (m + 1) * PerMonth \in Int
    BY <1>1, <1>2
  <2> QED
    BY <1>1, <2>2, <2>3 DEF EndOf
<1> QED
  BY <1>1, <1>3

LEMMA KeptIsOpen == ASSUME StoreTypeOK, Told, Kept PROVE WindowIsOpen /\ ~EnsureFails
<1>1. now \in Int /\ \A e \in rows : e.at \in Int /\ e.at <= now
  BY EventsAreNamed DEF StoreTypeOK, Told
<1>2. ASSUME NEW e \in rows, InDefault(e) PROVE Month(e.at) < Month(now)
  <2>1. Month(e.at) \in Int /\ Month(now) \in Int /\ Month(e.at) <= Month(now)
    BY <1>1, MonthsInOrder
  <2>2. Month(now) \in parts
    BY <2>1 DEF Kept
  <2> QED
    BY <1>2, <2>1, <2>2 DEF InDefault
<1>3. ASSUME NEW e \in rows, Month(e.at) \in Window PROVE Month(e.at) >= Month(now)
  BY <1>1, <1>3, InMonth, StoreSizes DEF Window
<1>4. \A e \in rows : Month(e.at) \in Int /\ Month(now) \in Int
  BY <1>1, InMonth
<1> QED
  BY <1>2, <1>3, <1>4 DEF WindowIsOpen, EnsureFails

LEMMA NextKept == ASSUME Ledger, Punctual, Told, Kept, [Next]_vars PROVE Kept'
<1> USE DEF Ledger
<1>1. /\ now \in Int /\ now' \in Int /\ (now' = now \/ now' = now + 1)
      /\ MonthsAhead \in Nat /\ EventsRetention \in Nat /\ upkept \in Int /\ parts \subseteq Int
  BY NowGrows, StoreSizes DEF StoreTypeOK, Kept
<1>2. Month(now) \in Int /\ Month(now') \in Int /\ Month(now) <= Month(now')
  BY <1>1, MonthsInOrder
<1>3. CASE UNCHANGED upkept /\ \A m \in parts : m \in parts' \/ EndOf(m) <= now - EventsRetention
  <2>1. Month(now') <= upkept + MonthsAhead
    <3>1. CASE now' = now
      BY <3>1 DEF Kept
    <3>2. CASE now' # now
      <4>1. DayPasses
        BY <3>2, BooksFrame DEF Writes, books, Publishes, OthersGiveUp, Consumes, Terminates, Stores,
           StoresAndDies, InsertFails, handleDlqMessage, JobDrops, JobDeletes, JobDeletesLetters,
           ReplayPublishes, markDlqReplayed
      <4> QED
        BY <4>1 DEF DayPasses, May, Punctual
    <3> QED
      BY <3>1, <3>2
  <2>2. ASSUME NEW m \in Int, Month(now') <= m, m <= upkept + MonthsAhead PROVE m \in parts'
    <3>1. m \in parts
      BY <1>1, <1>2, <2>2 DEF Kept
    <3>2. ~(EndOf(m) <= now - EventsRetention)
      <4>1. ASSUME EndOf(m) <= now - EventsRetention PROVE FALSE
        <5>1. EndOf(m) \in Int
          BY StoreSizes DEF EndOf
        <5>2. EndOf(m) <= now
          BY <1>1, <4>1, <5>1
        <5> QED
          BY <1>1, <1>2, <2>2, <5>2, EndedIsPast
      <4> QED
        BY <4>1
    <3> QED
      BY <1>3, <3>1, <3>2
  <2> QED
    BY <1>1, <1>3, <2>1, <2>2 DEF Kept
<1>4. CASE upkept' = Month(now) /\ UNCHANGED <<now, rows>> /\ parts' = events_ensure_partitions
  BY <1>1, <1>2, <1>4 DEF Kept, events_ensure_partitions, Window
<1> QED
  BY <1>3, <1>4, Upkeep, KeptIsOpen

(* events_ensure_partitions, retain.ts, dropExpiredEvents: with clocks that *)
(* agree and a boot or a job before the partitions made ahead run out, no   *)
(* event of this month or a later one is ever in the default partition, so  *)
(* no boot and no job fails on it, however late the events, whatever crashes *)
(* between the job's steps, and whatever is replayed.                       *)
THEOREM WindowStaysOpen == ASSUME ClocksAgree PROVE Spec => []WindowIsOpen
<1>1. Init => Punctual /\ Told /\ Kept
  <2> SUFFICES ASSUME Init PROVE Punctual /\ Told /\ Kept
    OBVIOUS
  <2>1. PICK plan \in Plans :
          /\ now = plan.now /\ rows = plan.rows /\ left = plan.left
          /\ parts = {Month(e.at) : e \in plan.rows} \cup (Month(plan.now) .. Month(plan.now) + MonthsAhead)
          /\ stream = {[n |-> 0, ev |-> e, tries |-> 0] : e \in plan.stream}
          /\ letters = {} /\ dlq = {} /\ upkept = Month(plan.now) /\ replay = [t \in Tabs |-> Closed]
    BY DEF Init, StoreInit
  <2>2. Punctual
    BY <2>1 DEF ClocksAgree, Punctual
  <2>3. Told
    BY <2>1 DEF ClocksAgree, Told, Closed
  <2>4. now \in Int /\ MonthsAhead \in Nat /\ Month(now) \in Int
    BY <2>1, PlansAreSound, StoreSizes, InMonth
  <2>5. Kept
    BY <2>1, <2>4 DEF Kept
  <2> QED
    BY <2>2, <2>3, <2>5
<1>2. Ledger /\ Punctual /\ Told /\ Kept /\ [Next]_vars => (Punctual /\ Told /\ Kept)'
  BY NextPunctual, NextTold, NextKept DEF Ledger
<1>3. Ledger /\ Told /\ Kept => WindowIsOpen
  BY KeptIsOpen DEF Ledger
<1>4. Spec => [](Ledger /\ Replayed)
  BY StoreInvariance
<1> QED
  BY <1>1, <1>2, <1>3, <1>4, PTL DEF Spec

-----------------------------------------------------------------------------
(* The list page. *)

ListSignals == {"filter", "order", "offset", "size", "rows", "total", "capped", "stack", "next",
                "loading", "error", "edited", "answered", "over", "behind"}
RequestFields == {"pc", "q", "count", "rows", "next"}
Addressed == url = [filter |-> list.filter, order |-> list.order, offset |-> list.offset]

(* The page with no edit pending: its address is that of what is on screen, *)
(* the request in flight asks for it, and an answer that stands answers it; *)
(* with nothing in flight nothing loads.                                    *)
PageInv ==
    /\ list = [f \in ListSignals |-> list[f]] /\ req = [f \in RequestFields |-> req[f]]
    /\ req.pc = "none" => ~list.loading
    /\ list.edited \in BOOLEAN /\ url = [filter |-> url.filter, order |-> url.order, offset |-> url.offset]
    /\ ~list.edited =>
          /\ Addressed
          /\ req.pc # "none" => req.q = Query(list)
          /\ req.pc = "none" /\ ~list.error /\ list.answered # None => list.answered = Query(list)

(* A signal the query does not read.                                        *)
LEMMA SameQuery ==
    ASSUME NEW l, NEW m, l.filter = m.filter, l.order = m.order, l.offset = m.offset,
           l.size = m.size, l.stack = m.stack
    PROVE  Query(l) = Query(m)
BY DEF Query

LEMMA LoadKeeps ==
    ASSUME PageInv, NEW l, l = [f \in ListSignals |-> l[f]], l.edited \in BOOLEAN, loadList(l),
           url' = [filter |-> url'.filter, order |-> url'.order, offset |-> url'.offset],
           ~l.edited => url' = [filter |-> l.filter, order |-> l.order, offset |-> l.offset]
    PROVE  PageInv'
<1>1. /\ list' = [l EXCEPT !.loading = (req.pc = "none"), !.error = FALSE]
      /\ req'.pc = "asked" /\ req'.q = Query(l) /\ req' = [f \in RequestFields |-> req'[f]]
  BY DEF loadList, NoRequest, RequestFields
<1>2. /\ list' = [f \in ListSignals |-> list'[f]]
      /\ list'.filter = l.filter /\ list'.order = l.order /\ list'.offset = l.offset
      /\ list'.size = l.size /\ list'.stack = l.stack /\ list'.edited = l.edited
  BY <1>1 DEF ListSignals
<1>3. Query(list') = Query(l)
  BY <1>2, SameQuery
<1> QED
  BY <1>1, <1>2, <1>3 DEF PageInv, Addressed

LEMMA ReloadKeeps ==
    ASSUME PageInv, NEW l, l = [f \in ListSignals |-> l[f]], Reload(l)
    PROVE  PageInv'
<1> DEFINE m == [l EXCEPT !.edited = FALSE, !.behind = {}]
<1>1. /\ m = [f \in ListSignals |-> m[f]] /\ m.edited = FALSE
      /\ m.filter = l.filter /\ m.order = l.order /\ m.offset = l.offset
  BY DEF ListSignals
<1>2. loadList(m) /\ url' = [filter |-> l.filter, order |-> l.order, offset |-> l.offset]
  BY DEF Reload, syncUrl
<1> HIDE DEF m
<1> QED
  BY <1>1, <1>2, LoadKeeps

LEMMA NextPageInv == ASSUME PageInv, [Next]_vars PROVE PageInv'
<1> DEFINE Shaped(l) == l = [f \in ListSignals |-> l[f]]
<1>1. Shaped(list) /\ Shaped(FirstPage(list))
  BY DEF PageInv, FirstPage, ListSignals
<1>2. CASE UNCHANGED <<list, url, req>>
  BY <1>2 DEF PageInv, Addressed, Query, Top
<1>3. ASSUME NEW f, Edit(f) PROVE PageInv'
  <2>1. /\ list' = [list EXCEPT !.filter = f, !.edited = TRUE] /\ UNCHANGED <<url, req>>
    BY <1>3 DEF Edit
  <2>2. Shaped(list') /\ list'.edited = TRUE /\ list'.loading = list.loading
    BY <1>1, <2>1 DEF ListSignals
  <2> QED
    BY <2>1, <2>2 DEF PageInv
<1>4. ASSUME search \/ clearFilters \/ removeActiveFilter \/ onTableSort \/ CursorFirst PROVE PageInv'
  <2>1. Shaped([FirstPage(list) EXCEPT !.filter = None])
    BY <1>1 DEF ListSignals
  <2>2. Shaped([FirstPage(list) EXCEPT !.order = IF @ = asc THEN desc ELSE asc])
    BY <1>1 DEF ListSignals
  <2> QED
    BY <1>1, <1>4, <2>1, <2>2, ReloadKeeps
       DEF search, clearFilters, removeActiveFilter, onTableSort, CursorFirst
<1>5. ASSUME NEW offset, NEW size, onPageChange(offset, size) PROVE PageInv'
  <2>1. Shaped([list EXCEPT !.stack = <<>>, !.offset = offset, !.size = size])
    BY <1>1 DEF ListSignals
  <2> QED
    BY <1>5, <2>1, ReloadKeeps DEF onPageChange
<1>6. ASSUME CursorNext \/ CursorPrev PROVE PageInv'
  <2>1. ASSUME NEW s, NEW b, loadList([list EXCEPT !.stack = s, !.behind = b]), UNCHANGED url
        PROVE  PageInv'
    <3> DEFINE l == [list EXCEPT !.stack = s, !.behind = b]
    <3>1. /\ Shaped(l) /\ l.edited = list.edited
          /\ l.filter = list.filter /\ l.order = list.order /\ l.offset = list.offset
      BY <1>1 DEF ListSignals
    <3>2. loadList(l)
      BY <2>1
    <3> HIDE DEF l
    <3> QED
      BY <2>1, <3>1, <3>2, LoadKeeps DEF PageInv, Addressed
  <2> QED
    BY <1>6, <2>1 DEF CursorNext, CursorPrev
<1>7. ASSUME ngOnInit PROVE PageInv'
  <2> DEFINE l == [Page(url) EXCEPT !.loading = TRUE]
  <2>1. /\ Shaped(l) /\ ~l.edited /\ l.edited \in BOOLEAN
        /\ l.filter = url.filter /\ l.order = url.order /\ l.offset = url.offset
        /\ l.size = Page(url).size /\ l.stack = Page(url).stack
        /\ Page(url).filter = url.filter /\ Page(url).order = url.order /\ Page(url).offset = url.offset
    BY DEF Page, ListSignals
  <2>2. list' = l /\ req'.pc = "asked" /\ req'.q = Query(Page(url)) /\ UNCHANGED url
        /\ req' = [f \in RequestFields |-> req'[f]]
    BY <1>7 DEF ngOnInit, NoRequest, RequestFields
  <2> HIDE DEF l
  <2>3. Query(l) = Query(Page(url))
    BY <2>1, SameQuery
  <2> QED
    BY <2>1, <2>2, <2>3 DEF PageInv, Addressed
<1>8. ASSUME queryEvents PROVE PageInv'
  <2>1. /\ req'.q = req.q /\ req'.pc # "none" /\ req.pc # "none" /\ UNCHANGED url
        /\ req' = [f \in RequestFields |-> req'[f]]
    BY <1>8 DEF queryEvents, Counts, Lists, PageInv, RequestFields
  <2>2. /\ Shaped(list')
        /\ list'.filter = list.filter /\ list'.order = list.order /\ list'.offset = list.offset
        /\ list'.size = list.size /\ list'.stack = list.stack /\ list'.edited = list.edited
    BY <1>1, <1>8 DEF queryEvents, Counts, Lists, ListSignals
  <2>3. Query(list') = Query(list)
    BY <2>2, SameQuery
  <2> QED
    BY <2>1, <2>2, <2>3 DEF PageInv, Addressed
<1>9. ASSUME AnswerLands PROVE PageInv'
  <2>1. req'.pc = "none" /\ req.pc = "answered" /\ UNCHANGED url
        /\ req' = [f \in RequestFields |-> req'[f]]
    BY <1>9 DEF AnswerLands, NoRequest, RequestFields
  <2>2. /\ Shaped(list') /\ list'.loading = FALSE /\ list'.answered = req.q
        /\ list'.filter = list.filter /\ list'.order = list.order /\ list'.offset = list.offset
        /\ list'.size = list.size /\ list'.stack = list.stack /\ list'.edited = list.edited
    BY <1>1, <1>9 DEF AnswerLands, ListSignals
  <2>3. Query(list') = Query(list)
    BY <2>2, SameQuery
  <2> QED
    BY <2>1, <2>2, <2>3 DEF PageInv, Addressed
<1>10. ASSUME RequestFails PROVE PageInv'
  <2>1. req'.pc = "none" /\ UNCHANGED url /\ req' = [f \in RequestFields |-> req'[f]]
    BY <1>10 DEF RequestFails, NoRequest, RequestFields
  <2>2. /\ Shaped(list') /\ list'.loading = FALSE /\ list'.error = TRUE
        /\ list'.filter = list.filter /\ list'.order = list.order /\ list'.offset = list.offset
        /\ list'.edited = list.edited
    BY <1>1, <1>10 DEF RequestFails, ListSignals
  <2> QED
    BY <2>1, <2>2 DEF PageInv, Addressed
<1>11. CASE PageNext
  BY <1>3, <1>4, <1>5, <1>6, <1>7, <1>8, <1>9, <1>10, <1>11
     DEF PageNext, goToPage, onSizeChange, onCursorMove
<1> QED
  BY <1>2, <1>11 DEF Next, vars

(* loadListTrigger$ and syncUrl: when nothing is in flight, nothing is left *)
(* loading, and the rows answer the filter, order, page and cursor on       *)
(* screen, to which the address leads back, whatever requests overlapped,   *)
(* failed or were dropped; unless a filter is being edited.                 *)
THEOREM ListIsOfOneMind == Spec => []ListAgrees
<1>1. Init => PageInv
  <2> SUFFICES ASSUME Init PROVE PageInv
    OBVIOUS
  <2> DEFINE l == [Page(Address) EXCEPT !.loading = TRUE]
  <2> DEFINE Anew(m) == /\ m = [f \in ListSignals |-> m[f]] /\ ~m.edited /\ m.edited \in BOOLEAN
                        /\ Address = [filter |-> m.filter, order |-> m.order, offset |-> m.offset]
                        /\ m.answered = None
  <2>1. Anew(Page(Address)) /\ Page(Address).loading = FALSE
    BY DEF Page, Address, ListSignals
  <2>2. Anew(l)
    BY DEF Page, Address, ListSignals
  <2>3. Address = [filter |-> Address.filter, order |-> Address.order, offset |-> Address.offset]
    BY DEF Address
  <2>4. Query(l) = Query(Page(Address))
    BY SameQuery DEF Page
  <2>5. req = [f \in RequestFields |-> req[f]]
    BY DEF Init, NoRequest, RequestFields
  <2>6. \/ list = l /\ req.pc = "asked" /\ req.q = Query(Page(Address))
        \/ list = Page(Address) /\ req.pc = "none"
    <3> HIDE DEF l
    <3>1. CASE May("move")
      <4>1. list = l /\ req = [NoRequest EXCEPT !.pc = "asked", !.q = Query(Page(Address))]
        BY <3>1 DEF Init, l
      <4> QED
        BY <4>1 DEF NoRequest
    <3>2. CASE ~May("move")
      BY <3>2 DEF Init, NoRequest
    <3> QED
      BY <3>1, <3>2
  <2>7. url = Address
    BY DEF Init
  <2> HIDE DEF l
  <2> QED
    BY <2>1, <2>2, <2>3, <2>4, <2>5, <2>6, <2>7 DEF PageInv, Addressed
<1>2. PageInv /\ [Next]_vars => PageInv'
  BY NextPageInv
<1>3. PageInv => ListAgrees
  BY DEF PageInv, ListAgrees, AtRest, Addressed
<1> QED
  BY <1>1, <1>2, <1>3, PTL DEF Spec

-----------------------------------------------------------------------------
(* The order of the rows, and places in it. *)

Less == {ss \in Nat \X Nat : ss[1] < ss[2]}
LEMMA LeastOf == ASSUME NEW S \in SUBSET Nat, S # {} PROVE \E x \in S : \A y \in S : x <= y
<1>1. IsWellFoundedOn(Less, Nat)
  BY NatLessThanWellFounded DEF OpToRel, Less
<1>2. PICK x \in S : \A y \in S : ~(<<y, x>> \in Less)
  BY <1>1, WFMin
<1>3. ASSUME NEW y \in S, y < x PROVE FALSE
  <2>1. <<y, x>> \in Less
    BY <1>3 DEF Less
  <2> QED
    BY <1>2, <2>1
<1> QED
  BY <1>3

LEMMA StrictOrder ==
    ASSUME NEW order, NEW a \in Events, NEW b \in Events, NEW c \in Events
    PROVE  /\ ~InOrder(order, a, a)
           /\ InOrder(order, a, b) => ~InOrder(order, b, a)
           /\ InOrder(order, a, b) /\ InOrder(order, b, c) => InOrder(order, a, c)
           /\ a = b \/ InOrder(order, a, b) \/ InOrder(order, b, a)
BY EventsAreNamed DEF InOrder, Precedes

(* The sets of events a table or a page can be.                             *)
Tables == {S \in SUBSET Events : IsFiniteSet(S)}
InFront(e, S, order) == {x \in S : InOrder(order, x, e)}

LEMMA RankIsNat ==
    ASSUME NEW order, NEW S \in Tables, NEW e
    PROVE  IsFiniteSet(InFront(e, S, order)) /\ Rank(e, S, order) = Cardinality(InFront(e, S, order))
           /\ Rank(e, S, order) \in Nat
BY FS_Subset, FS_CardinalityType DEF Tables, InFront, Rank

LEMMA RankGrows ==
    ASSUME NEW order, NEW S \in Tables, NEW a \in S, NEW b \in S, InOrder(order, a, b)
    PROVE  Rank(a, S, order) < Rank(b, S, order)
<1>1. a \in Events /\ b \in Events /\ S \subseteq Events
  BY DEF Tables
<1>2. InFront(a, S, order) \subseteq InFront(b, S, order)
  BY <1>1, StrictOrder DEF InFront
<1>3. a \in InFront(b, S, order) /\ a \notin InFront(a, S, order)
  BY <1>1, StrictOrder DEF InFront
<1>4. InFront(a, S, order) \in SUBSET InFront(b, S, order)
  BY <1>2
<1>5. /\ Cardinality(InFront(a, S, order)) <= Cardinality(InFront(b, S, order))
      /\ Cardinality(InFront(a, S, order)) # Cardinality(InFront(b, S, order))
  BY <1>3, <1>4, RankIsNat, FS_Subset
<1> QED
  BY <1>5, RankIsNat

LEMMA Converse ==
    ASSUME NEW order, NEW a, NEW b
    PROVE  InOrder(order, a, b) = InOrder(IF order = asc THEN desc ELSE asc, b, a)
BY DEF InOrder, asc, desc

LEMMA LastOfIsLast ==
    ASSUME NEW order, NEW S \in Tables, S # {}
    PROVE  /\ LastOf(S, order) \in S
           /\ \A x \in S : x = LastOf(S, order) \/ InOrder(order, x, LastOf(S, order))
<1> DEFINE back == IF order = asc THEN desc ELSE asc
           Ranks == {Rank(e, S, back) : e \in S}
<1>1. Ranks \in SUBSET Nat /\ Ranks # {}
  BY RankIsNat
<1>2. PICK r \in Ranks : \A y \in Ranks : r <= y
  BY <1>1, LeastOf
<1>3. PICK e \in S : r = Rank(e, S, back)
  OBVIOUS
<1>4. ASSUME NEW x \in S, x # e PROVE InOrder(order, x, e)
  <2>1. Rank(e, S, back) <= Rank(x, S, back)
    BY <1>2, <1>3
  <2>2. Rank(e, S, back) \in Nat /\ Rank(x, S, back) \in Nat
    BY RankIsNat
  <2>3. ~InOrder(back, x, e)
    BY <2>1, <2>2, RankGrows
  <2>4. ~InOrder(order, e, x)
    BY <2>3, Converse
  <2> QED
    BY <1>4, <2>4, StrictOrder DEF Tables
<1> QED
  BY <1>4 DEF LastOf

(* The places are taken from the first on: a row n or more places down has  *)
(* one before it at place n, or is there.                                   *)
LEMMA NoGaps ==
    ASSUME NEW order, NEW S \in Tables, NEW n \in Nat, NEW e \in S, Rank(e, S, order) >= n
    PROVE  \E f \in S : Rank(f, S, order) = n
<1> DEFINE Far == {k \in Nat : k >= n /\ \E f \in S : Rank(f, S, order) = k}
<1>1. Rank(e, S, order) \in Far
  BY RankIsNat
<1>2. PICK k \in Far : \A y \in Far : k <= y
  BY <1>1, LeastOf
<1>3. PICK f \in S : Rank(f, S, order) = k
  OBVIOUS
<1>4. ASSUME k # n PROVE FALSE
  <2> DEFINE P == InFront(f, S, order)
  <2>1. IsFiniteSet(P) /\ Cardinality(P) = k /\ k \in Nat /\ k > n
    BY <1>3, <1>4, RankIsNat
  <2>2. P # {}
    BY <2>1, FS_EmptySet
  <2>3. P \in Tables /\ P \subseteq S
    BY <2>1 DEF Tables, InFront
  <2> DEFINE m == LastOf(P, order)
  <2>4. m \in P /\ \A x \in P : x = m \/ InOrder(order, x, m)
    BY <2>2, <2>3, LastOfIsLast
  <2>5. InFront(m, S, order) = P \ {m}
    <3>1. \A x \in S : InOrder(order, x, m) => InOrder(order, x, f)
      BY <2>4, StrictOrder DEF InFront, Tables
    <3>2. ~InOrder(order, m, m)
      BY <2>3, <2>4, StrictOrder DEF Tables
    <3> HIDE DEF m
    <3> QED
      BY <2>3, <2>4, <3>1, <3>2 DEF InFront
  <2>6. Cardinality(P \ {m}) = k - 1
    BY <2>1, <2>4, FS_RemoveElement
  <2>7. m \in S /\ Rank(m, S, order) = k - 1
    BY <2>3, <2>4, <2>5, <2>6, RankIsNat
  <2> HIDE DEF P, m
  <2>8. k - 1 \in Nat /\ k - 1 >= n
    BY <2>1
  <2>9. k - 1 \in Far
    BY <2>7, <2>8
  <2> QED
    BY <1>2, <2>1, <2>9
<1> QED
  BY <1>3, <1>4

(* What a query returns from a table, and the cursor it returns with it.    *)
CandidatesIn(T, q) ==
    LET M == {e \in T : q.filter \in {None, e.type}}
    IN IF q.after = None THEN M ELSE {e \in M : InOrder(q.order, Position(q.after), e)}
Skip(q) == IF q.after = None THEN q.offset ELSE 0
SliceIn(T, q, n) == {e \in CandidatesIn(T, q) :
                       Rank(e, CandidatesIn(T, q), q.order) \in Skip(q) .. Skip(q) + n - 1}
NextIn(T, q) == IF SliceIn(T, q, q.size + 1) = SliceIn(T, q, q.size) THEN None
                ELSE encodeCursor(LastOf(SliceIn(T, q, q.size), q.order))
Asks(q) == q.size \in Nat \ {0} /\ q.offset \in Nat
Cursors == {encodeCursor(e) : e \in Events}

LEMMA CandidatesAreRows == ASSUME NEW T \in Tables, NEW q PROVE CandidatesIn(T, q) \in Tables /\ CandidatesIn(T, q) \subseteq T
BY FS_Subset DEF Tables, CandidatesIn

LEMMA SlicesAreRows == ASSUME NEW T \in Tables, NEW q, NEW n PROVE SliceIn(T, q, n) \in Tables /\ SliceIn(T, q, n) \subseteq T
BY CandidatesAreRows, FS_Subset DEF Tables, SliceIn

LEMMA SliceReads ==
    ASSUME NEW q
    PROVE  \A n : Slice(q, n) = SliceIn(rows, q, n)
<1>1. Candidates(q) = CandidatesIn(rows, q)
  BY DEF Candidates, Matching, CandidatesIn
<1> QED
  BY <1>1 DEF Slice, SliceIn, Skip

LEMMA NextReads == ASSUME NEW q PROVE nextCursor(q) = NextIn(rows, q)
BY SliceReads DEF nextCursor, NextIn

(* A page with candidates beyond its place is not empty; a cursor is that   *)
(* of a row of the page; with no cursor, every candidate not skipped is on  *)
(* the page.                                                                *)
LEMMA FirstIsThere ==
    ASSUME NEW T \in Tables, NEW q, Asks(q), NEW e \in CandidatesIn(T, q),
           Rank(e, CandidatesIn(T, q), q.order) >= Skip(q)
    PROVE  SliceIn(T, q, q.size) # {}
<1>1. Skip(q) \in Nat /\ q.size \in Nat \ {0}
  BY DEF Skip, Asks
<1>2. PICK f \in CandidatesIn(T, q) : Rank(f, CandidatesIn(T, q), q.order) = Skip(q)
  BY <1>1, CandidatesAreRows, NoGaps
<1>3. Skip(q) \in Skip(q) .. Skip(q) + q.size - 1
  BY <1>1
<1> QED
  BY <1>2, <1>3 DEF SliceIn

LEMMA CursorOfARow ==
    ASSUME NEW T \in Tables, NEW q, Asks(q), NextIn(T, q) # None
    PROVE  /\ SliceIn(T, q, q.size) # {}
           /\ LastOf(SliceIn(T, q, q.size), q.order) \in SliceIn(T, q, q.size)
           /\ NextIn(T, q) = encodeCursor(LastOf(SliceIn(T, q, q.size), q.order))
<1> DEFINE C == CandidatesIn(T, q)
           R(e) == Rank(e, C, q.order)
<1>1. Skip(q) \in Nat /\ q.size \in Nat \ {0}
  BY DEF Skip, Asks
<1>2. \A e \in C : R(e) \in Nat
  BY RankIsNat, CandidatesAreRows
<1>3. PICK e \in C : R(e) \in Skip(q) .. Skip(q) + (q.size + 1) - 1
  <2>1. SliceIn(T, q, q.size + 1) # SliceIn(T, q, q.size)
    BY DEF NextIn
  <2>2. ASSUME NEW e \in C, R(e) \in Skip(q) .. Skip(q) + q.size - 1
        PROVE  R(e) \in Skip(q) .. Skip(q) + (q.size + 1) - 1
    BY <1>1, <1>2, <2>2
  <2> HIDE DEF R
  <2>3. SliceIn(T, q, q.size) \subseteq SliceIn(T, q, q.size + 1)
    BY <2>2 DEF SliceIn, R
  <2> QED
    BY <2>1, <2>3 DEF SliceIn, R
<1>4. R(e) >= Skip(q)
  BY <1>1, <1>2, <1>3
<1>5. SliceIn(T, q, q.size) # {}
  BY <1>4, FirstIsThere
<1> QED
  BY <1>5, SlicesAreRows, LastOfIsLast DEF NextIn

LEMMA LastPage ==
    ASSUME NEW T \in Tables, NEW q, Asks(q), q.after # None, NextIn(T, q) = None, NEW e \in CandidatesIn(T, q)
    PROVE  e \in SliceIn(T, q, q.size)
<1> DEFINE C == CandidatesIn(T, q)
           R(x) == Rank(x, C, q.order)
<1>1. Skip(q) = 0 /\ q.size \in Nat \ {0}
  BY DEF Skip, Asks
<1>2. \A x \in C : R(x) \in Nat
  BY RankIsNat, CandidatesAreRows
<1>3. SliceIn(T, q, q.size + 1) = SliceIn(T, q, q.size)
  <2>1. R(e) >= Skip(q)
    BY <1>1, <1>2
  <2>2. LastOf(SliceIn(T, q, q.size), q.order) \in Events
    BY <2>1, FirstIsThere, SlicesAreRows, LastOfIsLast DEF Tables
  <2> QED
    BY <2>2, NoneIsNoCursor DEF NextIn
<1>4. ASSUME R(e) >= q.size PROVE FALSE
  <2>1. PICK f \in C : R(f) = q.size
    BY <1>1, <1>4, CandidatesAreRows, NoGaps
  <2>2. /\ q.size \in Skip(q) .. Skip(q) + (q.size + 1) - 1
        /\ q.size \notin Skip(q) .. Skip(q) + q.size - 1
    BY <1>1
  <2> HIDE DEF R
  <2>3. f \in SliceIn(T, q, q.size + 1) /\ f \notin SliceIn(T, q, q.size)
    BY <2>1, <2>2 DEF SliceIn, R
  <2> QED
    BY <1>3, <2>3
<1>5. R(e) \in Skip(q) .. Skip(q) + q.size - 1
  BY <1>1, <1>2, <1>4
<1> QED
  BY <1>5 DEF SliceIn

LEMMA PageHasNoHoles ==
    ASSUME NEW T \in Tables, NEW q, Asks(q), q.after # None, NEW e \in CandidatesIn(T, q),
           SliceIn(T, q, q.size) = {} \/ ~InOrder(q.order, LastOf(SliceIn(T, q, q.size), q.order), e)
    PROVE  e \in SliceIn(T, q, q.size)
<1> DEFINE C == CandidatesIn(T, q)
           R(x) == Rank(x, C, q.order)
           last == LastOf(SliceIn(T, q, q.size), q.order)
<1>1. Skip(q) = 0 /\ q.size \in Nat \ {0}
  BY DEF Skip, Asks
<1>2. C \in Tables /\ \A x \in C : R(x) \in Nat
  BY RankIsNat, CandidatesAreRows
<1>3. R(e) >= Skip(q)
  BY <1>1, <1>2
<1>4. SliceIn(T, q, q.size) # {}
  BY <1>3, FirstIsThere
<1>5. last \in SliceIn(T, q, q.size)
  BY <1>4, SlicesAreRows, LastOfIsLast
<1>6. last \in C /\ R(last) \in Skip(q) .. Skip(q) + q.size - 1
  BY <1>5 DEF SliceIn
<1>7. e = last \/ InOrder(q.order, e, last)
  BY <1>2, <1>4, <1>6, StrictOrder DEF Tables
<1> HIDE DEF last
<1>8. R(e) <= R(last)
  BY <1>2, <1>6, <1>7, RankGrows
<1>9. R(e) \in Skip(q) .. Skip(q) + q.size - 1
  BY <1>1, <1>2, <1>6, <1>8
<1> QED
  BY <1>9 DEF SliceIn

(* The walk.  Every cursor is of a row of its page.  While Next has been    *)
(* pressed on a page, what is asked or was answered goes on from a row of   *)
(* that page, and the answer is the slice of the table it was read from.    *)
Answers(S, n, T, q) == S = SliceIn(T, q, q.size) /\ n = NextIn(T, q)
OnFrom(S, q) == \E r \in S : q.after = encodeCursor(r)
PageSound(l) ==
    /\ l = [f \in ListSignals |-> l[f]]
    /\ l.stack \in Seq(Cursors) /\ l.next \in Cursors \cup {None}
    /\ l.size \in Nat \ {0} /\ l.offset \in Nat
    /\ l.rows \in Tables /\ l.over \in Tables /\ l.behind \in Tables
    /\ l.next # None => \E r \in l.rows : l.next = encodeCursor(r)
Walks(l, r) ==
    /\ PageSound(l) /\ r = [f \in RequestFields |-> r[f]]
    /\ r.pc # "none" => Asks(r.q)
    /\ r.pc = "answered" => Answers(r.rows, r.next, l.over, r.q)
    /\ l.behind # {} =>
          /\ r.pc # "none" => OnFrom(l.behind, r.q)
          /\ r.pc = "none" /\ ~l.error =>
                Asks(l.answered) /\ OnFrom(l.behind, l.answered) /\ Answers(l.rows, l.next, l.over, l.answered)
Walking == rows \in Tables /\ url.offset \in Nat /\ Walks(list, req)

LEMMA RowsFinite == ASSUME StoreTypeOK, rows \in Tables, [Next]_vars PROVE rows' \in Tables
<1>1. rows' \subseteq Events
  BY StoreTypes DEF StoreTypeOK
<1>2. ASSUME NEW x \in stream, Consumes(x) PROVE rows' = rows \/ rows' = rows \cup {x.ev}
  BY <1>2 DEF Consumes, Terminates, Stores, StoresAndDies, InsertFails, ingestEvent
<1>3. rows' \subseteq rows \/ \E e : rows' = rows \cup {e}
  BY <1>2, BooksFrame DEF Writes, books, Publishes, OthersGiveUp, DayPasses, handleDlqMessage,
     JobDrops, JobDeletes, JobDeletesLetters, ReplayPublishes, markDlqReplayed
<1>4. IsFiniteSet(rows')
  BY <1>3, FS_Subset, FS_AddElement DEF Tables
<1> QED
  BY <1>1, <1>4 DEF Tables

LEMMA LoadWalks ==
    ASSUME NEW l, PageSound(l), loadList(l), l.behind # {} => OnFrom(l.behind, Query(l))
    PROVE  Walks(list', req')
<1>1. /\ list' = [l EXCEPT !.loading = (req.pc = "none"), !.error = FALSE]
      /\ req'.pc = "asked" /\ req'.q = Query(l) /\ req' = [f \in RequestFields |-> req'[f]]
  BY DEF loadList, NoRequest, RequestFields
<1>2. /\ list' = [f \in ListSignals |-> list'[f]]
      /\ list'.stack = l.stack /\ list'.next = l.next /\ list'.size = l.size /\ list'.offset = l.offset
      /\ list'.rows = l.rows /\ list'.over = l.over /\ list'.behind = l.behind
  BY <1>1 DEF PageSound, ListSignals
<1>3. PageSound(list')
  BY <1>2 DEF PageSound
<1>4. Asks(Query(l))
  BY DEF PageSound, Asks, Query
<1> QED
  BY <1>1, <1>2, <1>3, <1>4 DEF Walks

LEMMA ReloadWalks == ASSUME NEW l, PageSound(l), Reload(l) PROVE Walks(list', req') /\ url'.offset \in Nat
<1> DEFINE m == [l EXCEPT !.edited = FALSE, !.behind = {}]
<1>1. /\ m = [f \in ListSignals |-> m[f]] /\ m.behind = {}
      /\ m.stack = l.stack /\ m.next = l.next /\ m.size = l.size /\ m.offset = l.offset
      /\ m.rows = l.rows /\ m.over = l.over
  BY DEF ListSignals, PageSound
<1>2. loadList(m) /\ url'.offset \in Nat
  BY DEF Reload, syncUrl, PageSound
<1>3. {} \in Tables
  BY FS_EmptySet DEF Tables
<1> HIDE DEF m
<1>4. PageSound(m)
  BY <1>1, <1>3 DEF PageSound
<1> QED
  BY <1>1, <1>2, <1>4, LoadWalks

LEMMA NewPageSound ==
    ASSUME NEW u, u.offset \in Nat
    PROVE  LET l == [Page(u) EXCEPT !.loading = TRUE]
           IN PageSound(Page(u)) /\ Page(u).behind = {} /\ PageSound(l) /\ l.behind = {}
              /\ Asks(Query(Page(u))) 
<1> DEFINE l == [Page(u) EXCEPT !.loading = TRUE]
<1>1. Min(PageSizes) \in PageSizes /\ Min(PageSizes) \in Nat \ {0}
  <2>1. PICK s \in PageSizes : \A z \in PageSizes : s <= z
    BY ListSizes, LeastOf
  <2> QED
    BY <2>1, ListSizes DEF Min
<1>2. {} \in Tables /\ <<>> \in Seq(Cursors)
  BY FS_EmptySet DEF Tables
<1>3. /\ l = [f \in ListSignals |-> l[f]] /\ l.behind = {}
      /\ l.stack = <<>> /\ l.next = None /\ l.size = Min(PageSizes) /\ l.offset = u.offset
      /\ l.rows = {} /\ l.over = {}
  BY DEF Page, ListSignals
<1>4. /\ Page(u) = [f \in ListSignals |-> Page(u)[f]] /\ Page(u).behind = {}
      /\ Page(u).stack = <<>> /\ Page(u).next = None /\ Page(u).size = Min(PageSizes) /\ Page(u).offset = u.offset
      /\ Page(u).rows = {} /\ Page(u).over = {}
  BY DEF Page, ListSignals
<1>5. Asks(Query(Page(u)))
  BY <1>1, <1>4 DEF Query, Asks
<1> HIDE DEF l
<1> QED
  BY <1>1, <1>2, <1>3, <1>4, <1>5 DEF PageSound, l

LEMMA NextWalking == ASSUME StoreTypeOK, Walking, [Next]_vars PROVE Walking'
<1> DEFINE Goal == Walks(list', req') /\ url'.offset \in Nat
<1>1. PageSound(list) /\ Walks(list, req) /\ url.offset \in Nat /\ rows \in Tables
  BY DEF Walking, Walks
<1>2. ASSUME UNCHANGED <<list, url, req>> PROVE Goal
  BY <1>1, <1>2
<1>3. ASSUME NEW f, Edit(f) PROVE Goal
  <2>1. list' = [list EXCEPT !.filter = f, !.edited = TRUE] /\ UNCHANGED <<url, req>>
    BY <1>3 DEF Edit
  <2>2. /\ list' = [g \in ListSignals |-> list'[g]]
        /\ \A g \in ListSignals \ {"filter", "edited"} : list'[g] = list[g]
    BY <1>1, <2>1 DEF PageSound, ListSignals
  <2>3. /\ list'.stack = list.stack /\ list'.next = list.next /\ list'.size = list.size
        /\ list'.offset = list.offset /\ list'.rows = list.rows /\ list'.over = list.over
        /\ list'.behind = list.behind /\ list'.error = list.error /\ list'.answered = list.answered
    BY <2>2 DEF ListSignals
  <2>4. PageSound(list')
    BY <1>1, <2>2, <2>3 DEF PageSound
  <2> QED
    BY <1>1, <2>1, <2>3, <2>4 DEF Walks
<1>4. ASSUME NEW l, l = [f \in ListSignals |-> l[f]], l.stack = <<>> \/ l.stack = list.stack,
             l.next = list.next, l.size \in Nat \ {0}, l.offset \in Nat,
             l.rows = list.rows, l.over = list.over, l.behind = list.behind
      PROVE  PageSound(l)
  <2>1. <<>> \in Seq(Cursors)
    OBVIOUS
  <2> QED
    BY <1>1, <1>4, <2>1 DEF PageSound
<1>5. ASSUME search \/ clearFilters \/ removeActiveFilter \/ onTableSort \/ CursorFirst PROVE Goal
  <2>0. list = [f \in ListSignals |-> list[f]] /\ list.size \in Nat \ {0} /\ 0 \in Nat
    BY <1>1 DEF PageSound
  <2>1. PageSound(FirstPage(list))
    <3> DEFINE l == FirstPage(list)
    <3>1. /\ l = [f \in ListSignals |-> l[f]] /\ l.stack = <<>> /\ l.next = list.next
          /\ l.size = list.size /\ l.offset = 0 /\ l.rows = list.rows /\ l.over = list.over
          /\ l.behind = list.behind
      BY <2>0 DEF FirstPage, ListSignals
    <3> HIDE DEF l
    <3> QED
      BY <1>4, <2>0, <3>1 DEF l
  <2>2. ASSUME NEW l, \/ \E v : l = [FirstPage(list) EXCEPT !.filter = v]
                      \/ \E v : l = [FirstPage(list) EXCEPT !.order = v]
        PROVE  PageSound(l)
    <3>1. /\ l = [f \in ListSignals |-> l[f]] /\ l.stack = <<>> /\ l.next = list.next
          /\ l.size = list.size /\ l.offset = 0 /\ l.rows = list.rows /\ l.over = list.over
          /\ l.behind = list.behind
      BY <2>0, <2>2 DEF FirstPage, ListSignals
    <3> QED
      BY <1>4, <2>0, <3>1
  <2>3. /\ PageSound([FirstPage(list) EXCEPT !.filter = None])
        /\ PageSound([FirstPage(list) EXCEPT !.order = IF @ = asc THEN desc ELSE asc])
    BY <2>2
  <2> QED
    BY <1>5, <2>1, <2>3, ReloadWalks
       DEF search, clearFilters, removeActiveFilter, onTableSort, CursorFirst
<1>6. ASSUME NEW offset \in Nat, NEW size \in Nat \ {0}, onPageChange(offset, size) PROVE Goal
  <2>1. PageSound([list EXCEPT !.stack = <<>>, !.offset = offset, !.size = size])
    <3> DEFINE l == [list EXCEPT !.stack = <<>>, !.offset = offset, !.size = size]
    <3>1. /\ l = [f \in ListSignals |-> l[f]] /\ l.stack = <<>> /\ l.next = list.next
          /\ l.size = size /\ l.offset = offset /\ l.rows = list.rows /\ l.over = list.over
          /\ l.behind = list.behind
      BY <1>1 DEF PageSound, ListSignals
    <3> HIDE DEF l
    <3> QED
      BY <1>4, <1>6, <3>1 DEF l
  <2> QED
    BY <1>6, <2>1, ReloadWalks DEF onPageChange
<1>7. ASSUME NEW p \in 1 .. CountCap, goToPage(p) PROVE Goal
  <2>1. p - 1 \in Nat /\ list.size \in Nat \ {0}
    BY <1>1, ListSizes DEF PageSound
  <2>2. (p - 1) * list.size \in Nat
    BY <2>1
  <2> QED
    BY <1>6, <1>7, <2>1, <2>2 DEF goToPage
<1>8. ASSUME NEW s \in PageSizes, onSizeChange(s) PROVE Goal
  <2>1. s \in Nat \ {0} /\ list.offset \in Nat
    BY <1>1, ListSizes DEF PageSound
  <2>2. list.offset \div s \in Nat
    BY <2>1
  <2>3. (list.offset \div s) * s \in Nat
    BY <2>1, <2>2
  <2> QED
    BY <1>6, <1>8, <2>1, <2>3 DEF onSizeChange
<1>9. ASSUME NEW s \in Seq(Cursors), NEW b \in Tables,
             loadList([list EXCEPT !.stack = s, !.behind = b]), UNCHANGED url,
             b # {} => \E r \in b : Top(s) = encodeCursor(r)
      PROVE  Goal
  <2> DEFINE l == [list EXCEPT !.stack = s, !.behind = b]
  <2>1. /\ l = [f \in ListSignals |-> l[f]] /\ l.stack = s /\ l.behind = b /\ l.next = list.next
        /\ l.size = list.size /\ l.offset = list.offset /\ l.rows = list.rows /\ l.over = list.over
    BY <1>1 DEF PageSound, ListSignals
  <2>2. loadList(l)
    BY <1>9
  <2> HIDE DEF l
  <2>3. PageSound(l)
    BY <1>1, <1>9, <2>1 DEF PageSound
  <2>4. Query(l).after = Top(s)
    BY <2>1 DEF Query
  <2>5. l.behind # {} => OnFrom(l.behind, Query(l))
    BY <1>9, <2>1, <2>4 DEF OnFrom
  <2> QED
    BY <1>1, <1>9, <2>2, <2>3, <2>5, LoadWalks
<1>10. ASSUME CursorNext PROVE Goal
  <2> DEFINE s == Append(list.stack, list.next)
  <2>1. list.next \in Cursors /\ list.stack \in Seq(Cursors)
    BY <1>1, <1>10 DEF CursorNext, PageSound
  <2>2. s \in Seq(Cursors) /\ s # <<>> /\ s[Len(s)] = list.next
    BY <2>1
  <2>3. loadList([list EXCEPT !.stack = s, !.behind = list.rows]) /\ UNCHANGED url
    BY <1>10 DEF CursorNext
  <2>4. Top(s) = list.next /\ \E r \in list.rows : list.next = encodeCursor(r)
    BY <1>1, <1>10, <2>2 DEF CursorNext, PageSound, Top
  <2> HIDE DEF s
  <2> QED
    BY <1>1, <1>9, <2>2, <2>3, <2>4 DEF PageSound
<1>11. ASSUME CursorPrev PROVE Goal
  <2> DEFINE s == SubSeq(list.stack, 1, Len(list.stack) - 1)
  <2>1. list.stack \in Seq(Cursors) /\ list.stack # <<>>
    BY <1>1, <1>11 DEF CursorPrev, cursorMode, PageSound
  <2>2. s \in Seq(Cursors)
    BY <2>1
  <2>3. loadList([list EXCEPT !.stack = s, !.behind = {}]) /\ UNCHANGED url
    BY <1>11 DEF CursorPrev
  <2>4. {} \in Tables
    BY FS_EmptySet DEF Tables
  <2> HIDE DEF s
  <2> QED
    BY <1>9, <2>2, <2>3, <2>4
<1>12. ASSUME ngOnInit PROVE Goal
  <2>1. /\ list' = [Page(url) EXCEPT !.loading = TRUE] /\ UNCHANGED url
        /\ req'.pc = "asked" /\ req'.q = Query(Page(url)) /\ req' = [f \in RequestFields |-> req'[f]]
    BY <1>12 DEF ngOnInit, NoRequest, RequestFields
  <2>2. PageSound(list') /\ list'.behind = {} /\ Asks(req'.q)
    BY <1>1, <2>1, NewPageSound
  <2> QED
    BY <1>1, <2>1, <2>2 DEF Walks
<1>13. ASSUME Counts PROVE Goal
  <2>1. /\ UNCHANGED <<list, url>> /\ req'.pc = "counted" /\ req.pc = "asked" /\ req'.q = req.q
        /\ req' = [f \in RequestFields |-> req'[f]]
    BY <1>1, <1>13 DEF Counts, Walks, RequestFields
  <2> QED
    BY <1>1, <2>1 DEF Walks
<1>14. ASSUME Lists PROVE Goal
  <2>1. /\ UNCHANGED url /\ req'.pc = "answered" /\ req.pc = "counted" /\ req'.q = req.q
        /\ req'.rows = Slice(req.q, req.q.size) /\ req'.next = nextCursor(req.q)
        /\ req' = [f \in RequestFields |-> req'[f]]
    BY <1>1, <1>14 DEF Lists, Walks, RequestFields
  <2>2. /\ list' = [f \in ListSignals |-> list'[f]]
        /\ list'.stack = list.stack /\ list'.next = list.next /\ list'.size = list.size
        /\ list'.offset = list.offset /\ list'.rows = list.rows /\ list'.over = rows
        /\ list'.behind = list.behind
    BY <1>1, <1>14 DEF Lists, PageSound, ListSignals
  <2>3. PageSound(list')
    BY <1>1, <2>2 DEF PageSound
  <2>4. Answers(req'.rows, req'.next, list'.over, req'.q)
    BY <2>1, <2>2, SliceReads, NextReads DEF Answers
  <2> QED
    BY <1>1, <2>1, <2>2, <2>3, <2>4 DEF Walks
<1>15. ASSUME AnswerLands PROVE Goal
  <2>1. req'.pc = "none" /\ req.pc = "answered" /\ UNCHANGED url
        /\ req' = [f \in RequestFields |-> req'[f]]
    BY <1>15 DEF AnswerLands, NoRequest, RequestFields
  <2>2. /\ list' = [f \in ListSignals |-> list'[f]]
        /\ list'.stack = list.stack /\ list'.size = list.size /\ list'.offset = list.offset
        /\ list'.over = list.over /\ list'.behind = list.behind
        /\ list'.rows = req.rows /\ list'.next = req.next /\ list'.answered = req.q
    BY <1>1, <1>15 DEF AnswerLands, PageSound, ListSignals
  <2>3. Asks(req.q) /\ Answers(req.rows, req.next, list.over, req.q) /\ list.over \in Tables
    BY <1>1, <2>1 DEF Walks, PageSound
  <2>4. req.rows \in Tables /\ req.rows \subseteq Events
    BY <2>3, SlicesAreRows DEF Answers, Tables
  <2>5. req.next # None => \E r \in req.rows : req.next = encodeCursor(r)
    BY <2>3, CursorOfARow DEF Answers
  <2>6. req.next \in Cursors \cup {None}
    BY <2>4, <2>5 DEF Cursors
  <2>7. PageSound(list')
    BY <1>1, <2>2, <2>4, <2>5, <2>6 DEF PageSound
  <2>8. list.behind # {} => OnFrom(list.behind, req.q)
    BY <1>1, <2>1 DEF Walks
  <2> QED
    BY <1>1, <2>1, <2>2, <2>3, <2>7, <2>8 DEF Walks
<1>16. ASSUME RequestFails PROVE Goal
  <2>1. req'.pc = "none" /\ UNCHANGED url /\ req' = [f \in RequestFields |-> req'[f]]
    BY <1>16 DEF RequestFails, NoRequest, RequestFields
  <2>2. /\ list' = [f \in ListSignals |-> list'[f]] /\ list'.error = TRUE
        /\ list'.stack = list.stack /\ list'.next = list.next /\ list'.size = list.size
        /\ list'.offset = list.offset /\ list'.rows = list.rows /\ list'.over = list.over
        /\ list'.behind = list.behind
    BY <1>1, <1>16 DEF RequestFails, PageSound, ListSignals
  <2>3. PageSound(list')
    BY <1>1, <2>2 DEF PageSound
  <2> QED
    BY <1>1, <2>1, <2>2, <2>3 DEF Walks
<1>17. ASSUME PageNext PROVE Goal
  BY <1>3, <1>5, <1>7, <1>8, <1>10, <1>11, <1>12, <1>13, <1>14, <1>15, <1>16, <1>17
     DEF PageNext, onCursorMove, queryEvents
<1>18. Goal
  BY <1>2, <1>17 DEF Next, vars
<1> QED
  BY <1>1, <1>18, RowsFinite DEF Walking

(* What the walk's answer holds.                                            *)
LEMMA AnswerGoesOn ==
    ASSUME NEW T \in Tables, NEW S \in Tables, NEW q, Asks(q), OnFrom(S, q), NEW e \in T,
           q.filter \in {None, e.type}, InOrder(q.order, LastOf(S, q.order), e),
           e.at # LastOf(S, q.order).at,
           \/ NextIn(T, q) = None \/ SliceIn(T, q, q.size) = {}
           \/ ~InOrder(q.order, LastOf(SliceIn(T, q, q.size), q.order), e)
    PROVE  e \in SliceIn(T, q, q.size)
<1> DEFINE c == LastOf(S, q.order)
<1>1. PICK r \in S : q.after = encodeCursor(r)
  BY DEF OnFrom
<1>2. c \in S /\ (r = c \/ InOrder(q.order, r, c))
  BY <1>1, LastOfIsLast
<1>3. /\ c \in Events /\ r \in Events /\ e \in Events
      /\ c.at \in Int /\ r.at \in Int /\ e.at \in Int
  BY <1>1, <1>2, EventsAreNamed DEF Tables
<1>4. q.after # None /\ Position(q.after).at = r.at
  BY <1>1, <1>3, NoneIsNoCursor DEF Position, encodeCursor
<1>5. InOrder(q.order, Position(q.after), e)
  BY <1>2, <1>3, <1>4 DEF InOrder, Precedes
<1>6. e \in CandidatesIn(T, q)
  BY <1>4, <1>5 DEF CandidatesIn
<1> QED
  BY <1>4, <1>6, LastPage, PageHasNoHoles

(* queryEvents and onCursorMove: the walk past the count's cap misses no    *)
(* row, but for those of the millisecond a page ended in, whatever is       *)
(* stored, dropped or deleted between the pages, whatever requests fail or  *)
(* overlap, in either order and for any filter; and a page that promises no *)
(* next is the last.                                                        *)
THEOREM WalkIsWhole == Spec => []WalkMissesNothing
<1>1. Init => Walking
  <2> SUFFICES ASSUME Init PROVE Walking
    OBVIOUS
  <2>1. PICK plan \in Plans : rows = plan.rows
    BY DEF Init, StoreInit
  <2>2. rows \in Tables
    BY <2>1, PlansAreSound DEF Tables
  <2>3. url = Address /\ Address.offset \in Nat
    BY DEF Init, Address
  <2>4. req = [f \in RequestFields |-> req[f]]
    BY DEF Init, NoRequest, RequestFields
  <2>5. \/ /\ list = [Page(Address) EXCEPT !.loading = TRUE]
           /\ req.pc = "asked" /\ req.q = Query(Page(Address))
        \/ list = Page(Address) /\ req.pc = "none"
    <3>1. CASE May("move")
      <4>1. req = [NoRequest EXCEPT !.pc = "asked", !.q = Query(Page(Address))]
        BY <3>1 DEF Init
      <4> QED
        BY <3>1, <4>1 DEF Init, NoRequest
    <3>2. CASE ~May("move")
      BY <3>2 DEF Init, NoRequest
    <3> QED
      BY <3>1, <3>2
  <2>6. PageSound(list) /\ list.behind = {} /\ (req.pc # "none" => req.pc = "asked" /\ Asks(req.q))
    BY <2>3, <2>5, NewPageSound
  <2> QED
    BY <2>2, <2>3, <2>4, <2>6 DEF Walking, Walks
<1>2. StoreTypeOK /\ Walking /\ [Next]_vars => Walking'
  BY NextWalking
<1>3. Walking => WalkMissesNothing
  <2> SUFFICES ASSUME Walking, AtRest, list.behind # {},
                      NEW e \in UpTo(Beyond(LastOf(list.behind, list.answered.order), list.answered),
                                     IF list.next = None THEN {} ELSE list.rows, list.answered),
                      e.at # LastOf(list.behind, list.answered.order).at
               PROVE  e \in list.rows
    BY DEF WalkMissesNothing
  <2>1. /\ list.over \in Tables /\ list.behind \in Tables
        /\ Asks(list.answered) /\ OnFrom(list.behind, list.answered)
        /\ list.rows = SliceIn(list.over, list.answered, list.answered.size)
        /\ list.next = NextIn(list.over, list.answered)
    BY DEF Walking, Walks, PageSound, Answers, AtRest
  <2>2. /\ e \in list.over /\ list.answered.filter \in {None, e.type}
        /\ InOrder(list.answered.order, LastOf(list.behind, list.answered.order), e)
        /\ \/ list.next = None \/ list.rows = {}
           \/ ~InOrder(list.answered.order, LastOf(list.rows, list.answered.order), e)
    BY DEF UpTo, Beyond
  <2> QED
    BY <2>1, <2>2, AnswerGoesOn
<1>4. Spec => [](Ledger /\ Replayed)
  BY StoreInvariance
<1> QED
  BY <1>1, <1>2, <1>3, <1>4, PTL DEF Spec, Ledger
=============================================================================
