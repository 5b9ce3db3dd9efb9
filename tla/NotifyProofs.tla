----------------------------- MODULE NotifyProofs -----------------------------
(***************************************************************************)
(* Nobody is passed over by the digest, nobody is told twice and the badge *)
(* counts what is unread, for any notifications, streams, limits and plans. *)
(***************************************************************************)
EXTENDS NotificationBell, FiniteSetTheorems, TLAPS

Fates == {"unborn", "waiting", "held", "done", "lost"}
Hand == [n : Notices, fresh : BOOLEAN]

(* A row as the statements write it; its flag read may be anything.        *)
RowOK(r) == /\ r = [at |-> r.at, ms |-> r.ms, read |-> r.read, gone |-> r.gone]
            /\ r.at \in Nat /\ r.gone \in BOOLEAN

(* The table, which has a newest row as soon as it has one.                *)
Table ==
    /\ rows = [n \in Notices |-> rows[n]] /\ \A n \in Notices : RowOK(rows[n])
    /\ \A n \in Notices : rows[n].at > 0 => \E x \in Notices : \A y \in Notices : rows[y].at <= rows[x].at

(* The messages: a loop holds what came through it and was not acknowledged, *)
(* and its row is there; only what is done is purged.                       *)
Messages ==
    /\ queue \in [Notices -> [fate : Fates, tries : Nat]]
    /\ hand = [l \in Loops |-> hand[l]]
    /\ \A l \in Loops : hand[l] # None =>
          /\ hand[l] \in Hand /\ LoopOf(hand[l].n) = l
          /\ queue[hand[l].n].fate = "held" /\ rows[hand[l].n].at > 0
    /\ \A n \in Notices : rows[n].gone => rows[n].at > 0 /\ queue[n].fate = "done"

(* What is on the wire, or was toasted, has a row; the plugin knows live    *)
(* connections only.                                                       *)
Wires ==
    /\ source \in [Streams -> {"new", "asked", "open", "closed"}]
    /\ subscribed \subseteq {c \in Streams : Live(c)}
    /\ wire \in [Streams -> Seq(Notices)] /\ toasts \in [Notices -> Nat] /\ doubled \in BOOLEAN
    /\ \A c \in Streams : \A i \in DOMAIN wire[c] : rows[wire[c][i]].at > 0
    /\ \A n \in Notices : toasts[n] > 0 => rows[n].at > 0

(* With one live stream at most, a notification is in one place: with the  *)
(* loop that made its row, on one wire once, or toasted.                   *)
OneLive == \A c, d \in Streams : Live(c) /\ Live(d) => c = d
Once == \A c, d \in Streams : \A i \in DOMAIN wire[c], j \in DOMAIN wire[d] :
            wire[c][i] = wire[d][j] => c = d /\ i = j
Unheard == \A c \in Streams : \A i \in DOMAIN wire[c] : toasts[wire[c][i]] = 0
Untold == \A l \in Loops : hand[l] # None /\ hand[l].fresh =>
            /\ toasts[hand[l].n] = 0
            /\ \A c \in Streams : \A i \in DOMAIN wire[c] : wire[c][i] # hand[l].n
AtMostOnce == \A n \in Notices : toasts[n] <= 1
Places == ~doubled => OneLive /\ Once /\ Unheard /\ Untold /\ AtMostOnce

(* The stamp is no younger than the table, and what is older than it was   *)
(* mailed or had no reason to be.                                          *)
Stamp ==
    /\ digest.last \in Nat
    /\ digest = [step |-> digest.step, counted |-> digest.counted, last |-> digest.last, due |-> digest.due]
    /\ digest.step = "sent" => digest.counted \subseteq mailed
    /\ digest.last = 0 \/ \E x \in Notices : digest.last <= rows[x].at
    /\ \A n \in Notices : Exists(n) /\ rows[n].at <= digest.last => n \in mailed \cup exempt

Telling == Table /\ Messages /\ Wires /\ Places /\ Stamp

-----------------------------------------------------------------------------
LEMMA NewestIsLast ==
    ASSUME Table
    PROVE  /\ Newest.at \in Nat
           /\ \A n \in Notices : rows[n].at <= Newest.at
           /\ Newest.at = 0 \/ \E n \in Notices : rows[n].at = Newest.at
<1>1. CASE \E n \in Notices : rows[n].at > 0
  <2>1. PICK x \in Notices : \A y \in Notices : rows[y].at <= rows[x].at
    BY <1>1 DEF Table
  <2>2. Newest = CHOOSE r \in {rows[n] : n \in Notices} : \A y \in Notices : rows[y].at <= r.at
    BY <1>1 DEF Newest
  <2>3. \E r \in {rows[n] : n \in Notices} : \A y \in Notices : rows[y].at <= r.at
    BY <2>1
  <2>4. Newest \in {rows[n] : n \in Notices} /\ \A y \in Notices : rows[y].at <= Newest.at
    BY <2>2, <2>3
  <2>5. PICK n \in Notices : Newest = rows[n]
    BY <2>4
  <2> QED BY <2>4, <2>5 DEF Table, RowOK
<1>2. CASE ~\E n \in Notices : rows[n].at > 0
  <2>1. Newest.at = 0
    BY <1>2 DEF Newest, NoRow
  <2> QED BY <1>2, <2>1 DEF Table, RowOK
<1> QED BY <1>1, <1>2

-----------------------------------------------------------------------------
(* What a step makes of the rows: either every row keeps its time and its  *)
(* purge, or one message that waits gets the newest row.                   *)
Kept == /\ rows' = [n \in Notices |-> rows'[n]]
        /\ \A n \in Notices : RowOK(rows[n])' /\ rows'[n].at = rows[n].at /\ rows'[n].gone = rows[n].gone
Purged == \E n \in Notices : /\ Exists(n) /\ rows[n].read /\ queue[n].fate = "done"
                             /\ rows' = [rows EXCEPT ![n].gone = TRUE]
                             /\ UNCHANGED <<queue, hand, subscribed, wire, digest, mailed, exempt, source, toasts, doubled>>
Born(n) == /\ Waits(n) /\ ~Exists(n)
           /\ \E s \in {Newest.ms, Newest.ms + 1} :
                 rows' = [rows EXCEPT ![n] = [at |-> Newest.at + 1, ms |-> s, read |-> FALSE, gone |-> FALSE]]

LEMMA InsertedOrKept ==
    ASSUME Table, NEW n \in Notices, NEW burst \in BOOLEAN, Waits(n),
           rows' = insertNotification(n, burst)
    PROVE  Kept \/ Born(n)
<1>1. CASE Exists(n)
  BY <1>1 DEF insertNotification, Kept, Table, RowOK
<1>2. CASE ~Exists(n)
  BY <1>2 DEF insertNotification, Born
<1> QED BY <1>1, <1>2

LEMMA RowsStay ==
    ASSUME Table, rows' = rows
    PROVE  Kept
BY DEF Table, Kept, RowOK

LEMMA ServedKeeps ==
    ASSUME Table, Served
    PROVE  Kept /\ UNCHANGED <<queue, hand, subscribed, wire, digest, mailed, exempt, source, toasts, doubled>>
<1>1. PICK i \in DOMAIN reqs :
         /\ rows' = Effect(reqs[i])
         /\ UNCHANGED <<plan, queue, hand, subscribed, wire, mails, bell, source, toasts, doubled>>
  BY DEF Served
<1> DEFINE q == reqs[i]
<1>2. CASE rows' = rows
  BY <1>1, <1>2, RowsStay DEF mails
<1>3. CASE rows' = markAllRead
  BY <1>1, <1>3 DEF markAllRead, Kept, Table, RowOK, mails
<1>4. CASE rows' = setReadState(q.n, q.read)
  <2>0. q.n \in Notices \/ q.n \notin Notices
    OBVIOUS
  <2>1. \A n \in Notices : n # q.n => rows'[n] = rows[n]
    BY <1>4 DEF setReadState, Table
  <2>2. q.n \in Notices => rows'[q.n] = [rows[q.n] EXCEPT !.read = q.read]
    BY <1>4 DEF setReadState, Table
  <2>3. rows' = [n \in Notices |-> rows'[n]]
    BY <1>4 DEF setReadState, Table
  <2>4. \A n \in Notices : RowOK(rows[n])' /\ rows'[n].at = rows[n].at /\ rows'[n].gone = rows[n].gone
    <3>1. TAKE n \in Notices
    <3>2. CASE n # q.n
      BY <3>2, <2>1 DEF Table, RowOK
    <3>3. CASE n = q.n
      BY <3>3, <2>2 DEF Table, RowOK
    <3> QED BY <3>2, <3>3
  <2> QED BY <1>1, <2>3, <2>4 DEF Kept, mails
<1> QED BY <1>1, <1>2, <1>3, <1>4 DEF Effect

(* A row that is born is the newest.                                       *)
LEMMA BornIsNewest ==
    ASSUME Table, NEW n \in Notices, Born(n)
    PROVE  /\ rows'[n].at = Newest.at + 1 /\ rows'[n].gone = FALSE /\ rows'[n].at \in Nat
           /\ \A m \in Notices : m # n => rows'[m] = rows[m]
           /\ \A m \in Notices : rows[m].at < rows'[n].at
           /\ Table'
<1> USE DEF Born
<1>1. PICK s \in {Newest.ms, Newest.ms + 1} :
         rows' = [rows EXCEPT ![n] = [at |-> Newest.at + 1, ms |-> s, read |-> FALSE, gone |-> FALSE]]
  OBVIOUS
<1>2. rows'[n] = [at |-> Newest.at + 1, ms |-> s, read |-> FALSE, gone |-> FALSE]
  BY <1>1 DEF Table
<1>3. \A m \in Notices : m # n => rows'[m] = rows[m]
  BY <1>1 DEF Table
<1>4. rows' = [m \in Notices |-> rows'[m]]
  BY <1>1 DEF Table
<1>5. /\ Newest.at \in Nat
      /\ \A m \in Notices : rows[m].at <= Newest.at
  BY NewestIsLast
<1>6. rows'[n].at = Newest.at + 1 /\ rows'[n].gone = FALSE
  BY <1>2
<1>7. \A m \in Notices : rows[m].at \in Nat /\ RowOK(rows[m])
  BY DEF Table, RowOK
<1>8. \A m \in Notices : rows[m].at < rows'[n].at
  BY <1>5, <1>6, <1>7
<1>9. \A m \in Notices : RowOK(rows[m])'
  <2>1. RowOK(rows[n])'
    <3>1. /\ rows'[n].at = Newest.at + 1 /\ rows'[n].ms = s
          /\ rows'[n].read = FALSE /\ rows'[n].gone = FALSE
      BY <1>2
    <3>2. rows'[n] = [at |-> rows'[n].at, ms |-> rows'[n].ms, read |-> rows'[n].read, gone |-> rows'[n].gone]
      BY <1>2, <3>1
    <3>3. Newest.at + 1 \in Nat
      BY <1>5
    <3> QED BY <3>1, <3>2, <3>3 DEF RowOK
  <2>2. \A m \in Notices : m # n => RowOK(rows[m])'
    BY <1>3, <1>7 DEF RowOK
  <2> QED BY <2>1, <2>2
<1>10. \A m \in Notices : rows'[m].at <= rows'[n].at
  BY <1>3, <1>5, <1>6, <1>7
<1>11. Table'
  BY <1>4, <1>9, <1>10 DEF Table
<1> QED BY <1>3, <1>5, <1>6, <1>8, <1>11

LEMMA KeptIsTable ==
    ASSUME Table, Kept
    PROVE  Table'
BY DEF Table, Kept

LEMMA PurgedIsTable ==
    ASSUME Table, NEW n \in Notices, rows' = [rows EXCEPT ![n].gone = TRUE]
    PROVE  /\ Table'
           /\ \A m \in Notices : m # n => rows'[m] = rows[m]
           /\ rows'[n].at = rows[n].at /\ rows'[n].gone = TRUE
<1>1. rows'[n] = [rows[n] EXCEPT !.gone = TRUE]
  BY DEF Table
<1>2. \A m \in Notices : m # n => rows'[m] = rows[m]
  BY DEF Table
<1>3. rows' = [m \in Notices |-> rows'[m]]
  BY DEF Table
<1>4. RowOK(rows[n])
  BY DEF Table
<1>5. rows'[n].at = rows[n].at /\ rows'[n].gone = TRUE /\ RowOK(rows[n])'
  BY ZenonT(60), <1>1, <1>4 DEF RowOK
<1>6. \A m \in Notices : RowOK(rows[m])' /\ rows'[m].at = rows[m].at
  BY <1>2, <1>5 DEF Table, RowOK
<1>7. Table'
  BY <1>3, <1>6 DEF Table
<1> QED BY <1>2, <1>5, <1>7

-----------------------------------------------------------------------------
(* The steps, by what they may touch.                                      *)

LEMMA ClientStands ==
    ASSUME \/ connect \/ TokenIsRefused \/ ReconnectTimer \/ openDrawer \/ CloseDrawer \/ setUnreadOnly
           \/ retryLoad \/ loadMore \/ SetReadState \/ MarkAllRead \/ RequestIsLost \/ Lands
    PROVE  UNCHANGED <<service, source, toasts, doubled>>
BY DEF connect, TokenIsRefused, ReconnectTimer, openDrawer, CloseDrawer, setUnreadOnly, retryLoad, loadMore,
       SetReadState, MarkAllRead, RequestIsLost, Lands, told

LEMMA StreamStands ==
    ASSUME disconnect \/ TokenComes \/ Subscribe \/ onopen \/ onerror \/ onStreamNotification
    PROVE  UNCHANGED <<queue, hand, rows, digest, mailed, exempt>>
BY DEF disconnect, TokenComes, Subscribe, onopen, onerror, onStreamNotification, mails, service

LEMMA ServiceStands ==
    ASSUME ServiceRuns
    PROVE  ServiceStep /\ UNCHANGED <<source, toasts, doubled>>
BY DEF ServiceRuns

LEMMA DigestStands ==
    ASSUME findCandidates \/ unreadStats \/ sendMail \/ stampSent \/ IntervalPasses
    PROVE  UNCHANGED <<queue, hand, rows, subscribed, wire>>
BY DEF findCandidates, unreadStats, sendMail, stampSent, IntervalPasses, store

StreamStep == disconnect \/ TokenComes \/ Subscribe \/ onopen \/ onerror \/ onStreamNotification
DigestStep == findCandidates \/ unreadStats \/ sendMail \/ stampSent \/ IntervalPasses
LoopStep == Publish \/ Project \/ Tell \/ ProjectFails \/ Die \/ purgeReadNotifications

LEMMA Steps ==
    ASSUME [Next]_vars
    PROVE  \/ UNCHANGED <<service, source, toasts, doubled>>
           \/ StreamStep
           \/ Served
           \/ DigestStep /\ UNCHANGED <<source, toasts, doubled>>
           \/ LoopStep /\ UNCHANGED <<source, toasts, doubled>>
<1>1. CASE UNCHANGED vars
  BY <1>1 DEF vars, client, told
<1>2. CASE ServiceRuns
  BY <1>2, ServiceStands DEF ServiceStep, DigestStep, LoopStep
<1>3. CASE Stream \/ User \/ RequestIsLost \/ Lands
  BY <1>3, ClientStands DEF Stream, User, StreamStep
<1> QED BY <1>1, <1>2, <1>3 DEF Next

-----------------------------------------------------------------------------
(* The table.                                                              *)

LEMMA Writes ==
    ASSUME Table, [Next]_vars
    PROVE  Kept \/ Purged \/ \E n \in Notices : Born(n)
<1>1. CASE rows' = rows
  BY <1>1, RowsStay
<1>2. CASE Served
  BY <1>2, ServedKeeps
<1>3. CASE LoopStep /\ UNCHANGED <<source, toasts, doubled>>
  <2>1. CASE Publish \/ Tell \/ Die
    BY <2>1, <1>1 DEF Publish, Tell, Die
  <2>2. CASE Project
    BY <2>2, InsertedOrKept DEF Project
  <2>3. CASE ProjectFails
    <3>1. PICK n \in Notices, committed \in BOOLEAN :
             Waits(n) /\ rows' = IF committed THEN insertNotification(n, FALSE) ELSE rows
      BY <2>3 DEF ProjectFails
    <3> QED BY <3>1, <1>1, InsertedOrKept
  <2>4. CASE purgeReadNotifications
    BY <2>4, <1>3 DEF purgeReadNotifications, Purged, mails
  <2> QED BY <1>3, <2>1, <2>2, <2>3, <2>4 DEF LoopStep
<1> QED BY <1>1, <1>2, <1>3, Steps, StreamStands, DigestStands DEF StreamStep, DigestStep, service

LEMMA TableNext ==
    ASSUME Table, [Next]_vars
    PROVE  Table' /\ \A n \in Notices : rows[n].at > 0 => rows'[n].at > 0
<1>1. CASE Kept
  BY <1>1, KeptIsTable DEF Kept
<1>2. CASE Purged
  BY <1>2, PurgedIsTable DEF Purged
<1>3. CASE \E n \in Notices : Born(n)
  <2>1. PICK n \in Notices : Born(n)
    BY <1>3
  <2>2. rows'[n].at = Newest.at + 1 /\ Newest.at \in Nat
    BY <2>1, BornIsNewest, NewestIsLast
  <2>3. Table' /\ \A m \in Notices : m # n => rows'[m] = rows[m]
    BY <2>1, BornIsNewest
  <2>4. rows'[n].at > 0
    BY <2>2
  <2> QED BY <2>3, <2>4
<1> QED BY <1>1, <1>2, <1>3, Writes

-----------------------------------------------------------------------------
(* The digest.                                                             *)

LEMMA StampWhenStill ==
    ASSUME Table, Stamp, [Next]_vars, UNCHANGED <<digest, mailed, exempt>>
    PROVE  Stamp'
<1>1. CASE Kept
  BY <1>1 DEF Kept, Stamp, Exists
<1>2. CASE Purged
  <2>1. PICK n \in Notices : rows' = [rows EXCEPT ![n].gone = TRUE]
    BY <1>2 DEF Purged
  <2>2. \A m \in Notices : rows'[m].at = rows[m].at /\ (Exists(m)' => Exists(m))
    BY <2>1, PurgedIsTable DEF Exists
  <2> QED BY <2>2 DEF Stamp
<1>3. CASE \E n \in Notices : Born(n)
  <2>1. PICK n \in Notices : Born(n)
    BY <1>3
  <2>2. /\ rows'[n].at \in Nat /\ \A m \in Notices : m # n => rows'[m] = rows[m]
        /\ \A m \in Notices : rows[m].at < rows'[n].at
        /\ rows'[n].at = Newest.at + 1 /\ Newest.at \in Nat
    BY <2>1, BornIsNewest, NewestIsLast
  <2>3. \A m \in Notices : rows[m].at \in Nat
    BY DEF Table, RowOK
  <2>4. digest.last < rows'[n].at
    BY <2>2, <2>3 DEF Stamp
  <2>5. \A m \in Notices : m # n => (Exists(m)' <=> Exists(m))
    BY <2>2 DEF Exists
  <2>6. digest'.last = 0 \/ \E x \in Notices : digest'.last <= rows'[x].at
    BY <2>2, <2>4 DEF Stamp
  <2>7. \A m \in Notices : Exists(m)' /\ rows'[m].at <= digest'.last => m \in (mailed \cup exempt)'
    <3>1. ASSUME NEW m \in Notices, Exists(m)', rows'[m].at <= digest'.last
          PROVE  m \in mailed \cup exempt
      <4>1. m # n
        BY <3>1, <2>4, <2>2 DEF Stamp
      <4> QED BY <4>1, <3>1, <2>2, <2>5 DEF Stamp
    <3> QED BY <3>1
  <2> QED BY <2>6, <2>7 DEF Stamp
<1> QED BY <1>1, <1>2, <1>3, Writes

LEMMA StampNext ==
    ASSUME Table, Stamp, [Next]_vars
    PROVE  Stamp'
<1>1. CASE UNCHANGED <<digest, mailed, exempt>>
  BY <1>1, StampWhenStill
<1>2. CASE DigestStep /\ UNCHANGED <<source, toasts, doubled>>
  <2>0. rows' = rows /\ \A n \in Notices : Exists(n)' <=> Exists(n)
    BY <1>2, DigestStands DEF DigestStep, Exists
  <2>1. CASE findCandidates
    BY <2>0, <2>1 DEF findCandidates, Stamp
  <2>2. CASE unreadStats
    BY <2>0, <2>2 DEF unreadStats, Stamp
  <2>3. CASE sendMail
    BY <2>0, <2>3 DEF sendMail, Stamp
  <2>4. CASE stampSent
    <3>1. CASE digest' = [digest EXCEPT !.step = "idle", !.counted = {}] /\ UNCHANGED <<exempt, mailed>>
      BY <2>0, <3>1 DEF Stamp
    <3>2. CASE /\ digest' = [step |-> "idle", counted |-> {}, last |-> Newest.at, due |-> FALSE]
               /\ exempt' = exempt \cup ({n \in Notices : Exists(n)} \ digest.counted)
      <4>1. digest.counted \subseteq mailed /\ mailed' = mailed
        BY <2>4 DEF stampSent, Stamp
      <4>2. \A n \in Notices : Exists(n) => n \in mailed' \cup exempt'
        BY <4>1, <3>2
      <4>3. digest'.last = Newest.at /\ digest'.step = "idle"
            /\ digest' = [step |-> digest'.step, counted |-> digest'.counted, last |-> digest'.last, due |-> digest'.due]
        BY <3>2
      <4>4. Newest.at \in Nat /\ (Newest.at = 0 \/ \E x \in Notices : Newest.at <= rows'[x].at)
        BY <2>0, NewestIsLast
      <4> QED BY <2>0, <4>2, <4>3, <4>4 DEF Stamp
    <3> QED BY <2>4, <3>1, <3>2 DEF stampSent
  <2>5. CASE IntervalPasses
    BY <2>0, <2>5 DEF IntervalPasses, Stamp
  <2> QED BY <1>2, <2>1, <2>2, <2>3, <2>4, <2>5 DEF DigestStep
<1>3. CASE Die
  <2>1. rows' = rows /\ UNCHANGED <<mailed, exempt>> /\ \A n \in Notices : Exists(n)' <=> Exists(n)
    BY <1>3 DEF Die, Exists
  <2>2. digest' = [digest EXCEPT !.step = "idle", !.counted = {}]
    BY <1>3 DEF Die
  <2> QED BY <2>1, <2>2 DEF Stamp
<1>4. Publish \/ Project \/ Tell \/ ProjectFails \/ purgeReadNotifications => UNCHANGED <<digest, mailed, exempt>>
  BY DEF Publish, Project, Tell, ProjectFails, purgeReadNotifications, mails
<1> QED BY <1>1, <1>2, <1>3, <1>4, Steps, StreamStands, ServedKeeps DEF LoopStep, StreamStep, service

-----------------------------------------------------------------------------
(* The messages and the loops.                                             *)

LEMMA MessagesWhenLoops ==
    ASSUME Table, Messages, Table', LoopStep
    PROVE  Messages'
<1> USE ServiceAssumption DEF Messages
<1>0. \A n \in Notices : LoopOf(n) \in Loops
  BY DEF Loops
<1>1. CASE Publish
  <2>1. PICK n \in Notices : /\ queue[n].fate = "unborn" /\ queue' = [queue EXCEPT ![n].fate = "waiting"]
                             /\ UNCHANGED <<hand, rows>>
    BY <1>1 DEF Publish
  <2>2. queue' \in [Notices -> [fate : Fates, tries : Nat]]
    BY <2>1 DEF Fates
  <2>3. \A m \in Notices : m # n => queue'[m] = queue[m]
    BY <2>1
  <2>4. \A l \in Loops : hand[l] # None => hand[l].n \in Notices /\ hand[l].n # n
    BY <2>1 DEF Hand
  <2> QED BY <2>1, <2>2, <2>3, <2>4
<1>2. CASE Project
  <2>1. PICK n \in Notices, burst \in BOOLEAN :
           /\ Waits(n) /\ queue' = Taken(n) /\ rows' = insertNotification(n, burst)
           /\ hand' = [hand EXCEPT ![LoopOf(n)] = [n |-> n, fresh |-> ~Exists(n)]]
    BY <1>2 DEF Project
  <2>2. /\ queue' \in [Notices -> [fate : Fates, tries : Nat]] /\ queue'[n].fate = "held"
        /\ \A m \in Notices : m # n => queue'[m] = queue[m]
    BY <2>1 DEF Taken, Fates
  <2>3. Kept \/ Born(n)
    BY <2>1, InsertedOrKept
  <2>4. /\ rows'[n].at > 0
        /\ \A m \in Notices : rows[m].at > 0 => rows'[m].at > 0
        /\ \A m \in Notices : rows'[m].gone => rows[m].gone /\ rows'[m].at = rows[m].at
    <3>1. CASE Born(n)
      <4>1. /\ rows'[n].at = Newest.at + 1 /\ Newest.at \in Nat /\ rows'[n].gone = FALSE
            /\ \A m \in Notices : m # n => rows'[m] = rows[m]
        BY <3>1, BornIsNewest, NewestIsLast
      <4>2. rows'[n].at > 0
        BY <4>1
      <4> QED BY <4>1, <4>2
    <3>2. CASE Exists(n)
      <4>1. rows' = rows
        BY <2>1, <3>2 DEF insertNotification
      <4> QED BY <4>1, <3>2 DEF Exists
    <3>3. CASE ~Exists(n)
      BY <2>1, <3>3, <3>1 DEF insertNotification, Born
    <3> QED BY <3>1, <3>2, <3>3
  <2>5. queue[n].fate = "waiting"
    BY <2>1 DEF Waits
  <2>6. \A m \in Notices : rows'[m].gone => rows'[m].at > 0 /\ queue'[m].fate = "done"
    BY <2>2, <2>4, <2>5
  <2>7. hand' = [l \in Loops |-> hand'[l]]
    BY <2>1
  <2>8. hand'[LoopOf(n)] = [n |-> n, fresh |-> ~Exists(n)] /\ \A l \in Loops : l # LoopOf(n) => hand'[l] = hand[l]
    BY <2>1, <1>0
  <2>9. \A l \in Loops : hand'[l] # None =>
           /\ hand'[l] \in Hand /\ LoopOf(hand'[l].n) = l
           /\ queue'[hand'[l].n].fate = "held" /\ rows'[hand'[l].n].at > 0
    <3>1. TAKE l \in Loops
    <3>2. CASE l = LoopOf(n)
      BY <3>2, <2>8, <2>2, <2>4 DEF Hand
    <3>3. CASE l # LoopOf(n)
      <4>1. hand'[l] = hand[l]
        BY <3>3, <2>8
      <4>2. hand[l] # None => hand[l] \in Hand /\ hand[l].n \in Notices /\ hand[l].n # n
        BY <2>5 DEF Hand
      <4> QED BY <4>1, <4>2, <2>2, <2>4
    <3> QED BY <3>2, <3>3
  <2> QED BY <2>2, <2>6, <2>7, <2>9
<1>3. CASE Tell
  <2>1. PICK l \in Loops :
           /\ hand[l] # None /\ hand' = [hand EXCEPT ![l] = None] /\ rows' = rows
           /\ \/ queue' = [queue EXCEPT ![hand[l].n].fate = "done"]
              \/ queue' = [queue EXCEPT ![hand[l].n].fate = Unacked(hand[l].n)]
    BY <1>3 DEF Tell
  <2>2. hand[l].n \in Notices /\ LoopOf(hand[l].n) = l /\ queue[hand[l].n].fate = "held"
    BY <2>1 DEF Hand
  <2>3. PICK f \in Fates : queue' = [queue EXCEPT ![hand[l].n].fate = f]
    BY <2>1 DEF Fates, Unacked
  <2>4. queue' \in [Notices -> [fate : Fates, tries : Nat]]
    BY <2>2, <2>3
  <2>5. \A m \in Notices : m # hand[l].n => queue'[m] = queue[m]
    BY <2>3
  <2>6. hand' = [k \in Loops |-> hand'[k]] /\ hand'[l] = None /\ \A k \in Loops : k # l => hand'[k] = hand[k]
    BY <2>1
  <2>7. \A k \in Loops : k # l /\ hand[k] # None => hand[k].n \in Notices /\ hand[k].n # hand[l].n
    BY <2>2 DEF Hand
  <2>8. \A m \in Notices : rows[m].gone => m # hand[l].n
    BY <2>2
  <2> QED BY <2>1, <2>4, <2>5, <2>6, <2>7, <2>8
<1>4. CASE ProjectFails
  <2>1. PICK n \in Notices, committed \in BOOLEAN :
           /\ Waits(n) /\ rows' = (IF committed THEN insertNotification(n, FALSE) ELSE rows) /\ hand' = hand
           /\ queue' = [queue EXCEPT ![n] = [fate |-> IF @.tries + 1 >= MaxDeliver THEN "done" ELSE "waiting",
                                             tries |-> @.tries + 1]]
    BY <1>4 DEF ProjectFails
  <2>2. queue' \in [Notices -> [fate : Fates, tries : Nat]] /\ \A m \in Notices : m # n => queue'[m] = queue[m]
    BY <2>1 DEF Fates
  <2>3. queue[n].fate = "waiting" /\ \A l \in Loops : hand[l] # None => hand[l].n \in Notices /\ hand[l].n # n
    BY <2>1 DEF Waits, Hand
  <2>4. Kept \/ Born(n)
    BY <2>1, InsertedOrKept, RowsStay
  <2>5. /\ \A m \in Notices : rows[m].at > 0 => rows'[m].at > 0
        /\ \A m \in Notices : rows'[m].gone => rows[m].gone /\ rows'[m].at = rows[m].at
    <3>1. CASE Born(n)
      <4>1. /\ rows'[n].at = Newest.at + 1 /\ Newest.at \in Nat /\ rows'[n].gone = FALSE
            /\ \A m \in Notices : m # n => rows'[m] = rows[m]
        BY <3>1, BornIsNewest, NewestIsLast
      <4>2. rows'[n].at > 0
        BY <4>1
      <4> QED BY <4>1, <4>2
    <3> QED BY <2>4, <3>1 DEF Kept
  <2> QED BY <2>1, <2>2, <2>3, <2>5
<1>5. CASE Die
  <2>1. /\ rows' = rows /\ hand' = [l \in Loops |-> None]
        /\ queue' = [n \in Notices |-> IF queue[n].fate # "held" THEN queue[n]
                                       ELSE [queue[n] EXCEPT !.fate = Unacked(n)]]
    BY <1>5 DEF Die
  <2>2. queue' \in [Notices -> [fate : Fates, tries : Nat]]
    BY <2>1 DEF Fates, Unacked
  <2>3. \A m \in Notices : queue[m].fate = "done" => queue'[m].fate = "done"
    BY <2>1
  <2> QED BY <2>1, <2>2, <2>3
<1>6. CASE purgeReadNotifications
  <2>1. PICK n \in Notices : /\ Exists(n) /\ queue[n].fate = "done" /\ rows' = [rows EXCEPT ![n].gone = TRUE]
                             /\ UNCHANGED <<queue, hand>>
    BY <1>6 DEF purgeReadNotifications
  <2>2. /\ rows'[n].at = rows[n].at /\ \A m \in Notices : m # n => rows'[m] = rows[m]
    BY <2>1, PurgedIsTable
  <2>3. \A m \in Notices : rows'[m].at = rows[m].at
    BY <2>2
  <2>4. \A m \in Notices : rows'[m].gone => rows'[m].at > 0 /\ queue[m].fate = "done"
    BY <2>1, <2>2 DEF Exists
  <2>5. \A l \in Loops : hand[l] # None => hand[l].n \in Notices
    BY DEF Hand
  <2> QED BY <2>1, <2>3, <2>4, <2>5
<1> QED BY <1>1, <1>2, <1>3, <1>4, <1>5, <1>6 DEF LoopStep

LEMMA MessagesNext ==
    ASSUME Table, Messages, [Next]_vars
    PROVE  Messages'
<1>1. CASE UNCHANGED <<queue, hand, rows>>
  BY <1>1 DEF Messages
<1>2. CASE Served
  <2>1. Kept /\ UNCHANGED <<queue, hand>>
    BY <1>2, ServedKeeps
  <2>2. \A l \in Loops : hand[l] # None => hand[l].n \in Notices
    BY DEF Messages, Hand
  <2> QED BY <2>1, <2>2 DEF Messages, Kept
<1>3. CASE LoopStep
  BY <1>3, TableNext, MessagesWhenLoops
<1> QED BY <1>1, <1>2, <1>3, Steps, StreamStands, DigestStands DEF StreamStep, DigestStep, service

-----------------------------------------------------------------------------
(* The wires.                                                              *)

LEMMA SeqEnds ==
    ASSUME NEW s \in Seq(Notices)
    PROVE  /\ DOMAIN s = 1 .. Len(s) /\ Len(s) \in Nat /\ \A i \in DOMAIN s : s[i] \in Notices
           /\ \A n \in Notices : /\ Append(s, n) \in Seq(Notices)
                                 /\ DOMAIN Append(s, n) = 1 .. Len(s) + 1
                                 /\ \A i \in DOMAIN s : Append(s, n)[i] = s[i]
                                 /\ Append(s, n)[Len(s) + 1] = n
           /\ s # <<>> => /\ Tail(s) \in Seq(Notices) /\ Head(s) = s[1] /\ 1 \in DOMAIN s
                          /\ \A i \in DOMAIN Tail(s) : i \in Nat /\ i + 1 \in DOMAIN s /\ i + 1 # 1 /\ Tail(s)[i] = s[i + 1]
OBVIOUS

LEMMA OnWire ==
    ASSUME Wires, NEW c \in Streams, NEW i \in DOMAIN wire[c]
    PROVE  wire[c][i] \in Notices /\ i \in Nat /\ i <= Len(wire[c])
BY SeqEnds DEF Wires

(* What a push puts on the wires.                                          *)
LEMMA Pushed ==
    ASSUME Wires, NEW h \in Hand
    PROVE  /\ publish(h) \in [Streams -> Seq(Notices)]
           /\ \A c \in Streams : \A i \in DOMAIN publish(h)[c] :
                 \/ i \in DOMAIN wire[c] /\ publish(h)[c][i] = wire[c][i]
                 \/ h.fresh /\ c \in subscribed /\ i = Len(wire[c]) + 1 /\ publish(h)[c][i] = h.n
<1>1. h.n \in Notices
  BY DEF Hand
<1>2. \A c \in Streams : wire[c] \in Seq(Notices)
  BY DEF Wires
<1>3. ASSUME NEW c \in Streams
      PROVE  /\ publish(h)[c] \in Seq(Notices)
             /\ \A i \in DOMAIN publish(h)[c] :
                   \/ i \in DOMAIN wire[c] /\ publish(h)[c][i] = wire[c][i]
                   \/ h.fresh /\ c \in subscribed /\ i = Len(wire[c]) + 1 /\ publish(h)[c][i] = h.n
  <2>1. CASE h.fresh /\ c \in subscribed
    <3>1. publish(h)[c] = Append(wire[c], h.n)
      BY <2>1 DEF publish
    <3>2. /\ DOMAIN wire[c] = 1 .. Len(wire[c]) /\ Len(wire[c]) \in Nat
          /\ Append(wire[c], h.n) \in Seq(Notices)
          /\ DOMAIN Append(wire[c], h.n) = 1 .. Len(wire[c]) + 1
          /\ \A i \in DOMAIN wire[c] : Append(wire[c], h.n)[i] = wire[c][i]
          /\ Append(wire[c], h.n)[Len(wire[c]) + 1] = h.n
      BY <1>1, <1>2, SeqEnds
    <3> QED BY <2>1, <3>1, <3>2
  <2>2. CASE ~(h.fresh /\ c \in subscribed)
    <3>1. publish(h)[c] = wire[c]
      BY <2>2 DEF publish
    <3> QED BY <1>2, <3>1
  <2> QED BY <2>1, <2>2
<1> QED BY <1>3 DEF publish

LEMMA WiresWhenLoops ==
    ASSUME Table, Messages, Wires, LoopStep, UNCHANGED <<source, toasts, doubled>>,
           \A n \in Notices : rows[n].at > 0 => rows'[n].at > 0
    PROVE  Wires'
<1>0. \A c \in Streams : Live(c)' <=> Live(c)
  BY DEF Live
<1>1. CASE UNCHANGED <<subscribed, wire>>
  BY <1>0, <1>1, OnWire DEF Wires
<1>2. CASE Tell
  <2>1. PICK l \in Loops : /\ hand[l] # None /\ wire' = publish(hand[l]) /\ subscribed' = subscribed
    BY <1>2 DEF Tell
  <2>2. hand[l] \in Hand /\ hand[l].n \in Notices /\ rows[hand[l].n].at > 0
    BY <2>1 DEF Messages, Hand
  <2>3. /\ wire' \in [Streams -> Seq(Notices)]
        /\ \A c \in Streams : \A i \in DOMAIN wire'[c] :
              \/ i \in DOMAIN wire[c] /\ wire'[c][i] = wire[c][i]
              \/ wire'[c][i] = hand[l].n
    BY <2>1, <2>2, Pushed
  <2>4. \A c \in Streams : \A i \in DOMAIN wire'[c] : rows'[wire'[c][i]].at > 0
    BY <2>2, <2>3, OnWire DEF Wires
  <2> QED BY <1>0, <2>1, <2>3, <2>4 DEF Wires
<1>3. CASE Die
  BY <1>0, <1>3, OnWire DEF Die, Wires
<1>4. Publish \/ Project \/ ProjectFails \/ purgeReadNotifications => UNCHANGED <<subscribed, wire>>
  BY DEF Publish, Project, ProjectFails, purgeReadNotifications
<1> QED BY <1>1, <1>2, <1>3, <1>4 DEF LoopStep

LEMMA WiresWhenStreams ==
    ASSUME Wires, StreamStep
    PROVE  Wires'
<1>0. rows' = rows
  BY StreamStands DEF StreamStep
<1>1. CASE disconnect
  BY <1>0, <1>1 DEF disconnect, Wires, Live, told
<1>2. CASE TokenComes
  <2>1. CASE UNCHANGED <<source, doubled>>
    BY <1>0, <1>2, <2>1 DEF TokenComes, Wires, Live, service
  <2>2. CASE NewSource
    BY <1>0, <1>2, <2>2 DEF TokenComes, NewSource, Wires, Live, service
  <2> QED BY <1>2, <2>1, <2>2 DEF TokenComes
<1>3. CASE Subscribe
  <2>1. PICK c \in Streams : /\ source[c] = "asked" /\ subscribed' = subscribed \cup {c} /\ wire' = [wire EXCEPT ![c] = <<>>]
                             /\ UNCHANGED <<source, toasts, doubled>>
    BY <1>3 DEF Subscribe, client, told
  <2>2. wire' \in [Streams -> Seq(Notices)] /\ wire'[c] = <<>> /\ \A d \in Streams : d # c => wire'[d] = wire[d]
    BY <2>1 DEF Wires
  <2>3. \A d \in Streams : \A i \in DOMAIN wire'[d] : rows'[wire'[d][i]].at > 0
    BY <1>0, <2>2 DEF Wires
  <2> QED BY <1>0, <2>1, <2>2, <2>3 DEF Wires, Live
<1>4. CASE onopen
  BY <1>0, <1>4 DEF onopen, Wires, Live, service, told
<1>5. CASE onerror
  <2>1. PICK c \in Streams : /\ source' = [source EXCEPT ![c] = "closed"] /\ subscribed' = subscribed \ {c}
                             /\ wire' = [wire EXCEPT ![c] = <<>>] /\ UNCHANGED <<toasts, doubled>>
    BY <1>5 DEF onerror, told
  <2>2. wire' \in [Streams -> Seq(Notices)] /\ wire'[c] = <<>> /\ \A d \in Streams : d # c => wire'[d] = wire[d]
    BY <2>1 DEF Wires
  <2>3. \A d \in Streams : \A i \in DOMAIN wire'[d] : rows'[wire'[d][i]].at > 0
    BY <1>0, <2>2 DEF Wires
  <2> QED BY <1>0, <2>1, <2>2, <2>3 DEF Wires, Live
<1>6. CASE onStreamNotification
  <2>1. PICK c \in Streams :
           /\ wire[c] # <<>> /\ wire' = [wire EXCEPT ![c] = Tail(@)]
           /\ toasts' = toasts \/ toasts' = [toasts EXCEPT ![Head(wire[c])] = @ + 1]
           /\ UNCHANGED <<subscribed, source, doubled>>
    BY <1>6 DEF onStreamNotification
  <2>2. wire[c] \in Seq(Notices)
    BY DEF Wires
  <2>3. /\ Tail(wire[c]) \in Seq(Notices) /\ Head(wire[c]) = wire[c][1] /\ 1 \in DOMAIN wire[c]
        /\ \A i \in DOMAIN Tail(wire[c]) : i + 1 \in DOMAIN wire[c] /\ Tail(wire[c])[i] = wire[c][i + 1]
    BY <2>1, <2>2, SeqEnds
  <2>4. Head(wire[c]) \in Notices /\ rows[Head(wire[c])].at > 0
    BY <2>3, OnWire DEF Wires
  <2>5. wire' \in [Streams -> Seq(Notices)] /\ wire'[c] = Tail(wire[c]) /\ \A d \in Streams : d # c => wire'[d] = wire[d]
    BY <2>1, <2>3 DEF Wires
  <2>6. \A d \in Streams : \A i \in DOMAIN wire'[d] : rows'[wire'[d][i]].at > 0
    <3>1. \A d \in Streams : \A i \in DOMAIN wire[d] : rows[wire[d][i]].at > 0
      BY DEF Wires
    <3>2. \A i \in DOMAIN wire'[c] : rows[wire'[c][i]].at > 0
      BY <2>3, <2>5, <3>1
    <3> QED BY <1>0, <2>5, <3>1, <3>2
  <2>7. toasts' \in [Notices -> Nat] /\ \A n \in Notices : toasts'[n] > 0 => rows'[n].at > 0
    <3>1. toasts \in [Notices -> Nat] /\ \A n \in Notices : toasts[n] > 0 => rows[n].at > 0
      BY DEF Wires
    <3>2. CASE toasts' = toasts
      BY <1>0, <3>1, <3>2
    <3>3. CASE toasts' = [toasts EXCEPT ![Head(wire[c])] = @ + 1]
      <4>1. toasts' \in [Notices -> Nat] /\ \A n \in Notices : n # Head(wire[c]) => toasts'[n] = toasts[n]
        BY <2>4, <3>1, <3>3
      <4> QED BY <1>0, <2>4, <3>1, <4>1
    <3> QED BY <2>1, <3>2, <3>3
  <2> QED BY <2>1, <2>5, <2>6, <2>7 DEF Wires, Live
<1> QED BY <1>1, <1>2, <1>3, <1>4, <1>5, <1>6 DEF StreamStep

LEMMA WiresNext ==
    ASSUME Table, Messages, Wires, [Next]_vars
    PROVE  Wires'
<1>0. \A n \in Notices : rows[n].at > 0 => rows'[n].at > 0
  BY TableNext
<1>1. CASE UNCHANGED <<subscribed, wire, source, toasts, doubled>>
  BY <1>0, <1>1, OnWire DEF Wires, Live
<1> QED BY <1>0, <1>1, Steps, ServedKeeps, DigestStands, WiresWhenLoops, WiresWhenStreams DEF DigestStep, service

-----------------------------------------------------------------------------
(* Where a notification is.                                                *)

LEMMA PlacesWhenLoops ==
    ASSUME Table, Messages, Wires, Places, LoopStep, UNCHANGED <<source, toasts, doubled>>
    PROVE  Places'
<1> SUFFICES ASSUME ~doubled
             PROVE  OneLive' /\ Once' /\ Unheard' /\ Untold' /\ AtMostOnce'
  BY DEF Places
<1>0. OneLive /\ Once /\ Unheard /\ Untold /\ AtMostOnce
  BY DEF Places
<1>1. OneLive' /\ AtMostOnce'
  BY <1>0 DEF OneLive, AtMostOnce, Live
<1>2. \A n \in Notices : LoopOf(n) \in Loops
  BY ServiceAssumption DEF Loops
<1>3. \A l \in Loops : hand[l] # None => hand[l] \in Hand /\ hand[l].n \in Notices /\ LoopOf(hand[l].n) = l
  BY DEF Messages, Hand
<1>4. CASE UNCHANGED <<hand, wire>>
  BY <1>0, <1>1, <1>4 DEF Once, Unheard, Untold
<1>5. CASE Project
  <2>1. PICK n \in Notices :
           /\ Waits(n) /\ hand' = [hand EXCEPT ![LoopOf(n)] = [n |-> n, fresh |-> ~Exists(n)]] /\ wire' = wire
    BY <1>5 DEF Project
  <2>2. ~Exists(n) => rows[n].at = 0
    BY <2>1 DEF Waits, Exists, Messages, Table, RowOK
  <2>3. /\ hand'[LoopOf(n)] = [n |-> n, fresh |-> ~Exists(n)]
        /\ \A l \in Loops : l # LoopOf(n) => hand'[l] = hand[l]
    BY <2>1, <1>2 DEF Messages
  <2>4. rows[n].at = 0 => /\ toasts[n] = 0
                          /\ \A c \in Streams : \A i \in DOMAIN wire[c] : wire[c][i] # n
    BY DEF Wires
  <2>5. Untold'
    <3>1. ASSUME NEW l \in Loops, hand'[l] # None, hand'[l].fresh
          PROVE  /\ toasts'[hand'[l].n] = 0
                 /\ \A c \in Streams : \A i \in DOMAIN wire'[c] : wire'[c][i] # hand'[l].n
      <4>1. CASE l = LoopOf(n)
        <5>1. hand'[l].n = n /\ hand'[l].fresh = ~Exists(n)
          BY <4>1, <2>3
        <5>2. ~Exists(n)
          BY <3>1, <5>1
        <5>3. toasts[n] = 0 /\ \A c \in Streams : \A i \in DOMAIN wire[c] : wire[c][i] # n
          BY <5>2, <2>2, <2>4
        <5> QED BY <5>1, <5>3, <2>1
      <4>2. CASE l # LoopOf(n)
        BY <3>1, <4>2, <2>1, <2>3, <1>0 DEF Untold
      <4> QED BY <4>1, <4>2
    <3> QED BY <3>1 DEF Untold
  <2> QED BY <1>0, <1>1, <2>1, <2>5 DEF Once, Unheard
<1>6. CASE Tell
  <2>1. PICK l \in Loops : hand[l] # None /\ wire' = publish(hand[l]) /\ hand' = [hand EXCEPT ![l] = None]
    BY <1>6 DEF Tell
  <2>2. hand[l] \in Hand /\ hand[l].n \in Notices /\ LoopOf(hand[l].n) = l
    BY <2>1, <1>3
  <2>3. \A c \in Streams : \A i \in DOMAIN wire'[c] :
           \/ i \in DOMAIN wire[c] /\ wire'[c][i] = wire[c][i]
           \/ hand[l].fresh /\ c \in subscribed /\ i = Len(wire[c]) + 1 /\ wire'[c][i] = hand[l].n
    BY <2>1, <2>2, Pushed
  <2>4. \A c, d \in subscribed : c = d
    BY <1>0 DEF OneLive, Wires
  <2>5. hand[l].fresh => /\ toasts[hand[l].n] = 0
                         /\ \A c \in Streams : \A i \in DOMAIN wire[c] : wire[c][i] # hand[l].n
    BY <2>1, <1>0 DEF Untold
  <2>6. Once'
    <3>1. ASSUME NEW c \in Streams, NEW d \in Streams, NEW i \in DOMAIN wire'[c], NEW j \in DOMAIN wire'[d],
                 wire'[c][i] = wire'[d][j]
          PROVE  c = d /\ i = j
      <4>1. CASE i \in DOMAIN wire[c] /\ wire'[c][i] = wire[c][i]
        <5>1. CASE j \in DOMAIN wire[d] /\ wire'[d][j] = wire[d][j]
          <6>1. wire[c][i] = wire[d][j] /\ i \in DOMAIN wire[c] /\ j \in DOMAIN wire[d]
            BY <3>1, <4>1, <5>1
          <6> QED BY <6>1, <1>0 DEF Once
        <5>2. CASE hand[l].fresh /\ wire'[d][j] = hand[l].n
          BY <3>1, <4>1, <5>2, <2>5
        <5> QED BY <5>1, <5>2, <2>3
      <4>2. CASE hand[l].fresh /\ c \in subscribed /\ i = Len(wire[c]) + 1 /\ wire'[c][i] = hand[l].n
        BY <3>1, <4>2, <2>3, <2>4, <2>5
      <4> QED BY <4>1, <4>2, <2>3
    <3> QED BY <3>1 DEF Once
  <2>7. Unheard'
    BY <2>3, <2>5, <1>0 DEF Unheard
  <2>8. Untold'
    <3>1. ASSUME NEW k \in Loops, hand'[k] # None, hand'[k].fresh
          PROVE  /\ toasts'[hand'[k].n] = 0
                 /\ \A c \in Streams : \A i \in DOMAIN wire'[c] : wire'[c][i] # hand'[k].n
      <4>1. k # l /\ hand'[k] = hand[k]
        BY <3>1, <2>1 DEF Messages
      <4>2. hand[k].n # hand[l].n
        BY <4>1, <3>1, <1>3, <2>2
      <4>3. /\ toasts[hand[k].n] = 0
            /\ \A c \in Streams : \A i \in DOMAIN wire[c] : wire[c][i] # hand[k].n
        BY <4>1, <3>1, <1>0 DEF Untold
      <4> QED BY <4>1, <4>2, <4>3, <2>3
    <3> QED BY <3>1 DEF Untold
  <2> QED BY <1>1, <2>6, <2>7, <2>8
<1>7. CASE Die
  <2>1. wire' = wire /\ \A l \in Loops : hand'[l] = None
    BY <1>7 DEF Die
  <2> QED BY <1>0, <1>1, <2>1 DEF Once, Unheard, Untold
<1>8. Publish \/ ProjectFails \/ purgeReadNotifications => UNCHANGED <<hand, wire>>
  BY DEF Publish, ProjectFails, purgeReadNotifications
<1> QED BY <1>4, <1>5, <1>6, <1>7, <1>8 DEF LoopStep

LEMMA PlacesWhenStreams ==
    ASSUME Messages, Wires, Places, StreamStep
    PROVE  Places'
<1> SUFFICES ASSUME ~doubled'
             PROVE  OneLive' /\ Once' /\ Unheard' /\ Untold' /\ AtMostOnce'
  BY DEF Places
<1>1. hand' = hand
  BY StreamStands DEF StreamStep
<1>2. ~doubled
  BY DEF StreamStep, disconnect, TokenComes, Subscribe, onopen, onerror, onStreamNotification, told, client,
         NewSource
<1>3. OneLive /\ Once /\ Unheard /\ Untold /\ AtMostOnce
  BY <1>2 DEF Places
<1>4. CASE disconnect
  BY <1>1, <1>3, <1>4 DEF disconnect, told, OneLive, Once, Unheard, Untold, AtMostOnce, Live, Wires
<1>5. CASE TokenComes
  <2>1. UNCHANGED <<wire, toasts>>
    BY <1>5 DEF TokenComes, service
  <2>2. Once' /\ Unheard' /\ Untold' /\ AtMostOnce'
    BY <1>1, <1>3, <2>1 DEF Once, Unheard, Untold, AtMostOnce
  <2>3. CASE UNCHANGED source
    BY <2>2, <2>3, <1>3 DEF OneLive, Live
  <2>4. CASE NewSource
    <3>1. PICK c \in Streams : source' = [source EXCEPT ![c] = "asked"]
      BY <2>4 DEF NewSource
    <3>2. \A d \in Streams : ~Live(d)
      BY <2>4 DEF NewSource
    <3>3. \A d \in Streams : d # c => source'[d] = source[d]
      BY <3>1 DEF Wires
    <3>4. OneLive'
      BY <3>2, <3>3 DEF OneLive, Live
    <3> QED BY <2>2, <3>4
  <2> QED BY <1>5, <2>3, <2>4 DEF TokenComes
<1>6. ASSUME NEW c \in Streams, wire' = [wire EXCEPT ![c] = <<>>], UNCHANGED toasts
      PROVE  Once' /\ Unheard' /\ Untold' /\ AtMostOnce'
  <2>1. \A d \in Streams : \A i \in DOMAIN wire'[d] : i \in DOMAIN wire[d] /\ wire'[d][i] = wire[d][i]
    BY <1>6 DEF Wires
  <2>2. Once'
    BY <2>1, <1>3 DEF Once
  <2>3. Unheard' /\ Untold' /\ AtMostOnce'
    BY <2>1, <1>1, <1>3, <1>6 DEF Unheard, Untold, AtMostOnce
  <2> QED BY <2>2, <2>3
<1>7. CASE Subscribe
  <2>1. PICK c \in Streams : wire' = [wire EXCEPT ![c] = <<>>] /\ UNCHANGED <<source, toasts>>
    BY <1>7 DEF Subscribe, client, told
  <2>2. OneLive'
    BY <2>1, <1>3 DEF OneLive, Live
  <2> QED BY <2>1, <2>2, <1>6
<1>8. CASE onopen
  BY <1>1, <1>3, <1>8 DEF onopen, service, told, OneLive, Once, Unheard, Untold, AtMostOnce, Live, Wires
<1>9. CASE onerror
  <2>1. PICK c \in Streams : /\ wire' = [wire EXCEPT ![c] = <<>>] /\ source' = [source EXCEPT ![c] = "closed"]
                             /\ UNCHANGED toasts
    BY <1>9 DEF onerror, told
  <2>2. OneLive'
    BY <2>1, <1>3 DEF OneLive, Live, Wires
  <2> QED BY <2>1, <2>2, <1>6
<1>10. CASE onStreamNotification
  <2>1. PICK c \in Streams :
           /\ wire[c] # <<>> /\ wire' = [wire EXCEPT ![c] = Tail(@)]
           /\ toasts' = toasts \/ toasts' = [toasts EXCEPT ![Head(wire[c])] = @ + 1]
           /\ UNCHANGED source
    BY <1>10 DEF onStreamNotification
  <2> DEFINE n == Head(wire[c])
  <2>2. wire[c] \in Seq(Notices) /\ wire'[c] = Tail(wire[c]) /\ \A d \in Streams : d # c => wire'[d] = wire[d]
    BY <2>1 DEF Wires
  <2>3. /\ n = wire[c][1] /\ 1 \in DOMAIN wire[c]
        /\ \A i \in DOMAIN Tail(wire[c]) :
              i \in Nat /\ i + 1 \in DOMAIN wire[c] /\ i + 1 # 1 /\ Tail(wire[c])[i] = wire[c][i + 1]
    BY <2>1, <2>2, SeqEnds
  <2>4. n \in Notices /\ toasts[n] = 0
    BY <2>3, OnWire, <1>3 DEF Unheard
  <2>5. \A d \in Streams : \A i \in DOMAIN wire'[d] :
           \E k \in DOMAIN wire[d] : /\ wire'[d][i] = wire[d][k] /\ (d = c => k = i + 1 /\ i \in Nat /\ k # 1)
                                     /\ (d # c => k = i)
    <3>1. TAKE d \in Streams
    <3>2. TAKE i \in DOMAIN wire'[d]
    <3>3. CASE d = c
      <4>1. i \in DOMAIN Tail(wire[c]) /\ wire'[d][i] = Tail(wire[c])[i]
        BY <2>2, <3>3
      <4>2. i \in Nat /\ i + 1 \in DOMAIN wire[d] /\ i + 1 # 1 /\ wire'[d][i] = wire[d][i + 1]
        BY <4>1, <2>3, <3>3
      <4> QED BY <3>3, <4>2
    <3>4. CASE d # c
      BY <2>2, <3>4
    <3> QED BY <3>3, <3>4
  <2>6. \A d \in Streams : \A i \in DOMAIN wire'[d] : wire'[d][i] # n
    <3>1. TAKE d \in Streams
    <3>2. TAKE i \in DOMAIN wire'[d]
    <3>3. PICK k \in DOMAIN wire[d] : wire'[d][i] = wire[d][k] /\ (d = c => k # 1)
      BY <2>5
    <3>4. wire[d][k] = wire[c][1] => d = c /\ k = 1
      BY <2>3, <1>3 DEF Once
    <3> QED BY <2>3, <3>3, <3>4
  <2>7. Once'
    <3>1. ASSUME NEW d \in Streams, NEW e \in Streams, NEW i \in DOMAIN wire'[d], NEW j \in DOMAIN wire'[e],
                 wire'[d][i] = wire'[e][j]
          PROVE  d = e /\ i = j
      <4>1. PICK k \in DOMAIN wire[d] : /\ wire'[d][i] = wire[d][k] /\ (d = c => k = i + 1 /\ i \in Nat)
                                        /\ (d # c => k = i)
        BY <2>5
      <4>2. PICK m \in DOMAIN wire[e] : /\ wire'[e][j] = wire[e][m] /\ (e = c => m = j + 1 /\ j \in Nat)
                                        /\ (e # c => m = j)
        BY <2>5
      <4>3. wire[d][k] = wire[e][m]
        BY <3>1, <4>1, <4>2
      <4>4. d = e /\ k = m
        BY <4>3, <1>3 DEF Once
      <4>5. CASE d = c
        BY <4>1, <4>2, <4>4, <4>5
      <4>6. CASE d # c
        BY <4>1, <4>2, <4>4, <4>6
      <4> QED BY <4>5, <4>6
    <3> QED BY <3>1 DEF Once
  <2>8. \A m \in Notices : m # n => toasts'[m] = toasts[m]
    BY <2>1 DEF Wires
  <2>9. Unheard'
    <3>1. ASSUME NEW d \in Streams, NEW i \in DOMAIN wire'[d]
          PROVE  toasts'[wire'[d][i]] = 0
      <4>1. PICK k \in DOMAIN wire[d] : wire'[d][i] = wire[d][k]
        BY <2>5
      <4>2. wire[d][k] \in Notices /\ toasts[wire[d][k]] = 0
        BY OnWire, <1>3 DEF Unheard
      <4> QED BY <4>1, <4>2, <2>6, <2>8
    <3> QED BY <3>1 DEF Unheard
  <2>10. Untold'
    <3>1. ASSUME NEW l \in Loops, hand[l] # None, hand[l].fresh
          PROVE  /\ toasts'[hand[l].n] = 0
                 /\ \A d \in Streams : \A i \in DOMAIN wire'[d] : wire'[d][i] # hand[l].n
      <4>1. /\ toasts[hand[l].n] = 0
            /\ \A d \in Streams : \A i \in DOMAIN wire[d] : wire[d][i] # hand[l].n
        BY <3>1, <1>3 DEF Untold
      <4>2. hand[l].n # n
        BY <4>1, <2>3
      <4>3. hand[l].n \in Notices
        BY <3>1 DEF Messages, Hand
      <4>4. toasts'[hand[l].n] = toasts[hand[l].n]
        BY <4>2, <4>3, <2>8
      <4>5. \A d \in Streams : \A i \in DOMAIN wire'[d] : wire'[d][i] # hand[l].n
        BY <4>1, <2>5
      <4> QED BY <4>1, <4>4, <4>5
    <3> QED BY <3>1, <1>1 DEF Untold
  <2>11. AtMostOnce'
    <3>1. toasts'[n] <= 1
      BY <2>1, <2>4 DEF Wires
    <3> QED BY <3>1, <2>8, <1>3 DEF AtMostOnce
  <2>12. OneLive'
    BY <2>1, <1>3 DEF OneLive, Live
  <2> QED BY <2>7, <2>9, <2>10, <2>11, <2>12
<1> QED BY <1>4, <1>5, <1>7, <1>8, <1>9, <1>10 DEF StreamStep

LEMMA PlacesNext ==
    ASSUME Table, Messages, Wires, Places, [Next]_vars
    PROVE  Places'
<1>1. CASE UNCHANGED <<hand, wire, source, toasts, doubled>>
  BY <1>1 DEF Places, OneLive, Once, Unheard, Untold, AtMostOnce, Live
<1> QED BY <1>1, Steps, ServedKeeps, DigestStands, PlacesWhenLoops, PlacesWhenStreams DEF DigestStep, service

-----------------------------------------------------------------------------
LEMMA TellingInit ==
    ASSUME Init
    PROVE  Telling
<1> USE DEF Init, ServiceInit
<1>1. \A n \in Notices : n \in Nat /\ n > 0
  BY ServiceAssumption
<1>2. plan.stored \subseteq Notices /\ (plan.stored = {} \/ \E n \in plan.stored : \A m \in plan.stored : m <= n)
  BY PlansAssumption
<1> DEFINE At(n) == IF n \in plan.stored THEN n ELSE 0
<1>3. \A n \in Notices : \E b : rows[n] = [at |-> At(n), ms |-> At(n), read |-> b, gone |-> FALSE]
  <2>1. TAKE n \in Notices
  <2>2. CASE n \in plan.stored
    <3>1. rows[n] = [at |-> n, ms |-> n, read |-> n \in plan.read, gone |-> FALSE]
      BY <2>2
    <3> QED BY <2>2, <3>1
  <2>3. CASE n \notin plan.stored
    <3>1. rows[n] = [at |-> 0, ms |-> 0, read |-> FALSE, gone |-> FALSE]
      BY <2>3 DEF NoRow
    <3> QED BY <2>3, <3>1
  <2> QED BY <2>2, <2>3
<1>4. \A n \in Notices : /\ n \in plan.stored => rows[n].at = n
                         /\ n \notin plan.stored => rows[n].at = 0
                         /\ rows[n].gone = FALSE
  <2>1. TAKE n \in Notices
  <2>2. PICK b : rows[n] = [at |-> At(n), ms |-> At(n), read |-> b, gone |-> FALSE]
    BY <1>3
  <2>3. rows[n].at = At(n) /\ rows[n].gone = FALSE
    <3> HIDE DEF At
    <3> QED BY <2>2
  <2> QED BY <2>3
<1>5. \A n \in Notices : rows[n].at \in Nat /\ RowOK(rows[n])
  <2>1. TAKE n \in Notices
  <2>2. At(n) \in Nat
    BY <1>1
  <2> HIDE DEF At
  <2>3. PICK b : rows[n] = [at |-> At(n), ms |-> At(n), read |-> b, gone |-> FALSE]
    BY <1>3
  <2>4. rows[n].at = At(n) /\ rows[n].ms = At(n) /\ rows[n].read = b /\ rows[n].gone = FALSE
    BY <2>3
  <2>5. rows[n] = [at |-> rows[n].at, ms |-> rows[n].ms, read |-> rows[n].read, gone |-> rows[n].gone]
    BY <2>3, <2>4
  <2> QED BY <2>2, <2>4, <2>5 DEF RowOK
<1>6. \A n \in Notices : rows[n].at > 0 => \E x \in Notices : \A y \in Notices : rows[y].at <= rows[x].at
  <2>1. TAKE n \in Notices
  <2>2. HAVE rows[n].at > 0
  <2>3. n \in plan.stored
    <3>1. rows[n].at # 0
      BY <2>2
    <3> QED BY <3>1, <1>4
  <2>4. PICK x \in plan.stored : \A m \in plan.stored : m <= x
    BY <1>2, <2>3
  <2>5. x \in Notices /\ rows[x].at = x /\ x \in Nat
    BY <1>1, <1>2, <1>4, <2>4
  <2>6. \A y \in Notices : rows[y].at <= rows[x].at
    <3>1. TAKE y \in Notices
    <3>2. CASE y \in plan.stored
      <4>1. rows[y].at = y /\ y <= x
        BY <3>2, <1>4, <2>4
      <4> QED BY <4>1, <2>5
    <3>3. CASE y \notin plan.stored
      <4>1. rows[y].at = 0
        BY <3>3, <1>4
      <4> QED BY <4>1, <2>5
    <3> QED BY <3>2, <3>3
  <2> QED BY <2>5, <2>6
<1>7. Table
  <2>1. rows = [n \in Notices |-> rows[n]]
    OBVIOUS
  <2> QED BY <1>5, <1>6, <2>1 DEF Table
<1>8. Messages
  <2>1. queue \in [Notices -> [fate : Fates, tries : Nat]]
    BY DEF Fates
  <2>2. hand = [l \in Loops |-> hand[l]] /\ \A l \in Loops : hand[l] = None
    OBVIOUS
  <2>3. \A n \in Notices : ~rows[n].gone
    BY <1>4
  <2> QED BY <2>1, <2>2, <2>3 DEF Messages
<1>9. Wires
  <2>1. /\ source \in [Streams -> {"new", "asked", "open", "closed"}] /\ subscribed = {}
        /\ toasts \in [Notices -> Nat] /\ doubled \in BOOLEAN
    OBVIOUS
  <2>2. wire \in [Streams -> Seq(Notices)] /\ \A c \in Streams : DOMAIN wire[c] = {}
    OBVIOUS
  <2>3. \A n \in Notices : toasts[n] = 0
    OBVIOUS
  <2> QED BY <2>1, <2>2, <2>3 DEF Wires
<1>10. Places
  BY DEF Places, OneLive, Once, Unheard, Untold, AtMostOnce, Live
<1>11. Stamp
  <2>1. digest = [step |-> "idle", counted |-> {}, last |-> 0, due |-> plan.digest]
    OBVIOUS
  <2>2. /\ digest = [step |-> digest.step, counted |-> digest.counted, last |-> digest.last, due |-> digest.due]
        /\ digest.step = "idle" /\ digest.last = 0
    BY <2>1
  <2>3. \A n \in Notices : ~(rows[n].at > 0 /\ rows[n].at <= digest.last)
    <3>1. \A k \in Nat : ~(k > 0 /\ k <= 0)
      OBVIOUS
    <3>2. \A n \in Notices : rows[n].at \in Nat
      BY <1>5
    <3> HIDE DEF Init, ServiceInit
    <3> QED BY <2>2, <3>1, <3>2
  <2> QED BY <2>2, <2>3 DEF Stamp, Exists
<1> QED BY <1>7, <1>8, <1>9, <1>10, <1>11 DEF Telling

LEMMA TellingAlways == Spec => []Telling
<1>1. Telling /\ [Next]_vars => Telling'
  BY TableNext, MessagesNext, WiresNext, PlacesNext, StampNext DEF Telling
<1> QED BY <1>1, TellingInit, PTL DEF Spec

-----------------------------------------------------------------------------
(* The badge.                                                              *)

Stored == {n \in Notices : rows[n].at > 0}
Cards(T) == [n : T, read : BOOLEAN]
Bells(T) == [on : BOOLEAN, es : Streams \cup {None}, timer : BOOLEAN, tokens : Int, drawer : BOOLEAN, only : BOOLEAN,
             unread : Nat, list : Seq(Cards(T)), more : BOOLEAN, loading : BOOLEAN, error : BOOLEAN]
Requests(T) == [kind : {"count", "page", "post"}, stage : {"sent", "done", "failed"}, calm : BOOLEAN,
                before : Nat \cup {None}, only : BOOLEAN, data : Seq(Cards(T)), count : Nat, n : {0} \cup T,
                read : BOOLEAN, list : Seq(Cards(T)), unread : Nat]

(* The table is finite and its rows are in one order; cards and writes are  *)
(* about rows there are or were.                                           *)
Types ==
    /\ IsFiniteSet(Stored) /\ \A m, n \in Stored : rows[m].at = rows[n].at => m = n
    /\ \A n \in Notices : rows[n].read \in BOOLEAN /\ rows[n].ms \in Nat
    /\ bell \in Bells(Stored) /\ reqs \in Seq(Requests(Stored)) /\ unsure \in BOOLEAN

LEMMA TypesGrow ==
    ASSUME NEW T, NEW V, T \subseteq V
    PROVE  Bells(T) \subseteq Bells(V) /\ Seq(Requests(T)) \subseteq Seq(Requests(V))
<1>1. Cards(T) \subseteq Cards(V)
  BY DEF Cards
<1>2. Seq(Cards(T)) \subseteq Seq(Cards(V))
  BY <1>1
<1>3. Bells(T) \subseteq Bells(V)
  <2> SUFFICES ASSUME NEW b \in Bells(T) PROVE b \in Bells(V)
    OBVIOUS
  <2> HIDE <1>1
  <2> QED
    BY <1>2 DEF Bells
<1>4. Requests(T) \subseteq Requests(V)
  BY <1>2 DEF Requests
<1>5. Seq(Requests(T)) \subseteq Seq(Requests(V))
  BY <1>4
<1> QED
  BY <1>3, <1>5

-----------------------------------------------------------------------------
(* Pages and lists in an order.                                             *)

TotalOn(R, S) ==
    /\ \A x \in S : <<x, x>> \in R
    /\ \A x, y \in S : <<x, y>> \in R \/ <<y, x>> \in R
    /\ \A x, y \in S : <<x, y>> \in R /\ <<y, x>> \in R => x = y
    /\ \A x, y, z \in S : <<x, y>> \in R /\ <<y, z>> \in R => <<x, z>> \in R

(* Ordered puts every member once, at its rank.                             *)
LEMMA OrderedLists ==
    ASSUME NEW S, IsFiniteSet(S), NEW R, TotalOn(R, S)
    PROVE  LET n == Cardinality(S)
               s == Ordered(S, R)
           IN  /\ n \in Nat /\ s \in [1 .. n -> S]
               /\ \A k, l \in 1 .. n : s[k] = s[l] => k = l
               /\ \A x \in S : \E k \in 1 .. n : s[k] = x
<1> DEFINE n == Cardinality(S)
           low(x) == {y \in S : <<y, x>> \in R}
           rank == [x \in S |-> Cardinality(low(x))]
           s == Ordered(S, R)
<1>1. n \in Nat
  BY FS_CardinalityType
<1>2. \A x \in S : IsFiniteSet(low(x)) /\ Cardinality(low(x)) \in 1 .. n
  <2>1. ASSUME NEW x \in S
        PROVE  IsFiniteSet(low(x)) /\ Cardinality(low(x)) \in 1 .. n
    <3>1. low(x) \in SUBSET S /\ x \in low(x)
      BY DEF TotalOn
    <3> HIDE DEF low
    <3>2. IsFiniteSet(low(x)) /\ Cardinality(low(x)) <= n /\ Cardinality(low(x)) \in Nat
      BY <3>1, FS_Subset, FS_CardinalityType
    <3>3. Cardinality(low(x)) # 0
      BY <3>1, <3>2, FS_EmptySet
    <3> QED BY <1>1, <3>2, <3>3
  <2> QED BY <2>1
<1>3. ASSUME NEW x \in S, NEW y \in S, <<x, y>> \in R, x # y
      PROVE  rank[x] # rank[y]
  <2>1. low(x) \in SUBSET low(y) /\ y \notin low(x) /\ y \in low(y)
    BY <1>3 DEF TotalOn
  <2>2. IsFiniteSet(low(y))
    BY <1>2
  <2> HIDE DEF low
  <2>3. Cardinality(low(x)) # Cardinality(low(y))
    BY <2>1, <2>2, FS_Subset
  <2> QED BY <2>3
<1>4. rank \in Injection(S, 1 .. n)
  <2>1. rank \in [S -> 1 .. n]
    BY <1>2
  <2>2. \A x, y \in S : x # y => rank[x] # rank[y]
    BY <1>3 DEF TotalOn
  <2> HIDE DEF rank
  <2> QED BY <2>1, <2>2 DEF Injection, IsInjective
<1>5. rank \in Surjection(S, 1 .. n)
  <2>1. IsFiniteSet(1 .. n) /\ Cardinality(1 .. n) = n
    BY <1>1, FS_Interval
  <2> HIDE DEF rank
  <2> QED BY <1>4, <2>1, FS_Injection
<1>6. \A k \in 1 .. n : s[k] \in S /\ rank[s[k]] = k
  <2>1. ASSUME NEW k \in 1 .. n
        PROVE  s[k] \in S /\ rank[s[k]] = k
    <3>1. \E x \in S : rank[x] = k
      BY <1>5 DEF Surjection
    <3>2. s[k] = CHOOSE x \in S : Cardinality(low(x)) = k
      BY DEF Ordered
    <3> QED BY <3>1, <3>2
  <2> QED BY <2>1
<1>7. s \in [1 .. n -> S]
  BY <1>6 DEF Ordered
<1>8. \A x \in S : s[rank[x]] = x /\ rank[x] \in 1 .. n
  <2>1. ASSUME NEW x \in S
        PROVE  s[rank[x]] = x /\ rank[x] \in 1 .. n
    <3> HIDE DEF rank, s
    <3>1. rank[x] \in 1 .. n
      BY <1>4 DEF Injection
    <3>2. s[rank[x]] \in S /\ rank[s[rank[x]]] = rank[x]
      BY <1>6, <3>1
    <3> QED BY <1>4, <3>1, <3>2 DEF Injection, IsInjective
  <2> QED BY <2>1
<1> HIDE DEF rank, s
<1>9. (\A k, l \in 1 .. n : s[k] = s[l] => k = l) /\ \A x \in S : \E k \in 1 .. n : s[k] = x
  BY <1>6, <1>8
<1> QED BY <1>1, <1>7, <1>9 DEF s

(* A page is made of rows there are.                                        *)
LEMMA PageOfRows ==
    ASSUME Table, Types, NEW only, NEW before
    PROVE  listNotifications(only, before) \in Seq(Stored)
<1> DEFINE found == {n \in Notices : Exists(n) /\ (only => ~rows[n].read) /\ (before # None => rows[n].ms < before)}
           R == {p \in found \X found : rows[p[1]].at >= rows[p[2]].at}
           list == Ordered(found, R)
<1>1. found \in SUBSET Stored
  BY DEF Stored, Exists
<1>2. IsFiniteSet(found)
  BY <1>1, FS_Subset DEF Types
<1>3. \A n \in found : rows[n].at \in Nat
  BY <1>1 DEF Stored, Table, RowOK
<1>4. \A m, n \in found : rows[m].at = rows[n].at => m = n
  BY <1>1 DEF Types
<1>5. listNotifications(only, before) = SubSeq(list, 1, IF Len(list) < PageSize THEN Len(list) ELSE PageSize)
  BY DEF listNotifications
<1> HIDE DEF found
<1>6. TotalOn(R, found)
  BY <1>3, <1>4 DEF TotalOn
<1> HIDE DEF R
<1>7. Cardinality(found) \in Nat /\ list \in [1 .. Cardinality(found) -> found]
  BY <1>2, <1>6, OrderedLists
<1> HIDE DEF list
<1>8. list \in Seq(found) /\ Len(list) = Cardinality(found)
  BY <1>7
<1>9. (IF Len(list) < PageSize THEN Len(list) ELSE PageSize) \in 0 .. Len(list)
  BY <1>7, <1>8, ServiceAssumption
<1>10. \A j \in 0 .. Len(list) : SubSeq(list, 1, j) \in Seq(found)
  BY <1>8
<1>11. listNotifications(only, before) \in Seq(found)
  BY <1>5, <1>9, <1>10
<1> QED BY <1>1, <1>11

LEMMA Lists ==
    ASSUME NEW T, NEW s \in Seq(T)
    PROVE  /\ Len(s) \in Nat /\ DOMAIN s = 1 .. Len(s) /\ \A i \in DOMAIN s : s[i] \in T
           /\ \A x \in T : Append(s, x) \in Seq(T)
           /\ \A i \in DOMAIN s : SubSeq(s, 1, i - 1) \o SubSeq(s, i + 1, Len(s)) \in Seq(T)
OBVIOUS

LEMMA Lowered ==
    ASSUME NEW T, NEW rs \in Seq(Requests(T))
    PROVE  /\ Spoilt(rs) \in Seq(Requests(T)) /\ Len(Spoilt(rs)) = Len(rs)
           /\ \A i \in DOMAIN rs : Spoilt(rs)[i] = [rs[i] EXCEPT !.calm = FALSE]
<1>1. \A i \in DOMAIN rs : [rs[i] EXCEPT !.calm = FALSE] \in Requests(T)
  <2> SUFFICES ASSUME NEW i \in DOMAIN rs PROVE [rs[i] EXCEPT !.calm = FALSE] \in Requests(T)
    OBVIOUS
  <2>1. rs[i] \in Requests(T)
    BY Lists
  <2> QED
    BY <2>1 DEF Requests
<1> DEFINE s == Spoilt(rs)
<1>2. s \in [1 .. Len(rs) -> Requests(T)] /\ \A i \in DOMAIN rs : s[i] = [rs[i] EXCEPT !.calm = FALSE]
  BY <1>1, Lists DEF Spoilt
<1> HIDE DEF s
<1>3. s \in Seq(Requests(T)) /\ Len(s) = Len(rs)
  BY <1>2, Lists
<1> QED
  BY <1>2, <1>3 DEF s

(* What handlers make of the bell and send.                                 *)
LEMMA Blanks ==
    ASSUME NEW T, NEW b \in Bells(T)
    PROVE  /\ openStream(b) \in Bells(T) /\ scheduleReconnect(b) \in Bells(T)
           /\ CountRequest \in Requests(T)
           /\ \A before \in Nat \cup {None} : /\ PageRequest(b, before) \in Requests(T)
                                              /\ PageRequest(b, before).kind = "page" /\ PageRequest(b, before).stage = "sent"
<1>1. <<>> \in Seq(Cards(T))
  OBVIOUS
<1>2. Blank \in Requests(T)
  BY <1>1 DEF Blank, Requests
<1>3. openStream(b) \in Bells(T) /\ scheduleReconnect(b) \in Bells(T)
  <2>1. b.tokens + 1 \in Int
    BY DEF Bells
  <2>2. [b EXCEPT !.tokens = b.tokens + 1] \in Bells(T)
    BY <2>1 DEF Bells
  <2>3. [b EXCEPT !.timer = TRUE] \in Bells(T)
    BY DEF Bells
  <2> QED BY <2>2, <2>3 DEF openStream, scheduleReconnect
<1>4. b.only \in BOOLEAN
  BY DEF Bells
<1>5. \A before \in Nat \cup {None} : /\ PageRequest(b, before) \in Requests(T)
                                              /\ PageRequest(b, before).kind = "page" /\ PageRequest(b, before).stage = "sent"
  <2> DEFINE x == Blank
  <2>1. x \in Requests(T) /\ x.stage = "sent"
    BY <1>2 DEF Blank
  <2> HIDE DEF x
  <2>2. \A before \in Nat \cup {None} : [x EXCEPT !.kind = "page", !.before = before, !.only = b.only] \in Requests(T)
    BY <1>4, <2>1 DEF Requests
  <2>3. \A before : LET y == [x EXCEPT !.kind = "page", !.before = before, !.only = b.only]
                    IN y.kind = "page" /\ y.stage = "sent"
    BY <2>1 DEF Requests
  <2> QED
    BY <2>2, <2>3 DEF x, PageRequest
<1> QED
  BY <1>2, <1>3, <1>5 DEF CountRequest

LEMMA PostTyped ==
    ASSUME Types, NEW n \in {0} \cup Stored, NEW read \in BOOLEAN
    PROVE  LET p == PostRequest(n, read)
           IN /\ p \in Requests(Stored) /\ p.kind = "post" /\ p.stage = "sent" /\ p.n = n /\ p.read = read
              /\ p.unread = bell.unread /\ (p.calm <=> n # 0 \/ Quiet)
<1>1. <<>> \in Seq(Cards(Stored))
  OBVIOUS
<1>2. Blank \in Requests(Stored) /\ Blank.stage = "sent"
  BY <1>1 DEF Blank, Requests
<1>3. bell.list \in Seq(Cards(Stored)) /\ bell.unread \in Nat
  BY DEF Types, Bells
<1> DEFINE x == Blank
           calm == n # 0 \/ Quiet
           p == [x EXCEPT !.kind = "post", !.n = n, !.read = read, !.calm = calm, !.list = bell.list, !.unread = bell.unread]
<1>4. x \in Requests(Stored) /\ x.stage = "sent"
  BY <1>2
<1>5. calm \in BOOLEAN
  BY DEF Quiet
<1>6. PostRequest(n, read) = p
  BY DEF PostRequest
<1> HIDE DEF x, calm
<1>7. p \in Requests(Stored)
  BY <1>3, <1>4, <1>5 DEF Requests
<1>8. p.kind = "post" /\ p.stage = "sent" /\ p.n = n /\ p.read = read /\ p.unread = bell.unread /\ p.calm = calm
  BY <1>4 DEF Requests
<1> QED
  BY <1>6, <1>7, <1>8 DEF calm

LEMMA ShownTyped ==
    ASSUME NEW T, NEW s \in Seq(Cards(T)), NEW n, NEW read \in BOOLEAN
    PROVE  /\ Shown(s, n, read) \in Seq(Cards(T))
           /\ [i \in DOMAIN s |-> [s[i] EXCEPT !.read = TRUE]] \in Seq(Cards(T))
           /\ Others(s, n) \in Seq(Cards(T))
<1>1. \A i \in DOMAIN s : s[i] \in Cards(T)
  BY Lists
<1>2. \A i \in DOMAIN s : [s[i] EXCEPT !.read = read] \in Cards(T) /\ [s[i] EXCEPT !.read = TRUE] \in Cards(T)
  BY <1>1 DEF Cards
<1>3. ASSUME NEW f, f = [i \in DOMAIN s |-> f[i]], \A i \in DOMAIN s : f[i] \in Cards(T)
      PROVE  f \in Seq(Cards(T))
  <2>1. f \in [1 .. Len(s) -> Cards(T)]
    BY <1>3, Lists
  <2> QED
    BY <2>1, Lists
<1>4. Shown(s, n, read) \in Seq(Cards(T))
  <2> DEFINE f == Shown(s, n, read)
  <2>1. f = [i \in DOMAIN s |-> f[i]] /\ \A i \in DOMAIN s : f[i] \in Cards(T)
    BY <1>1, <1>2 DEF Shown
  <2> HIDE DEF f
  <2>2. f \in Seq(Cards(T))
    BY <1>3, <2>1
  <2> QED
    BY <2>2 DEF f
<1>5. [i \in DOMAIN s |-> [s[i] EXCEPT !.read = TRUE]] \in Seq(Cards(T))
  <2> DEFINE f == [i \in DOMAIN s |-> [s[i] EXCEPT !.read = TRUE]]
  <2>1. f = [i \in DOMAIN s |-> f[i]] /\ \A i \in DOMAIN s : f[i] \in Cards(T)
    BY <1>2
  <2> HIDE DEF f
  <2>2. f \in Seq(Cards(T))
    BY <1>3, <2>1
  <2> QED
    BY <2>2 DEF f
<1>6. Others(s, n) \in Seq(Cards(T))
  <2> DEFINE kept == {i \in DOMAIN s : s[i].n # n}
             R == {p \in kept \X kept : p[1] <= p[2]}
             at == Ordered(kept, R)
             f == [k \in DOMAIN at |-> s[at[k]]]
  <2>1. kept \subseteq 1 .. Len(s) /\ Len(s) \in Nat
    BY Lists
  <2>2. IsFiniteSet(kept)
    BY <2>1, FS_Interval, FS_Subset
  <2>3. TotalOn(R, kept)
    <3> HIDE DEF kept
    <3> QED BY <2>1 DEF TotalOn
  <2> HIDE DEF R
  <2>4. Cardinality(kept) \in Nat /\ at \in [1 .. Cardinality(kept) -> kept]
    BY <2>2, <2>3, OrderedLists
  <2> HIDE DEF at
  <2>5. f \in [1 .. Cardinality(kept) -> Cards(T)]
    BY <1>1, <2>4
  <2>6. Others(s, n) = f
    BY DEF Others, R, at
  <2> HIDE DEF f, kept
  <2> QED BY <2>4, <2>5, <2>6
<1> QED
  BY <1>4, <1>5, <1>6

-----------------------------------------------------------------------------
(* What a step makes of the rows, the bell and the requests.                *)

LEMMA RowSteps ==
    ASSUME [Next]_vars
    PROVE  \/ rows' = rows \/ Served
           \/ Purged /\ reqs' = Spoilt(reqs) /\ bell' = bell /\ (unsure => unsure')
           \/ \E n \in Notices : /\ Born(n) /\ reqs' = Spoilt(reqs) /\ UNCHANGED <<subscribed, wire, bell, source, toasts, doubled>>
                                 /\ \/ hand' = [hand EXCEPT ![LoopOf(n)] = [n |-> n, fresh |-> TRUE]] /\ (unsure => unsure')
                                    \/ hand' = hand /\ (unsure \/ Unread' # Unread => unsure')
<1> SUFFICES ASSUME rows' # rows, ~Served
             PROVE  \/ Purged /\ reqs' = Spoilt(reqs) /\ bell' = bell /\ (unsure => unsure')
                    \/ \E n \in Notices : /\ Born(n) /\ reqs' = Spoilt(reqs) /\ UNCHANGED <<subscribed, wire, bell, source, toasts, doubled>>
                                 /\ \/ hand' = [hand EXCEPT ![LoopOf(n)] = [n |-> n, fresh |-> TRUE]] /\ (unsure => unsure')
                                    \/ hand' = hand /\ (unsure \/ Unread' # Unread => unsure')
  OBVIOUS
<1>1. LoopStep /\ ServiceRuns
  <2>1. ~(UNCHANGED rows)
    OBVIOUS
  <2>2. ServiceRuns
    BY ClientStands, StreamStands DEF Next, vars, Stream, User, StreamStep, service
  <2> QED BY <2>2, ServiceStands, DigestStands DEF ServiceStep, LoopStep
<1>2. /\ reqs' = Spoilt(reqs) /\ unsure' = (unsure \/ (hand' = hand /\ Unread' # Unread))
      /\ UNCHANGED <<bell, source, toasts, doubled>>
  BY <1>1 DEF ServiceRuns
<1>3. CASE Project
  <2>1. PICK n \in Notices, burst \in BOOLEAN :
           /\ Waits(n) /\ rows' = insertNotification(n, burst)
           /\ hand' = [hand EXCEPT ![LoopOf(n)] = [n |-> n, fresh |-> ~Exists(n)]]
           /\ UNCHANGED <<subscribed, wire>>
    BY <1>3 DEF Project
  <2>2. ~Exists(n) /\ Born(n)
    BY <2>1 DEF insertNotification, Born
  <2>3. hand' = [hand EXCEPT ![LoopOf(n)] = [n |-> n, fresh |-> TRUE]]
    BY <2>1, <2>2
  <2> QED BY <1>2, <2>1, <2>2, <2>3
<1>4. CASE ProjectFails
  <2>1. PICK n \in Notices, committed \in BOOLEAN :
           /\ Waits(n) /\ rows' = (IF committed THEN insertNotification(n, FALSE) ELSE rows)
           /\ UNCHANGED <<hand, subscribed, wire>>
    BY <1>4 DEF ProjectFails
  <2>2. Born(n)
    BY <2>1 DEF insertNotification, Born
  <2> QED BY <1>2, <2>1, <2>2
<1>5. CASE purgeReadNotifications
  BY <1>2, <1>5 DEF purgeReadNotifications, Purged, mails
<1> QED BY <1>1, <1>3, <1>4, <1>5 DEF LoopStep, Publish, Tell, Die

(* A write of the service leaves a flag a flag.                             *)
LEMMA RowsTyped ==
    ASSUME Table, Types, [Next]_vars
    PROVE  /\ Stored \subseteq Stored' /\ IsFiniteSet(Stored') /\ \A m, n \in Stored' : rows'[m].at = rows'[n].at => m = n
           /\ \A n \in Notices : rows'[n].read \in BOOLEAN /\ rows'[n].ms \in Nat
<1>1. CASE rows' = rows
  BY <1>1 DEF Types, Stored
<1>2. CASE Purged
  <2>1. PICK n \in Notices : rows' = [rows EXCEPT ![n].gone = TRUE]
    BY <1>2 DEF Purged
  <2>2. \A m \in Notices : rows'[m].at = rows[m].at /\ rows'[m].read = rows[m].read /\ rows'[m].ms = rows[m].ms
    <3>1. \A m \in Notices : m # n => rows'[m] = rows[m]
      BY <2>1, PurgedIsTable
    <3>2. rows'[n] = [rows[n] EXCEPT !.gone = TRUE] /\ RowOK(rows[n])
      BY <2>1 DEF Table
    <3>3. rows'[n].at = rows[n].at /\ rows'[n].read = rows[n].read /\ rows'[n].ms = rows[n].ms
      BY <3>2 DEF RowOK
    <3> QED BY <3>1, <3>3
  <2>3. Stored' = Stored
    BY <2>2 DEF Stored
  <2> QED BY <2>2, <2>3 DEF Types, Stored
<1>3. CASE Served
  <2>1. PICK i \in DOMAIN reqs : rows' = Effect(reqs[i])
    BY <1>3 DEF Served
  <2>2. reqs[i] \in Requests(Stored)
    BY Lists DEF Types
  <2>3. reqs[i].read \in BOOLEAN
    BY <2>2 DEF Requests
  <2>4. Kept
    BY <1>3, ServedKeeps
  <2>5. \A m \in Notices : rows'[m].read \in BOOLEAN /\ rows'[m].ms = rows[m].ms
    <3>1. CASE rows' = rows
      BY <3>1 DEF Types
    <3>2. CASE rows' = markAllRead
      <4>1. \A m \in Notices : RowOK(rows[m]) /\ rows'[m] = [rows[m] EXCEPT !.read = Exists(m)] /\ Exists(m) \in BOOLEAN
        BY <3>2 DEF markAllRead, Table, RowOK, Exists
      <4> QED BY <4>1 DEF RowOK
    <3>3. CASE rows' = setReadState(reqs[i].n, reqs[i].read)
      <4>1. \A m \in Notices : m # reqs[i].n => rows'[m] = rows[m]
        BY <3>3 DEF setReadState, Table
      <4>2. reqs[i].n \in Notices => rows'[reqs[i].n] = [rows[reqs[i].n] EXCEPT !.read = reqs[i].read] /\ RowOK(rows[reqs[i].n])
        BY <3>3 DEF setReadState, Table
      <4>3. reqs[i].n \in Notices => rows'[reqs[i].n].read = reqs[i].read /\ rows'[reqs[i].n].ms = rows[reqs[i].n].ms
        BY <4>2 DEF RowOK
      <4> QED BY <2>3, <4>1, <4>3 DEF Types
    <3> QED BY <2>1, <3>1, <3>2, <3>3 DEF Effect
  <2>6. Stored' = Stored /\ \A m \in Notices : rows'[m].at = rows[m].at
    BY <2>4 DEF Kept, Stored
  <2> QED BY <2>5, <2>6 DEF Types, Stored
<1>4. ASSUME NEW n \in Notices, Born(n)
      PROVE  /\ Stored \subseteq Stored' /\ IsFiniteSet(Stored') /\ \A m, o \in Stored' : rows'[m].at = rows'[o].at => m = o
             /\ \A m \in Notices : rows'[m].read \in BOOLEAN /\ rows'[m].ms \in Nat
  <2>1. /\ rows'[n].at \in Nat /\ rows'[n].at = Newest.at + 1 /\ Newest.at \in Nat
        /\ \A m \in Notices : m # n => rows'[m] = rows[m]
        /\ \A m \in Notices : rows[m].at < rows'[n].at
    BY <1>4, BornIsNewest, NewestIsLast
  <2>2. \A m \in Notices : rows[m].at \in Nat
    BY DEF Table, RowOK
  <2>3. Stored' = Stored \cup {n}
    BY <2>1, <2>2 DEF Stored
  <2>4. IsFiniteSet(Stored')
    BY <2>3, FS_AddElement DEF Types
  <2>5. \A m, o \in Stored' : rows'[m].at = rows'[o].at => m = o
    <3>1. Stored \subseteq Notices
      BY DEF Stored
    <3>2. \A m \in Stored : m # n => rows'[m].at = rows[m].at /\ rows'[m].at # rows'[n].at
      BY <2>1, <2>2, <3>1
    <3> QED BY <2>3, <3>2 DEF Types
  <2>6. Newest.ms \in Nat
    <3>1. CASE \E m \in Notices : rows[m].at > 0
      <4>1. PICK x \in Notices : \A y \in Notices : rows[y].at <= rows[x].at
        BY <3>1 DEF Table
      <4>2. Newest \in {rows[m] : m \in Notices}
        BY <3>1, <4>1 DEF Newest
      <4> QED BY <4>2 DEF Types
    <3>2. CASE ~\E m \in Notices : rows[m].at > 0
      BY <3>2 DEF Newest, NoRow
    <3> QED BY <3>1, <3>2
  <2>7. rows'[n].read \in BOOLEAN /\ rows'[n].ms \in Nat
    <3>1. PICK s \in {Newest.ms, Newest.ms + 1} :
             rows' = [rows EXCEPT ![n] = [at |-> Newest.at + 1, ms |-> s, read |-> FALSE, gone |-> FALSE]]
      BY <1>4 DEF Born
    <3>2. rows'[n] = [at |-> Newest.at + 1, ms |-> s, read |-> FALSE, gone |-> FALSE]
      BY <3>1 DEF Table
    <3>3. rows'[n].read = FALSE /\ rows'[n].ms = s
      BY <3>2
    <3>4. s \in Nat
      BY <2>6
    <3> QED BY <3>3, <3>4
  <2>8. \A m \in Notices : rows'[m].read \in BOOLEAN /\ rows'[m].ms \in Nat
    BY <2>1, <2>7 DEF Types
  <2> QED BY <2>3, <2>4, <2>5, <2>8
<1> QED BY <1>1, <1>2, <1>3, <1>4, RowSteps

LEMMA AnswerTyped ==
    ASSUME Table, Types, NEW q \in Requests(Stored)
    PROVE  Answer(q) \in Requests(Stored)
<1>1. CASE q.kind = "count"
  <2>1. Cardinality(Unread) \in Nat
    <3>1. Unread \subseteq Stored
      BY DEF Unread, Stored, Exists
    <3> QED BY <3>1, FS_Subset, FS_CardinalityType DEF Types
  <2>2. (Quiet /\ ~\E i \in DOMAIN reqs : IsPost(reqs[i])) \in BOOLEAN
    OBVIOUS
  <2> DEFINE calm == Quiet /\ ~\E i \in DOMAIN reqs : IsPost(reqs[i])
             count == Cardinality(Unread)
  <2>3. Answer(q) = [q EXCEPT !.stage = "done", !.count = count, !.calm = calm]
    BY <1>1 DEF Answer
  <2>4. count \in Nat /\ calm \in BOOLEAN
    BY <2>1, <2>2
  <2> HIDE DEF count, calm
  <2>5. [q EXCEPT !.stage = "done", !.count = count, !.calm = calm] \in Requests(Stored)
    BY <2>4 DEF Requests
  <2> QED BY <2>3, <2>5
<1>2. CASE q.kind = "page"
  <2> DEFINE found == listNotifications(q.only, q.before)
             data == [i \in DOMAIN found |-> [n |-> found[i], read |-> rows[found[i]].read]]
  <2>1. found \in Seq(Stored)
    BY PageOfRows
  <2>2. Answer(q) = [q EXCEPT !.stage = "done", !.data = data]
    BY <1>2 DEF Answer
  <2> HIDE DEF found
  <2>3. Len(found) \in Nat /\ DOMAIN found = 1 .. Len(found) /\ \A i \in DOMAIN found : found[i] \in Stored
    BY <2>1
  <2>4. data \in [1 .. Len(found) -> Cards(Stored)]
    BY <2>3 DEF Cards, Types, Stored
  <2> HIDE DEF data
  <2>5. data \in Seq(Cards(Stored))
    BY <2>3, <2>4
  <2>6. [q EXCEPT !.stage = "done", !.data = data] \in Requests(Stored)
    BY <2>5 DEF Requests
  <2> QED BY <2>2, <2>6
<1>3. CASE q.kind = "post"
  BY <1>3 DEF Answer, Requests
<1> QED BY <1>1, <1>2, <1>3 DEF Requests

LEMMA LandedTyped ==
    ASSUME Types, NEW q \in Requests(Stored)
    PROVE  /\ Landed(q) \in Bells(Stored)
           /\ q.kind = "count" => IF q.stage = "failed" THEN Landed(q) = bell ELSE Landed(q).unread = q.count
           /\ q.kind = "page" => Landed(q).unread = bell.unread
           /\ q.kind = "post" => IF q.stage = "failed" THEN Landed(q).unread = q.unread ELSE Landed(q) = bell
           /\ Landed(q).es = bell.es
<1> DEFINE b == bell
<1>1. b \in Bells(Stored)
  BY DEF Types
<1> HIDE DEF b
<1>2. /\ b.list \in Seq(Cards(Stored)) /\ q.data \in Seq(Cards(Stored)) /\ q.list \in Seq(Cards(Stored))
      /\ q.count \in Nat /\ q.unread \in Nat
  BY <1>1 DEF Bells, Requests
<1>3. CASE q.kind = "count"
  <2>1. Landed(q) = IF q.stage = "failed" THEN b ELSE [b EXCEPT !.unread = q.count]
    BY <1>3 DEF Landed, b
  <2>2. LET c == [b EXCEPT !.unread = q.count] IN c \in Bells(Stored) /\ c.unread = q.count /\ c.es = b.es
    BY <1>1, <1>2 DEF Bells
  <2> QED BY <1>1, <1>3, <2>1, <2>2 DEF b
<1>4. CASE q.kind = "page"
  <2>1. ASSUME q.stage = "failed"
        PROVE  Landed(q) \in Bells(Stored) /\ Landed(q).unread = b.unread /\ Landed(q).es = b.es
    <3>1. PICK l \in Seq(Cards(Stored)) : Landed(q) = [b EXCEPT !.list = l, !.error = TRUE, !.loading = FALSE]
      <4> DEFINE l == IF q.before = None THEN <<>> ELSE b.list
      <4>1. l \in Seq(Cards(Stored))
        BY <1>2
      <4>2. Landed(q) = [b EXCEPT !.list = l, !.error = TRUE, !.loading = FALSE]
        BY <1>4, <2>1 DEF Landed, b
      <4> QED BY <4>1, <4>2
    <3>2. LET c == [b EXCEPT !.list = l, !.error = TRUE, !.loading = FALSE]
          IN c \in Bells(Stored) /\ c.unread = b.unread /\ c.es = b.es
      BY <1>1 DEF Bells
    <3> QED BY <3>1, <3>2
  <2>2. ASSUME q.stage # "failed"
        PROVE  Landed(q) \in Bells(Stored) /\ Landed(q).unread = b.unread /\ Landed(q).es = b.es
    <3>1. PICK l \in Seq(Cards(Stored)), m \in BOOLEAN :
             Landed(q) = [b EXCEPT !.list = l, !.more = m, !.error = FALSE, !.loading = FALSE]
      <4> DEFINE l == IF q.before = None THEN q.data ELSE b.list \o q.data
                 m == Len(q.data) = PageSize
      <4>1. l \in Seq(Cards(Stored)) /\ m \in BOOLEAN
        BY <1>2
      <4>2. Landed(q) = [b EXCEPT !.list = l, !.more = m, !.error = FALSE, !.loading = FALSE]
        BY <1>4, <2>2 DEF Landed, b
      <4> HIDE DEF l, m
      <4> QED BY <4>1, <4>2
    <3>2. LET c == [b EXCEPT !.list = l, !.more = m, !.error = FALSE, !.loading = FALSE]
          IN c \in Bells(Stored) /\ c.unread = b.unread /\ c.es = b.es
      BY <1>1 DEF Bells
    <3> QED BY <3>1, <3>2
  <2> QED BY <1>4, <2>1, <2>2 DEF b
<1>5. CASE q.kind = "post"
  <2>1. Landed(q) = IF q.stage = "failed" THEN [b EXCEPT !.list = q.list, !.unread = q.unread, !.error = TRUE] ELSE b
    BY <1>5 DEF Landed, b
  <2>2. LET c == [b EXCEPT !.list = q.list, !.unread = q.unread, !.error = TRUE]
        IN c \in Bells(Stored) /\ c.unread = q.unread /\ c.es = b.es
    BY <1>1, <1>2 DEF Bells
  <2> QED BY <1>1, <1>5, <2>1, <2>2 DEF b
<1> QED BY <1>3, <1>4, <1>5 DEF Requests

(* Steps that leave the badge alone, and send nothing or what does not      *)
(* write.                                                                   *)
Asks == reqs' = reqs \/ \E x \in Requests(Stored) : x.kind \in {"page", "count"} /\ x.stage = "sent" /\ reqs' = Append(reqs, x)
Steady == bell' \in Bells(Stored) /\ bell'.unread = bell.unread /\ Asks /\ UNCHANGED <<rows, unsure>>

LEMMA Fetches ==
    ASSUME NEW b \in Bells(Stored), NEW before \in Nat \cup {None}, fetchPage(b, before)
    PROVE  bell' \in Bells(Stored) /\ bell'.unread = b.unread /\ bell'.es = b.es /\ Asks
<1>1. [b EXCEPT !.loading = TRUE] \in Bells(Stored)
  BY DEF Bells
<1>2. [b EXCEPT !.loading = TRUE].unread = b.unread /\ [b EXCEPT !.loading = TRUE].es = b.es
  BY DEF Bells
<1>3. LET x == PageRequest(b, before)
      IN x \in Requests(Stored) /\ x.kind = "page" /\ x.stage = "sent"
  BY Blanks
<1> QED BY <1>1, <1>2, <1>3 DEF fetchPage, Asks

LEMMA Opens ==
    ASSUME NEW b \in Bells(Stored)
    PROVE  \A c \in {openStream(b), scheduleReconnect(b)} : c \in Bells(Stored) /\ c.unread = b.unread /\ c.es = b.es
<1>1. openStream(b).unread = b.unread /\ openStream(b).es = b.es
  BY DEF openStream, Bells
<1>2. scheduleReconnect(b).unread = b.unread /\ scheduleReconnect(b).es = b.es
  BY DEF scheduleReconnect, Bells
<1> QED BY <1>1, <1>2, Blanks

LEMMA Presses ==
    ASSUME Table, Types,
           connect \/ TokenIsRefused \/ ReconnectTimer \/ openDrawer \/ CloseDrawer \/ setUnreadOnly \/ retryLoad \/ loadMore
    PROVE  Steady /\ bell'.es = bell.es
<1> DEFINE b == bell
<1>1. b \in Bells(Stored)
  BY DEF Types
<1>2. UNCHANGED <<rows, unsure>>
  BY DEF connect, TokenIsRefused, ReconnectTimer, openDrawer, CloseDrawer, setUnreadOnly, retryLoad, loadMore, service, told
<1> HIDE DEF b
<1>3. CASE connect
  <2> DEFINE c == [b EXCEPT !.on = TRUE]
  <2>1. c \in Bells(Stored) /\ c.unread = b.unread /\ c.es = b.es
    BY <1>1 DEF Bells
  <2>2. bell' = openStream(c) /\ reqs' = reqs
    BY <1>3 DEF connect, b
  <2> HIDE DEF c
  <2> QED BY <1>2, <2>1, <2>2, Opens DEF Steady, Asks, b
<1>4. CASE TokenIsRefused
  <2> DEFINE c == [b EXCEPT !.tokens = b.tokens - 1]
  <2>1. c \in Bells(Stored) /\ c.unread = b.unread /\ c.es = b.es
    BY <1>1 DEF Bells
  <2>2. bell' = scheduleReconnect(c) /\ reqs' = reqs
    BY <1>4 DEF TokenIsRefused, b
  <2> HIDE DEF c
  <2> QED BY <1>2, <2>1, <2>2, Opens DEF Steady, Asks, b
<1>5. CASE ReconnectTimer
  <2> DEFINE c == [b EXCEPT !.timer = FALSE]
  <2>1. c \in Bells(Stored) /\ c.unread = b.unread /\ c.es = b.es
    BY <1>1 DEF Bells
  <2>2. bell' = openStream(c) /\ reqs' = reqs
    BY <1>5 DEF ReconnectTimer, b
  <2> HIDE DEF c
  <2> QED BY <1>2, <2>1, <2>2, Opens DEF Steady, Asks, b
<1>6. CASE openDrawer
  <2> DEFINE only == b.unread > 0
             c == [b EXCEPT !.drawer = TRUE, !.only = only]
  <2>0. only \in BOOLEAN
    OBVIOUS
  <2>1. fetchPage(c, None)
    BY <1>6 DEF openDrawer, b
  <2> HIDE DEF only
  <2>2. c \in Bells(Stored) /\ c.unread = b.unread /\ c.es = b.es
    BY <1>1, <2>0 DEF Bells
  <2> HIDE DEF c
  <2> QED BY <1>2, <2>1, <2>2, Fetches DEF Steady, b
<1>7. CASE CloseDrawer
  <2>1. bell' = [b EXCEPT !.drawer = FALSE] /\ reqs' = reqs
    BY <1>7 DEF CloseDrawer, b
  <2>2. bell' \in Bells(Stored) /\ bell'.unread = b.unread /\ bell'.es = b.es
    BY <1>1, <2>1 DEF Bells
  <2> QED BY <1>2, <2>1, <2>2 DEF Steady, Asks, b
<1>8. CASE setUnreadOnly
  <2> DEFINE c == [b EXCEPT !.only = ~b.only]
  <2>1. fetchPage(c, None)
    BY <1>8 DEF setUnreadOnly, b
  <2>2. c \in Bells(Stored) /\ c.unread = b.unread /\ c.es = b.es
    BY <1>1 DEF Bells
  <2> HIDE DEF c
  <2> QED BY <1>2, <2>1, <2>2, Fetches DEF Steady, b
<1>9. CASE retryLoad
  <2>1. fetchPage(b, None)
    BY <1>9 DEF retryLoad, b
  <2> QED BY <1>1, <1>2, <2>1, Fetches DEF Steady, b
<1>10. CASE loadMore
  <2>1. fetchPage(b, rows[Last(b.list).n].ms) /\ b.list # <<>>
    BY <1>10 DEF loadMore, b
  <2>2. b.list \in Seq(Cards(Stored))
    BY <1>1 DEF Bells
  <2>3. Last(b.list) \in Cards(Stored)
    BY <2>1, <2>2 DEF Last
  <2>4. rows[Last(b.list).n].ms \in Nat
    BY <2>3 DEF Cards, Stored, Types
  <2> QED BY <1>1, <1>2, <2>1, <2>4, Fetches DEF Steady, b
<1> QED BY <1>3, <1>4, <1>5, <1>6, <1>7, <1>8, <1>9, <1>10

LEMMA Streaming ==
    ASSUME Types, disconnect \/ TokenComes \/ Subscribe \/ onopen \/ onerror
    PROVE  /\ Steady
           /\ disconnect => bell'.es = None
           /\ onerror => bell'.es \in {bell.es, None}
<1> DEFINE b == bell
<1>1. b \in Bells(Stored)
  BY DEF Types
<1>2. UNCHANGED <<rows, unsure>>
  BY DEF disconnect, TokenComes, Subscribe, onopen, onerror, service, told
<1> HIDE DEF b
<1>3. ASSUME disconnect
      PROVE  Steady /\ bell'.es = None
  <2>1. bell' = [b EXCEPT !.on = FALSE, !.timer = FALSE, !.es = None, !.drawer = FALSE] /\ reqs' = reqs
    BY <1>3 DEF disconnect, b
  <2>2. bell' \in Bells(Stored) /\ bell'.unread = b.unread /\ bell'.es = None
    BY <1>1, <2>1 DEF Bells
  <2> QED BY <1>2, <2>1, <2>2 DEF Steady, Asks, b
<1>4. ASSUME TokenComes
      PROVE  Steady
  <2>1. /\ reqs' = reqs
        /\ \/ \E c \in Streams : bell' = [b EXCEPT !.tokens = b.tokens - 1, !.es = c]
           \/ bell' = [b EXCEPT !.tokens = b.tokens - 1]
    BY <1>4 DEF TokenComes, NewSource, b
  <2>2. b.tokens - 1 \in Int
    BY <1>1 DEF Bells
  <2>3. bell' \in Bells(Stored) /\ bell'.unread = b.unread
    <3>1. ASSUME NEW c \in Streams, bell' = [b EXCEPT !.tokens = b.tokens - 1, !.es = c]
          PROVE  bell' \in Bells(Stored) /\ bell'.unread = b.unread
      BY <1>1, <2>2, <3>1 DEF Bells
    <3>2. ASSUME bell' = [b EXCEPT !.tokens = b.tokens - 1]
          PROVE  bell' \in Bells(Stored) /\ bell'.unread = b.unread
      BY <1>1, <2>2, <3>2 DEF Bells
    <3> QED BY <2>1, <3>1, <3>2
  <2> QED BY <1>2, <2>1, <2>3 DEF Steady, Asks, b
<1>5. ASSUME Subscribe
      PROVE  Steady
  <2>1. bell' = b /\ reqs' = reqs
    BY <1>5 DEF Subscribe, client, b
  <2> QED BY <1>1, <1>2, <2>1 DEF Steady, Asks, b
<1>6. ASSUME onopen
      PROVE  Steady
  <2>1. bell' = b /\ reqs' = Append(reqs, CountRequest)
    BY <1>6 DEF onopen, b
  <2>2. CountRequest \in Requests(Stored) /\ CountRequest.kind = "count" /\ CountRequest.stage = "sent"
    BY <1>1, Blanks DEF CountRequest, Blank
  <2> HIDE DEF CountRequest
  <2> QED BY <1>1, <1>2, <2>1, <2>2 DEF Steady, Asks, b
<1>7. ASSUME onerror
      PROVE  Steady /\ bell'.es \in {bell.es, None}
  <2>1. PICK e \in {b.es, None} : bell' = scheduleReconnect([b EXCEPT !.es = e]) /\ reqs' = reqs
    <3>1. PICK c \in Streams : bell' = scheduleReconnect([b EXCEPT !.es = IF b.es = c THEN None ELSE b.es]) /\ reqs' = reqs
      BY <1>7 DEF onerror, b
    <3> QED BY <3>1
  <2> DEFINE c == [b EXCEPT !.es = e]
  <2>2. c \in Bells(Stored) /\ c.unread = b.unread /\ c.es = e
    BY <1>1, <2>1 DEF Bells
  <2> HIDE DEF c
  <2>3. bell' = scheduleReconnect(c)
    BY <2>1 DEF c
  <2>4. bell' \in Bells(Stored) /\ bell'.unread = c.unread /\ bell'.es = c.es
    BY <2>2, <2>3, Opens
  <2> QED BY <1>2, <2>1, <2>2, <2>4 DEF Steady, Asks, b
<1> QED BY <1>3, <1>4, <1>5, <1>6, <1>7

Typed == bell' \in Bells(Stored) /\ reqs' \in Seq(Requests(Stored)) /\ unsure' \in BOOLEAN

LEMMA SteadyTyped ==
    ASSUME Types, Steady
    PROVE  Typed
<1>1. \A x \in Requests(Stored) : Append(reqs, x) \in Seq(Requests(Stored))
  BY Lists DEF Types
<1> QED BY <1>1 DEF Steady, Asks, Types, Typed

(* A notification read off the stream counts once, and spoils what is       *)
(* under way.                                                              *)
LEMMA Counted ==
    ASSUME Types, Wires, onStreamNotification
    PROVE  /\ Typed /\ rows' = rows /\ reqs' = Spoilt(reqs) /\ bell'.es = bell.es
           /\ \E c \in Streams : /\ source[c] = "open" /\ wire[c] # <<>> /\ wire' = [wire EXCEPT ![c] = Tail(wire[c])]
                                 /\ Head(wire[c]) \in Stored
           /\ unsure => unsure'
           /\ ~unsure' => bell'.unread = bell.unread + 1
           /\ UNCHANGED <<hand, subscribed, source, doubled>>
<1> DEFINE b == bell
<1>1. b \in Bells(Stored)
  BY DEF Types
<1>2. PICK c \in Streams :
        /\ source[c] = "open" /\ wire[c] # <<>>
        /\ LET n == Head(wire[c])
               known == n \in Held(b.list)
           IN /\ bell' = IF known THEN b ELSE [b EXCEPT !.unread = b.unread + 1, !.list = <<[n |-> n, read |-> FALSE]>> \o b.list]
              /\ unsure' = (unsure \/ known)
        /\ wire' = [wire EXCEPT ![c] = Tail(wire[c])]
        /\ reqs' = Spoilt(reqs)
        /\ UNCHANGED <<plan, queue, hand, rows, subscribed, mails, source, doubled>>
  BY DEF onStreamNotification, b
<1> HIDE DEF b
<1> DEFINE n == Head(wire[c])
           known == n \in Held(b.list)
           l == <<[n |-> n, read |-> FALSE]>> \o b.list
<1>3. n \in Stored
  <2>1. wire[c] \in Seq(Notices)
    BY DEF Wires
  <2>2. n = wire[c][1] /\ 1 \in DOMAIN wire[c]
    BY <1>2, <2>1, SeqEnds
  <2> QED BY <2>2, OnWire DEF Wires, Stored
<1> HIDE DEF n
<1>4. l \in Seq(Cards(Stored)) /\ b.unread + 1 \in Nat
  <2>1. b.list \in Seq(Cards(Stored)) /\ b.unread \in Nat
    BY <1>1 DEF Bells
  <2>2. [n |-> n, read |-> FALSE] \in Cards(Stored)
    BY <1>3 DEF Cards
  <2> QED BY <2>1, <2>2
<1>5. bell' = IF known THEN b ELSE [b EXCEPT !.unread = b.unread + 1, !.list = l]
  BY <1>2 DEF n
<1>6. unsure' = (unsure \/ known)
  BY <1>2 DEF n
<1> HIDE DEF known, l
<1>7. LET d == [b EXCEPT !.unread = b.unread + 1, !.list = l]
      IN d \in Bells(Stored) /\ d.unread = b.unread + 1 /\ d.es = b.es
  BY <1>1, <1>4 DEF Bells
<1>8. bell' \in Bells(Stored) /\ bell'.es = b.es /\ (~unsure' => bell'.unread = b.unread + 1)
  BY <1>1, <1>5, <1>6, <1>7
<1>9. reqs' \in Seq(Requests(Stored))
  BY <1>2, Lowered DEF Types
<1>10. unsure' \in BOOLEAN /\ (unsure => unsure')
  BY <1>6
<1> QED BY <1>2, <1>3, <1>8, <1>9, <1>10 DEF n, Typed, b

(* A card turned to read or back, and its request.                          *)
LEMMA Turned ==
    ASSUME Types, SetReadState
    PROVE  /\ Typed /\ UNCHANGED <<service, source, doubled>> /\ bell'.es = bell.es
           /\ \E n \in Stored, read \in BOOLEAN :
                 /\ reqs' = Append(Spoilt(reqs), PostRequest(n, read))
                 /\ bell'.unread = IF read THEN (IF bell.unread = 0 THEN 0 ELSE bell.unread - 1) ELSE bell.unread + 1
                 /\ unsure \/ Pushing(n) => unsure'
<1> DEFINE b == bell
<1>1. b \in Bells(Stored)
  BY DEF Types
<1>2. b.list \in Seq(Cards(Stored)) /\ b.unread \in Nat
  BY <1>1 DEF Bells
<1>3. PICK i \in DOMAIN b.list :
        LET n == b.list[i].n
            read == ~b.list[i].read
        IN /\ bell' = [b EXCEPT !.list = IF read /\ b.only THEN Others(b.list, n) ELSE Shown(b.list, n, read),
                                !.unread = IF read THEN (IF b.unread = 0 THEN 0 ELSE b.unread - 1) ELSE b.unread + 1]
           /\ reqs' = Append(Spoilt(reqs), PostRequest(n, read))
           /\ unsure' = (unsure \/ Pushing(n))
  BY DEF SetReadState
<1>4. UNCHANGED <<service, source, doubled>>
  BY DEF SetReadState
<1> HIDE DEF b
<1> DEFINE n == b.list[i].n
           read == ~b.list[i].read
           l == IF read /\ b.only THEN Others(b.list, n) ELSE Shown(b.list, n, read)
           u == IF read THEN (IF b.unread = 0 THEN 0 ELSE b.unread - 1) ELSE b.unread + 1
<1>5. n \in Stored /\ read \in BOOLEAN
  <2>1. b.list[i] \in Cards(Stored)
    BY <1>2, <1>3
  <2> QED BY <2>1 DEF Cards
<1>6. /\ bell' = [b EXCEPT !.list = l, !.unread = u]
      /\ reqs' = Append(Spoilt(reqs), PostRequest(n, read))
      /\ unsure' = (unsure \/ Pushing(n))
  BY <1>3
<1> HIDE DEF n, read
<1>7. l \in Seq(Cards(Stored)) /\ u \in Nat
  <2>1. Others(b.list, n) \in Seq(Cards(Stored)) /\ Shown(b.list, n, read) \in Seq(Cards(Stored))
    BY <1>2, <1>5, ShownTyped
  <2>2. u \in Nat
    BY <1>2
  <2> QED BY <2>1, <2>2
<1> HIDE DEF l, u
<1>8. bell' \in Bells(Stored) /\ bell'.unread = u /\ bell'.es = b.es
  BY <1>1, <1>6, <1>7 DEF Bells
<1>9. reqs' \in Seq(Requests(Stored))
  <2>1. Spoilt(reqs) \in Seq(Requests(Stored))
    BY Lowered DEF Types
  <2>2. PostRequest(n, read) \in Requests(Stored)
    BY <1>5, PostTyped
  <2> QED BY <1>6, <2>1, <2>2, Lists
<1> QED BY <1>4, <1>5, <1>6, <1>8, <1>9 DEF u, b, Typed

LEMMA AllTurned ==
    ASSUME Types, MarkAllRead
    PROVE  /\ Typed /\ UNCHANGED <<service, source, doubled, unsure>> /\ bell'.es = bell.es
           /\ reqs' = Append(Spoilt(reqs), PostRequest(0, TRUE)) /\ bell'.unread = 0
<1> DEFINE b == bell
<1>1. b \in Bells(Stored)
  BY DEF Types
<1>2. b.list \in Seq(Cards(Stored))
  BY <1>1 DEF Bells
<1> DEFINE all == [i \in DOMAIN b.list |-> [b.list[i] EXCEPT !.read = TRUE]]
           l == IF b.only THEN <<>> ELSE all
<1>3. bell' = [b EXCEPT !.list = l, !.unread = 0] /\ reqs' = Append(Spoilt(reqs), PostRequest(0, TRUE))
  BY DEF MarkAllRead
<1>4. UNCHANGED <<service, source, doubled, unsure>>
  BY DEF MarkAllRead, told
<1> HIDE DEF b
<1>5. all \in Seq(Cards(Stored))
  BY <1>2, ShownTyped
<1> HIDE DEF all
<1>6. l \in Seq(Cards(Stored))
  BY <1>5
<1> HIDE DEF l
<1>7. bell' \in Bells(Stored) /\ bell'.unread = 0 /\ bell'.es = b.es
  BY <1>1, <1>3, <1>6 DEF Bells
<1>8. reqs' \in Seq(Requests(Stored))
  <2>1. Spoilt(reqs) \in Seq(Requests(Stored))
    BY Lowered DEF Types
  <2>2. PostRequest(0, TRUE) \in Requests(Stored)
    BY PostTyped
  <2> QED BY <1>3, <2>1, <2>2, Lists
<1> QED BY <1>3, <1>4, <1>7, <1>8 DEF b, Typed, Types

(* The answers: what the service makes of a request, what is lost, and what *)
(* the tab makes of them.                                                  *)
LEMMA Answered ==
    ASSUME Table, Types, Served
    PROVE  /\ Typed /\ UNCHANGED <<queue, hand, subscribed, wire, bell, source, doubled>>
           /\ \E i \in DOMAIN reqs :
                 /\ reqs[i].stage = "sent" /\ rows' = Effect(reqs[i])
                 /\ Len(reqs') = Len(reqs) /\ DOMAIN reqs' = DOMAIN reqs
                 /\ reqs'[i] = Answer(reqs[i])
                 /\ \A j \in DOMAIN reqs : j # i =>
                       reqs'[j] = [reqs[j] EXCEPT !.calm = reqs[j].calm /\ (IsPost(reqs[i]) => IsPost(reqs[j]))]
                 /\ unsure \/ (IsPost(reqs[i]) /\ (Overtakes(i) \/ Idle(reqs[i]))) => unsure'
<1>1. PICK i \in DOMAIN reqs :
        /\ reqs[i].stage = "sent" /\ rows' = Effect(reqs[i])
        /\ reqs' = [j \in DOMAIN reqs |->
                      IF j = i THEN Answer(reqs[i])
                      ELSE [reqs[j] EXCEPT !.calm = reqs[j].calm /\ (IsPost(reqs[i]) => IsPost(reqs[j]))]]
        /\ unsure' = (unsure \/ (IsPost(reqs[i]) /\ (Overtakes(i) \/ Idle(reqs[i]))))
        /\ UNCHANGED <<plan, queue, hand, subscribed, wire, mails, bell, source, toasts, doubled>>
  BY DEF Served
<1>2. DOMAIN reqs = 1 .. Len(reqs) /\ Len(reqs) \in Nat /\ \A j \in DOMAIN reqs : reqs[j] \in Requests(Stored)
  BY Lists DEF Types
<1>3. Answer(reqs[i]) \in Requests(Stored)
  BY <1>2, AnswerTyped
<1>4. \A j \in DOMAIN reqs : reqs'[j] \in Requests(Stored)
  <2>1. TAKE j \in DOMAIN reqs
  <2>2. CASE j = i
    BY <1>1, <1>3, <2>2
  <2>3. CASE j # i
    <3> DEFINE q == reqs[j]
               calm == reqs[j].calm /\ (IsPost(reqs[i]) => IsPost(reqs[j]))
    <3>1. q \in Requests(Stored) /\ calm \in BOOLEAN
      BY <1>2
    <3>2. reqs'[j] = [q EXCEPT !.calm = calm]
      BY <1>1, <2>3
    <3> HIDE DEF q, calm
    <3>3. [q EXCEPT !.calm = calm] \in Requests(Stored)
      BY <3>1 DEF Requests
    <3> QED BY <3>2, <3>3
  <2> QED BY <2>2, <2>3
<1>5. reqs' \in [1 .. Len(reqs) -> Requests(Stored)]
  BY <1>1, <1>2, <1>4
<1>6. reqs' \in Seq(Requests(Stored)) /\ Len(reqs') = Len(reqs) /\ DOMAIN reqs' = DOMAIN reqs
  BY <1>2, <1>5
<1>7. unsure' \in BOOLEAN /\ bell' \in Bells(Stored)
  BY <1>1 DEF Types
<1> QED BY <1>1, <1>6, <1>7 DEF Typed

LEMMA LostTyped ==
    ASSUME Types, RequestIsLost
    PROVE  /\ Typed /\ UNCHANGED <<service, bell, source, unsure, doubled>>
           /\ \E i \in DOMAIN reqs :
                 /\ reqs[i].stage \in {"sent", "done"}
                 /\ Len(reqs') = Len(reqs) /\ DOMAIN reqs' = DOMAIN reqs
                 /\ reqs'[i] = [reqs[i] EXCEPT !.stage = "failed", !.calm = reqs[i].calm /\ reqs[i].stage = "sent"]
                 /\ \A j \in DOMAIN reqs : j # i => reqs'[j] = reqs[j]
<1>1. PICK i \in DOMAIN reqs :
        /\ reqs[i].stage \in {"sent", "done"}
        /\ reqs' = [reqs EXCEPT ![i] = [reqs[i] EXCEPT !.stage = "failed", !.calm = reqs[i].calm /\ reqs[i].stage = "sent"]]
        /\ UNCHANGED <<service, bell, source, told>>
  BY DEF RequestIsLost
<1>2. DOMAIN reqs = 1 .. Len(reqs) /\ Len(reqs) \in Nat /\ \A j \in DOMAIN reqs : reqs[j] \in Requests(Stored)
  BY Lists DEF Types
<1> DEFINE q == reqs[i]
           calm == reqs[i].calm /\ reqs[i].stage = "sent"
           f == [q EXCEPT !.stage = "failed", !.calm = calm]
<1>3. f \in Requests(Stored)
  <2>1. q \in Requests(Stored) /\ calm \in BOOLEAN
    BY <1>2
  <2> HIDE DEF q, calm
  <2> QED BY <2>1 DEF Requests
<1> HIDE DEF f
<1>4. reqs' = [reqs EXCEPT ![i] = f]
  BY <1>1 DEF f
<1>5. reqs \in Seq(Requests(Stored))
  BY DEF Types
<1>6. reqs' \in Seq(Requests(Stored)) /\ Len(reqs') = Len(reqs) /\ DOMAIN reqs' = DOMAIN reqs
  BY <1>3, <1>4, <1>5
<1>7. reqs'[i] = f /\ \A j \in DOMAIN reqs : j # i => reqs'[j] = reqs[j]
  BY <1>4, <1>5
<1> QED BY <1>1, <1>6, <1>7 DEF Typed, Types, told, f

LEMMA LandsTyped ==
    ASSUME Types, Lands
    PROVE  /\ Typed /\ UNCHANGED <<service, source, doubled>>
           /\ \E i \in DOMAIN reqs :
                 LET others == SubSeq(reqs, 1, i - 1) \o SubSeq(reqs, i + 1, Len(reqs))
                 IN /\ reqs[i].stage \in {"done", "failed"} /\ bell' = Landed(reqs[i]) /\ unsure' = Doubt(reqs[i])
                    /\ reqs' = IF reqs[i].kind = "page" \/ Landed(reqs[i]).unread = bell.unread THEN others ELSE Spoilt(others)
<1>1. PICK i \in DOMAIN reqs :
        LET others == SubSeq(reqs, 1, i - 1) \o SubSeq(reqs, i + 1, Len(reqs))
        IN /\ reqs[i].stage \in {"done", "failed"} /\ bell' = Landed(reqs[i]) /\ unsure' = Doubt(reqs[i])
           /\ reqs' = IF reqs[i].kind = "page" \/ Landed(reqs[i]).unread = bell.unread THEN others ELSE Spoilt(others)
  BY DEF Lands
<1>2. UNCHANGED <<service, source, doubled>>
  BY DEF Lands
<1>3. reqs[i] \in Requests(Stored) /\ SubSeq(reqs, 1, i - 1) \o SubSeq(reqs, i + 1, Len(reqs)) \in Seq(Requests(Stored))
  BY Lists DEF Types
<1>4. reqs' \in Seq(Requests(Stored))
  BY <1>1, <1>3, Lowered
<1>5. bell' \in Bells(Stored)
  BY <1>1, <1>3, LandedTyped
<1>6. Doubt(reqs[i]) \in BOOLEAN
  <2>1. reqs[i].kind \in {"count", "page", "post"}
    BY <1>3 DEF Requests
  <2>2. unsure \in BOOLEAN
    BY DEF Types
  <2> QED BY <2>1, <2>2 DEF Doubt
<1> QED BY <1>1, <1>2, <1>4, <1>5, <1>6 DEF Typed

LEMMA TypesNext ==
    ASSUME Table, Wires, Types, [Next]_vars
    PROVE  Types'
<1>1. Typed
  <2>1. CASE ServiceRuns
    <3>1. bell' = bell /\ (reqs' = reqs \/ reqs' = Spoilt(reqs)) /\ unsure' \in BOOLEAN
      BY <2>1 DEF ServiceRuns
    <3> QED BY <3>1, Lowered DEF Typed, Types
  <2>2. CASE UNCHANGED vars
    BY <2>2 DEF vars, client, told, Typed, Types
  <2>3. CASE Stream
    BY <2>3, Presses, Streaming, SteadyTyped, Counted DEF Stream
  <2>4. CASE User
    BY <2>4, Presses, Streaming, SteadyTyped, Turned, AllTurned DEF User
  <2> QED BY <2>1, <2>2, <2>3, <2>4, Answered, LostTyped, LandsTyped DEF Next
<1>2. /\ Stored \subseteq Stored' /\ IsFiniteSet(Stored') /\ \A m, n \in Stored' : rows'[m].at = rows'[n].at => m = n
      /\ \A n \in Notices : rows'[n].read \in BOOLEAN /\ rows'[n].ms \in Nat
  BY RowsTyped
<1>3. bell' \in Bells(Stored') /\ reqs' \in Seq(Requests(Stored'))
  BY <1>1, <1>2, TypesGrow DEF Typed
<1> QED BY <1>1, <1>2, <1>3 DEF Types, Typed

-----------------------------------------------------------------------------
(* What becomes of the rows r once the first k - 1 requests of s are        *)
(* served: the last write about a row that is on its way decides.           *)

IsIn(r, n) == r[n].at > 0 /\ ~r[n].gone
Under(q) == IsPost(q) /\ q.stage = "sent"
Concerns(q, n) == Under(q) /\ q.n \in {0, n}
LastSays(s, k, n, i) == i \in 1 .. k - 1 /\ Concerns(s[i], n) /\ \A j \in i + 1 .. k - 1 : ~Concerns(s[j], n)
Unreads(q) == q.n # 0 /\ ~q.read
UnreadIn(s, r, k, n) ==
    /\ IsIn(r, n)
    /\ \/ \E i : LastSays(s, k, n, i) /\ Unreads(s[i])
       \/ (\A i \in 1 .. k - 1 : ~Concerns(s[i], n)) /\ ~r[n].read
ToBeIn(s, r, k) == {n \in Notices : UnreadIn(s, r, k, n)}

(* Writes that will leave the badge in doubt: one that failed, a read-all   *)
(* that something else came under, one about a row that is not there or is  *)
(* already what it should become.                                          *)
Spoils(q) == IsPost(q) /\ (q.stage = "failed" \/ (q.n = 0 /\ ~q.calm))
Doubted(s, r, i) ==
    \/ Spoils(s[i])
    \/ Under(s[i]) /\ s[i].n # 0 /\ ~(IsIn(r, s[i].n) /\ (UnreadIn(s, r, i, s[i].n) <=> s[i].read))
Sound(s, r, k) == \A i \in 1 .. k - 1 : ~Doubted(s, r, i)
Shows(s, r, k, P, u) ==
    Sound(s, r, k) => u = Cardinality(ToBeIn(s, r, k) \ P) /\ P \subseteq ToBeIn(s, r, k)

(* t is s without requests that are no writes on their way.                 *)
Like(x, y) == (Under(x) <=> Under(y)) /\ (Under(y) => x.n = y.n /\ x.read = y.read)
Drops(t, l, s, k, f) ==
    /\ k \in Nat /\ l \in Nat
    /\ \A p \in 1 .. l - 1 : f[p] \in 1 .. k - 1 /\ Like(t[p], s[f[p]])
    /\ \A p, q \in 1 .. l - 1 : p < q => f[p] < f[q]
    /\ \A i \in 1 .. k - 1 : Under(s[i]) => \E p \in 1 .. l - 1 : f[p] = i

LEMMA Carried ==
    ASSUME NEW s, NEW t, NEW r, NEW v, NEW k, NEW l, NEW f, Drops(t, l, s, k, f), NEW n,
           IsIn(v, n) <=> IsIn(r, n), IsIn(r, n) => (v[n].read <=> r[n].read)
    PROVE  UnreadIn(t, v, l, n) <=> UnreadIn(s, r, k, n)
<1> USE DEF Drops
<1>1. \A p \in 1 .. l - 1 : Concerns(t[p], n) <=> Concerns(s[f[p]], n)
  BY DEF Concerns, Like
<1>2. \A p \in 1 .. l - 1 : Concerns(t[p], n) => (Unreads(t[p]) <=> Unreads(s[f[p]]))
  BY DEF Concerns, Like, Unreads
<1>3. \A i \in 1 .. k - 1 : Concerns(s[i], n) => \E p \in 1 .. l - 1 : f[p] = i /\ Concerns(t[p], n)
  BY <1>1 DEF Concerns
<1>4. \A p \in 1 .. l - 1 : LastSays(t, l, n, p) <=> LastSays(s, k, n, f[p])
  <2>1. TAKE p \in 1 .. l - 1
  <2>2. ASSUME LastSays(t, l, n, p), NEW j \in f[p] + 1 .. k - 1, Concerns(s[j], n)
        PROVE  FALSE
    <3>1. j \in 1 .. k - 1 /\ f[p] < j
      BY <2>2
    <3>2. PICK q \in 1 .. l - 1 : f[q] = j /\ Concerns(t[q], n)
      BY <1>3, <2>2, <3>1
    <3>3. q # p /\ ~(q < p)
      BY <3>1, <3>2
    <3>4. q \in p + 1 .. l - 1
      BY <3>3
    <3> QED BY <2>2, <3>2, <3>4 DEF LastSays
  <2>3. ASSUME LastSays(s, k, n, f[p]), NEW q \in p + 1 .. l - 1, Concerns(t[q], n)
        PROVE  FALSE
    <3>1. q \in 1 .. l - 1 /\ p < q
      OBVIOUS
    <3>2. f[q] \in f[p] + 1 .. k - 1 /\ Concerns(s[f[q]], n)
      BY <1>1, <2>3, <3>1
    <3> QED BY <2>3, <3>2 DEF LastSays
  <2> QED BY <1>1, <2>2, <2>3 DEF LastSays
<1>5. (\E i : LastSays(t, l, n, i) /\ Unreads(t[i])) <=> (\E i : LastSays(s, k, n, i) /\ Unreads(s[i]))
  <2>1. ASSUME NEW p, LastSays(t, l, n, p), Unreads(t[p])
        PROVE  \E i : LastSays(s, k, n, i) /\ Unreads(s[i])
    <3>1. p \in 1 .. l - 1 /\ Concerns(t[p], n)
      BY <2>1 DEF LastSays
    <3> QED BY <1>2, <1>4, <2>1, <3>1
  <2>2. ASSUME NEW i, LastSays(s, k, n, i), Unreads(s[i])
        PROVE  \E p : LastSays(t, l, n, p) /\ Unreads(t[p])
    <3>1. i \in 1 .. k - 1 /\ Concerns(s[i], n)
      BY <2>2 DEF LastSays
    <3>2. PICK p \in 1 .. l - 1 : f[p] = i /\ Concerns(t[p], n)
      BY <1>3, <3>1
    <3> QED BY <1>2, <1>4, <2>2, <3>2
  <2> QED BY <2>1, <2>2
<1>6. (\A p \in 1 .. l - 1 : ~Concerns(t[p], n)) <=> (\A i \in 1 .. k - 1 : ~Concerns(s[i], n))
  BY <1>1, <1>3
<1> QED BY <1>5, <1>6 DEF UnreadIn

(* ... and of doubted writes neither.                                       *)
LEMMA CarriedSound ==
    ASSUME NEW s, NEW t, NEW r, NEW v, NEW k, NEW l, NEW f, Drops(t, l, s, k, f),
           \A i \in 1 .. k - 1 : Spoils(s[i]) => \E p \in 1 .. l - 1 : f[p] = i /\ Spoils(t[p]),
           \A i \in 1 .. k - 1 : Under(s[i]) /\ s[i].n # 0 =>
              (IsIn(v, s[i].n) <=> IsIn(r, s[i].n)) /\ (IsIn(r, s[i].n) => (v[s[i].n].read <=> r[s[i].n].read)),
           Sound(t, v, l)
    PROVE  Sound(s, r, k)
<1> SUFFICES ASSUME NEW i \in 1 .. k - 1, Doubted(s, r, i)
             PROVE  FALSE
  BY DEF Sound
<1>1. CASE Spoils(s[i])
  BY <1>1 DEF Sound, Doubted
<1>2. CASE Under(s[i]) /\ s[i].n # 0 /\ ~(IsIn(r, s[i].n) /\ (UnreadIn(s, r, i, s[i].n) <=> s[i].read))
  <2>1. PICK p \in 1 .. l - 1 : f[p] = i
    BY <1>2 DEF Drops
  <2>2. Under(t[p]) /\ t[p].n = s[i].n /\ t[p].read = s[i].read
    BY <1>2, <2>1 DEF Drops, Like
  <2>3. Drops(t, p, s, i, f)
    <3>1. i \in Nat /\ p \in Nat /\ \A q \in 1 .. p - 1 : q \in 1 .. l - 1 /\ q < p
      BY DEF Drops
    <3>2. \A q \in 1 .. p - 1 : f[q] \in 1 .. i - 1 /\ Like(t[q], s[f[q]])
      BY <2>1, <3>1 DEF Drops
    <3>3. \A q, o \in 1 .. p - 1 : q < o => f[q] < f[o]
      BY <3>1 DEF Drops
    <3>4. ASSUME NEW j \in 1 .. i - 1, Under(s[j])
          PROVE  \E q \in 1 .. p - 1 : f[q] = j
      <4>1. PICK q \in 1 .. l - 1 : f[q] = j
        BY <3>4 DEF Drops
      <4>2. ~(p < q) /\ q # p
        BY <2>1, <4>1 DEF Drops
      <4>3. q \in 1 .. p - 1
        BY <4>2
      <4> QED BY <4>1, <4>3
    <3> QED BY <3>1, <3>2, <3>3, <3>4 DEF Drops
  <2> DEFINE n == s[i].n
  <2>4. (IsIn(v, n) <=> IsIn(r, n)) /\ (IsIn(r, n) => (v[n].read <=> r[n].read))
    BY <1>2
  <2>5. UnreadIn(t, v, p, n) <=> UnreadIn(s, r, i, n)
    BY ZenonT(60), <2>3, <2>4, Carried
  <2>6. ~(IsIn(v, n) /\ (UnreadIn(t, v, p, n) <=> t[p].read))
    BY <1>2, <2>2, <2>4, <2>5
  <2> QED BY <1>2, <2>2, <2>6 DEF Sound, Doubted
<1> QED BY <1>1, <1>2 DEF Doubted

LEMMA Matched ==
    ASSUME NEW s, NEW t, NEW r, NEW k \in Nat, NEW P, NEW u,
           \A p \in 1 .. k - 1 : Like(t[p], s[p]) /\ (Spoils(s[p]) => Spoils(t[p]))
    PROVE  /\ ToBeIn(t, r, k) = ToBeIn(s, r, k) /\ (Sound(t, r, k) => Sound(s, r, k))
           /\ Shows(s, r, k, P, u) => Shows(t, r, k, P, u)
<1> DEFINE f == [p \in 1 .. k - 1 |-> p]
<1>1. Drops(t, k, s, k, f)
  BY DEF Drops
<1>2. \A i \in 1 .. k - 1 : Spoils(s[i]) => \E p \in 1 .. k - 1 : f[p] = i /\ Spoils(t[p])
  OBVIOUS
<1> HIDE DEF f
<1>3. Sound(t, r, k) => Sound(s, r, k)
  BY <1>1, <1>2, CarriedSound
<1>4. \A n : UnreadIn(t, r, k, n) <=> UnreadIn(s, r, k, n)
  BY <1>1, Carried
<1>5. ToBeIn(t, r, k) = ToBeIn(s, r, k)
  BY <1>4 DEF ToBeIn
<1> QED BY <1>3, <1>5 DEF Shows

LEMMA Unasked ==
    ASSUME NEW s, NEW r, NEW k \in Nat, NEW l \in Nat, k <= l, NEW P, NEW u, \A j \in k .. l - 1 : ~Under(s[j])
    PROVE  Shows(s, r, k, P, u) => Shows(s, r, l, P, u)
<1> DEFINE f == [p \in 1 .. k - 1 |-> p]
<1>1. Drops(s, k, s, l, f)
  <2>1. \A p \in 1 .. k - 1 : f[p] \in 1 .. l - 1 /\ Like(s[p], s[f[p]])
    BY DEF Like
  <2>2. \A i \in 1 .. l - 1 : Under(s[i]) => i \in 1 .. k - 1
    OBVIOUS
  <2> QED BY <2>1, <2>2 DEF Drops
<1> HIDE DEF f
<1>2. \A n : UnreadIn(s, r, k, n) <=> UnreadIn(s, r, l, n)
  BY <1>1, Carried
<1>3. ToBeIn(s, r, k) = ToBeIn(s, r, l)
  BY <1>2 DEF ToBeIn
<1>4. Sound(s, r, l) => Sound(s, r, k)
  BY DEF Sound
<1> QED BY <1>3, <1>4 DEF Shows

-----------------------------------------------------------------------------
(* The notifications a push is still to bring.                              *)
Pushes == {n \in Notices : \/ \E l \in Loops : hand[l] # None /\ hand[l].n = n /\ hand[l].fresh
                           \/ \E c \in Streams : Live(c) /\ \E i \in DOMAIN wire[c] : wire[c][i] = n}

Up == \E c \in Streams : bell.es = c /\ source[c] = "open" /\ c \in subscribed
Counts == \E i \in DOMAIN reqs : reqs[i].kind = "count"
Posts == \E i \in DOMAIN reqs : IsPost(reqs[i])
Certain == Up /\ ~unsure /\ ~doubled /\ ~Counts

(* The badge is the number of rows that will be unread once the writes on   *)
(* their way are served, but for those a push is still to bring; a write    *)
(* that nothing came under keeps the number there was before it.            *)
Badge ==
    Certain => /\ Shows(reqs, rows, Len(reqs) + 1, Pushes, bell.unread)
               /\ \A i \in DOMAIN reqs : IsPost(reqs[i]) /\ reqs[i].calm /\ reqs[i].stage # "done" =>
                     Shows(reqs, rows, i, Pushes, reqs[i].unread)
CalmPosts ==
    \A i \in DOMAIN reqs : IsPost(reqs[i]) /\ reqs[i].calm =>
       /\ \A j \in i + 1 .. Len(reqs) : ~IsPost(reqs[j])
       /\ reqs[i].n = 0 => Pushes = {}
CalmCounts ==
    \A i \in DOMAIN reqs : reqs[i].kind = "count" /\ reqs[i].stage = "done" /\ reqs[i].calm =>
       ~Posts /\ Pushes = {} /\ reqs[i].count = Cardinality(Unread)
Counting == Badge /\ CalmPosts /\ CalmCounts

LEMMA Appended ==
    ASSUME NEW T, NEW s \in Seq(T), NEW x \in T
    PROVE  LET t == Append(s, x)
           IN  Len(t) = Len(s) + 1 /\ DOMAIN t = 1 .. Len(s) + 1 /\ t[Len(s) + 1] = x
               /\ Len(s) \in Nat /\ DOMAIN s = 1 .. Len(s) /\ \A i \in 1 .. Len(s) : t[i] = s[i]
OBVIOUS

LEMMA WhileSteady ==
    ASSUME Types, Counting, Steady, Certain' => Up /\ ~doubled /\ Pushes' = Pushes, Pushes' \subseteq Pushes
    PROVE  Counting'
<1>0. rows' = rows /\ unsure' = unsure /\ bell'.unread = bell.unread /\ Unread' = Unread
  BY DEF Steady, Unread, Exists
<1>1. CASE reqs' = reqs
  <2>1. Counts' = Counts /\ Posts' = Posts
    BY <1>1 DEF Counts, Posts, IsPost
  <2>2. Badge'
    BY <1>0, <1>1, <2>1 DEF Counting, Badge, Certain
  <2>3. CalmPosts' /\ CalmCounts'
    BY <1>0, <1>1, <2>1 DEF Counting, CalmPosts, CalmCounts
  <2> QED BY <2>2, <2>3 DEF Counting
<1>2. ASSUME NEW x \in Requests(Stored), x.kind \in {"page", "count"}, x.stage = "sent", reqs' = Append(reqs, x)
      PROVE  Counting'
  <2> DEFINE L == Len(reqs)
  <2>1. /\ L \in Nat /\ Len(reqs') = L + 1 /\ DOMAIN reqs = 1 .. L /\ DOMAIN reqs' = 1 .. L + 1
        /\ reqs'[L + 1] = x /\ \A i \in 1 .. L : reqs'[i] = reqs[i]
    BY <1>2, Appended DEF Types
  <2> HIDE DEF L
  <2>2. ~IsPost(x) /\ ~Under(x)
    BY <1>2 DEF IsPost, Under
  <2>3. Counts => Counts'
    BY <2>1 DEF Counts
  <2>4. Posts' <=> Posts
    BY <2>1, <2>2 DEF Posts, IsPost
  <2>5. ASSUME Certain' PROVE Badge'
    <3>1. Certain /\ Pushes' = Pushes
      BY <1>0, <2>3, <2>5 DEF Certain
    <3>2. \A i \in 1 .. L : Like(reqs'[i], reqs[i]) /\ (Spoils(reqs[i]) => Spoils(reqs'[i]))
      BY <2>1 DEF Like
    <3>3. Shows(reqs, rows, L + 1, Pushes, bell.unread)
      BY <3>1 DEF Counting, Badge, L
    <3>4. Shows(reqs', rows, L + 1, Pushes, bell.unread)
      <4>1. (L + 1) - 1 = L /\ L + 1 \in Nat
        BY <2>1
      <4> QED BY <3>2, <3>3, <4>1, Matched
    <3>5. Shows(reqs', rows, (L + 1) + 1, Pushes, bell.unread)
      <4>1. /\ \A j \in L + 1 .. ((L + 1) + 1) - 1 : ~Under(reqs'[j])
            /\ L + 1 \in Nat /\ (L + 1) + 1 \in Nat /\ L + 1 <= (L + 1) + 1
        BY <2>1, <2>2
      <4> QED BY <3>4, <4>1, Unasked
    <3>6. ASSUME NEW i \in DOMAIN reqs', IsPost(reqs'[i]), reqs'[i].calm, reqs'[i].stage # "done"
          PROVE  Shows(reqs', rows, i, Pushes, reqs'[i].unread)
      <4>1. i \in 1 .. L /\ reqs'[i] = reqs[i]
        BY <2>1, <2>2, <3>6
      <4>2. Shows(reqs, rows, i, Pushes, reqs[i].unread)
        BY <2>1, <3>1, <3>6, <4>1 DEF Counting, Badge, IsPost
      <4>3. i \in Nat /\ \A p \in 1 .. i - 1 : p \in 1 .. L
        BY <2>1, <4>1
      <4> QED BY <3>2, <4>1, <4>2, <4>3, Matched
    <3> QED BY <1>0, <2>1, <3>1, <3>5, <3>6 DEF Badge, IsPost
  <2>6. CalmPosts'
    <3>1. ASSUME NEW i \in DOMAIN reqs', IsPost(reqs'[i]), reqs'[i].calm
          PROVE  (\A j \in i + 1 .. Len(reqs') : ~IsPost(reqs'[j])) /\ (reqs'[i].n = 0 => Pushes' = {})
      <4>1. i \in 1 .. L /\ reqs'[i] = reqs[i]
        BY <2>1, <2>2, <3>1
      <4>2. (\A j \in i + 1 .. L : ~IsPost(reqs[j])) /\ (reqs[i].n = 0 => Pushes = {})
        BY <2>1, <3>1, <4>1 DEF Counting, CalmPosts, L
      <4>3. \A j \in i + 1 .. Len(reqs') : ~IsPost(reqs'[j])
        BY <2>1, <2>2, <4>1, <4>2
      <4> QED BY <4>1, <4>2, <4>3
    <3> QED BY <3>1 DEF CalmPosts, IsPost
  <2>7. CalmCounts'
    <3>1. ASSUME NEW i \in DOMAIN reqs', reqs'[i].kind = "count", reqs'[i].stage = "done", reqs'[i].calm
          PROVE  ~Posts' /\ Pushes' = {} /\ reqs'[i].count = Cardinality(Unread')
      <4>1. i \in 1 .. L /\ reqs'[i] = reqs[i]
        BY <1>2, <2>1, <3>1
      <4> QED BY <1>0, <2>1, <2>4, <3>1, <4>1 DEF Counting, CalmCounts
    <3> QED BY <3>1 DEF CalmCounts
  <2> QED BY <2>5, <2>6, <2>7 DEF Counting, Badge
<1> QED BY <1>1, <1>2 DEF Steady, Asks

(* A stream that was not opened yet carries nothing.                        *)
Empty == \A c \in Streams : source[c] = "new" => wire[c] = <<>>

(* What a step may do to the pushes under way when it leaves the badge.     *)
Passes == (Certain' => Up /\ ~doubled /\ Pushes' = Pushes) /\ Pushes' \subseteq Pushes

LEMMA PassesWhenStill ==
    ASSUME UNCHANGED <<hand, wire, source, subscribed, doubled>>, bell'.es = bell.es
    PROVE  Passes
<1>1. Pushes' = Pushes
  BY DEF Pushes, Live
<1> QED BY <1>1 DEF Passes, Certain, Up

LEMMA PassesInService ==
    ASSUME Table, Messages, Wires, ServiceRuns, rows' = rows
    PROVE  Passes
<1>1. UNCHANGED <<bell, source, doubled>> /\ ServiceStep
  BY DEF ServiceRuns
<1>2. \A c \in Streams : Live(c)' <=> Live(c)
  BY <1>1 DEF Live
<1>3. CASE Publish \/ ProjectFails \/ purgeReadNotifications \/ DigestStep
  BY <1>1, <1>3, DigestStands, PassesWhenStill DEF Publish, ProjectFails, purgeReadNotifications, DigestStep
<1>4. CASE Project
  <2>1. PICK n \in Notices, burst \in BOOLEAN :
           /\ Waits(n) /\ rows' = insertNotification(n, burst)
           /\ hand' = [hand EXCEPT ![LoopOf(n)] = [n |-> n, fresh |-> ~Exists(n)]]
           /\ UNCHANGED <<subscribed, wire>>
    BY <1>4 DEF Project
  <2>2. Exists(n)
    <3>1. SUFFICES ASSUME Born(n) PROVE FALSE
      BY <2>1 DEF insertNotification, Born
    <3>2. rows[n].at < rows'[n].at /\ rows[n].at \in Nat
      BY <3>1, BornIsNewest DEF Table, RowOK
    <3> QED BY <3>2
  <2>3. LoopOf(n) \in Loops /\ hand[LoopOf(n)] = None
    BY <2>1, ServiceAssumption DEF Loops, Waits
  <2>4. ~hand'[LoopOf(n)].fresh /\ \A l \in Loops : l # LoopOf(n) => hand'[l] = hand[l]
    BY <2>1, <2>2, <2>3 DEF Messages
  <2>5. Pushes' = Pushes
    BY <1>2, <2>1, <2>3, <2>4 DEF Pushes
  <2> QED BY <1>1, <2>1, <2>5 DEF Passes, Certain, Up
<1>5. CASE Tell
  <2>1. PICK l \in Loops : /\ hand[l] # None /\ wire' = publish(hand[l]) /\ hand' = [hand EXCEPT ![l] = None]
                           /\ subscribed' = subscribed
    BY <1>5 DEF Tell
  <2> DEFINE h == hand[l]
  <2>2. h \in Hand /\ h.n \in Notices
    BY <2>1 DEF Messages, Hand
  <2>3. hand'[l] = None /\ \A k \in Loops : k # l => hand'[k] = hand[k]
    BY <2>1 DEF Messages
  <2>4. \A c \in Streams : \A i \in DOMAIN wire'[c] :
           \/ i \in DOMAIN wire[c] /\ wire'[c][i] = wire[c][i]
           \/ h.fresh /\ c \in subscribed /\ wire'[c][i] = h.n
    BY <2>1, <2>2, Pushed
  <2>5. Pushes' \subseteq Pushes
    <3>1. ASSUME NEW n \in Notices, NEW k \in Loops, hand'[k] # None, hand'[k].n = n, hand'[k].fresh
          PROVE  n \in Pushes
      BY <2>3, <3>1 DEF Pushes
    <3>2. ASSUME NEW n \in Notices, NEW c \in Streams, Live(c), NEW i \in DOMAIN wire'[c], wire'[c][i] = n
          PROVE  n \in Pushes
      <4>1. CASE i \in DOMAIN wire[c] /\ wire'[c][i] = wire[c][i]
        BY <3>2, <4>1 DEF Pushes
      <4>2. CASE h.fresh /\ wire'[c][i] = h.n
        BY <2>1, <3>2, <4>2 DEF Pushes
      <4> QED BY <2>4, <4>1, <4>2
    <3> QED BY <1>2, <3>1, <3>2 DEF Pushes
  <2>6. ASSUME Up PROVE Pushes \subseteq Pushes'
    <3>1. PICK c \in Streams : source[c] = "open" /\ c \in subscribed
      BY <2>6 DEF Up
    <3>2. \A d \in Streams : wire[d] \in Seq(Notices) /\ (wire'[d] = wire[d] \/ wire'[d] = Append(wire[d], h.n))
      BY <2>1 DEF publish, Wires
    <3>3. ASSUME NEW d \in Streams, NEW i \in DOMAIN wire[d]
          PROVE  i \in DOMAIN wire'[d] /\ wire'[d][i] = wire[d][i]
      <4>1. DOMAIN wire[d] = 1 .. Len(wire[d]) /\ DOMAIN Append(wire[d], h.n) = 1 .. Len(wire[d]) + 1
            /\ Append(wire[d], h.n)[i] = wire[d][i] /\ Len(wire[d]) \in Nat
        BY <2>2, <3>2, SeqEnds
      <4> QED BY <3>2, <4>1
    <3>4. h.fresh => \E i \in DOMAIN wire'[c] : wire'[c][i] = h.n
      <4>1. h.fresh => wire'[c] = Append(wire[c], h.n)
        BY <2>1, <3>1 DEF publish
      <4>2. /\ DOMAIN Append(wire[c], h.n) = 1 .. Len(wire[c]) + 1 /\ Len(wire[c]) \in Nat
            /\ Append(wire[c], h.n)[Len(wire[c]) + 1] = h.n
        BY <2>2, <3>2, SeqEnds
      <4> QED BY <4>1, <4>2
    <3>5. ASSUME NEW n \in Notices, NEW k \in Loops, hand[k] # None, hand[k].n = n, hand[k].fresh
          PROVE  n \in Pushes'
      <4>1. CASE k = l
        BY <1>2, <3>1, <3>4, <3>5, <4>1 DEF Pushes, Live
      <4>2. CASE k # l
        BY <2>3, <3>5, <4>2 DEF Pushes
      <4> QED BY <4>1, <4>2
    <3>6. ASSUME NEW n \in Notices, NEW d \in Streams, Live(d), NEW i \in DOMAIN wire[d], wire[d][i] = n
          PROVE  n \in Pushes'
      BY <1>2, <3>3, <3>6 DEF Pushes
    <3> QED BY <3>5, <3>6 DEF Pushes
  <2>7. Up' <=> Up
    BY <1>1, <2>1 DEF Up
  <2> QED BY <1>1, <2>5, <2>6, <2>7 DEF Passes, Certain
<1>6. CASE Die
  <2>1. subscribed' = {} /\ wire' = wire /\ \A l \in Loops : hand'[l] = None
    BY <1>6 DEF Die
  <2> QED BY <1>2, <2>1 DEF Passes, Certain, Up, Pushes
<1> QED BY <1>1, <1>3, <1>4, <1>5, <1>6 DEF ServiceStep, DigestStep

LEMMA PassesOnStreams ==
    ASSUME Types, Wires, Places, Empty, disconnect \/ TokenComes \/ Subscribe \/ onopen \/ onerror
    PROVE  Passes
<1> USE DEF Wires
<1>1. hand' = hand
  BY StreamStands DEF StreamStep
<1>2. CASE disconnect
  <2>1. wire' = wire /\ source' = [c \in Streams |-> IF c = bell.es THEN "closed" ELSE source[c]]
    BY <1>2 DEF disconnect
  <2>2. \A c \in Streams : Live(c)' => Live(c)
    BY <2>1 DEF Live
  <2>3. ~Up'
    BY <1>2, Streaming, ServiceAssumption DEF Up
  <2> QED BY <1>1, <2>1, <2>2, <2>3 DEF Passes, Certain, Pushes
<1>3. CASE TokenComes
  <2>1. UNCHANGED <<wire, subscribed>>
    BY <1>3 DEF TokenComes, service
  <2>2. CASE NewSource
    <3>1. PICK c \in Streams : /\ source[c] = "new" /\ source' = [source EXCEPT ![c] = "asked"]
                               /\ bell' = [bell EXCEPT !.tokens = @ - 1, !.es = c]
      BY <2>2 DEF NewSource
    <3>2. bell'.es = c
      BY <3>1 DEF Types, Bells
    <3>3. ~Up'
      BY <3>1, <3>2 DEF Up
    <3>4. \A d \in Streams : d # c => (Live(d)' <=> Live(d))
      BY <3>1 DEF Live
    <3>5. wire[c] = <<>>
      BY <3>1 DEF Empty
    <3>6. Pushes' \subseteq Pushes
      BY <1>1, <2>1, <3>4, <3>5 DEF Pushes
    <3> QED BY <3>3, <3>6 DEF Passes, Certain
  <2>3. CASE bell' = [bell EXCEPT !.tokens = @ - 1] /\ UNCHANGED <<source, doubled>>
    <3>1. bell'.es = bell.es
      BY <2>3 DEF Types, Bells
    <3> QED BY <1>1, <2>1, <2>3, <3>1, PassesWhenStill
  <2> QED BY <1>3, <2>2, <2>3 DEF TokenComes
<1>4. ASSUME NEW c \in Streams, Live(c), wire' = [wire EXCEPT ![c] = <<>>], doubled' = doubled, Up' => Up,
             \A d \in Streams : bell'.es = d /\ source'[d] = "open" /\ d \in subscribed' => d # c /\ Live(d),
             \A d \in Streams : Live(d)' => Live(d)
      PROVE  Passes
  <2>1. Pushes' \subseteq Pushes
    BY <1>1, <1>4 DEF Pushes
  <2>2. Up' => doubled
    <3>1. ASSUME Up', ~doubled PROVE FALSE
      <4>1. OneLive
        BY <3>1 DEF Places
      <4> QED BY <1>4, <3>1, <4>1 DEF Up, OneLive
    <3>2. doubled \in BOOLEAN
      OBVIOUS
    <3> QED BY <3>1, <3>2
  <2> QED BY <1>4, <2>1, <2>2 DEF Passes, Certain
<1>5. CASE Subscribe
  <2>1. PICK c \in Streams : /\ source[c] = "asked" /\ subscribed' = subscribed \cup {c} /\ wire' = [wire EXCEPT ![c] = <<>>]
                             /\ UNCHANGED <<source, bell, doubled>>
    BY <1>5 DEF Subscribe, client, told
  <2>2. Live(c) /\ (Up' => Up) /\ \A d \in Streams : Live(d)' => Live(d)
    BY <2>1 DEF Live, Up
  <2>3. \A d \in Streams : bell'.es = d /\ source'[d] = "open" /\ d \in subscribed' => d # c /\ Live(d)
    BY <2>1 DEF Live
  <2> QED BY <1>4, <2>1, <2>2, <2>3
<1>6. CASE onopen
  <2>1. PICK c \in Streams : /\ source[c] = "asked" /\ source' = [source EXCEPT ![c] = "open"] /\ reqs' = Append(reqs, CountRequest)
                             /\ wire' = wire
    BY <1>6 DEF onopen, service
  <2>2. \A d \in Streams : Live(d)' <=> Live(d)
    BY <2>1 DEF Live
  <2>3. Counts'
    <3>1. CountRequest \in Requests(Stored) /\ CountRequest.kind = "count"
      BY Blanks DEF CountRequest, Blank, Types
    <3>2. Len(reqs) + 1 \in DOMAIN reqs' /\ reqs'[Len(reqs) + 1] = CountRequest
      BY <2>1, <3>1, Appended DEF Types
    <3> QED BY <3>1, <3>2 DEF Counts
  <2> QED BY <1>1, <2>1, <2>2, <2>3 DEF Passes, Certain, Pushes
<1>7. CASE onerror
  <2>1. PICK c \in Streams : /\ Live(c) /\ source' = [source EXCEPT ![c] = "closed"] /\ subscribed' = subscribed \ {c}
                             /\ wire' = [wire EXCEPT ![c] = <<>>] /\ doubled' = doubled
    BY <1>7 DEF onerror, told
  <2>2. bell'.es \in {bell.es, None}
    BY <1>7, Streaming
  <2>3. \A d \in Streams : Live(d)' => Live(d)
    BY <2>1 DEF Live
  <2>4. \A d \in Streams : source'[d] = "open" /\ d \in subscribed' => d # c /\ Live(d) /\ source[d] = "open" /\ d \in subscribed
    BY <2>1 DEF Live
  <2>5. Up' => Up
    BY <2>2, <2>4, ServiceAssumption DEF Up
  <2> QED BY <1>4, <2>1, <2>3, <2>4, <2>5
<1> QED BY <1>2, <1>3, <1>5, <1>6, <1>7

-----------------------------------------------------------------------------
(* Steps that change the rows or the badge spoil what is under way.         *)

LEMMA Spoiled ==
    ASSUME NEW T, NEW s \in Seq(Requests(T))
    PROVE  LET t == Spoilt(s)
           IN  /\ t \in Seq(Requests(T)) /\ Len(t) = Len(s) /\ Len(s) \in Nat /\ DOMAIN s = 1 .. Len(s) /\ DOMAIN t = 1 .. Len(s)
               /\ \A i \in 1 .. Len(s) : /\ ~t[i].calm /\ t[i].kind = s[i].kind /\ Like(t[i], s[i])
                                         /\ Spoils(s[i]) => Spoils(t[i])
                                         /\ IsPost(t[i]) /\ t[i].n = 0 => Spoils(t[i])
<1> DEFINE t == Spoilt(s)
<1>1. t \in Seq(Requests(T)) /\ Len(t) = Len(s) /\ \A i \in DOMAIN s : t[i] = [s[i] EXCEPT !.calm = FALSE]
  BY Lowered
<1> HIDE DEF t
<1>2. DOMAIN s = 1 .. Len(s) /\ DOMAIN t = 1 .. Len(s) /\ Len(s) \in Nat /\ \A i \in DOMAIN s : s[i] \in Requests(T)
  BY <1>1, Lists
<1>3. ASSUME NEW i \in 1 .. Len(s)
      PROVE  /\ ~t[i].calm /\ t[i].kind = s[i].kind /\ Like(t[i], s[i]) /\ (Spoils(s[i]) => Spoils(t[i]))
             /\ (IsPost(t[i]) /\ t[i].n = 0 => Spoils(t[i]))
  <2>1. /\ t[i].calm = FALSE /\ t[i].kind = s[i].kind /\ t[i].stage = s[i].stage /\ t[i].n = s[i].n /\ t[i].read = s[i].read
    <3> DEFINE q == s[i]
    <3>1. q \in Requests(T) /\ t[i] = [q EXCEPT !.calm = FALSE]
      BY <1>1, <1>2, <1>3
    <3> HIDE DEF q
    <3>2. /\ t[i].calm = FALSE /\ t[i].kind = q.kind /\ t[i].stage = q.stage /\ t[i].n = q.n /\ t[i].read = q.read
      BY <3>1 DEF Requests
    <3> QED BY <3>2 DEF q
  <2>2. Like(t[i], s[i])
    BY <2>1 DEF Like, Under, IsPost
  <2>3. (Spoils(s[i]) => Spoils(t[i])) /\ (IsPost(t[i]) /\ t[i].n = 0 => Spoils(t[i]))
    BY <2>1 DEF Spoils, IsPost
  <2> QED BY <2>1, <2>2, <2>3
<1> QED BY <1>1, <1>2, <1>3 DEF t

(* So only the badge is left to look at.                                    *)
LEMMA WhileSpoilt ==
    ASSUME Types, reqs' = Spoilt(reqs), bell'.es = bell.es, UNCHANGED <<source, subscribed, doubled>>, unsure => unsure',
           Certain /\ Certain' => Shows(reqs', rows', Len(reqs) + 1, Pushes', bell'.unread)
    PROVE  Counting'
<1>1. /\ Len(reqs') = Len(reqs) /\ DOMAIN reqs = 1 .. Len(reqs) /\ DOMAIN reqs' = 1 .. Len(reqs)
      /\ \A i \in 1 .. Len(reqs) : ~reqs'[i].calm /\ reqs'[i].kind = reqs[i].kind
  BY Spoiled DEF Types
<1>2. Certain' => Certain
  BY <1>1 DEF Certain, Up, Counts
<1>3. Badge'
  BY <1>1, <1>2 DEF Badge
<1> QED BY <1>1, <1>3 DEF Counting, CalmPosts, CalmCounts

LEMMA ToBeFinite ==
    ASSUME Types, NEW s, NEW k
    PROVE  ToBeIn(s, rows, k) \subseteq Stored /\ IsFiniteSet(ToBeIn(s, rows, k)) /\ \A P : IsFiniteSet(ToBeIn(s, rows, k) \ P)
<1>1. ToBeIn(s, rows, k) \subseteq Stored
  BY DEF ToBeIn, UnreadIn, IsIn, Stored
<1> HIDE DEF ToBeIn
<1> QED BY <1>1, FS_Subset DEF Types

LEMMA WhenPurged ==
    ASSUME Table, Types, Counting, Purged, reqs' = Spoilt(reqs), bell' = bell, unsure => unsure'
    PROVE  Counting'
<1>1. PICK n \in Notices : /\ Exists(n) /\ rows[n].read /\ rows' = [rows EXCEPT ![n].gone = TRUE]
                           /\ UNCHANGED <<hand, wire, source, subscribed, doubled>>
  BY DEF Purged
<1>2. Pushes' = Pushes
  BY <1>1 DEF Pushes, Live
<1>3. (\A m \in Notices : m # n => rows'[m] = rows[m]) /\ rows'[n].gone = TRUE
  BY <1>1, PurgedIsTable
<1>4. n # 0
  BY ServiceAssumption
<1> DEFINE s == reqs
           t == reqs'
           k == Len(reqs) + 1
           f == [p \in 1 .. k - 1 |-> p]
<1>5. /\ k \in Nat /\ k - 1 = Len(reqs) /\ \A i \in 1 .. k - 1 : Like(t[i], s[i]) /\ (Spoils(s[i]) => Spoils(t[i]))
  BY Spoiled DEF Types
<1>6. Drops(t, k, s, k, f)
  BY <1>5 DEF Drops
<1>7. \A i \in 1 .. k - 1 : Spoils(s[i]) => \E p \in 1 .. k - 1 : f[p] = i /\ Spoils(t[p])
  BY <1>5
<1> HIDE DEF f, k
<1>8. ASSUME Certain, Sound(t, rows', k)
      PROVE  bell.unread = Cardinality(ToBeIn(t, rows', k) \ Pushes) /\ Pushes \subseteq ToBeIn(t, rows', k)
  <2>1. \A i \in 1 .. k - 1 : Under(s[i]) => s[i].n # n
    <3>1. ASSUME NEW i \in 1 .. k - 1, Under(s[i]), s[i].n = n PROVE FALSE
      <4>1. Under(t[i]) /\ t[i].n = n
        BY <1>5, <3>1 DEF Like
      <4>2. Doubted(t, rows', i)
        BY <1>3, <1>4, <4>1 DEF Doubted, IsIn
      <4> QED BY <1>8, <4>2 DEF Sound
    <3> QED BY <3>1
  <2>2. \A i \in 1 .. k - 1 : Under(s[i]) /\ s[i].n # 0 => s[i].n \in Notices
    <3>1. \A i \in 1 .. k - 1 : s[i] \in Requests(Stored)
      BY <1>5, Lists DEF Types
    <3> QED BY <3>1 DEF Requests, Stored
  <2>3. \A i \in 1 .. k - 1 : Under(s[i]) /\ s[i].n # 0 => rows'[s[i].n] = rows[s[i].n]
    BY <1>3, <2>1, <2>2
  <2>4. Sound(s, rows, k)
    BY <1>6, <1>7, <1>8, <2>3, CarriedSound DEF IsIn
  <2>5. \A m \in Notices : m # n => (UnreadIn(t, rows', k, m) <=> UnreadIn(s, rows, k, m))
    BY <1>3, <1>6, Carried DEF IsIn
  <2>6. ~UnreadIn(t, rows', k, n)
    BY <1>3 DEF UnreadIn, IsIn
  <2>7. ~UnreadIn(s, rows, k, n)
    BY <1>1, <2>1 DEF UnreadIn, LastSays, Concerns, Unreads
  <2>8. ToBeIn(t, rows', k) = ToBeIn(s, rows, k)
    BY <2>5, <2>6, <2>7 DEF ToBeIn
  <2>9. Shows(s, rows, k, Pushes, bell.unread)
    BY <1>8 DEF Counting, Badge, k
  <2> QED BY <2>4, <2>8, <2>9 DEF Shows
<1> QED BY <1>1, <1>2, <1>8, WhileSpoilt DEF Shows, k

LEMMA WhenBorn ==
    ASSUME Table, Messages, Types, Counting, NEW n \in Notices, Born(n), reqs' = Spoilt(reqs),
           UNCHANGED <<subscribed, wire, bell, source, doubled>>,
           \/ hand' = [hand EXCEPT ![LoopOf(n)] = [n |-> n, fresh |-> TRUE]] /\ (unsure => unsure')
           \/ hand' = hand /\ (unsure \/ Unread' # Unread => unsure')
    PROVE  Counting'
<1>1. PICK ms : rows' = [rows EXCEPT ![n] = [at |-> Newest.at + 1, ms |-> ms, read |-> FALSE, gone |-> FALSE]]
  BY DEF Born
<1>2. rows'[n] = [at |-> Newest.at + 1, ms |-> ms, read |-> FALSE, gone |-> FALSE]
  BY <1>1 DEF Table
<1>3. rows'[n].read = FALSE /\ rows'[n].gone = FALSE /\ rows'[n].at = Newest.at + 1
  BY <1>2
<1>4. IsIn(rows', n) /\ ~rows'[n].read
  BY <1>3, NewestIsLast DEF IsIn
<1>5. \A m \in Notices : m # n => rows'[m] = rows[m]
  BY BornIsNewest
<1>6. rows[n].at = 0
  BY DEF Born, Waits, Exists, Messages, Table, RowOK
<1>7. n \notin Stored /\ ~IsIn(rows, n) /\ n # 0
  BY <1>6, ServiceAssumption DEF Stored, IsIn
<1> DEFINE s == reqs
           t == reqs'
           k == Len(reqs) + 1
           f == [p \in 1 .. k - 1 |-> p]
<1>8. k \in Nat /\ k - 1 = Len(reqs) /\ \A i \in 1 .. k - 1 : Like(t[i], s[i]) /\ (Spoils(s[i]) => Spoils(t[i]))
  BY Spoiled DEF Types
<1>0. \A i \in 1 .. k - 1 : IsPost(t[i]) /\ t[i].n = 0 => Spoils(t[i])
  BY <1>8, Spoiled DEF Types
<1>9. Drops(t, k, s, k, f)
  BY <1>8 DEF Drops
<1>10. \A i \in 1 .. k - 1 : Spoils(s[i]) => \E p \in 1 .. k - 1 : f[p] = i /\ Spoils(t[p])
  BY <1>8
<1> HIDE DEF f, k
<1>11. \A i \in 1 .. k - 1 : s[i].n \in {0} \cup Stored
  <2>1. \A i \in 1 .. k - 1 : s[i] \in Requests(Stored)
    BY <1>8, Lists DEF Types
  <2> QED BY <2>1 DEF Requests
<1>12. ASSUME hand' = hand, Unread' # Unread => unsure'
       PROVE  unsure'
  <2>1. n \in Unread' /\ n \notin Unread
    BY <1>4, <1>7 DEF Unread, Exists, IsIn
  <2> QED BY <1>12, <2>1
<1>13. ASSUME hand' = [hand EXCEPT ![LoopOf(n)] = [n |-> n, fresh |-> TRUE]]
       PROVE  Pushes' = Pushes \cup {n}
  <2>1. LoopOf(n) \in Loops /\ hand[LoopOf(n)] = None
    BY ServiceAssumption DEF Loops, Born, Waits
  <2>2. /\ hand'[LoopOf(n)] = [n |-> n, fresh |-> TRUE] /\ \A l \in Loops : l # LoopOf(n) => hand'[l] = hand[l]
    BY <1>13, <2>1 DEF Messages
  <2>3. hand'[LoopOf(n)].n = n /\ hand'[LoopOf(n)].fresh
    BY <2>2
  <2>4. hand'[LoopOf(n)] # None
    <3>1. [n |-> n, fresh |-> TRUE] \in [n : Notices, fresh : BOOLEAN]
      OBVIOUS
    <3> QED BY <2>2, <3>1, ServiceAssumption
  <2>5. \A c \in Streams : Live(c)' <=> Live(c)
    BY DEF Live
  <2> QED BY <2>1, <2>2, <2>3, <2>4, <2>5 DEF Pushes
<1>14. ASSUME Certain, Sound(t, rows', k), Pushes' = Pushes \cup {n}
       PROVE  bell.unread = Cardinality(ToBeIn(t, rows', k) \ Pushes') /\ Pushes' \subseteq ToBeIn(t, rows', k)
  <2>1. \A i \in 1 .. k - 1 : Under(s[i]) => s[i].n \in Stored /\ s[i].n # n /\ s[i].n # 0
    <3>1. ASSUME NEW i \in 1 .. k - 1, Under(s[i]), s[i].n = 0 PROVE FALSE
      <4>1. Doubted(t, rows', i)
        BY <1>0, <1>8, <3>1 DEF Doubted, Like, Under
      <4> QED BY <1>14, <4>1 DEF Sound
    <3> QED BY <1>7, <1>11, <3>1
  <2>2. \A i \in 1 .. k - 1 : Under(s[i]) => rows'[s[i].n] = rows[s[i].n]
    BY <1>5, <2>1 DEF Stored
  <2>3. Sound(s, rows, k)
    BY <1>9, <1>10, <1>14, <2>2, CarriedSound DEF IsIn
  <2>4. \A m \in Notices : m # n => (UnreadIn(t, rows', k, m) <=> UnreadIn(s, rows, k, m))
    BY <1>5, <1>9, Carried DEF IsIn
  <2>5. UnreadIn(t, rows', k, n)
    <3>1. \A i \in 1 .. k - 1 : ~Concerns(t[i], n)
      BY <1>7, <1>8, <2>1 DEF Concerns, Like
    <3> QED BY <1>4, <3>1 DEF UnreadIn
  <2>6. ~UnreadIn(s, rows, k, n)
    BY <1>7 DEF UnreadIn
  <2>7. ToBeIn(t, rows', k) = ToBeIn(s, rows, k) \cup {n} /\ n \notin ToBeIn(s, rows, k)
    BY <2>4, <2>5, <2>6 DEF ToBeIn
  <2>8. bell.unread = Cardinality(ToBeIn(s, rows, k) \ Pushes) /\ Pushes \subseteq ToBeIn(s, rows, k)
    BY <1>14, <2>3 DEF Counting, Badge, Shows, k
  <2>9. ToBeIn(t, rows', k) \ Pushes' = ToBeIn(s, rows, k) \ Pushes
    BY <1>14, <2>7
  <2> QED BY <1>14, <2>7, <2>8, <2>9
<1>15. Certain' => hand' = [hand EXCEPT ![LoopOf(n)] = [n |-> n, fresh |-> TRUE]]
  BY <1>12 DEF Certain
<1>16. Certain /\ Certain' => Shows(reqs', rows', k, Pushes', bell'.unread)
  BY <1>13, <1>14, <1>15 DEF Shows
<1> QED BY <1>16, WhileSpoilt DEF k

(* A notification read off the stream was on no other wire and in no hand.  *)
LEMMA PushesWhenRead ==
    ASSUME Wires, Places, ~doubled, UNCHANGED <<hand, source>>, NEW c \in Streams, source[c] = "open", wire[c] # <<>>,
           wire' = [wire EXCEPT ![c] = Tail(wire[c])]
    PROVE  Head(wire[c]) \in Pushes /\ Pushes' = Pushes \ {Head(wire[c])}
<1> DEFINE n == Head(wire[c])
<1>1. Once /\ Untold /\ \A d \in Streams : Live(d)' <=> Live(d)
  BY DEF Places, Live
<1>2. /\ \A d \in Streams : wire[d] \in Seq(Notices)
      /\ wire'[c] = Tail(wire[c]) /\ \A d \in Streams : d # c => wire'[d] = wire[d]
  BY DEF Wires
<1>3. /\ n = wire[c][1] /\ DOMAIN wire[c] = 1 .. Len(wire[c]) /\ Len(wire[c]) \in Nat /\ 1 \in DOMAIN wire[c]
      /\ DOMAIN Tail(wire[c]) = 1 .. Len(wire[c]) - 1
      /\ \A i \in DOMAIN Tail(wire[c]) : i + 1 \in DOMAIN wire[c] /\ i + 1 # 1 /\ Tail(wire[c])[i] = wire[c][i + 1]
  BY <1>2
<1>4. n \in Notices /\ n \in Pushes
  <2>1. n \in Notices
    BY <1>3, OnWire
  <2>2. Live(c)
    BY DEF Live
  <2> QED BY <1>3, <2>1, <2>2 DEF Pushes
<1>5. \A d \in Streams : \A i \in DOMAIN wire[d] : wire[d][i] = n => d = c /\ i = 1
  BY <1>1, <1>3 DEF Once
<1>6. \A l \in Loops : hand[l] # None /\ hand[l].fresh => hand[l].n # n
  BY <1>1, <1>3 DEF Untold
<1> HIDE DEF n
<1>7. Pushes' \subseteq Pushes \ {n}
  <2>1. ASSUME NEW m \in Notices, NEW d \in Streams, Live(d), NEW i \in DOMAIN wire'[d], wire'[d][i] = m
        PROVE  m \in Pushes /\ m # n
    <3>1. PICK j \in DOMAIN wire[d] : wire[d][j] = m /\ (d = c => j # 1)
      <4>1. CASE d = c
        BY <1>2, <1>3, <2>1, <4>1
      <4>2. CASE d # c
        BY <1>2, <2>1, <4>2
      <4> QED BY <4>1, <4>2
    <3> QED BY <1>5, <2>1, <3>1 DEF Pushes
  <2>2. ASSUME NEW m \in Notices, NEW l \in Loops, hand[l] # None, hand[l].n = m, hand[l].fresh
        PROVE  m \in Pushes /\ m # n
    BY <1>6, <2>2 DEF Pushes
  <2> QED BY <1>1, <2>1, <2>2 DEF Pushes
<1>8. Pushes \ {n} \subseteq Pushes'
  <2>1. ASSUME NEW m \in Notices, m # n, NEW d \in Streams, Live(d), NEW i \in DOMAIN wire[d], wire[d][i] = m
        PROVE  m \in Pushes'
    <3>1. \E j \in DOMAIN wire'[d] : wire'[d][j] = m
      <4>1. CASE d = c
        <5>1. i \in 1 .. Len(wire[c]) /\ i # 1
          BY <1>3, <2>1, <4>1
        <5>2. i - 1 \in DOMAIN Tail(wire[c]) /\ (i - 1) + 1 = i
          BY <1>3, <5>1
        <5>3. Tail(wire[c])[i - 1] = m
          BY <1>3, <2>1, <4>1, <5>2
        <5> QED BY <1>2, <4>1, <5>2, <5>3
      <4>2. CASE d # c
        BY <1>2, <2>1, <4>2
      <4> QED BY <4>1, <4>2
    <3> QED BY <1>1, <2>1, <3>1 DEF Pushes
  <2>2. ASSUME NEW m \in Notices, m # n, NEW l \in Loops, hand[l] # None, hand[l].n = m, hand[l].fresh
        PROVE  m \in Pushes'
    BY <2>2 DEF Pushes
  <2> QED BY <2>1, <2>2 DEF Pushes
<1> QED BY <1>4, <1>7, <1>8 DEF n

LEMMA WhenCounted ==
    ASSUME Types, Wires, Places, Counting, onStreamNotification
    PROVE  Counting'
<1>1. /\ rows' = rows /\ reqs' = Spoilt(reqs) /\ bell'.es = bell.es /\ (unsure => unsure')
      /\ (~unsure' => bell'.unread = bell.unread + 1)
      /\ UNCHANGED <<hand, subscribed, source, doubled>>
  BY Counted
<1>2. PICK c \in Streams : source[c] = "open" /\ wire[c] # <<>> /\ wire' = [wire EXCEPT ![c] = Tail(wire[c])]
  BY Counted
<1> DEFINE n == Head(wire[c])
           k == Len(reqs) + 1
<1>3. ASSUME Certain, Certain', Sound(reqs', rows, k)
      PROVE  bell'.unread = Cardinality(ToBeIn(reqs', rows, k) \ Pushes') /\ Pushes' \subseteq ToBeIn(reqs', rows, k)
  <2>1. n \in Pushes /\ Pushes' = Pushes \ {n}
    BY <1>1, <1>2, <1>3, PushesWhenRead DEF Certain
  <2>2. k \in Nat /\ k - 1 = Len(reqs)
        /\ \A i \in 1 .. k - 1 : Like(reqs'[i], reqs[i]) /\ (Spoils(reqs[i]) => Spoils(reqs'[i]))
    BY <1>1, Spoiled DEF Types
  <2> DEFINE B == ToBeIn(reqs, rows, k)
  <2>3. ToBeIn(reqs', rows, k) = B /\ Sound(reqs, rows, k)
    BY ZenonT(60), <1>3, <2>2, Matched
  <2>4. bell.unread = Cardinality(B \ Pushes) /\ Pushes \subseteq B
    BY <1>3, <2>3 DEF Counting, Badge, Shows
  <2>5. IsFiniteSet(B \ Pushes)
    BY ToBeFinite
  <2> HIDE DEF B, n, k
  <2>6. B \ Pushes' = (B \ Pushes) \cup {n} /\ n \notin B \ Pushes
    BY <2>1, <2>4
  <2>7. Cardinality((B \ Pushes) \cup {n}) = Cardinality(B \ Pushes) + 1
    BY <2>5, <2>6, FS_AddElement
  <2>8. bell'.unread = bell.unread + 1
    BY <1>1, <1>3 DEF Certain
  <2> QED BY <2>1, <2>3, <2>4, <2>6, <2>7, <2>8
<1> QED BY <1>1, <1>3, WhileSpoilt DEF Shows

-----------------------------------------------------------------------------
(* A write that is sent is the last word about its row.                     *)
LEMMA LastWord ==
    ASSUME NEW s, NEW r, NEW k \in Nat \ {0}, NEW m
    PROVE  /\ Concerns(s[k], m) => (UnreadIn(s, r, k + 1, m) <=> IsIn(r, m) /\ Unreads(s[k]))
           /\ ~Concerns(s[k], m) => (UnreadIn(s, r, k + 1, m) <=> UnreadIn(s, r, k, m))
<1>1. (k + 1) - 1 = k /\ k \in 1 .. k /\ \A i \in 1 .. k - 1 : i \in 1 .. k /\ k \in i + 1 .. k
  OBVIOUS
<1>2. \A i \in 1 .. k : i # k => i \in 1 .. k - 1
  OBVIOUS
<1>3. ASSUME Concerns(s[k], m)
      PROVE  UnreadIn(s, r, k + 1, m) <=> IsIn(r, m) /\ Unreads(s[k])
  <2>1. \A j \in k + 1 .. k : FALSE
    OBVIOUS
  <2>2. LastSays(s, k + 1, m, k)
    BY <1>1, <1>3, <2>1 DEF LastSays
  <2>3. \A i : LastSays(s, k + 1, m, i) => i = k
    BY <1>1, <1>2, <1>3 DEF LastSays
  <2> QED BY <1>1, <1>3, <2>2, <2>3 DEF UnreadIn
<1>4. ASSUME ~Concerns(s[k], m)
      PROVE  UnreadIn(s, r, k + 1, m) <=> UnreadIn(s, r, k, m)
  <2>1. \A i \in 1 .. k - 1 : \A j \in i + 1 .. k : j = k \/ j \in i + 1 .. k - 1
    OBVIOUS
  <2>2. \A i \in 1 .. k - 1 : \A j \in i + 1 .. k - 1 : j \in i + 1 .. k
    OBVIOUS
  <2>3. ASSUME NEW i
        PROVE  LastSays(s, k + 1, m, i) <=> LastSays(s, k, m, i)
    <3>1. CASE i \in 1 .. k - 1
      BY <1>1, <1>4, <2>1, <2>2, <3>1 DEF LastSays
    <3>2. CASE i \notin 1 .. k - 1
      BY <1>1, <1>2, <1>4, <3>2 DEF LastSays
    <3> QED BY <3>1, <3>2
  <2>4. (\A i \in 1 .. k : ~Concerns(s[i], m)) <=> (\A i \in 1 .. k - 1 : ~Concerns(s[i], m))
    BY <1>1, <1>2, <1>4
  <2> QED BY <1>1, <2>3, <2>4 DEF UnreadIn
<1> QED BY <1>3, <1>4

LEMMA WhilePosting ==
    ASSUME Types, Counting, NEW x \in Requests(Stored), IsPost(x), x.unread = bell.unread, x.n = 0 /\ x.calm => Pushes = {},
           reqs' = Append(Spoilt(reqs), x), UNCHANGED <<service, source, doubled>>, bell'.es = bell.es, unsure => unsure',
           LET k == Len(reqs) + 1
           IN  /\ Certain' /\ ~Doubted(reqs', rows, k)
               /\ bell.unread = Cardinality(ToBeIn(reqs', rows, k) \ Pushes) /\ Pushes \subseteq ToBeIn(reqs', rows, k)
               => bell'.unread = Cardinality(ToBeIn(reqs', rows, k + 1) \ Pushes) /\ Pushes \subseteq ToBeIn(reqs', rows, k + 1)
    PROVE  Counting'
<1> DEFINE s == Spoilt(reqs)
           t == reqs'
           k == Len(reqs) + 1
<1>1. /\ s \in Seq(Requests(Stored)) /\ Len(s) = Len(reqs) /\ Len(reqs) \in Nat /\ DOMAIN reqs = 1 .. Len(reqs)
      /\ \A i \in 1 .. Len(reqs) : /\ ~s[i].calm /\ s[i].kind = reqs[i].kind /\ Like(s[i], reqs[i])
                                   /\ Spoils(reqs[i]) => Spoils(s[i])
  BY Spoiled DEF Types
<1>2. /\ Len(t) = k /\ DOMAIN t = 1 .. k /\ t[k] = x /\ \A i \in 1 .. k - 1 : t[i] = s[i]
  BY <1>1, Appended
<1>3. k \in Nat \ {0} /\ k - 1 = Len(reqs) /\ (k + 1) - 1 = k /\ \A i \in 1 .. k : i = k \/ i \in 1 .. k - 1
  BY <1>1
<1>4. Pushes' = Pushes /\ rows' = rows
  BY DEF Pushes, Live, service
<1> HIDE DEF s, k
<1>5. \A i \in 1 .. k : t[i].calm => i = k
  BY <1>1, <1>2, <1>3
<1>6. ASSUME Certain'
      PROVE  Badge'
  <2>1. Counts => Counts'
    <3>1. \A i \in DOMAIN reqs : i \in DOMAIN t /\ t[i].kind = reqs[i].kind
      BY <1>1, <1>2, <1>3
    <3> QED BY <3>1 DEF Counts
  <2>2. Certain
    BY <1>6, <2>1 DEF Certain, Up, service
  <2>3. Shows(reqs, rows, k, Pushes, bell.unread)
    BY <2>2 DEF Counting, Badge, k
  <2>4. \A i \in 1 .. k - 1 : Like(t[i], reqs[i]) /\ (Spoils(reqs[i]) => Spoils(t[i]))
    BY <1>1, <1>2, <1>3
  <2>5. Shows(t, rows, k, Pushes, bell.unread)
    BY <1>3, <2>3, <2>4, Matched
  <2>6. Shows(t, rows, k + 1, Pushes, bell'.unread)
    <3>1. ASSUME Sound(t, rows, k + 1)
          PROVE  Sound(t, rows, k) /\ ~Doubted(t, rows, k)
      BY <1>3, <3>1 DEF Sound
    <3> QED BY <1>6, <2>5, <3>1 DEF Shows, k
  <2> QED BY <1>2, <1>4, <1>5, <2>5, <2>6 DEF Badge
<1>7. CalmPosts'
  <2>1. \A j \in k + 1 .. k : FALSE
    BY <1>3
  <2> QED BY <1>2, <1>4, <1>5, <2>1 DEF CalmPosts
<1>8. CalmCounts'
  BY <1>2, <1>5 DEF CalmCounts, IsPost
<1> QED BY <1>6, <1>7, <1>8 DEF Counting, Badge

LEMMA Unpushed ==
    ASSUME Wires
    PROVE  (\A n \in Pushes : Pushing(n)) /\ (Quiet => Pushes = {})
<1>1. ASSUME NEW n \in Pushes PROVE Pushing(n)
  <2>1. ASSUME NEW c \in Streams, NEW i \in DOMAIN wire[c], wire[c][i] = n
        PROVE  Contains(wire[c], n)
    <3>1. wire[c] \in Seq(Notices)
      BY DEF Wires
    <3>2. i \in 1 .. Len(wire[c])
      BY <3>1
    <3> QED BY <2>1, <3>2 DEF Contains
  <2> QED BY <2>1 DEF Pushes, Pushing
<1> QED BY <1>1 DEF Quiet, Pushes

LEMMA WhenTurned ==
    ASSUME Types, Wires, Counting, SetReadState
    PROVE  Counting'
<1>1. UNCHANGED <<service, source, doubled>> /\ bell'.es = bell.es
  BY Turned
<1>2. PICK n \in Stored, read \in BOOLEAN :
        /\ reqs' = Append(Spoilt(reqs), PostRequest(n, read))
        /\ bell'.unread = IF read THEN (IF bell.unread = 0 THEN 0 ELSE bell.unread - 1) ELSE bell.unread + 1
        /\ unsure \/ Pushing(n) => unsure'
  BY Turned
<1> DEFINE x == PostRequest(n, read)
           k == Len(reqs) + 1
           B == ToBeIn(reqs', rows, k)
           C == ToBeIn(reqs', rows, k + 1)
<1>3. x \in Requests(Stored) /\ IsPost(x) /\ Under(x) /\ x.n = n /\ x.read = read /\ x.unread = bell.unread
  BY PostTyped DEF IsPost, Under
<1>4. n \in Notices /\ n # 0
  BY ServiceAssumption DEF Stored
<1>5. k \in Nat \ {0} /\ reqs'[k] = x
  <2>1. Spoilt(reqs) \in Seq(Requests(Stored)) /\ Len(Spoilt(reqs)) = Len(reqs) /\ Len(reqs) \in Nat
    BY Spoiled DEF Types
  <2> QED BY <1>2, <1>3, <2>1, Appended
<1> HIDE DEF x, k
<1>6. ASSUME Certain', ~Doubted(reqs', rows, k), bell.unread = Cardinality(B \ Pushes), Pushes \subseteq B
      PROVE  bell'.unread = Cardinality(C \ Pushes) /\ Pushes \subseteq C
  <2>1. IsIn(rows, n) /\ (UnreadIn(reqs', rows, k, n) <=> read)
    BY <1>3, <1>4, <1>5, <1>6 DEF Doubted
  <2>2. UnreadIn(reqs', rows, k + 1, n) <=> ~read
    <3>1. Concerns(reqs'[k], n) /\ (Unreads(reqs'[k]) <=> ~read)
      BY <1>3, <1>4, <1>5 DEF Concerns, Unreads
    <3> QED BY <1>5, <2>1, <3>1, LastWord
  <2>3. \A m \in Notices : m # n => (UnreadIn(reqs', rows, k + 1, m) <=> UnreadIn(reqs', rows, k, m))
    <3>1. \A m \in Notices : m # n => ~Concerns(reqs'[k], m)
      BY <1>3, <1>4, <1>5 DEF Concerns
    <3> QED BY <1>5, <3>1, LastWord
  <2>4. n \notin Pushes
    BY <1>2, <1>6, Unpushed DEF Certain
  <2>5. IsFiniteSet(B \ Pushes)
    BY ToBeFinite
  <2>6. (n \in B <=> read) /\ (n \in C <=> ~read) /\ \A m : m # n => (m \in C <=> m \in B)
    BY <1>4, <2>1, <2>2, <2>3 DEF ToBeIn
  <2> HIDE DEF B, C
  <2>7. CASE read
    <3>1. C \ Pushes = (B \ Pushes) \ {n} /\ n \in B \ Pushes
      BY <2>4, <2>6, <2>7
    <3>2. Cardinality((B \ Pushes) \ {n}) = Cardinality(B \ Pushes) - 1
      BY <2>5, <3>1, FS_RemoveElement
    <3>3. Cardinality(B \ Pushes) # 0
      BY <2>5, <3>1, FS_EmptySet
    <3>4. bell'.unread = bell.unread - 1
      BY <1>2, <1>6, <2>7, <3>3
    <3>5. Pushes \subseteq C
      BY <1>6, <2>4, <2>6
    <3> QED BY <1>6, <3>1, <3>2, <3>4, <3>5
  <2>8. CASE ~read
    <3>1. C \ Pushes = (B \ Pushes) \cup {n} /\ n \notin B \ Pushes
      BY <2>4, <2>6, <2>8
    <3>2. Cardinality((B \ Pushes) \cup {n}) = Cardinality(B \ Pushes) + 1
      BY <2>5, <3>1, FS_AddElement
    <3>3. bell'.unread = bell.unread + 1
      BY <1>2, <2>8
    <3>4. Pushes \subseteq C
      BY <1>6, <2>4, <2>6
    <3> QED BY <1>6, <3>1, <3>2, <3>3, <3>4
  <2> QED BY <2>7, <2>8
<1> QED BY <1>1, <1>2, <1>3, <1>4, <1>6, WhilePosting DEF x, k

LEMMA WhenAllTurned ==
    ASSUME Types, Wires, Counting, MarkAllRead
    PROVE  Counting'
<1>1. /\ UNCHANGED <<service, source, doubled, unsure>> /\ bell'.es = bell.es
      /\ reqs' = Append(Spoilt(reqs), PostRequest(0, TRUE)) /\ bell'.unread = 0
  BY AllTurned
<1> DEFINE x == PostRequest(0, TRUE)
           k == Len(reqs) + 1
           C == ToBeIn(reqs', rows, k + 1)
<1>2. x \in Requests(Stored) /\ IsPost(x) /\ Under(x) /\ x.n = 0 /\ x.unread = bell.unread /\ (x.calm <=> Quiet)
  BY PostTyped DEF IsPost, Under
<1>3. x.calm => Pushes = {}
  BY <1>2, Unpushed
<1>4. k \in Nat \ {0} /\ reqs'[k] = x
  <2>1. Spoilt(reqs) \in Seq(Requests(Stored)) /\ Len(Spoilt(reqs)) = Len(reqs) /\ Len(reqs) \in Nat
    BY Spoiled DEF Types
  <2>2. reqs' = Append(Spoilt(reqs), x)
    BY <1>1
  <2>3. x \in Requests(Stored)
    BY <1>2
  <2> HIDE DEF x
  <2> QED BY <2>1, <2>2, <2>3, Appended
<1> HIDE DEF x, k
<1>5. ASSUME ~Doubted(reqs', rows, k)
      PROVE  bell'.unread = Cardinality(C \ Pushes) /\ Pushes \subseteq C
  <2>1. x.calm
    BY <1>2, <1>4, <1>5 DEF Doubted, Spoils
  <2>2. Pushes = {}
    BY <1>3, <2>1
  <2>3. \A m \in Notices : ~UnreadIn(reqs', rows, k + 1, m)
    <3>1. \A m : Concerns(reqs'[k], m) /\ ~Unreads(reqs'[k])
      BY <1>2, <1>4 DEF Concerns, Unreads
    <3> QED BY <1>4, <3>1, LastWord
  <2>4. C = {}
    BY <2>3 DEF ToBeIn
  <2>5. C \ Pushes = {}
    BY <2>4
  <2>6. Cardinality(C \ Pushes) = 0
    BY <2>5, FS_EmptySet
  <2> QED BY <1>1, <2>2, <2>6
<1> QED BY <1>1, <1>2, <1>3, <1>5, WhilePosting DEF x, k

-----------------------------------------------------------------------------
(* A write that is served in its turn leaves what will be unread.           *)
LEMMA ServedUnread ==
    ASSUME NEW s, NEW t, NEW r, NEW v, NEW k \in Nat, NEW i \in 1 .. k - 1, NEW m,
           Under(s[i]), ~Under(t[i]), \A j \in 1 .. i - 1 : ~Under(s[j]),
           \A j \in 1 .. k - 1 : j # i => Like(t[j], s[j]),
           IsIn(v, m) <=> IsIn(r, m),
           ~Concerns(s[i], m) => (v[m].read <=> r[m].read),
           Concerns(s[i], m) /\ IsIn(r, m) => (Unreads(s[i]) <=> ~v[m].read)
    PROVE  UnreadIn(t, v, k, m) <=> UnreadIn(s, r, k, m)
<1>1. \A j \in 1 .. k - 1 : Concerns(t[j], m) <=> Concerns(s[j], m) /\ j # i
  BY DEF Concerns, Like
<1>2. \A j \in 1 .. k - 1 : j # i /\ Concerns(s[j], m) => (Unreads(t[j]) <=> Unreads(s[j]))
  BY DEF Concerns, Like, Unreads
<1>3. \A j \in 1 .. k - 1 : j < i => ~Concerns(s[j], m)
  BY DEF Concerns
<1>4. \A j \in 1 .. k - 1 : \A l \in j + 1 .. k - 1 : l \in 1 .. k - 1 /\ l > j
  OBVIOUS
<1>5. ASSUME NEW j, j # i
      PROVE  LastSays(t, k, m, j) <=> LastSays(s, k, m, j)
  <2>1. CASE j \in 1 .. k - 1 /\ Concerns(s[j], m)
    <3>1. j > i
      BY <1>3, <1>5, <2>1
    <3>2. \A l \in j + 1 .. k - 1 : l \in 1 .. k - 1 /\ l # i
      BY <2>1, <3>1
    <3>3. \A l \in j + 1 .. k - 1 : Concerns(t[l], m) <=> Concerns(s[l], m)
      BY <1>1, <3>2
    <3>4. Concerns(t[j], m) <=> Concerns(s[j], m)
      BY <1>1, <1>5, <2>1
    <3> QED BY <3>3, <3>4 DEF LastSays
  <2>2. CASE ~(j \in 1 .. k - 1 /\ Concerns(s[j], m))
    BY <1>1, <2>2 DEF LastSays
  <2> QED BY <2>1, <2>2
<1>6. ~LastSays(t, k, m, i)
  BY <1>1 DEF LastSays
<1>7. CASE Concerns(s[i], m)
  <2>1. CASE \E j \in i + 1 .. k - 1 : Concerns(s[j], m)
    <3>1. ~LastSays(s, k, m, i)
      BY <2>1 DEF LastSays
    <3>2. \A j : LastSays(t, k, m, j) /\ Unreads(t[j]) <=> LastSays(s, k, m, j) /\ Unreads(s[j])
      BY <1>2, <1>5, <1>6, <3>1 DEF LastSays
    <3>3. \E j \in 1 .. k - 1 : Concerns(t[j], m)
      BY <1>1, <1>4, <2>1
    <3>4. \E j \in 1 .. k - 1 : Concerns(s[j], m)
      BY <1>1, <3>3
    <3> QED BY <3>2, <3>3, <3>4 DEF UnreadIn
  <2>2. CASE ~\E j \in i + 1 .. k - 1 : Concerns(s[j], m)
    <3>1. LastSays(s, k, m, i)
      BY <1>7, <2>2 DEF LastSays
    <3>2. \A j \in 1 .. k - 1 : j = i \/ j < i \/ j \in i + 1 .. k - 1
      OBVIOUS
    <3>3. \A j \in 1 .. k - 1 : ~Concerns(t[j], m)
      BY <1>1, <1>3, <2>2, <3>2
    <3>4. \A j : LastSays(s, k, m, j) => j = i
      BY <1>3, <2>2, <3>2 DEF LastSays
    <3>5. \A j : ~LastSays(t, k, m, j)
      BY <3>3 DEF LastSays
    <3>6. UnreadIn(t, v, k, m) <=> IsIn(v, m) /\ ~v[m].read
      BY <3>3, <3>5 DEF UnreadIn
    <3>7. UnreadIn(s, r, k, m) <=> IsIn(r, m) /\ Unreads(s[i])
      BY <1>7, <3>1, <3>4 DEF UnreadIn
    <3> QED BY <1>7, <3>6, <3>7
  <2> QED BY <2>1, <2>2
<1>8. CASE ~Concerns(s[i], m)
  <2>1. ~LastSays(s, k, m, i)
    BY <1>8 DEF LastSays
  <2>2. \A j : LastSays(t, k, m, j) /\ Unreads(t[j]) <=> LastSays(s, k, m, j) /\ Unreads(s[j])
    BY <1>2, <1>5, <1>6, <2>1 DEF LastSays
  <2>3. (\A j \in 1 .. k - 1 : ~Concerns(t[j], m)) <=> (\A j \in 1 .. k - 1 : ~Concerns(s[j], m))
    BY <1>1, <1>8
  <2> QED BY <1>8, <2>2, <2>3 DEF UnreadIn
<1> QED BY <1>7, <1>8

(* What an answer says.                                                     *)
LEMMA AnswerSays ==
    ASSUME NEW T, NEW q \in Requests(T)
    PROVE  /\ Answer(q).kind = q.kind
           /\ q.kind = "count" /\ Answer(q).calm => Quiet /\ ~Posts
           /\ q.kind = "count" => Answer(q).count = Cardinality(Unread)
           /\ q.kind = "post" => /\ Answer(q).n = q.n /\ Answer(q).read = q.read /\ Answer(q).calm = q.calm
                                 /\ Answer(q).unread = q.unread /\ Answer(q).stage = IF Refused(q) THEN "failed" ELSE "done"
<1>1. ASSUME q.kind = "count"
      PROVE  /\ Answer(q).kind = q.kind /\ (Answer(q).calm => Quiet /\ ~Posts)
             /\ Answer(q).count = Cardinality(Unread)
  <2> DEFINE calm == Quiet /\ ~\E i \in DOMAIN reqs : IsPost(reqs[i])
             count == Cardinality(Unread)
  <2>1. Answer(q) = [q EXCEPT !.stage = "done", !.count = count, !.calm = calm]
    BY <1>1 DEF Answer
  <2> HIDE DEF calm, count
  <2>2. Answer(q).kind = q.kind /\ Answer(q).calm = calm /\ Answer(q).count = count
    BY <2>1 DEF Requests
  <2> QED BY <2>2 DEF calm, count, Posts
<1>2. ASSUME q.kind = "page"
      PROVE  Answer(q).kind = q.kind
  <2>1. PICK d : Answer(q) = [q EXCEPT !.stage = "done", !.data = d]
    BY <1>2 DEF Answer
  <2> QED BY <2>1 DEF Requests
<1>3. ASSUME q.kind = "post"
      PROVE  /\ Answer(q).kind = q.kind
             /\ Answer(q).n = q.n /\ Answer(q).read = q.read /\ Answer(q).calm = q.calm
             /\ Answer(q).unread = q.unread /\ Answer(q).stage = IF Refused(q) THEN "failed" ELSE "done"
  <2> DEFINE st == IF Refused(q) THEN "failed" ELSE "done"
  <2>1. Answer(q) = [q EXCEPT !.stage = st]
    BY <1>3 DEF Answer
  <2> HIDE DEF st
  <2>2. /\ Answer(q).kind = q.kind /\ Answer(q).n = q.n /\ Answer(q).read = q.read /\ Answer(q).calm = q.calm
        /\ Answer(q).unread = q.unread /\ Answer(q).stage = st
    BY <2>1 DEF Requests
  <2> QED BY <2>2 DEF st
<1> QED BY <1>1, <1>2, <1>3 DEF Requests

LEMMA WhenServed ==
    ASSUME Table, Types, Wires, Counting, Served
    PROVE  Counting'
<1>1. UNCHANGED <<hand, subscribed, wire, bell, source, doubled>>
  BY Answered
<1>2. PICK i \in DOMAIN reqs :
        /\ reqs[i].stage = "sent" /\ rows' = Effect(reqs[i])
        /\ Len(reqs') = Len(reqs) /\ DOMAIN reqs' = DOMAIN reqs
        /\ reqs'[i] = Answer(reqs[i])
        /\ \A j \in DOMAIN reqs : j # i =>
              reqs'[j] = [reqs[j] EXCEPT !.calm = reqs[j].calm /\ (IsPost(reqs[i]) => IsPost(reqs[j]))]
        /\ unsure \/ (IsPost(reqs[i]) /\ (Overtakes(i) \/ Idle(reqs[i]))) => unsure'
  BY Answered
<1> DEFINE s == reqs
           t == reqs'
           q == reqs[i]
           L == Len(reqs)
<1>3. L \in Nat /\ DOMAIN s = 1 .. L /\ DOMAIN t = 1 .. L /\ i \in 1 .. L /\ \A j \in 1 .. L : s[j] \in Requests(Stored)
  BY <1>2, Lists DEF Types
<1>4. Pushes' = Pushes /\ (Up' <=> Up)
  BY <1>1 DEF Pushes, Live, Up
<1>5. ASSUME NEW j \in 1 .. L, j # i
      PROVE  /\ t[j].kind = s[j].kind /\ t[j].stage = s[j].stage /\ t[j].n = s[j].n /\ t[j].read = s[j].read
             /\ t[j].unread = s[j].unread /\ t[j].count = s[j].count
             /\ t[j].calm = (s[j].calm /\ (IsPost(q) => IsPost(s[j])))
  <2> DEFINE o == s[j]
             calm == s[j].calm /\ (IsPost(q) => IsPost(s[j]))
  <2>1. t[j] = [o EXCEPT !.calm = calm] /\ o \in Requests(Stored)
    BY <1>2, <1>3, <1>5
  <2> HIDE DEF o, calm
  <2>2. /\ t[j].kind = o.kind /\ t[j].stage = o.stage /\ t[j].n = o.n /\ t[j].read = o.read
        /\ t[j].unread = o.unread /\ t[j].count = o.count /\ t[j].calm = calm
    BY <2>1 DEF Requests
  <2> QED BY <2>2 DEF o, calm
<1>6. \A j \in 1 .. L : j # i => Like(t[j], s[j]) /\ (Spoils(s[j]) => Spoils(t[j])) /\ (t[j].calm => s[j].calm)
  <2>1. ASSUME NEW j \in 1 .. L, j # i
        PROVE  Like(t[j], s[j]) /\ (Spoils(s[j]) => Spoils(t[j])) /\ (t[j].calm => s[j].calm)
    BY <1>5, <2>1 DEF Like, Under, IsPost, Spoils
  <2> QED BY <2>1
<1>7. q \in Requests(Stored) /\ t[i] = Answer(q) /\ t[i].kind = q.kind
  BY <1>2, <1>3, AnswerSays
<1>8. (\A j \in 1 .. L : t[j].kind = s[j].kind) /\ (Counts' <=> Counts) /\ (Posts' <=> Posts)
  <2>1. \A j \in 1 .. L : t[j].kind = s[j].kind
    BY <1>5, <1>7
  <2> HIDE DEF t
  <2>2. (Counts' <=> Counts) /\ (Posts' <=> Posts)
    BY <1>3, <2>1 DEF Counts, Posts, IsPost, t
  <2> QED BY <2>1, <2>2
<1>9. Certain' => Certain /\ ~(IsPost(q) /\ (Overtakes(i) \/ Idle(q)))
  BY <1>1, <1>2, <1>4, <1>8 DEF Certain
<1> HIDE DEF L
<1>10. CASE ~IsPost(q)
  <2>1. rows' = rows
    BY <1>2, <1>10 DEF Effect
  <2>2. ~IsPost(t[i])
    BY <1>7, <1>10 DEF IsPost
  <2>3. \A j \in 1 .. L : Like(t[j], s[j]) /\ (Spoils(s[j]) => Spoils(t[j]))
    BY <1>6, <1>10, <2>2 DEF Like, Under, Spoils
  <2>4. ASSUME Certain'
        PROVE  Badge'
    <3>1. Badge /\ Certain
      BY <1>9, <2>4 DEF Counting
    <3>2. Shows(t, rows, L + 1, Pushes, bell.unread)
      <4>1. (L + 1) - 1 = L /\ L + 1 \in Nat
        BY <1>3
      <4>2. Shows(s, rows, L + 1, Pushes, bell.unread)
        BY <3>1 DEF Badge, L
      <4> QED BY <2>3, <4>1, <4>2, Matched
    <3>3. ASSUME NEW j \in 1 .. L, IsPost(t[j]), t[j].calm, t[j].stage # "done"
          PROVE  Shows(t, rows, j, Pushes, t[j].unread)
      <4>1. j # i
        BY <2>2, <3>3
      <4>2. IsPost(s[j]) /\ s[j].calm /\ s[j].stage # "done" /\ t[j].unread = s[j].unread
        BY <1>5, <3>3, <4>1 DEF IsPost
      <4>3. Shows(s, rows, j, Pushes, t[j].unread)
        BY <1>3, <3>1, <4>2 DEF Badge
      <4>4. j \in Nat /\ \A p \in 1 .. j - 1 : p \in 1 .. L
        BY <1>3
      <4> QED BY <2>3, <4>3, <4>4, Matched
    <3> QED BY <1>1, <1>2, <1>3, <1>4, <2>1, <3>2, <3>3 DEF Badge, L
  <2>5. CalmPosts'
    <3>1. ASSUME NEW j \in 1 .. L, IsPost(t[j]), t[j].calm
          PROVE  (\A o \in j + 1 .. L : ~IsPost(t[o])) /\ (t[j].n = 0 => Pushes = {})
      <4>1. j # i
        BY <2>2, <3>1
      <4>2. IsPost(s[j]) /\ s[j].calm /\ t[j].n = s[j].n
        BY <1>5, <3>1, <4>1 DEF IsPost
      <4>3. (\A o \in j + 1 .. L : ~IsPost(s[o])) /\ (s[j].n = 0 => Pushes = {})
        BY <1>3, <4>2 DEF Counting, CalmPosts, L
      <4>4. \A o \in j + 1 .. L : o \in 1 .. L
        BY <1>3
      <4> QED BY <1>8, <4>2, <4>3, <4>4 DEF IsPost
    <3> QED BY <1>2, <1>3, <1>4, <3>1 DEF CalmPosts, L
  <2>6. CalmCounts'
    <3>1. ASSUME NEW j \in 1 .. L, t[j].kind = "count", t[j].stage = "done", t[j].calm
          PROVE  ~Posts /\ Pushes = {} /\ t[j].count = Cardinality(Unread)
      <4>1. CASE j = i
        <5>1. Quiet /\ ~Posts /\ t[i].count = Cardinality(Unread)
          BY <1>7, <3>1, <4>1, AnswerSays
        <5> QED BY <4>1, <5>1, Unpushed
      <4>2. CASE j # i
        BY ZenonT(60), <1>3, <1>5, <3>1, <4>2 DEF Counting, CalmCounts
      <4> QED BY <4>1, <4>2
    <3>2. Unread' = Unread
      BY <2>1 DEF Unread, Exists
    <3> QED BY <1>3, <1>4, <1>8, <3>1, <3>2 DEF CalmCounts
  <2> QED BY <2>4, <2>5, <2>6 DEF Counting, Badge
<1>11. CASE IsPost(q)
  <2>1. Under(s[i]) /\ IsPost(t[i])
    BY <1>2, <1>7, <1>11 DEF Under, IsPost
  <2>2. /\ t[i].n = q.n /\ t[i].calm = q.calm /\ t[i].unread = q.unread
        /\ t[i].stage = IF Refused(q) THEN "failed" ELSE "done"
    BY <1>7, <1>11, AnswerSays DEF IsPost
  <2>3. ~Under(t[i])
    BY <2>2 DEF Under
  <2>4. CalmPosts'
    <3>1. ASSUME NEW j \in 1 .. L, IsPost(t[j]), t[j].calm
          PROVE  (\A o \in j + 1 .. L : ~IsPost(t[o])) /\ (t[j].n = 0 => Pushes = {})
      <4>1. IsPost(s[j]) /\ s[j].calm /\ t[j].n = s[j].n
        <5>1. CASE j = i
          BY <1>11, <2>2, <3>1, <5>1
        <5>2. CASE j # i
          BY <1>5, <3>1, <5>2 DEF IsPost
        <5> QED BY <5>1, <5>2
      <4>2. (\A o \in j + 1 .. L : ~IsPost(s[o])) /\ (s[j].n = 0 => Pushes = {})
        BY <1>3, <4>1 DEF Counting, CalmPosts, L
      <4>3. \A o \in j + 1 .. L : o \in 1 .. L
        BY <1>3
      <4> QED BY <1>8, <4>1, <4>2, <4>3 DEF IsPost
    <3> QED BY <1>2, <1>3, <1>4, <3>1 DEF CalmPosts, L
  <2>5. CalmCounts'
    <3>1. ASSUME NEW j \in 1 .. L, t[j].kind = "count", t[j].calm PROVE FALSE
      <4>1. j # i
        BY <2>1, <3>1 DEF IsPost
      <4>2. IsPost(s[j])
        BY <1>5, <1>11, <3>1, <4>1
      <4> QED BY <1>8, <3>1, <4>2 DEF IsPost
    <3> QED BY <1>3, <3>1 DEF CalmCounts
  <2>6. ASSUME Certain', Refused(q)
        PROVE  Badge'
    <3>1. rows' = rows
      BY <1>2, <2>6 DEF Effect
    <3>2. Spoils(t[i])
      BY <2>1, <2>2, <2>6 DEF Spoils
    <3>3. ASSUME NEW k \in Nat, k - 1 >= i, NEW u PROVE Shows(t, rows, k, Pushes, u)
      <4>1. i \in 1 .. k - 1
        BY <1>3, <3>3
      <4> QED BY <3>2, <4>1 DEF Shows, Sound, Doubted
    <3>4. ASSUME NEW j \in 1 .. L, j <= i, IsPost(t[j]), t[j].calm, t[j].stage # "done"
          PROVE  Shows(t, rows, j, Pushes, t[j].unread)
      <4>1. IsPost(s[j]) /\ s[j].calm /\ s[j].stage # "done" /\ t[j].unread = s[j].unread
        <5>1. CASE j = i
          BY <1>2, <1>11, <2>2, <3>4, <5>1
        <5>2. CASE j # i
          BY <1>5, <3>4, <5>2 DEF IsPost
        <5> QED BY <5>1, <5>2
      <4>2. Shows(s, rows, j, Pushes, t[j].unread)
        BY <1>3, <1>9, <2>6, <4>1 DEF Counting, Badge
      <4>3. j \in Nat /\ \A p \in 1 .. j - 1 : p \in 1 .. L /\ p # i
        BY <1>3, <3>4
      <4> QED BY <1>6, <4>2, <4>3, Matched
    <3>5. ASSUME NEW j \in 1 .. L, ~(j <= i) PROVE j \in Nat /\ j - 1 >= i
      BY <1>3, <3>5
    <3>6. L + 1 \in Nat /\ (L + 1) - 1 >= i
      BY <1>3
    <3> QED BY <1>1, <1>2, <1>3, <1>4, <3>1, <3>3, <3>4, <3>5, <3>6 DEF Badge, L
  <2>7. ASSUME Certain', ~Refused(q)
        PROVE  Badge'
    <3>1. Certain /\ ~Overtakes(i) /\ ~Idle(q)
      BY <1>9, <1>11, <2>7
    <3>2. \A j \in 1 .. i - 1 : ~Under(s[j])
      BY <3>1 DEF Overtakes, Under
    <3>3. \A m \in Notices : IsIn(rows', m) <=> IsIn(rows, m)
      BY ServedKeeps DEF Kept, IsIn
    <3>4. q.n \in {0} \cup Notices /\ q.read \in BOOLEAN /\ 0 \notin Notices
      BY <1>7, ServiceAssumption DEF Requests, Stored
    <3>5. ASSUME NEW m \in Notices
          PROVE  /\ ~Concerns(q, m) => rows'[m].read = rows[m].read
                 /\ Concerns(q, m) /\ IsIn(rows, m) => (Unreads(q) <=> ~rows'[m].read)
      <4>1. CASE q.n = 0
        <5>1. Concerns(q, m) /\ ~Unreads(q)
          BY <2>1, <4>1 DEF Concerns, Unreads
        <5>2. rows' = markAllRead
          BY <1>2, <1>11, <2>7, <4>1 DEF Effect
        <5>3. rows'[m] = [rows[m] EXCEPT !.read = Exists(m)] /\ RowOK(rows[m])
          BY <5>2 DEF markAllRead, Table
        <5>4. rows'[m].read = Exists(m)
          BY <5>3 DEF RowOK
        <5> QED BY <5>1, <5>4 DEF IsIn, Exists
      <4>2. CASE q.n # 0
        <5>1. rows' = setReadState(q.n, q.read)
          BY <1>2, <1>11, <2>7, <4>2 DEF Effect
        <5>2. CASE m = q.n
          <6>1. rows'[m] = [rows[m] EXCEPT !.read = q.read] /\ RowOK(rows[m])
            BY <5>1, <5>2 DEF setReadState, Table
          <6>2. rows'[m].read = q.read
            BY <6>1 DEF RowOK
          <6> QED BY <2>1, <4>2, <5>2, <6>2 DEF Concerns, Unreads
        <5>3. CASE m # q.n
          <6>1. rows'[m] = rows[m]
            BY <5>1, <5>3 DEF setReadState, Table
          <6> QED BY <4>2, <5>3, <6>1 DEF Concerns
        <5> QED BY <5>2, <5>3
      <4> QED BY <4>1, <4>2
    <3>6. ASSUME NEW k \in i + 1 .. L + 1, NEW m \in Notices
          PROVE  UnreadIn(t, rows', k, m) <=> UnreadIn(s, rows, k, m)
      <4>1. k \in Nat /\ i \in 1 .. k - 1 /\ \A j \in 1 .. k - 1 : j \in 1 .. L
        BY <1>3
      <4>2. \A j \in 1 .. k - 1 : j # i => Like(t[j], s[j])
        BY <1>6, <4>1
      <4>3. /\ IsIn(rows', m) <=> IsIn(rows, m)
            /\ ~Concerns(s[i], m) => (rows'[m].read <=> rows[m].read)
            /\ Concerns(s[i], m) /\ IsIn(rows, m) => (Unreads(s[i]) <=> ~rows'[m].read)
        BY <3>3, <3>5
      <4> HIDE DEF s, t
      <4> QED BY <2>1, <2>3, <3>2, <4>1, <4>2, <4>3, ServedUnread
    <3>7. ASSUME NEW k \in i + 1 .. L + 1, Sound(t, rows', k)
          PROVE  Sound(s, rows, k)
      <4> SUFFICES ASSUME NEW j \in 1 .. k - 1, Doubted(s, rows, j)
                   PROVE  FALSE
        BY DEF Sound
      <4>1. j \in 1 .. L /\ ~Doubted(t, rows', j) /\ j \in Nat
        BY <1>3, <3>7 DEF Sound
      <4>2. CASE Spoils(s[j])
        <5>1. Spoils(t[j])
          <6>1. CASE j = i
            BY <1>2, <2>1, <2>2, <4>2, <6>1 DEF Spoils
          <6>2. CASE j # i
            BY <1>6, <4>1, <4>2, <6>2
          <6> QED BY <6>1, <6>2
        <5> QED BY <4>1, <5>1 DEF Doubted
      <4>3. CASE Under(s[j]) /\ s[j].n # 0 /\ ~(IsIn(rows, s[j].n) /\ (UnreadIn(s, rows, j, s[j].n) <=> s[j].read))
        <5>1. ~(j < i)
          BY <1>3, <3>2, <4>1, <4>3
        <5>2. s[j].n \in Notices
          BY <1>3, <4>1, <4>3 DEF Requests, Stored
        <5>3. CASE j = i
          <6>1. Exists(q.n) /\ rows[q.n].read # q.read
            BY <2>7, <3>1, <4>3, <5>3 DEF Refused, Idle
          <6>2. rows[q.n].read \in BOOLEAN
            BY <5>2, <5>3 DEF Types
          <6>3. IsIn(rows, q.n)
            BY <6>1 DEF Exists, IsIn
          <6>4. UnreadIn(s, rows, i, q.n) <=> ~rows[q.n].read
            <7>1. \A o \in 1 .. i - 1 : ~Concerns(s[o], q.n)
              BY <3>2 DEF Concerns
            <7> QED BY <6>3, <7>1 DEF UnreadIn, LastSays
          <6> QED BY <3>4, <4>3, <5>3, <6>1, <6>2, <6>3, <6>4
        <5>4. CASE j # i
          <6>1. j \in i + 1 .. L + 1
            BY <1>3, <4>1, <5>1, <5>4
          <6>2. Under(t[j]) /\ t[j].n = s[j].n /\ t[j].read = s[j].read
            BY <1>6, <4>1, <4>3, <5>4 DEF Like
          <6>3. UnreadIn(t, rows', j, s[j].n) <=> UnreadIn(s, rows, j, s[j].n)
            BY <3>6, <5>2, <6>1
          <6>4. IsIn(rows', s[j].n) <=> IsIn(rows, s[j].n)
            BY <3>3, <5>2
          <6>5. Doubted(t, rows', j)
            <7> HIDE DEF s, t
            <7> QED BY <4>3, <6>2, <6>3, <6>4 DEF Doubted
          <6> QED BY <4>1, <6>5
        <5> QED BY <5>3, <5>4
      <4> QED BY <4>2, <4>3 DEF Doubted
    <3>8. ASSUME NEW k \in i + 1 .. L + 1, NEW u, Shows(s, rows, k, Pushes, u)
          PROVE  Shows(t, rows', k, Pushes, u)
      <4>1. ToBeIn(t, rows', k) = ToBeIn(s, rows, k)
        BY <3>6 DEF ToBeIn
      <4> QED BY <3>7, <3>8, <4>1 DEF Shows
    <3>9. ASSUME NEW j \in 1 .. L, IsPost(t[j]), t[j].calm, t[j].stage # "done"
          PROVE  Shows(t, rows', j, Pushes, t[j].unread)
      <4>1. j # i
        BY <2>2, <2>7, <3>9
      <4>2. IsPost(s[j]) /\ s[j].calm /\ s[j].stage # "done" /\ t[j].unread = s[j].unread
        BY <1>5, <3>9, <4>1 DEF IsPost
      <4>3. ~(i \in j + 1 .. L)
        BY <1>3, <1>11, <4>2 DEF Counting, CalmPosts, L
      <4>4. j \in i + 1 .. L + 1
        BY <1>3, <4>1, <4>3
      <4>5. Shows(s, rows, j, Pushes, t[j].unread)
        BY <1>3, <3>1, <4>2 DEF Counting, Badge
      <4> QED BY <3>8, <4>4, <4>5
    <3>10. Shows(t, rows', L + 1, Pushes, bell.unread)
      <4>1. L + 1 \in i + 1 .. L + 1
        BY <1>3
      <4>2. Shows(s, rows, L + 1, Pushes, bell.unread)
        BY <3>1 DEF Counting, Badge, L
      <4> QED BY <3>8, <4>1, <4>2
    <3> QED BY <1>1, <1>2, <1>3, <1>4, <3>9, <3>10 DEF Badge, L
  <2> QED BY <2>4, <2>5, <2>6, <2>7 DEF Counting, Badge
<1> QED BY <1>10, <1>11

LEMMA WhenLost ==
    ASSUME Types, Counting, RequestIsLost
    PROVE  Counting'
<1>1. UNCHANGED <<service, bell, source, unsure, doubled>>
  BY LostTyped
<1>2. PICK i \in DOMAIN reqs :
        /\ reqs[i].stage \in {"sent", "done"}
        /\ Len(reqs') = Len(reqs) /\ DOMAIN reqs' = DOMAIN reqs
        /\ reqs'[i] = [reqs[i] EXCEPT !.stage = "failed", !.calm = reqs[i].calm /\ reqs[i].stage = "sent"]
        /\ \A j \in DOMAIN reqs : j # i => reqs'[j] = reqs[j]
  BY LostTyped
<1> DEFINE s == reqs
           t == reqs'
           L == Len(reqs)
<1>3. L \in Nat /\ DOMAIN s = 1 .. L /\ DOMAIN t = 1 .. L /\ i \in 1 .. L /\ \A j \in 1 .. L : s[j] \in Requests(Stored)
  BY <1>2, Lists DEF Types
<1>4. Pushes' = Pushes /\ (Up' <=> Up) /\ rows' = rows /\ Unread' = Unread
  BY <1>1 DEF Pushes, Live, Up, service, Unread, Exists
<1>5. /\ t[i].kind = s[i].kind /\ t[i].n = s[i].n /\ t[i].read = s[i].read /\ t[i].unread = s[i].unread
      /\ t[i].stage = "failed" /\ t[i].calm = (s[i].calm /\ s[i].stage = "sent")
  <2> DEFINE q == s[i]
             calm == s[i].calm /\ s[i].stage = "sent"
  <2>1. q \in Requests(Stored) /\ t[i] = [q EXCEPT !.stage = "failed", !.calm = calm]
    BY <1>2, <1>3
  <2> HIDE DEF q, calm
  <2>2. /\ t[i].kind = q.kind /\ t[i].n = q.n /\ t[i].read = q.read /\ t[i].unread = q.unread
        /\ t[i].stage = "failed" /\ t[i].calm = calm
    BY <2>1 DEF Requests
  <2> QED BY <2>2 DEF q, calm
<1>6. \A j \in 1 .. L : j # i => t[j] = s[j]
  BY <1>2, <1>3
<1>7. \A j \in 1 .. L : t[j].kind = s[j].kind /\ t[j].n = s[j].n /\ t[j].unread = s[j].unread /\ (t[j].calm => s[j].calm)
  BY <1>5, <1>6
<1>8. (Counts' <=> Counts) /\ (Posts' <=> Posts)
  BY <1>3, <1>7 DEF Counts, Posts, IsPost
<1> HIDE DEF L, s, t
<1>9. CalmPosts'
  <2>1. ASSUME NEW j \in 1 .. L, IsPost(t[j]), t[j].calm
        PROVE  (\A o \in j + 1 .. L : ~IsPost(t[o])) /\ (t[j].n = 0 => Pushes = {})
    <3>1. IsPost(s[j]) /\ s[j].calm /\ t[j].n = s[j].n
      BY <1>7, <2>1 DEF IsPost
    <3>2. (\A o \in j + 1 .. L : ~IsPost(s[o])) /\ (s[j].n = 0 => Pushes = {})
      BY <1>3, <3>1 DEF Counting, CalmPosts, L, s
    <3>3. \A o \in j + 1 .. L : o \in 1 .. L
      BY <1>3
    <3> QED BY <1>7, <3>1, <3>2, <3>3 DEF IsPost
  <2> QED BY <1>2, <1>3, <1>4, <2>1 DEF CalmPosts, L, t
<1>10. CalmCounts'
  <2>1. ASSUME NEW j \in 1 .. L, t[j].kind = "count", t[j].stage = "done", t[j].calm
        PROVE  ~Posts /\ Pushes = {} /\ t[j].count = Cardinality(Unread)
    <3>1. j # i /\ t[j] = s[j]
      BY <1>5, <1>6, <2>1
    <3> QED BY <1>3, <2>1, <3>1 DEF Counting, CalmCounts, s
  <2> QED BY <1>3, <1>4, <1>8, <2>1 DEF CalmCounts, t
<1>11. ASSUME Certain'
       PROVE  Badge'
  <2>1. Certain
    BY <1>1, <1>4, <1>8, <1>11 DEF Certain
  <2>2. ASSUME NEW k \in 1 .. L + 1, NEW u, Shows(s, rows, k, Pushes, u)
        PROVE  Shows(t, rows, k, Pushes, u)
    <3>1. k \in Nat /\ \A p \in 1 .. k - 1 : p \in 1 .. L
      BY <1>3
    <3>2. CASE IsPost(s[i]) /\ i \in 1 .. k - 1
      <4>1. Spoils(t[i])
        BY <1>5, <3>2 DEF Spoils, IsPost
      <4> QED BY <3>2, <4>1 DEF Shows, Sound, Doubted
    <3>3. CASE ~(IsPost(s[i]) /\ i \in 1 .. k - 1)
      <4>1. \A p \in 1 .. k - 1 : Like(t[p], s[p]) /\ (Spoils(s[p]) => Spoils(t[p]))
        <5>1. TAKE p \in 1 .. k - 1
        <5>2. CASE p # i
          BY <1>6, <3>1, <5>2 DEF Like
        <5>3. CASE p = i
          BY <1>5, <3>3, <5>3 DEF Like, Under, Spoils, IsPost
        <5> QED BY <5>2, <5>3
      <4> QED BY <2>2, <3>1, <4>1, Matched
    <3> QED BY <3>2, <3>3
  <2>3. Shows(t, rows, L + 1, Pushes, bell.unread)
    <3>1. Shows(s, rows, L + 1, Pushes, bell.unread)
      BY <2>1 DEF Counting, Badge, L, s
    <3>2. L + 1 \in 1 .. L + 1
      BY <1>3
    <3> QED BY <2>2, <3>1, <3>2
  <2>4. ASSUME NEW j \in 1 .. L, IsPost(t[j]), t[j].calm, t[j].stage # "done"
        PROVE  Shows(t, rows, j, Pushes, t[j].unread)
    <3>1. IsPost(s[j]) /\ s[j].calm /\ s[j].stage # "done" /\ t[j].unread = s[j].unread
      <4>1. CASE j = i
        BY <1>5, <1>7, <2>4, <4>1 DEF IsPost
      <4>2. CASE j # i
        BY <1>6, <2>4, <4>2
      <4> QED BY <4>1, <4>2
    <3>2. Shows(s, rows, j, Pushes, t[j].unread)
      BY <1>3, <2>1, <3>1 DEF Counting, Badge, s
    <3>3. j \in 1 .. L + 1
      BY <1>3
    <3> QED BY <2>2, <3>2, <3>3
  <2> QED BY <1>1, <1>2, <1>3, <1>4, <2>3, <2>4 DEF Badge, L, t
<1> QED BY <1>9, <1>10, <1>11 DEF Counting, Badge

-----------------------------------------------------------------------------
(* What lands is taken out.                                                 *)
After(i) == [p \in Nat |-> IF p < i THEN p ELSE p + 1]

LEMMA Joined ==
    ASSUME NEW T, NEW a \in Seq(T), NEW b \in Seq(T)
    PROVE  a \o b \in Seq(T) /\ Len(a \o b) = Len(a) + Len(b)
OBVIOUS

LEMMA Without ==
    ASSUME NEW T, NEW s \in Seq(T), NEW i \in DOMAIN s
    PROVE  LET t == SubSeq(s, 1, i - 1) \o SubSeq(s, i + 1, Len(s))
           IN  /\ t \in Seq(T) /\ Len(s) \in Nat /\ i \in 1 .. Len(s) /\ Len(t) = Len(s) - 1 /\ DOMAIN t = 1 .. Len(s) - 1
               /\ \A p \in 1 .. Len(s) - 1 : t[p] = s[After(i)[p]] /\ After(i)[p] \in 1 .. Len(s)
<1> DEFINE a == SubSeq(s, 1, i - 1)
           b == SubSeq(s, i + 1, Len(s))
           L == Len(s)
<1>1. L \in Nat /\ i \in 1 .. L
  OBVIOUS
<1>2. a \in Seq(T) /\ Len(a) = i - 1 /\ \A p \in 1 .. i - 1 : a[p] = s[p]
  OBVIOUS
<1>3. b \in Seq(T) /\ Len(b) = L - i /\ \A p \in 1 .. L - i : b[p] = s[p + i]
  OBVIOUS
<1> HIDE DEF a, b, L
<1>4. a \o b \in Seq(T) /\ Len(a \o b) = L - 1 /\ DOMAIN (a \o b) = 1 .. L - 1
  <2>1. a \o b \in Seq(T) /\ Len(a \o b) = Len(a) + Len(b)
    BY <1>2, <1>3, Joined
  <2>2. Len(a) + Len(b) = L - 1
    BY <1>1, <1>2, <1>3
  <2>3. DOMAIN (a \o b) = 1 .. Len(a \o b)
    BY <2>1
  <2> QED BY <2>1, <2>2, <2>3
<1>5. ASSUME NEW p \in 1 .. L - 1
      PROVE  (a \o b)[p] = s[After(i)[p]] /\ After(i)[p] \in 1 .. L
  <2>1. p \in Nat
    OBVIOUS
  <2>2. CASE p < i
    BY <1>1, <1>2, <1>3, <2>1, <2>2 DEF After
  <2>3. CASE ~(p < i)
    <3>1. After(i)[p] = p + 1
      BY <2>1, <2>3 DEF After
    <3>2. (a \o b)[p] = b[p - (i - 1)] /\ p - (i - 1) \in 1 .. L - i
      BY SMTT(60), <1>1, <1>2, <1>3, <2>3
    <3>3. (p - (i - 1)) + i = p + 1
      BY <1>1
    <3> QED BY SMTT(60), <1>1, <1>3, <2>3, <3>1, <3>2, <3>3
  <2> QED BY <2>2, <2>3
<1> QED BY <1>1, <1>4, <1>5 DEF a, b, L

LEMMA LandedShows ==
    ASSUME NEW s, NEW t, NEW r, NEW L \in Nat, NEW i \in 1 .. L, NEW k \in 1 .. L, NEW P, NEW u,
           \A p \in 1 .. L - 1 : Like(t[p], s[After(i)[p]]) /\ (Spoils(s[After(i)[p]]) => Spoils(t[p])),
           ~Under(s[i]), ~Spoils(s[i]), Shows(s, r, After(i)[k], P, u)
    PROVE  Shows(t, r, k, P, u)
<1> DEFINE f == After(i)
           m == After(i)[k]
<1>1. /\ k \in Nat /\ i \in Nat /\ m \in Nat /\ (k < i => m = k) /\ (~(k < i) => m = k + 1)
  BY DEF After
<1>2. \A p \in 1 .. k - 1 : p \in Nat /\ p \in 1 .. L - 1 /\ f[p] = (IF p < i THEN p ELSE p + 1)
  BY DEF After
<1> HIDE DEF f, m
<1>3. \A p \in 1 .. k - 1 : f[p] \in 1 .. m - 1
  BY <1>1, <1>2
<1>4. \A j \in 1 .. m - 1 : j # i => \E p \in 1 .. k - 1 : f[p] = j
  <2>1. ASSUME NEW j \in 1 .. m - 1, j < i PROVE j \in 1 .. k - 1 /\ f[j] = j
    BY <1>1, <1>2, <2>1
  <2>2. ASSUME NEW j \in 1 .. m - 1, j > i PROVE j - 1 \in 1 .. k - 1 /\ f[j - 1] = j
    <3>1. j - 1 \in 1 .. k - 1 /\ ~(j - 1 < i) /\ (j - 1) + 1 = j
      BY <1>1, <2>2
    <3> QED BY <1>2, <3>1
  <2> QED BY <1>1, <2>1, <2>2
<1>5. \A p, q \in 1 .. k - 1 : p < q => f[p] < f[q]
  BY <1>1, <1>2
<1>6. Drops(t, k, s, m, f)
  BY <1>1, <1>2, <1>3, <1>4, <1>5 DEF Drops, f
<1>7. \A j \in 1 .. m - 1 : Spoils(s[j]) => \E p \in 1 .. k - 1 : f[p] = j /\ Spoils(t[p])
  BY <1>2, <1>4 DEF f
<1>8. Sound(t, r, k) => Sound(s, r, m)
  BY <1>6, <1>7, CarriedSound
<1>9. \A n : UnreadIn(t, r, k, n) <=> UnreadIn(s, r, m, n)
  BY <1>6, Carried
<1>10. ToBeIn(t, r, k) = ToBeIn(s, r, m)
  BY <1>9 DEF ToBeIn
<1> QED BY <1>8, <1>10 DEF Shows, m

LEMMA WhenLanded ==
    ASSUME Types, Counting, Lands
    PROVE  Counting'
<1>1. UNCHANGED <<service, source, doubled>>
  BY LandsTyped
<1>2. PICK i \in DOMAIN reqs :
        LET others == SubSeq(reqs, 1, i - 1) \o SubSeq(reqs, i + 1, Len(reqs))
        IN /\ reqs[i].stage \in {"done", "failed"} /\ bell' = Landed(reqs[i]) /\ unsure' = Doubt(reqs[i])
           /\ reqs' = IF reqs[i].kind = "page" \/ Landed(reqs[i]).unread = bell.unread THEN others ELSE Spoilt(others)
  BY LandsTyped
<1> DEFINE s == reqs
           t == reqs'
           q == reqs[i]
           L == Len(reqs)
           f == After(i)
           others == SubSeq(reqs, 1, i - 1) \o SubSeq(reqs, i + 1, Len(reqs))
<1>3. L \in Nat /\ DOMAIN s = 1 .. L /\ i \in 1 .. L /\ \A j \in 1 .. L : s[j] \in Requests(Stored)
  BY <1>2, Lists DEF Types
<1>4. /\ others \in Seq(Requests(Stored)) /\ Len(others) = L - 1 /\ DOMAIN others = 1 .. L - 1
      /\ \A p \in 1 .. L - 1 : others[p] = s[f[p]] /\ f[p] \in 1 .. L
  BY <1>2, Without DEF Types
<1>5. (t = others \/ t = Spoilt(others)) /\ q.stage \in {"done", "failed"}
  BY <1>2
<1>6. /\ q \in Requests(Stored) /\ bell' = Landed(q) /\ unsure' = Doubt(q)
      /\ t = IF q.kind = "page" \/ Landed(q).unread = bell.unread THEN others ELSE Spoilt(others)
  BY <1>2, <1>3
<1>7. /\ \A p \in 1 .. L - 1 : f[p] # i /\ (p < i => f[p] = p) /\ (~(p < i) => f[p] = p + 1)
      /\ \A p, o \in 1 .. L - 1 : p < o => f[p] < f[o]
      /\ \A j \in 1 .. L : j # i => \E p \in 1 .. L - 1 : f[p] = j
  <2>1. \A p \in 1 .. L - 1 : p \in Nat /\ f[p] = IF p < i THEN p ELSE p + 1
    BY DEF After
  <2> HIDE DEF f
  <2>2. ASSUME NEW j \in 1 .. L, j # i PROVE \E p \in 1 .. L - 1 : f[p] = j
    <3>1. CASE j < i
      <4>1. j \in 1 .. L - 1
        BY <1>3, <3>1
      <4> QED BY <2>1, <3>1, <4>1
    <3>2. CASE ~(j < i)
      <4>1. j - 1 \in 1 .. L - 1 /\ ~(j - 1 < i) /\ (j - 1) + 1 = j
        BY <1>3, <2>2, <3>2
      <4> QED BY <2>1, <4>1
    <3> QED BY <3>1, <3>2
  <2>3. \A p, o \in 1 .. L - 1 : p < o => f[p] < f[o]
    BY <1>3, <2>1
  <2>4. \A p \in 1 .. L - 1 : f[p] # i /\ (p < i => f[p] = p) /\ (~(p < i) => f[p] = p + 1)
    BY <1>3, <2>1
  <2> QED BY <2>2, <2>3, <2>4
<1> HIDE DEF f, others, L
<1>8. /\ Len(t) = L - 1 /\ DOMAIN t = 1 .. L - 1
      /\ \A p \in 1 .. L - 1 :
            /\ t[p].kind = s[f[p]].kind /\ t[p].stage = s[f[p]].stage /\ t[p].n = s[f[p]].n /\ t[p].read = s[f[p]].read
            /\ t[p].unread = s[f[p]].unread /\ t[p].count = s[f[p]].count /\ (t[p].calm => s[f[p]].calm)
  <2>1. CASE t = others
    BY <1>4, <2>1
  <2>2. CASE t = Spoilt(others)
    <3>1. Len(t) = L - 1 /\ DOMAIN t = 1 .. L - 1
      BY <1>4, <2>2, Spoiled
    <3>2. ASSUME NEW p \in 1 .. L - 1
          PROVE  /\ t[p].kind = s[f[p]].kind /\ t[p].stage = s[f[p]].stage /\ t[p].n = s[f[p]].n /\ t[p].read = s[f[p]].read
                 /\ t[p].unread = s[f[p]].unread /\ t[p].count = s[f[p]].count /\ t[p].calm = FALSE
      <4> DEFINE o == s[f[p]]
      <4>1. t[p] = [o EXCEPT !.calm = FALSE]
        BY <1>4, <2>2, Lowered
      <4>2. o \in Requests(Stored)
        BY <1>3, <1>4
      <4> HIDE DEF o
      <4>3. /\ t[p].kind = o.kind /\ t[p].stage = o.stage /\ t[p].n = o.n /\ t[p].read = o.read
            /\ t[p].unread = o.unread /\ t[p].count = o.count /\ t[p].calm = FALSE
        BY <4>1, <4>2 DEF Requests
      <4> QED BY <4>3 DEF o
    <3> QED BY <3>1, <3>2
  <2> QED BY <1>5, <2>1, <2>2
<1>9. Pushes' = Pushes /\ (Up' <=> Up) /\ rows' = rows /\ Unread' = Unread
  <2>1. bell'.es = bell.es
    BY <1>6, LandedTyped
  <2> QED BY <1>1, <2>1 DEF Pushes, Live, Up, service, Unread, Exists
<1>10. (Posts' => Posts) /\ (Counts /\ q.kind # "count" => Counts')
  <2>1. \A p \in 1 .. L - 1 : f[p] \in 1 .. L
    BY <1>4
  <2>2. Posts' => Posts
    BY <1>3, <1>8, <2>1 DEF Posts, IsPost
  <2>3. ASSUME Counts, q.kind # "count" PROVE Counts'
    <3>1. PICK j \in 1 .. L : s[j].kind = "count"
      BY <1>3, <2>3 DEF Counts
    <3>2. j # i
      BY <2>3, <3>1
    <3>3. PICK p \in 1 .. L - 1 : f[p] = j
      BY <1>7, <3>2
    <3> QED BY <1>8, <3>1, <3>3 DEF Counts
  <2> QED BY <2>2, <2>3
<1>11. CalmPosts'
  <2>1. ASSUME NEW p \in 1 .. L - 1, IsPost(t[p]), t[p].calm
        PROVE  (\A o \in p + 1 .. L - 1 : ~IsPost(t[o])) /\ (t[p].n = 0 => Pushes = {})
    <3>1. f[p] \in 1 .. L /\ IsPost(s[f[p]]) /\ s[f[p]].calm /\ t[p].n = s[f[p]].n
      BY <1>4, <1>8, <2>1 DEF IsPost
    <3>2. (\A j \in f[p] + 1 .. L : ~IsPost(s[j])) /\ (s[f[p]].n = 0 => Pushes = {})
      BY <1>3, <3>1 DEF Counting, CalmPosts, L
    <3>3. ASSUME NEW o \in p + 1 .. L - 1 PROVE ~IsPost(t[o])
      <4>1. o \in 1 .. L - 1 /\ p < o
        BY <1>3
      <4>2. f[o] \in f[p] + 1 .. L
        BY <1>4, <1>7, <4>1
      <4> QED BY <1>8, <3>2, <4>1, <4>2 DEF IsPost
    <3> QED BY <3>1, <3>2, <3>3
  <2> QED BY <1>8, <1>9, <2>1 DEF CalmPosts
<1>12. CalmCounts'
  <2>1. ASSUME NEW p \in 1 .. L - 1, t[p].kind = "count", t[p].stage = "done", t[p].calm
        PROVE  ~Posts /\ Pushes = {} /\ t[p].count = Cardinality(Unread)
    <3>1. f[p] \in DOMAIN s /\ s[f[p]].kind = "count" /\ s[f[p]].stage = "done" /\ s[f[p]].calm /\ t[p].count = s[f[p]].count
      BY <1>3, <1>4, <1>8, <2>1
    <3> QED BY <3>1 DEF Counting, CalmCounts
  <2> QED BY <1>8, <1>9, <1>10, <2>1 DEF CalmCounts
<1>13. \A p \in 1 .. L - 1 : Like(t[p], s[f[p]]) /\ (Spoils(s[f[p]]) => Spoils(t[p]))
  <2>1. ASSUME NEW p \in 1 .. L - 1
        PROVE  Like(t[p], s[f[p]]) /\ (Spoils(s[f[p]]) => Spoils(t[p]))
    BY <1>8, <2>1 DEF Like, Under, IsPost, Spoils
  <2> QED BY <2>1
<1>14. ASSUME Certain', q.kind = "count"
       PROVE  Badge'
  <2>1. q.stage = "done" /\ q.calm
    BY <1>5, <1>6, <1>14 DEF Doubt, Certain
  <2>2. ~Posts /\ Pushes = {} /\ q.count = Cardinality(Unread)
    BY <1>3, <1>14, <2>1 DEF Counting, CalmCounts
  <2>3. bell'.unread = q.count
    BY <1>6, <1>14, <2>1, LandedTyped
  <2>4. \A p \in 1 .. L - 1 : ~IsPost(t[p])
    BY <1>8, <1>10, <2>2 DEF Posts
  <2>5. \A m : ~\E p \in 1 .. L - 1 : Concerns(t[p], m)
    BY <2>4 DEF Concerns, Under
  <2>6. \A m : UnreadIn(t, rows, L, m) <=> IsIn(rows, m) /\ ~rows[m].read
    BY <2>5 DEF UnreadIn, LastSays
  <2>7. ToBeIn(t, rows, L) = Unread
    BY <2>6 DEF ToBeIn, Unread, Exists, IsIn
  <2>8. Shows(t, rows, L, Pushes, bell'.unread)
    <3>1. Unread \ {} = Unread
      OBVIOUS
    <3> QED BY <2>2, <2>3, <2>7, <3>1 DEF Shows
  <2>9. Len(t) + 1 = L
    BY <1>3, <1>8
  <2> QED BY <1>8, <1>9, <2>4, <2>8, <2>9 DEF Badge
<1>15. ASSUME Certain', q.kind = "post", q.stage = "failed"
       PROVE  Badge'
  <2>1. ~unsure /\ q.calm /\ IsPost(q)
    BY <1>6, <1>15 DEF Doubt, Certain, IsPost
  <2>2. Certain
    BY <1>1, <1>9, <1>10, <1>15, <2>1 DEF Certain
  <2>3. Shows(s, rows, i, Pushes, q.unread)
    BY <1>15, <2>1, <2>2 DEF Counting, Badge
  <2>4. bell'.unread = q.unread
    BY <1>6, <1>15, LandedTyped
  <2>5. \A p \in 1 .. i - 1 : p \in 1 .. L - 1 /\ f[p] = p
    BY <1>3, <1>7
  <2>6. Shows(t, rows, i, Pushes, q.unread)
    <3>1. i \in Nat /\ \A p \in 1 .. i - 1 : Like(t[p], s[p]) /\ (Spoils(s[p]) => Spoils(t[p]))
      BY <1>3, <1>13, <2>5
    <3> QED BY <2>3, <3>1, Matched
  <2>7. \A j \in i + 1 .. L : ~IsPost(s[j])
    BY <2>1 DEF Counting, CalmPosts, L
  <2>8. \A p \in i .. L - 1 : ~IsPost(t[p])
    <3>1. \A p \in i .. L - 1 : p \in 1 .. L - 1 /\ ~(p < i) /\ p + 1 \in i + 1 .. L
      BY <1>3
    <3> QED BY <1>7, <1>8, <2>7, <3>1 DEF IsPost
  <2>9. Shows(t, rows, L, Pushes, q.unread)
    <3>1. i \in Nat /\ L \in Nat /\ i <= L
      BY <1>3
    <3>2. \A p \in i .. L - 1 : ~Under(t[p])
      BY <2>8 DEF Under
    <3> QED BY <2>6, <3>1, <3>2, Unasked
  <2>10. \A p \in 1 .. L - 1 : ~(IsPost(t[p]) /\ t[p].calm)
    <3>1. ASSUME NEW p \in 1 .. L - 1, IsPost(t[p]), t[p].calm PROVE FALSE
      <4>1. p < i
        <5>1. p \in i .. L - 1 \/ p < i
          BY <1>3
        <5> QED BY <2>8, <3>1, <5>1
      <4>2. f[p] = p /\ IsPost(s[p]) /\ s[p].calm /\ p \in 1 .. L /\ i \in p + 1 .. L
        BY SMTT(60), <1>3, <1>7, <1>8, <3>1, <4>1 DEF IsPost
      <4>3. ~IsPost(s[i])
        BY <1>3, <4>2 DEF Counting, CalmPosts, L
      <4> QED BY <2>1, <4>3
    <3> QED BY <3>1
  <2>11. Len(t) + 1 = L
    BY <1>3, <1>8
  <2> QED BY <1>8, <1>9, <2>4, <2>9, <2>10, <2>11 DEF Badge
<1>16. ASSUME Certain', q.kind = "page" \/ (q.kind = "post" /\ q.stage = "done")
       PROVE  Badge'
  <2>1. bell'.unread = bell.unread
    BY <1>6, <1>16, LandedTyped
  <2>2. ~unsure /\ ~Spoils(q) /\ ~Under(q)
    BY <1>6, <1>16 DEF Doubt, Certain, Spoils, Under, IsPost
  <2>3. Certain
    BY <1>1, <1>9, <1>10, <1>16, <2>2 DEF Certain
  <2>4. ASSUME NEW k \in 1 .. L, NEW u, Shows(s, rows, f[k], Pushes, u)
        PROVE  Shows(t, rows, k, Pushes, u)
    <3>1. \A p \in 1 .. L - 1 : Like(t[p], s[f[p]]) /\ (Spoils(s[f[p]]) => Spoils(t[p]))
      BY <1>13
    <3> HIDE DEF t, s
    <3> QED BY <1>3, <2>2, <2>4, <3>1, LandedShows DEF f, s
  <2>5. Shows(t, rows, L, Pushes, bell.unread)
    <3>1. f[L] = L + 1 /\ L \in 1 .. L
      BY <1>3 DEF f, After
    <3>2. Shows(s, rows, L + 1, Pushes, bell.unread)
      BY <2>3 DEF Counting, Badge, L
    <3> QED BY <2>4, <3>1, <3>2
  <2>6. ASSUME NEW p \in 1 .. L - 1, IsPost(t[p]), t[p].calm, t[p].stage # "done"
        PROVE  Shows(t, rows, p, Pushes, t[p].unread)
    <3>1. f[p] \in 1 .. L /\ IsPost(s[f[p]]) /\ s[f[p]].calm /\ s[f[p]].stage # "done" /\ t[p].unread = s[f[p]].unread
      BY <1>4, <1>8, <2>6 DEF IsPost
    <3>2. Shows(s, rows, f[p], Pushes, t[p].unread)
      BY <1>3, <2>3, <3>1 DEF Counting, Badge
    <3>3. p \in 1 .. L
      BY <1>3
    <3> QED BY <2>4, <3>2, <3>3
  <2>7. Len(t) + 1 = L
    BY <1>3, <1>8
  <2> QED BY <1>8, <1>9, <2>1, <2>5, <2>6, <2>7 DEF Badge
<1>17. Certain' => Badge'
  <2>1. q.kind \in {"count", "page", "post"}
    BY <1>6 DEF Requests
  <2> QED BY <1>5, <1>14, <1>15, <1>16, <2>1
<1> QED BY <1>11, <1>12, <1>17 DEF Counting, Badge

-----------------------------------------------------------------------------
LEMMA EmptyNext ==
    ASSUME Wires, Empty, [Next]_vars
    PROVE  Empty'
<1> USE DEF Empty
<1>1. ASSUME NEW c \in Streams, wire' = [wire EXCEPT ![c] = <<>>] \/ (source[c] # "new" /\ \E s : wire' = [wire EXCEPT ![c] = s]),
             \A d \in Streams : source'[d] = "new" => source[d] = "new"
      PROVE  Empty'
  BY <1>1 DEF Wires
<1>2. ASSUME wire' = wire, \A d \in Streams : source'[d] = "new" => source[d] = "new"
      PROVE  Empty'
  BY <1>2
<1>3. CASE StreamStep
  <2>1. CASE disconnect
    BY <1>2, <2>1 DEF disconnect
  <2>2. CASE TokenComes
    <3>1. wire' = wire
      BY <2>2 DEF TokenComes, service
    <3>2. \A d \in Streams : source'[d] = "new" => source[d] = "new"
      BY <2>2 DEF TokenComes, NewSource, Wires
    <3> QED BY <1>2, <3>1, <3>2
  <2>3. CASE Subscribe
    BY <1>1, <2>3 DEF Subscribe, client
  <2>4. CASE onopen
    BY <1>2, <2>4 DEF onopen, Wires, service
  <2>5. CASE onerror
    <3>1. PICK c \in Streams : wire' = [wire EXCEPT ![c] = <<>>] /\ source' = [source EXCEPT ![c] = "closed"]
      BY <2>5 DEF onerror
    <3>2. \A d \in Streams : source'[d] = "new" => source[d] = "new"
      BY <3>1 DEF Wires
    <3> QED BY <1>1, <3>1, <3>2
  <2>6. CASE onStreamNotification
    <3>1. PICK c \in Streams : source[c] = "open" /\ wire' = [wire EXCEPT ![c] = Tail(wire[c])] /\ source' = source
      BY <2>6 DEF onStreamNotification
    <3> QED BY <1>1, <3>1
  <2> QED BY <1>3, <2>1, <2>2, <2>3, <2>4, <2>5, <2>6 DEF StreamStep
<1>4. CASE Tell /\ source' = source
  <2>1. PICK l \in Loops : wire' = publish(hand[l])
    BY <1>4 DEF Tell
  <2>2. \A c \in Streams : source[c] = "new" => c \notin subscribed
    BY DEF Wires, Live
  <2> QED BY <1>4, <2>1, <2>2 DEF publish
<1>5. CASE LoopStep /\ ~Tell /\ source' = source
  BY <1>2, <1>5 DEF LoopStep, Publish, Project, ProjectFails, Die, purgeReadNotifications
<1>6. CASE Served
  BY <1>2, <1>6 DEF Served
<1> QED BY <1>2, <1>3, <1>4, <1>5, <1>6, Steps, DigestStands DEF DigestStep, service

LEMMA CountingNext ==
    ASSUME Table, Messages, Wires, Places, Types, Empty, Counting, [Next]_vars
    PROVE  Counting'
<1>1. CASE UNCHANGED vars
  <2>1. Steady /\ Passes
    BY <1>1, PassesWhenStill DEF vars, client, told, service, Steady, Asks, Types
  <2> QED BY <2>1, WhileSteady DEF Passes
<1>2. CASE ServiceRuns /\ rows' = rows
  <2>1. Steady
    BY <1>2 DEF ServiceRuns, Steady, Asks, Types
  <2>2. Passes
    BY <1>2, PassesInService
  <2> QED BY <2>1, <2>2, WhileSteady DEF Passes
<1>3. CASE rows' # rows /\ ~Served
  <2>1. CASE Purged /\ reqs' = Spoilt(reqs) /\ bell' = bell /\ (unsure => unsure')
    BY <2>1, WhenPurged
  <2>2. CASE ~(Purged /\ reqs' = Spoilt(reqs) /\ bell' = bell /\ (unsure => unsure'))
    <3>1. PICK n \in Notices :
             /\ Born(n) /\ reqs' = Spoilt(reqs) /\ UNCHANGED <<subscribed, wire, bell, source, toasts, doubled>>
             /\ \/ hand' = [hand EXCEPT ![LoopOf(n)] = [n |-> n, fresh |-> TRUE]] /\ (unsure => unsure')
                \/ hand' = hand /\ (unsure \/ Unread' # Unread => unsure')
      BY <1>3, <2>2, RowSteps
    <3> QED BY <3>1, WhenBorn
  <2> QED BY <2>1, <2>2
<1>4. CASE connect \/ TokenIsRefused \/ ReconnectTimer \/ openDrawer \/ CloseDrawer \/ setUnreadOnly \/ retryLoad \/ loadMore
  <2>1. Steady /\ bell'.es = bell.es
    BY <1>4, Presses
  <2>2. UNCHANGED <<hand, wire, source, subscribed, doubled>>
    BY <1>4, ClientStands DEF service
  <2> QED BY <2>1, <2>2, PassesWhenStill, WhileSteady DEF Passes
<1>5. CASE disconnect \/ TokenComes \/ Subscribe \/ onopen \/ onerror
  <2>1. Steady /\ Passes
    BY <1>5, Streaming, PassesOnStreams
  <2> QED BY <2>1, WhileSteady DEF Passes
<1> QED BY <1>1, <1>2, <1>3, <1>4, <1>5, WhenCounted, WhenTurned, WhenAllTurned, WhenServed, WhenLost, WhenLanded
        DEF Next, Stream, User

LEMMA TypesInit ==
    ASSUME Init
    PROVE  Types /\ Counting /\ Empty
<1> USE DEF Init, ServiceInit
<1>1. plan.stored \subseteq Notices /\ (plan.stored = {} \/ \E n \in plan.stored : \A m \in plan.stored : m <= n)
  BY PlansAssumption
<1>2. \A n \in Notices : n \in Nat /\ n > 0
  BY ServiceAssumption
<1>3. ASSUME NEW n \in Notices
      PROVE  /\ rows[n].at = (IF n \in plan.stored THEN n ELSE 0)
             /\ rows[n].read \in BOOLEAN /\ rows[n].ms \in Nat
  <2>1. CASE n \in plan.stored
    <3> DEFINE flag == n \in plan.read
    <3>1. rows[n] = [at |-> n, ms |-> n, read |-> flag, gone |-> FALSE] /\ flag \in BOOLEAN
      BY <2>1
    <3> HIDE DEF flag, Init, ServiceInit
    <3>2. rows[n].at = n /\ rows[n].ms = n /\ rows[n].read = flag
      BY <3>1
    <3> QED BY <1>2, <2>1, <3>1, <3>2
  <2>2. CASE n \notin plan.stored
    <3>1. rows[n] = [at |-> 0, ms |-> 0, read |-> FALSE, gone |-> FALSE]
      BY <2>2 DEF NoRow
    <3> HIDE DEF Init, ServiceInit
    <3>2. rows[n].at = 0 /\ rows[n].ms = 0 /\ rows[n].read = FALSE
      BY <3>1
    <3>3. rows[n].at = IF n \in plan.stored THEN n ELSE 0
      BY <2>2, <3>2
    <3>4. rows[n].read \in BOOLEAN
      BY <3>2
    <3>5. rows[n].ms \in Nat
      BY <3>2
    <3> QED BY <3>3, <3>4, <3>5
  <2> QED BY <2>1, <2>2
<1>4. Stored = plan.stored
  BY <1>1, <1>2, <1>3 DEF Stored
<1>5. IsFiniteSet(Stored)
  <2>1. CASE plan.stored = {}
    BY <1>4, <2>1, FS_EmptySet
  <2>2. ASSUME NEW n \in plan.stored, \A m \in plan.stored : m <= n
        PROVE  IsFiniteSet(Stored)
    <3>1. n \in Nat /\ plan.stored \subseteq 1 .. n
      BY <1>1, <1>2, <2>2
    <3>2. IsFiniteSet(1 .. n)
      BY <3>1, FS_Interval
    <3> HIDE DEF Init, ServiceInit
    <3> QED BY <1>4, <3>1, <3>2, FS_Subset
  <2> QED BY <1>1, <2>1, <2>2
<1>6. \A m, n \in Stored : rows[m].at = rows[n].at => m = n
  BY <1>1, <1>3, <1>4
<1>7. bell \in Bells(Stored) /\ reqs = <<>> /\ unsure = FALSE
  BY DEF Bells
<1>8. reqs \in Seq(Requests(Stored)) /\ DOMAIN reqs = {}
  BY <1>7
<1>9. Types
  BY <1>3, <1>5, <1>6, <1>7, <1>8 DEF Types
<1>10. ~Certain
  BY DEF Certain, Up
<1>11. Counting
  BY <1>8, <1>10 DEF Counting, Badge, CalmPosts, CalmCounts
<1>12. Empty
  BY DEF Empty
<1> QED BY <1>9, <1>11, <1>12

Tallying == Telling /\ Types /\ Counting /\ Empty

-----------------------------------------------------------------------------
(* sweepDigests, for any notifications, mails, restarts and read states:   *)
(* what is older than the stamp was counted in a mail that went out, or    *)
(* was read or not there when that mail's rows were counted.               *)
THEOREM NobodyIsPassedOver == Spec => []DigestPassesNobodyOver
<1>1. Telling => DigestPassesNobodyOver
  BY DEF Telling, Stamp, DigestPassesNobodyOver, Unread
<1> QED BY <1>1, TellingAlways, PTL

(* The loop that made a row is the only one to push it, and the tab reads  *)
(* it off one connection: it is toasted once, however often a message is   *)
(* redelivered, the service dies and the stream is opened again.           *)
THEOREM NobodyIsToldTwice == Spec => []ToastOnce
<1>1. Telling => ToastOnce
  BY DEF Telling, Places, AtMostOnce, ToastOnce
<1> QED BY <1>1, TellingAlways, PTL

(* Whatever is projected, pushed, read, answered, rolled back or lost on    *)
(* the way, the badge of a tab at rest is the number of unread rows, when   *)
(* nothing is known to have crossed.                                       *)
THEOREM BadgeIsTrue == Spec => []BadgeAgrees
<1>1. Init => Tallying
  BY TellingInit, TypesInit DEF Tallying
<1>2. Tallying /\ [Next]_vars => Tallying'
  BY TableNext, MessagesNext, WiresNext, PlacesNext, StampNext, TypesNext, CountingNext, EmptyNext DEF Tallying, Telling
<1>3. Tallying => BadgeAgrees
  <2> SUFFICES ASSUME Wires, Types, Counting, Rests, ~unsure, ~doubled
               PROVE  bell.unread = Cardinality(Unread)
    BY DEF Tallying, Telling, BadgeAgrees
  <2>1. Up /\ Pushes = {} /\ reqs = <<>> /\ Len(reqs) + 1 = 1 /\ DOMAIN reqs = {}
    BY Unpushed DEF Rests, Up
  <2>2. Shows(reqs, rows, 1, {}, bell.unread)
    BY <2>1 DEF Counting, Badge, Certain, Counts
  <2>3. 1 .. 1 - 1 = {}
    OBVIOUS
  <2>4. Sound(reqs, rows, 1)
    BY <2>3 DEF Sound
  <2>5. ToBeIn(reqs, rows, 1) \ {} = Unread
    BY <2>3 DEF ToBeIn, UnreadIn, LastSays, IsIn, Unread, Exists
  <2> QED BY <2>2, <2>4, <2>5 DEF Shows
<1> QED BY <1>1, <1>2, <1>3, PTL DEF Spec
=============================================================================
