-------------------------- MODULE NotificationBell ---------------------------
(***************************************************************************)
(* The shell's bell (NotificationsService, NotificationBellComponent) over *)
(* notification-service: one tab, its stream and reconnects, the badge,    *)
(* the drawer's list, and the reads and writes in flight.                  *)
(***************************************************************************)
EXTENDS NotificationService

VARIABLES
  bell,      \* the service's fields and signals, and whether the drawer is open
  source,    \* the EventSources made so far
  reqs,      \* requests to the service, in the order they were sent
  toasts,    \* history: how often each notification was toasted
  unsure,    \* history: an overlap or a loss left the badge in doubt
  doubled    \* history: a second stream was opened beside a live one

client == <<bell, source, reqs>>
told == <<toasts, unsure, doubled>>
vars == <<plan, service, client, told>>

Live(c) == source[c] \in {"asked", "open"}
Held(list) == {list[i].n : i \in DOMAIN list}
IsPost(q) == q.kind = "post"

-----------------------------------------------------------------------------
(* Requests.  calm: neither the rows nor the badge changed under the       *)
(* answer of a count, or under a write, other than by the request itself.  *)

Pushing(n) == \/ \E l \in Loops : hand[l] # None /\ hand[l].n = n
              \/ \E c \in Streams : Live(c) /\ Contains(wire[c], n)
Quiet == \A n \in Notices : ~Pushing(n)
Spoilt(rs) == [i \in DOMAIN rs |-> [rs[i] EXCEPT !.calm = FALSE]]

Blank == [kind |-> "count", stage |-> "sent", calm |-> TRUE, before |-> None, only |-> FALSE, data |-> <<>>,
          count |-> 0, n |-> 0, read |-> TRUE, list |-> <<>>, unread |-> 0]
CountRequest == Blank
PageRequest(b, before) == [Blank EXCEPT !.kind = "page", !.before = before, !.only = b.only]
(* n = 0: read-all.  The closure keeps the signals to roll back to.        *)
PostRequest(n, read) == [Blank EXCEPT !.kind = "post", !.n = n, !.read = read, !.calm = n # 0 \/ Quiet,
                                      !.list = bell.list, !.unread = bell.unread]

fetchPage(b, before) == /\ bell' = [b EXCEPT !.loading = TRUE]
                        /\ reqs' = Append(reqs, PageRequest(b, before))

-----------------------------------------------------------------------------
(* The stream.                                                             *)

(* openStream up to its await: a token is asked for.                       *)
openStream(b) == IF b.on /\ b.es = None THEN [b EXCEPT !.tokens = @ + 1] ELSE b
scheduleReconnect(b) == IF b.on /\ ~b.timer THEN [b EXCEPT !.timer = TRUE] ELSE b

connect ==
    /\ ~bell.on /\ Spend("mount")
    /\ bell' = openStream([bell EXCEPT !.on = TRUE])
    /\ UNCHANGED <<service, source, reqs, told>>

disconnect ==
    /\ bell.on /\ Spend("leave")
    /\ bell' = [bell EXCEPT !.on = FALSE, !.timer = FALSE, !.es = None, !.drawer = FALSE]
    /\ source' = [c \in Streams |-> IF c = bell.es THEN "closed" ELSE source[c]]
    /\ subscribed' = subscribed \ {bell.es}
    /\ UNCHANGED <<queue, hand, rows, wire, mails, reqs, told>>

NewSource == \E c \in Streams :
                /\ source[c] = "new" /\ \A d \in Streams : source[d] = "new" => d >= c
                /\ source' = [source EXCEPT ![c] = "asked"]
                /\ bell' = [bell EXCEPT !.tokens = @ - 1, !.es = c]
                /\ doubled' = (doubled \/ \E d \in Streams : Live(d))

(* openStream after its await.                                             *)
TokenComes ==
    /\ bell.tokens > 0
    /\ IF bell.on THEN NewSource
       ELSE bell' = [bell EXCEPT !.tokens = @ - 1] /\ UNCHANGED <<source, doubled>>
    /\ UNCHANGED <<plan, service, reqs, toasts, unsure>>

(* Mutant: nothing is scheduled when the token was refused.                *)
giveUp == /\ bell.tokens > 0 /\ Spend("lose")
          /\ bell' = [bell EXCEPT !.tokens = @ - 1]
          /\ UNCHANGED <<service, source, reqs, told>>
TokenIsRefused ==
    /\ bell.tokens > 0 /\ Spend("lose")
    /\ bell' = scheduleReconnect([bell EXCEPT !.tokens = @ - 1])
    /\ UNCHANGED <<service, source, reqs, told>>

ReconnectTimer ==
    /\ bell.timer
    /\ bell' = openStream([bell EXCEPT !.timer = FALSE])
    /\ UNCHANGED <<plan, service, source, reqs, told>>

(* The route of the stream subscribes the connection.                      *)
Subscribe ==
    \E c \in Streams :
        /\ source[c] = "asked" /\ c \notin subscribed
        /\ subscribed' = subscribed \cup {c} /\ wire' = [wire EXCEPT ![c] = <<>>]
        /\ UNCHANGED <<plan, queue, hand, rows, mails, client, told>>

(* Mutant: the stream opens and nothing is asked.                          *)
openedOnly == \E c \in Streams : /\ source[c] = "asked" /\ c \in subscribed
                                 /\ source' = [source EXCEPT ![c] = "open"]
                                 /\ UNCHANGED <<plan, service, bell, reqs, told>>
onopen ==
    \E c \in Streams :
        /\ source[c] = "asked" /\ c \in subscribed
        /\ source' = [source EXCEPT ![c] = "open"]
        /\ reqs' = Append(reqs, CountRequest)
        /\ UNCHANGED <<plan, service, bell, told>>

(* The connection fails, or its process has gone; what was on it is lost.  *)
onerror ==
    \E c \in Streams :
        /\ Live(c)
        /\ IF source[c] = "open" /\ c \notin subscribed THEN UNCHANGED plan ELSE Spend("break")
        /\ source' = [source EXCEPT ![c] = "closed"]
        /\ subscribed' = subscribed \ {c}
        /\ wire' = [wire EXCEPT ![c] = <<>>]
        /\ bell' = scheduleReconnect([bell EXCEPT !.es = IF @ = c THEN None ELSE @])
        /\ UNCHANGED <<queue, hand, rows, mails, reqs, told>>

onStreamNotification ==
    \E c \in Streams :
        /\ source[c] = "open" /\ wire[c] # <<>>
        /\ LET n == Head(wire[c])
               known == n \in Held(bell.list)
           IN /\ bell' = IF known THEN bell
                         ELSE [bell EXCEPT !.unread = @ + 1, !.list = <<[n |-> n, read |-> FALSE]>> \o @]
              /\ toasts' = IF known \/ bell.drawer \/ ~bell.on THEN toasts ELSE [toasts EXCEPT ![n] = @ + 1]
              /\ unsure' = (unsure \/ known)
        /\ wire' = [wire EXCEPT ![c] = Tail(@)]
        /\ reqs' = Spoilt(reqs)
        /\ UNCHANGED <<plan, queue, hand, rows, subscribed, mails, source, doubled>>

-----------------------------------------------------------------------------
(* The user.                                                               *)

openDrawer ==
    /\ bell.on /\ ~bell.drawer /\ Spend("press")
    /\ fetchPage([bell EXCEPT !.drawer = TRUE, !.only = bell.unread > 0], None)
    /\ UNCHANGED <<service, source, told>>

CloseDrawer ==
    /\ bell.drawer /\ Spend("press")
    /\ bell' = [bell EXCEPT !.drawer = FALSE]
    /\ UNCHANGED <<service, source, reqs, told>>

setUnreadOnly ==
    /\ bell.drawer /\ Spend("press")
    /\ fetchPage([bell EXCEPT !.only = ~@], None)
    /\ UNCHANGED <<service, source, told>>

retryLoad ==
    /\ bell.drawer /\ bell.error /\ Spend("press")
    /\ fetchPage(bell, None)
    /\ UNCHANGED <<service, source, told>>

loadMore ==
    /\ bell.drawer /\ bell.more /\ ~bell.loading /\ bell.list # <<>> /\ Spend("press")
    /\ fetchPage(bell, rows[Last(bell.list).n].ms)
    /\ UNCHANGED <<service, source, told>>

Shown(list, n, read) == [i \in DOMAIN list |-> IF list[i].n = n THEN [list[i] EXCEPT !.read = read] ELSE list[i]]

Others(list, n) ==
    LET kept == {i \in DOMAIN list : list[i].n # n}
        at == Ordered(kept, {p \in kept \X kept : p[1] <= p[2]})
    IN [k \in DOMAIN at |-> list[at[k]]]

(* Optimistic: applied now, rolled back if the service refuses.            *)
SetReadState ==
    \E i \in DOMAIN bell.list :
        /\ bell.drawer /\ Spend("press")
        /\ LET n == bell.list[i].n
               read == ~bell.list[i].read
           IN /\ bell' = [bell EXCEPT !.list = IF read /\ bell.only THEN Others(@, n)
                                               ELSE Shown(@, n, read),
                                      !.unread = IF read THEN (IF @ = 0 THEN 0 ELSE @ - 1) ELSE @ + 1]
              /\ reqs' = Append(Spoilt(reqs), PostRequest(n, read))
              /\ unsure' = (unsure \/ Pushing(n))
        /\ UNCHANGED <<service, source, toasts, doubled>>

MarkAllRead ==
    /\ bell.drawer /\ bell.unread > 0 /\ Spend("press")
    /\ bell' = [bell EXCEPT !.list = IF bell.only THEN <<>> ELSE [i \in DOMAIN @ |-> [@[i] EXCEPT !.read = TRUE]],
                            !.unread = 0]
    /\ reqs' = Append(Spoilt(reqs), PostRequest(0, TRUE))
    /\ UNCHANGED <<service, source, told>>

-----------------------------------------------------------------------------
(* The answers.                                                            *)

Refused(q) == q.n # 0 /\ ~Exists(q.n)
Answer(q) == CASE q.kind = "count" -> [q EXCEPT !.stage = "done", !.count = Cardinality(Unread),
                                                !.calm = Quiet /\ ~\E i \in DOMAIN reqs : IsPost(reqs[i])]
               [] q.kind = "page" -> [q EXCEPT !.stage = "done",
                                               !.data = LET found == listNotifications(q.only, q.before)
                                                        IN [i \in DOMAIN found |-> [n |-> found[i], read |-> rows[found[i]].read]]]
               [] q.kind = "post" -> [q EXCEPT !.stage = IF Refused(q) THEN "failed" ELSE "done"]
Effect(q) == IF ~IsPost(q) \/ Refused(q) THEN rows
             ELSE IF q.n = 0 THEN markAllRead ELSE setReadState(q.n, q.read)
(* A stale card was pressed: the row is already what it should become.    *)
Idle(q) == q.n # 0 /\ ~Refused(q) /\ rows[q.n].read = q.read
Overtakes(i) == \E j \in 1 .. i - 1 : IsPost(reqs[j]) /\ reqs[j].stage = "sent"

Served ==
    \E i \in DOMAIN reqs :
        LET q == reqs[i]
        IN /\ q.stage = "sent"
           /\ rows' = Effect(q)
           /\ reqs' = [j \in DOMAIN reqs |->
                         IF j = i THEN Answer(q)
                         ELSE [reqs[j] EXCEPT !.calm = @ /\ (IsPost(q) => IsPost(reqs[j]))]]
           /\ unsure' = (unsure \/ (IsPost(q) /\ (Overtakes(i) \/ Idle(q))))
           /\ UNCHANGED <<plan, queue, hand, subscribed, wire, mails, bell, source, toasts, doubled>>

(* The request or its answer is lost.                                      *)
RequestIsLost ==
    \E i \in DOMAIN reqs :
        /\ reqs[i].stage \in {"sent", "done"} /\ Spend("lose")
        /\ reqs' = [reqs EXCEPT ![i].stage = "failed", ![i].calm = @ /\ reqs[i].stage = "sent"]
        /\ UNCHANGED <<service, bell, source, told>>

(* refreshUnreadCount, fetchPage and the two writes after their awaits.    *)
Landed(q) ==
    CASE q.kind = "count" -> IF q.stage = "failed" THEN bell ELSE [bell EXCEPT !.unread = q.count]
      [] q.kind = "page" ->
           IF q.stage = "failed"
           THEN [bell EXCEPT !.list = IF q.before = None THEN <<>> ELSE @, !.error = TRUE, !.loading = FALSE]
           ELSE [bell EXCEPT !.list = IF q.before = None THEN q.data ELSE @ \o q.data,
                             !.more = Len(q.data) = PageSize, !.error = FALSE, !.loading = FALSE]
      [] q.kind = "post" ->
           IF q.stage = "failed" THEN [bell EXCEPT !.list = q.list, !.unread = q.unread, !.error = TRUE] ELSE bell

(* What is known of the badge once q has landed.                           *)
Doubt(q) ==
    CASE q.kind = "count" -> q.stage = "failed" \/ ~q.calm
      [] q.kind = "page" -> unsure
      [] q.kind = "post" -> unsure \/ (~q.calm /\ (q.stage = "failed" \/ q.n = 0))

Lands ==
    \E i \in DOMAIN reqs :
        LET q == reqs[i]
            others == SubSeq(reqs, 1, i - 1) \o SubSeq(reqs, i + 1, Len(reqs))
        IN /\ q.stage \in {"done", "failed"}
           /\ bell' = Landed(q)
           /\ unsure' = Doubt(q)
           /\ reqs' = IF q.kind = "page" \/ Landed(q).unread = bell.unread THEN others ELSE Spoilt(others)
           /\ UNCHANGED <<plan, service, source, toasts, doubled>>

-----------------------------------------------------------------------------
(* A row that came under an insert that failed is never pushed.            *)
ServiceRuns ==
    /\ ServiceStep
    /\ reqs' = IF rows' = rows THEN reqs ELSE Spoilt(reqs)
    /\ unsure' = (unsure \/ (rows' # rows /\ hand' = hand /\ Unread' # Unread))
    /\ UNCHANGED <<bell, source, toasts, doubled>>

Init ==
    /\ ServiceInit
    /\ bell = [on |-> FALSE, es |-> None, timer |-> FALSE, tokens |-> 0, drawer |-> FALSE, only |-> FALSE,
               unread |-> 0, list |-> <<>>, more |-> FALSE, loading |-> FALSE, error |-> FALSE]
    /\ source = [c \in Streams |-> "new"] /\ reqs = <<>>
    /\ toasts = [n \in Notices |-> 0] /\ unsure = FALSE /\ doubled = FALSE

Stream == TokenComes \/ TokenIsRefused \/ ReconnectTimer \/ Subscribe \/ onopen \/ onerror \/ onStreamNotification
User == \/ connect \/ disconnect \/ openDrawer \/ CloseDrawer \/ setUnreadOnly \/ retryLoad \/ loadMore
        \/ SetReadState \/ MarkAllRead

Next == ServiceRuns \/ Stream \/ User \/ Served \/ RequestIsLost \/ Lands

Spec == Init /\ [][Next]_vars
(* A browser runs its timers, settles its requests and reports a broken    *)
(* connection; the service takes connections.                              *)
FairSpec == /\ Spec /\ WF_vars(TokenComes \/ TokenIsRefused) /\ WF_vars(ReconnectTimer)
            /\ WF_vars(Subscribe) /\ WF_vars(onopen) /\ WF_vars(onerror)

-----------------------------------------------------------------------------
TypeOK ==
    /\ plan.left \in [{"publish", "burst", "database", "ack", "die", "smtp", "day", "purge",
                       "mount", "leave", "lose", "break", "press"} -> Nat]
    /\ queue \in [Notices -> [fate : {"unborn", "waiting", "held", "done", "lost"}, tries : 0 .. MaxDeliver]]
    /\ \A l \in Loops : hand[l] = None \/ hand[l] \in [n : Notices, fresh : BOOLEAN]
    /\ rows \in [Notices -> [at : Nat, ms : Nat, read : BOOLEAN, gone : BOOLEAN]]
    /\ subscribed \subseteq Streams /\ wire \in [Streams -> Seq(Notices)]
    /\ digest \in [step : {"idle", "candidate", "rendered", "sent"}, counted : SUBSET Notices, last : Nat, due : BOOLEAN]
    /\ mailed \cup exempt \subseteq Notices
    /\ source \in [Streams -> {"new", "asked", "open", "closed"}]
    /\ bell.es \in Streams \cup {None} /\ {bell.on, bell.timer, bell.drawer, bell.only, bell.more, bell.loading, bell.error} \subseteq BOOLEAN
    /\ {bell.tokens, bell.unread} \subseteq Nat /\ bell.list \in Seq([n : Notices, read : BOOLEAN])
    /\ reqs \in Seq([kind : {"count", "page", "post"}, stage : {"sent", "done", "failed"}, calm : BOOLEAN, only : BOOLEAN,
                     read : BOOLEAN, before : Nat \cup {None}, data : Seq([n : Notices, read : BOOLEAN]), count : Nat,
                     n : {0} \cup Notices, list : Seq([n : Notices, read : BOOLEAN]), unread : Nat])
    /\ toasts \in [Notices -> Nat] /\ {unsure, doubled} \subseteq BOOLEAN

(* Nobody is told twice (insertNotification's conflict, onStreamNotification's*)
(* check of the list): however often a message is delivered and the stream *)
(* reconnects, one tab toasts a notification at most once, unless it has   *)
(* opened a second stream beside a live one.                               *)
ToastOnce == ~doubled => \A n \in Notices : toasts[n] <= 1

Rests == /\ Quiet /\ reqs = <<>> /\ \E c \in Streams : bell.es = c /\ source[c] = "open" /\ c \in subscribed

(* The badge counts what is unread: with the stream open and everything    *)
(* read, answered and told, the number shown is the number of unread rows; *)
(* whatever was projected while the stream was down, however writes failed *)
(* and were rolled back, unless requests and pushes crossed on the way or  *)
(* the count itself was lost.                                              *)
BadgeAgrees == Rests /\ ~unsure /\ ~doubled => bell.unread = Cardinality(Unread)


(* A bell that stays gets its stream back after refused tokens, broken     *)
(* connections and a service that died.                                    *)
StreamComesBack == <>[](bell.on) => []<>(\E c \in Streams : source[c] = "open" /\ c \in subscribed)
=============================================================================
