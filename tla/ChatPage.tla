------------------------------- MODULE ChatPage -------------------------------
(***************************************************************************)
(* The chat page of chatbot-frontend (chat-page.component.ts) against      *)
(* chatbot-service: the thread on screen, the page address, the one reply  *)
(* that may be streaming, and behind them the messages in Postgres, the    *)
(* jobs in Redis and the worker.                                           *)
(*                                                                         *)
(* Everything is numbered by turn: turn n is one POST /messages or one     *)
(* retry-last, the job it starts, the user message it stores (a retry has  *)
(* none) and the reply the worker writes.                                  *)
(***************************************************************************)
EXTENDS Naturals, Sequences, FiniteSets, SequencesExt

CONSTANTS
  Convs,      \* conversation ids
  Turns,      \* how many turns may begin: 1 .. Turns
  PageSize,   \* rows of one history page
  Plans,      \* the bounded instances to look at: see PlanType
  None

(* How often the user does what, and what fails; `history` is what exists   *)
(* when the page opens at `url`, `queued` whether its last turn is waiting  *)
(* for the worker.                                                          *)
Acts == {"send", "retry", "select", "new", "browse", "older", "delete", "lose", "crash", "redis", "provider"}
Row == [role : {"user", "reply"}, n : 1 .. Turns, failed : BOOLEAN]
PlanType == [left : [Acts -> Nat], history : [Convs -> Seq(Row)], queued : BOOLEAN, url : Convs \cup {None}]

ASSUME ConstantsAssumption == /\ Turns \in Nat \ {0} /\ PageSize \in Nat \ {0}
                              /\ None \notin Convs /\ Plans \subseteq PlanType

(* A turn belongs to one conversation; the last turn of the conversation    *)
(* that the page opens at may be waiting.                                  *)
ASSUME HistoryAssumption == \A p \in Plans :
  /\ \A c, d \in Convs : \A i \in DOMAIN p.history[c], j \in DOMAIN p.history[d] :
        p.history[c][i].n = p.history[d][j].n => c = d
  /\ p.queued => p.url \in Convs /\ p.history[p.url] # <<>>

VARIABLES
  plan,     \* what is left of the instance's bounds
  page,     \* the component's signals and the browser's address
  loads,    \* requests for a page of history
  asks,     \* requests for the running job
  outs,     \* what cancelOutbound$ stops: posts awaited, streams read
  posts,    \* POSTs in the server
  thread,   \* messages per conversation
  alive,    \* conversations that exist
  jobs,     \* job meta and stream in Redis, per turn
  pointer,  \* chatbot:conv_active_job
  queue,    \* chatbot:jobs
  worker,
  lost      \* turns this visit of the thread gave up or missed: see below

vars == <<plan, page, loads, asks, outs, posts, thread, alive, jobs, pointer, queue, worker, lost>>
server == <<posts, thread, alive, jobs, pointer, queue, worker>>
client == <<page, loads, asks, outs>>

-----------------------------------------------------------------------------
(* The screen.  A bubble stands for the message of a turn (n = 0: a notice *)
(* of its own); row: it carries the server's id; text: 0 nothing yet,      *)
(* 1 a part, 2 all; retry: it may offer "Try again".                       *)

Bubble(role, n, row, text, retry) == [role |-> role, n |-> n, row |-> row, text |-> text, retry |-> retry]
Notice == Bubble("error", 0, FALSE, 2, FALSE)
IsPlaceholder(b, n) == b.n = n /\ ~b.row /\ b.role # "user"
SameMessage(b, role, n) == b.row /\ b.n = n /\ (b.role = "user") = (role = "user")

mapHistoryMessagesToBubbles(rows) ==
    [i \in DOMAIN rows |->
       LET r == rows[i]
       IN Bubble(IF r.role = "user" THEN "user" ELSE IF r.failed THEN "error" ELSE "assistant",
                 r.n, TRUE, 2, r.failed)]

(* filter: what stands at the places `at`.                                 *)
Kept(s, at) ==
    LET F[i \in 0 .. Len(s)] == IF i = 0 THEN <<>> ELSE IF i \in at THEN Append(F[i - 1], s[i]) ELSE F[i - 1]
    IN F[Len(s)]
Without(s, b) == Kept(s, {i \in DOMAIN s : s[i] # b})

visibleBubbles(bubbles) == Kept(bubbles, {i \in DOMAIN bubbles : bubbles[i].role # "assistant" \/ bubbles[i].text # 0})

retryBubble(p) ==
    LET shown == visibleBubbles(p.bubbles)
    IN IF ~p.busy /\ shown # <<>> /\ Last(shown).role = "error" /\ Last(shown).retry
       THEN {Last(shown)} ELSE {}

Spend(act) == plan.left[act] > 0 /\ plan' = [plan EXCEPT !.left[act] = @ - 1]

GivenUp(turns) == lost' = lost \cup (turns \ {0})

(* Handlers work on the client: u = [p, loads, asks, outs].                *)
Client == [p |-> page, loads |-> loads, asks |-> asks, outs |-> outs]
Becomes(u) == page' = u.p /\ loads' = u.loads /\ asks' = u.asks /\ outs' = u.outs

(* cancelOutbound$ and chunkBatcher.cancelPending: the subscriptions end,  *)
(* their finalize clears busy; loads go on but belong to an older thread.  *)
Cancel(u) ==
    [u EXCEPT !.outs = <<>>, !.asks = <<>>,
              !.p.busy = @ /\ u.outs = <<>>, !.p.batch = 0,
              !.loads = [i \in DOMAIN @ |-> [@[i] EXCEPT !.stale = TRUE]]]

syncConversationParam(u, id) == IF u.p.url = id THEN u ELSE [u EXCEPT !.p.nav = <<id>>]

Blank(u, id) ==
    [u EXCEPT !.p.bubbles = <<>>, !.p.conv = id, !.p.more = FALSE, !.p.oldest = <<>>,
              !.p.olderLoading = FALSE, !.p.loading = id # None, !.p.error = FALSE]

clearThread(u) == syncConversationParam(Blank(Cancel(u), None), None)

newChat(u) == [clearThread(u) EXCEPT !.p.busy = FALSE]

Request(id, older, before) ==
    [conv |-> id, older |-> older, before |-> before, stale |-> FALSE, reply |-> <<>>]

selectConversation(u, id) ==
    IF u.p.conv = id THEN u
    ELSE LET v == syncConversationParam(Blank(Cancel(u), id), id)
         IN [v EXCEPT !.loads = Append(@, Request(id, FALSE, <<>>))]

(* The page opens at its address (ngOnInit).                               *)
Fresh(url) == [conv |-> None, url |-> url, nav |-> <<>>, bubbles |-> <<>>, busy |-> FALSE, batch |-> 0,
               loading |-> FALSE, error |-> FALSE, more |-> FALSE, oldest |-> <<>>, olderLoading |-> FALSE]
Opened(url) ==
    LET u == [p |-> Fresh(url), loads |-> <<>>, asks |-> <<>>, outs |-> <<>>]
    IN IF url = None THEN u ELSE selectConversation(u, url)

NoJob == [conv |-> None, user |-> 0, status |-> "none", stream |-> <<>>]
TurnsOf(rows) == {rows[i].n : i \in DOMAIN rows}
Begun(p) == UNION {TurnsOf(p.history[c]) : c \in Convs}
Waiting(p) == IF p.queued THEN {Last(p.history[p.url]).n} ELSE {}

Init ==
    /\ plan \in Plans
    /\ LET u == Opened(plan.url) IN page = u.p /\ loads = u.loads /\ asks = u.asks /\ outs = u.outs
    /\ posts = {}
    /\ thread = plan.history
    /\ alive = {c \in Convs : plan.history[c] # <<>>}
    /\ jobs = [n \in 1 .. Turns |->
                 IF n \notin Begun(plan) THEN NoJob
                 ELSE [conv |-> CHOOSE c \in Convs : n \in TurnsOf(plan.history[c]), user |-> n,
                       status |-> IF n \in Waiting(plan) THEN "pending" ELSE "done", stream |-> <<>>]]
    /\ pointer = [c \in Convs |-> IF plan.queued /\ c = plan.url THEN Last(plan.history[c]).n ELSE 0]
    /\ queue = IF plan.queued THEN <<Last(plan.history[plan.url]).n>> ELSE <<>>
    /\ worker = [n |-> 0, step |-> "idle", failed |-> FALSE, row |-> FALSE]
    /\ lost = {}

-----------------------------------------------------------------------------
(* The address.                                                            *)

NavEnds ==
    /\ page.nav # <<>>
    /\ LET id == Head(page.nav)
           u == [Client EXCEPT !.p.url = id, !.p.nav = <<>>]
       IN Becomes(IF id = page.conv THEN u
                  ELSE IF id # None THEN selectConversation(u, id) ELSE clearThread(u))
    /\ UNCHANGED <<plan, server, lost>>

(* Back, forward, a bookmark.                                              *)
Browse ==
    \E id \in alive \cup {None} :
        /\ id # page.url /\ Spend("browse")
        /\ page' = [page EXCEPT !.nav = <<id>>]
        /\ UNCHANGED <<loads, asks, outs, server, lost>>

Select ==
    \E id \in alive \ {page.conv} :
        /\ ~page.loading /\ Spend("select")
        /\ Becomes(selectConversation(Client, id))
        /\ UNCHANGED <<server, lost>>

NewChat ==
    /\ Spend("new")
    /\ Becomes(newChat(Client))
    /\ UNCHANGED <<server, lost>>

-----------------------------------------------------------------------------
(* History.                                                                *)

(* list_messages: the newest rows, or those older than an anchor that must *)
(* still exist.                                                            *)
AnchorAt(rows, before) == {i \in DOMAIN rows : rows[i].n = before.n /\ (rows[i].role = "user") = (before.role = "user")}
HistoryPage(rows, upTo) ==
    LET from == IF upTo > PageSize THEN upTo - PageSize + 1 ELSE 1
    IN [rows |-> SubSeq(rows, from, upTo), more |-> upTo > PageSize]
Found(req) ==
    LET rows == thread[req.conv]
        anchors == AnchorAt(rows, Head(req.before))
    IN IF req.conv \notin alive THEN {}
       ELSE IF req.before = <<>> THEN {HistoryPage(rows, Len(rows))}
       ELSE {HistoryPage(rows, i - 1) : i \in anchors}

(* A visit begins with what its first page was read from.  It cannot owe    *)
(* what a POST of an earlier visit does later, nor the reply of a job that *)
(* is not the conversation's last.                                         *)
InFlight(c) == {x \in posts : x.conv = c /\ x.kind # "delete" /\ x.stage \notin {"queued", "refused", "failed"}}
Unfinished(c) == {n \in 1 .. Turns : jobs[n].conv = c /\ [role |-> "reply", n |-> n, failed |-> FALSE] \notin Range(thread[c])
                                       /\ [role |-> "reply", n |-> n, failed |-> TRUE] \notin Range(thread[c])}
Missed(c) ==
    {x.n : x \in InFlight(c)} \cup (Unfinished(c) \ {pointer[c]})
    \cup {Last(thread[c]).n : x \in {y \in InFlight(c) : y.kind = "retry" /\ thread[c] # <<>>}}

LoadReads ==
    \E i \in DOMAIN loads :
        LET req == loads[i]
        IN /\ req.reply = <<>>
           /\ loads' = [loads EXCEPT ![i].reply = <<Found(req)>>]
           /\ lost' = IF req.stale \/ req.older THEN lost
                      ELSE {n \in lost : jobs[n].conv # req.conv} \cup Missed(req.conv)
           /\ UNCHANGED <<plan, page, asks, outs, server>>

LoadIsLost ==
    \E i \in DOMAIN loads :
        /\ loads[i].reply # <<{}>> /\ Spend("lose")
        /\ loads' = [loads EXCEPT ![i].reply = <<{}>>]
        /\ UNCHANGED <<page, asks, outs, server, lost>>

(* The rows the page has loaded or should have heard of since.             *)
FromOldest(c) ==
    LET rows == thread[c]
        at == IF page.oldest = <<>> THEN {1} ELSE AnchorAt(rows, Head(page.oldest))
    IN IF at = {} THEN <<>> ELSE SubSeq(rows, CHOOSE i \in at : TRUE, Len(rows))

IdOf(b) == [role |-> IF b.role = "user" THEN "user" ELSE "reply", n |-> b.n]

(* The answer of selectConversation's request, then the question for a     *)
(* running job (reattachActiveJob); without an answer, an error.           *)
Landed(u, req, answer) ==
    IF req.stale THEN u
    ELSE IF answer = {} THEN [u EXCEPT !.p.error = TRUE, !.p.bubbles = <<>>, !.p.loading = FALSE, !.p.more = FALSE,
                                       !.p.oldest = <<>>, !.asks = Append(@, [conv |-> req.conv, reply |-> <<>>])]
    ELSE LET got == CHOOSE g \in answer : TRUE
             bubbles == mapHistoryMessagesToBubbles(got.rows)
         IN [u EXCEPT !.p.bubbles = bubbles, !.p.loading = FALSE, !.p.more = got.more,
                      !.p.oldest = IF bubbles = <<>> THEN <<>> ELSE <<IdOf(Head(bubbles))>>,
                      !.asks = Append(@, [conv |-> req.conv, reply |-> <<>>])]

LandedOlder(u, req, answer) ==
    IF req.stale THEN u
    ELSE IF answer = {} THEN [u EXCEPT !.p.olderLoading = FALSE]
    ELSE LET got == CHOOSE g \in answer : TRUE
             older == mapHistoryMessagesToBubbles(got.rows)
         IN [u EXCEPT !.p.olderLoading = FALSE, !.p.more = got.more,
                      !.p.bubbles = older \o @,
                      !.p.oldest = IF older = <<>> THEN @ ELSE <<IdOf(Head(older))>>]

(* A plausible slip: nobody compares threadLoadSeq.                        *)
LandRegardless(i) ==
    LET req == [loads[i] EXCEPT !.stale = FALSE]
        u == [Client EXCEPT !.loads = RemoveAt(@, i)]
    IN IF req.older THEN LandedOlder(u, req, Head(req.reply)) ELSE Landed(u, req, Head(req.reply))

Land(i) ==
    LET req == loads[i]
        u == [Client EXCEPT !.loads = RemoveAt(@, i)]
    IN IF req.older THEN LandedOlder(u, req, Head(req.reply)) ELSE Landed(u, req, Head(req.reply))

LoadLands ==
    \E i \in DOMAIN loads :
        /\ loads[i].reply # <<>>
        /\ Becomes(Land(i))
        /\ UNCHANGED <<plan, server, lost>>

tryLoadOlderMessages ==
    /\ page.conv # None /\ page.oldest # <<>> /\ page.more
    /\ ~page.olderLoading /\ ~page.loading /\ ~page.error
    /\ Spend("older")
    /\ page' = [page EXCEPT !.olderLoading = TRUE]
    /\ loads' = Append(loads, Request(page.conv, TRUE, page.oldest))
    /\ UNCHANGED <<asks, outs, server, lost>>

-----------------------------------------------------------------------------
(* One reply at a time: what a send, a retry or a re-attached job listens   *)
(* to.  `user` is the failed bubble a retry took off, `at` where it was.   *)

Out(kind, n, stage, off, at) == [kind |-> kind, n |-> n, stage |-> stage, pos |-> 0, off |-> off, at |-> at]
Append1(u, b) == [u EXCEPT !.p.bubbles = Append(@, b)]
Placeholder(n) == Bubble("assistant", n, FALSE, 0, FALSE)
Finished(u, o) == [u EXCEPT !.outs = Without(@, o), !.p.busy = FALSE]

(* Turns a visit will only hear of by attaching to them.                   *)
Unheard(c) ==
    {n \in Unfinished(c) \cup {r.n : r \in {x \in Range(FromOldest(c)) : x.role = "reply"}} :
        /\ \A b \in Range(page.bubbles) : IdOf(b) # [role |-> "reply", n |-> n]
        /\ \A o \in Range(outs) : o.n # n}

AskReads ==
    \E i \in DOMAIN asks :
        LET c == asks[i].conv
            n == pointer[c]
            running == c \in alive /\ n # 0 /\ jobs[n].status \in {"pending", "processing"}
        IN /\ asks[i].reply = <<>>
           /\ asks' = [asks EXCEPT ![i].reply = <<IF running THEN n ELSE 0>>]
           /\ GivenUp(Unheard(c) \ (IF running THEN {n} ELSE {}))
           /\ UNCHANGED <<plan, page, loads, outs, server>>

(* "A thread with no running job is the normal case": no error either.     *)
AskIsLost ==
    \E i \in DOMAIN asks :
        /\ asks[i].reply # <<0>> /\ Spend("lose")
        /\ asks' = [asks EXCEPT ![i].reply = <<0>>]
        /\ GivenUp(Unheard(asks[i].conv))
        /\ UNCHANGED <<page, loads, outs, server>>

Attached(u, n) ==
    [Append1(u, Placeholder(n)) EXCEPT !.p.busy = TRUE, !.outs = Append(@, Out("attach", n, "stream", Notice, 0))]


reattachActiveJob(u, n) == IF n = 0 \/ u.p.busy THEN u ELSE Attached(u, n)

AskLands ==
    \E i \in DOMAIN asks :
        /\ asks[i].reply # <<>>
        /\ Becomes(reattachActiveJob([Client EXCEPT !.asks = RemoveAt(@, i)], Head(asks[i].reply)))
        \* An answer so slow that the job has ended, and may have been retried.
        /\ GivenUp({Head(asks[i].reply)} \ {n \in 1 .. Turns : jobs[n].status \in {"pending", "processing"}})
        /\ UNCHANGED <<plan, server>>

Unused == {n \in 1 .. Turns : jobs[n].conv = None /\ n \notin {x.n : x \in posts}
                               /\ n \notin {b.n : b \in Range(page.bubbles)}}
NextTurn == CHOOSE n \in Unused : \A m \in Unused : n <= m

send ==
    /\ ~page.busy /\ ~page.loading /\ Unused # {} /\ Spend("send")
    /\ LET n == NextTurn
           u == Append1(Client, Bubble("user", n, FALSE, 2, FALSE))
       IN /\ Becomes([u EXCEPT !.p.busy = TRUE, !.outs = Append(@, Out("send", n, "post", Notice, 0))])
          /\ posts' = posts \cup {[n |-> n, kind |-> "send", conv |-> page.conv, stage |-> "sent", reads |-> 0]}
    \* Sent before the page could ask: a running job is not attached to.
    /\ GivenUp(IF asks = <<>> THEN {} ELSE Unheard(page.conv))
    /\ UNCHANGED <<thread, alive, jobs, pointer, queue, worker>>

retryLast ==
    \E b \in retryBubble(page) :
        /\ page.conv # None /\ Unused # {} /\ Spend("retry")
        /\ LET n == NextTurn
               at == CHOOSE i \in DOMAIN page.bubbles : page.bubbles[i] = b
               u == [Client EXCEPT !.p.bubbles = Without(@, b), !.p.busy = TRUE]
           IN /\ Becomes([u EXCEPT !.outs = Append(@, Out("retry", n, "post", b, at))])
              /\ posts' = posts \cup {[n |-> n, kind |-> "retry", conv |-> page.conv, stage |-> "sent", reads |-> 0]}
        /\ UNCHANGED <<thread, alive, jobs, pointer, queue, worker, lost>>

(* restoreRetryableBubble.                                                 *)
Restored(u, o) ==
    LET list == u.p.bubbles
        at == IF o.at > Len(list) + 1 THEN Len(list) + 1 ELSE o.at
    IN IF \E b \in Range(list) : b.row = o.off.row /\ IdOf(b) = IdOf(o.off) THEN u
       ELSE [u EXCEPT !.p.bubbles = InsertAt(@, at, o.off)]

PostFails(u, o) == Finished(IF o.kind = "send" THEN Append1(u, Notice) ELSE Restored(u, o), o)

(* The job is there: its conversation is the page's, its stream is opened. *)
PostAnswers(u, o, c) ==
    LET v == IF o.kind = "send" THEN syncConversationParam([u EXCEPT !.p.conv = c], c) ELSE u
        w == Append1(v, Placeholder(o.n))
    IN [w EXCEPT !.outs = Append(Without(@, o), [o EXCEPT !.stage = "stream"])]

(* A POST's answer reaches the page, unless the page let go of it.         *)
AnswerLands ==
    \E x \in posts :
        /\ x.stage \in {"queued", "refused", "failed"}
        /\ posts' = posts \ {x}
        /\ LET mine == {o \in Range(outs) : o.n = x.n /\ o.stage = "post"}
           IN Becomes(IF mine = {} THEN Client
                      ELSE LET o == CHOOSE y \in mine : TRUE
                           IN IF x.stage = "queued" THEN PostAnswers(Client, o, x.conv) ELSE PostFails(Client, o))
        /\ GivenUp(IF x.stage = "queued" THEN {} ELSE {x.n, x.reads})
        /\ UNCHANGED <<plan, thread, alive, jobs, pointer, queue, worker>>

AnswerIsLost ==
    \E o \in Range(outs) :
        /\ o.stage = "post" /\ Spend("lose")
        /\ Becomes(PostFails(Client, o))
        /\ GivenUp({o.n, o.off.n})
        /\ UNCHANGED server

-----------------------------------------------------------------------------
(* The stream.                                                             *)

ById(bubbles, n) == {i \in DOMAIN bubbles : IsPlaceholder(bubbles[i], n)}

applyBatchedChunks(p) ==
    [p EXCEPT !.batch = 0,
              !.bubbles = [i \in DOMAIN @ |-> IF p.batch # 0 /\ IsPlaceholder(@[i], p.batch) /\ @[i].role = "assistant"
                                               THEN [@[i] EXCEPT !.text = 1] ELSE @[i]]]

(* A plausible slip: the placeholder always becomes the answer.            *)
DoneAgain(p, n) ==
    LET q == applyBatchedChunks(p)
        at == {i \in ById(q.bubbles, n) : q.bubbles[i].role = "assistant"}
    IN IF at = {} THEN q
       ELSE [q EXCEPT !.bubbles = [@ EXCEPT ![CHOOSE j \in at : TRUE] = Bubble("assistant", n, TRUE, 2, FALSE)]]

(* An answer that loaded history has already keeps its row.                *)
Done(p, n) ==
    LET q == applyBatchedChunks(p)
        at == {i \in ById(q.bubbles, n) : q.bubbles[i].role = "assistant"}
        known == \E b \in Range(q.bubbles) : SameMessage(b, "reply", n)
    IN IF at = {} THEN q
       ELSE LET i == CHOOSE j \in at : TRUE
            IN [q EXCEPT !.bubbles = IF known THEN RemoveAt(@, i) ELSE [@ EXCEPT ![i] = Bubble("assistant", n, TRUE, 2, FALSE)]]

Broken(p, n, row) ==
    LET at == ById(p.bubbles, n)
        error == Bubble("error", n, row, 2, TRUE)
    IN [p EXCEPT !.batch = 0,
                 !.bubbles = IF at = {} THEN Append(@, error) ELSE [@ EXCEPT ![CHOOSE j \in at : TRUE] = error]]

applyStreamEvent(p, n, e) ==
    CASE e = "claimed" -> p
      [] e = "chunk" -> [p EXCEPT !.batch = n]
      [] e = "done" -> Done(p, n)
      [] e = "error" -> Broken(p, n, TRUE)
      [] e = "unwritten" -> Broken(p, n, FALSE)

StreamTells ==
    \E o \in Range(outs) :
        /\ o.stage = "stream" /\ o.pos < Len(jobs[o.n].stream)
        /\ LET e == jobs[o.n].stream[o.pos + 1]
               u == [Client EXCEPT !.p = applyStreamEvent(@, o.n, e)]
           IN /\ Becomes(IF e \in {"done", "error", "unwritten"} THEN Finished(u, o)
                         ELSE [u EXCEPT !.outs = [i \in DOMAIN @ |-> IF @[i] = o THEN [o EXCEPT !.pos = @ + 1] ELSE @[i]]])
              \* An error, unlike an answer, does not look for its row.
              /\ GivenUp(IF e = "error" /\ \E b \in Range(page.bubbles) : SameMessage(b, "reply", o.n) THEN {o.n} ELSE {})
        /\ UNCHANGED <<plan, server>>

FramePaints ==
    /\ page.batch # 0
    /\ page' = applyBatchedChunks(page)
    /\ UNCHANGED <<plan, loads, asks, outs, server, lost>>

(* The connection breaks, or nothing was said for too long.                *)
Cut(o) ==
    LET u == IF o.kind # "attach" THEN Append1(Client, Notice)
             ELSE LET q == applyBatchedChunks(page)
                  IN [Client EXCEPT !.p = [q EXCEPT !.bubbles = Kept(@, {i \in DOMAIN @ : ~(IsPlaceholder(@[i], o.n) /\ @[i].text = 0)})]]
    IN Becomes(Finished(u, o)) /\ GivenUp({o.n}) /\ UNCHANGED server

StreamBreaks == \E o \in Range(outs) : o.stage = "stream" /\ Spend("lose") /\ Cut(o)

(* A plausible slip: the watchdog waits for the first event only.          *)
StreamNeverStarts ==
    /\ UNCHANGED plan
    /\ \E o \in Range(outs) : o.stage = "stream" /\ o.pos = 0 /\ jobs[o.n].stream = <<>> /\ Cut(o)

StreamTimesOut ==
    /\ UNCHANGED plan
    /\ \E o \in Range(outs) : o.stage = "stream" /\ o.pos = Len(jobs[o.n].stream) /\ Cut(o)

-----------------------------------------------------------------------------
(* chatbot-service: the POSTs, one write after another.                    *)

Advance(x, stage) == posts' = (posts \ {x}) \cup {[x EXCEPT !.stage = stage]}
Answers(x, stage) == Advance(x, stage) /\ UNCHANGED <<thread, alive, jobs, pointer, queue, lost>>

(* Without an id left no conversation begins.                              *)
NewConversation ==
    LET free == Convs \ (alive \cup {jobs[n].conv : n \in 1 .. Turns})
    IN IF free = {} THEN {} ELSE {CHOOSE c \in free : TRUE}

(* post_message: a conversation if need be, the user's message, the job.   *)
MessageCommits ==
    \E x \in posts :
        /\ x.kind = "send" /\ x.stage = "sent"
        /\ IF x.conv # None /\ x.conv \notin alive THEN Answers(x, "refused")
           ELSE \E c \in (IF x.conv # None THEN {x.conv} ELSE NewConversation) :
                  /\ alive' = alive \cup {c}
                  /\ thread' = [thread EXCEPT ![c] = Append(@, [role |-> "user", n |-> x.n, failed |-> FALSE])]
                  /\ jobs' = [jobs EXCEPT ![x.n].conv = c, ![x.n].user = x.n]
                  /\ posts' = (posts \ {x}) \cup {[x EXCEPT !.stage = "stored", !.conv = c]}
                  /\ UNCHANGED <<pointer, queue, lost>>
        /\ UNCHANGED <<plan, client, worker>>

(* retry_last_generation: the tail of the thread is read, the slot of the   *)
(* conversation claimed, a failed reply deleted, the job queued.           *)
Newest(rows) == Last(rows)
Retryable(rows) == rows # <<>> /\ (Newest(rows).role = "user" \/ (Newest(rows).failed /\ Len(rows) > 1 /\ rows[Len(rows) - 1].role = "user"))
TailUser(rows) == IF Newest(rows).role = "user" THEN Newest(rows).n ELSE rows[Len(rows) - 1].n

RetryReads ==
    \E x \in posts :
        /\ x.kind = "retry" /\ x.stage = "sent"
        /\ IF x.conv \notin alive \/ ~Retryable(thread[x.conv]) THEN Answers(x, "refused")
           ELSE /\ posts' = (posts \ {x}) \cup {[x EXCEPT !.stage = "read",
                              !.reads = IF Newest(thread[x.conv]).role = "user" THEN 0 ELSE Newest(thread[x.conv]).n]}
                /\ jobs' = [jobs EXCEPT ![x.n].user = TailUser(thread[x.conv])]
                /\ UNCHANGED <<thread, alive, pointer, queue, lost>>
        /\ UNCHANGED <<plan, client, worker>>

Taken(c) == pointer[c] # 0 /\ jobs[pointer[c]].conv = c /\ jobs[pointer[c]].status \in {"pending", "processing"}

claimConversationSlot(x) ==
    IF Taken(x.conv) THEN Answers(x, "refused") ELSE
    /\ pointer' = [pointer EXCEPT ![x.conv] = x.n]
    /\ jobs' = [jobs EXCEPT ![x.n].status = "pending", ![x.n].conv = x.conv]
    /\ Advance(x, "claimed")
    /\ UNCHANGED <<thread, alive, queue, lost>>

RetryClaims ==
    \E x \in posts :
        /\ x.stage = "read" /\ claimConversationSlot(x)
        /\ UNCHANGED <<plan, client, worker>>

Awaited(n) == \E o \in Range(outs) : o.n = n /\ o.stage = "post"

RetryDeletes ==
    \E x \in posts :
        /\ x.stage = "claimed"
        /\ thread' = [thread EXCEPT ![x.conv] =
                         Kept(@, {i \in DOMAIN @ : ~(@[i].role = "reply" /\ @[i].n = x.reads)})]
        /\ Advance(x, "stored")
        /\ GivenUp(IF Awaited(x.n) THEN {} ELSE {x.reads})
        /\ UNCHANGED <<plan, client, alive, jobs, pointer, queue, worker>>

(* enqueue_generation_job: meta, pointer, queue - or Redis fails.           *)
Enqueue ==
    \E x \in posts :
        /\ x.stage = "stored"
        /\ \/ /\ jobs' = [jobs EXCEPT ![x.n].status = "pending", ![x.n].conv = x.conv]
              /\ pointer' = [pointer EXCEPT ![x.conv] = x.n]
              /\ queue' = Append(queue, x.n)
              /\ Advance(x, "queued")
              /\ UNCHANGED plan
           \/ /\ Spend("redis")
              /\ Advance(x, "failed")
              /\ UNCHANGED <<jobs, pointer, queue>>
        /\ UNCHANGED <<client, thread, alive, worker, lost>>

-----------------------------------------------------------------------------
(* The worker, one job at a time.                                          *)

Worker(step) == worker' = [worker EXCEPT !.step = step]
Tell(n, e) == jobs' = [jobs EXCEPT ![n].stream = Append(@, e)]
Working == UNCHANGED <<client, posts, alive, pointer>>

Take ==
    /\ worker.step = "idle" /\ queue # <<>>
    /\ worker' = [n |-> Head(queue), step |-> "taken", failed |-> FALSE, row |-> FALSE]
    /\ queue' = Tail(queue)
    /\ Working /\ UNCHANGED <<plan, thread, jobs, lost>>

Claim ==
    /\ worker.step = "taken"
    /\ jobs' = [jobs EXCEPT ![worker.n].status = "processing", ![worker.n].stream = Append(@, "claimed")]
    /\ Worker("running")
    /\ Working /\ UNCHANGED <<plan, thread, queue, lost>>

Generate ==
    /\ worker.step = "running" /\ ~Contains(jobs[worker.n].stream, "chunk")
    /\ thread[jobs[worker.n].conv] # <<>>
    /\ Tell(worker.n, "chunk")
    /\ Working /\ UNCHANGED <<plan, thread, queue, worker, lost>>

(* The reply, or a row for its failure; neither in a conversation that is   *)
(* gone.                                                                   *)
Persist ==
    LET n == worker.n
        c == jobs[n].conv
    IN /\ worker.step = "running"
       /\ \E failed \in BOOLEAN :
            /\ IF failed THEN IF c \in alive THEN Spend("provider") ELSE UNCHANGED plan
               ELSE c \in alive /\ Contains(jobs[n].stream, "chunk") /\ UNCHANGED plan
            /\ thread' = IF c \in alive THEN [thread EXCEPT ![c] = Append(@, [role |-> "reply", n |-> n, failed |-> failed])]
                         ELSE thread
            /\ worker' = [worker EXCEPT !.step = "written", !.failed = failed, !.row = c \in alive]
       /\ Working /\ UNCHANGED <<jobs, queue, lost>>

Mark ==
    /\ worker.step = "written"
    /\ jobs' = [jobs EXCEPT ![worker.n].status = IF worker.failed THEN "failed" ELSE "done"]
    /\ Worker("marked")
    /\ Working /\ UNCHANGED <<plan, thread, queue, lost>>

Announce ==
    /\ worker.step = "marked"
    /\ Tell(worker.n, IF ~worker.failed THEN "done" ELSE IF worker.row THEN "error" ELSE "unwritten")
    /\ worker' = [n |-> 0, step |-> "idle", failed |-> FALSE, row |-> FALSE]
    /\ Working /\ UNCHANGED <<plan, thread, queue, lost>>

(* What it had taken from the queue is gone.                               *)
Crash ==
    /\ worker.step # "idle" /\ Spend("crash")
    /\ worker' = [n |-> 0, step |-> "idle", failed |-> FALSE, row |-> FALSE]
    /\ GivenUp({worker.n})
    /\ Working /\ UNCHANGED <<thread, jobs, queue>>

-----------------------------------------------------------------------------
(* Deleting: confirmed in a dialog opened while nothing was under way, one  *)
(* at a time.                                                              *)

executeDelete ==
    \E c \in alive :
        /\ ~page.busy /\ ~page.loading /\ \A x \in posts : x.kind # "delete"
        /\ Spend("delete")
        /\ posts' = posts \cup {[n |-> 0, kind |-> "delete", conv |-> c, stage |-> "sent", reads |-> 0]}
        /\ UNCHANGED <<client, thread, alive, jobs, pointer, queue, worker, lost>>

DeleteCommits ==
    \E x \in posts :
        /\ x.kind = "delete" /\ x.stage = "sent"
        /\ alive' = alive \ {x.conv}
        /\ thread' = [thread EXCEPT ![x.conv] = <<>>]
        /\ Advance(x, "gone")
        /\ UNCHANGED <<plan, client, jobs, pointer, queue, worker, lost>>

DeleteLands ==
    \E x \in posts :
        /\ x.stage = "gone"
        /\ posts' = posts \ {x}
        /\ \/ Becomes(IF page.conv = x.conv THEN newChat(Client) ELSE Client) /\ UNCHANGED plan
           \/ Spend("lose") /\ UNCHANGED client
        /\ UNCHANGED <<thread, alive, jobs, pointer, queue, worker, lost>>

-----------------------------------------------------------------------------
Next ==
    \/ NavEnds \/ Browse \/ Select \/ NewChat \/ executeDelete \/ DeleteCommits \/ DeleteLands
    \/ LoadReads \/ LoadIsLost \/ LoadLands \/ tryLoadOlderMessages
    \/ AskReads \/ AskIsLost \/ AskLands
    \/ send \/ retryLast \/ AnswerLands \/ AnswerIsLost
    \/ StreamTells \/ FramePaints \/ StreamBreaks \/ StreamTimesOut
    \/ MessageCommits \/ RetryReads \/ RetryClaims \/ RetryDeletes \/ Enqueue
    \/ Take \/ Claim \/ Generate \/ Persist \/ Mark \/ Announce \/ Crash

Spec == Init /\ [][Next]_vars

(* Requests are answered, the stream watchdog goes off.                    *)
FairSpec ==
    /\ Spec
    /\ WF_vars(StreamTimesOut) /\ WF_vars(StreamTells) /\ WF_vars(AnswerLands)
    /\ WF_vars(MessageCommits) /\ WF_vars(RetryReads) /\ WF_vars(RetryClaims) /\ WF_vars(RetryDeletes) /\ WF_vars(Enqueue)

-----------------------------------------------------------------------------
ConvOf(n) == IF jobs[n].conv # None THEN {jobs[n].conv} ELSE {x.conv : x \in {y \in posts : y.n = n /\ n # 0}}

Quiet == /\ loads = <<>> /\ asks = <<>> /\ outs = <<>> /\ posts = {} /\ page.nav = <<>> /\ page.batch = 0
         /\ queue = <<>> /\ worker.step = "idle"

(* A thread shows one conversation: no page, stream or answer asked for    *)
(* under another one paints into it (threadLoadSeq, cancelOutbound$), and  *)
(* at rest it is the one the address names (selectConversation, ngOnInit). *)
OneConversationShown ==
    /\ \A b \in Range(page.bubbles) :
          b.n # 0 /\ b.n \notin lost /\ ~Awaited(b.n) => ConvOf(b.n) \subseteq {page.conv}
    /\ Quiet => page.url = page.conv

(* At rest the screen is the history from the oldest row loaded, in order   *)
(* and each message once - also when replies ran on while the user was     *)
(* elsewhere - but for the turns this visit gave up (see `lost`).          *)
ScreenIsHistory ==
    Quiet /\ page.conv # None /\ ~page.error /\ page.conv \in alive =>
        LET kept(n) == n # 0 /\ n \notin lost
            shown == SelectSeq(visibleBubbles(page.bubbles), LAMBDA b : kept(b.n))
            rows == SelectSeq(FromOldest(page.conv), LAMBDA r : kept(r.n))
        IN [i \in DOMAIN shown |-> IdOf(shown[i])] = [i \in DOMAIN rows |-> [role |-> rows[i].role, n |-> rows[i].n]]

(* A retry that was refused deleted nothing: the failed reply put back on   *)
(* the screen is still in the history (retryLast).                         *)
RejectedRetryDeletesNothing ==
    \A x \in posts : x.kind = "retry" /\ x.stage \in {"refused", "failed"} /\ Awaited(x.n) =>
        \A o \in Range(outs) : o.n = x.n /\ o.off.row =>
            [role |-> "reply", n |-> o.off.n, failed |-> TRUE] \in Range(thread[x.conv])

(* "Re-runs the same user turn": what is generated anew is the answer to    *)
(* the message whose failed reply the page took off (retryLast).            *)
RetryRerunsSameTurn ==
    \A x \in posts, o \in Range(outs) :
        x.kind = "retry" /\ x.stage \in {"stored", "queued"} /\ o.n = x.n =>
            jobs[x.n].user = jobs[o.off.n].user

(* "Back where it was": the rows on the screen stand in the order of the    *)
(* history (restoreRetryableBubble).                                        *)
PutBackInPlace ==
    page.conv # None => \A i, j \in DOMAIN page.bubbles, r, q \in DOMAIN thread[page.conv] :
        LET says(k, n) == /\ page.bubbles[k].row
                          /\ IdOf(page.bubbles[k]) = [role |-> thread[page.conv][n].role, n |-> thread[page.conv][n].n]
        IN says(i, r) /\ says(j, q) /\ i < j => r < q

(* A silently dead backend cannot keep the spinner alive for ever.         *)
SpinnerStops == page.busy ~> ~page.busy
=============================================================================
