------------------------------ MODULE ChatStore ------------------------------
(***************************************************************************)
(* One browser tab of the messenger against messenger-service: the threads *)
(* and the conversation list of ChatStore, the docked windows of           *)
(* ChatDockService, the socket and the unread badge of RealtimeService, and *)
(* the routes that store a message, list a page, move a read mark and name *)
(* what is unread.  REST answers and live frames reach the tab in any      *)
(* order; frames sent while the socket is down are gone; requests fail     *)
(* before or after they took effect.                                       *)
(***************************************************************************)
EXTENDS Naturals, Sequences, FiniteSets, SequencesExt

CONSTANTS
  Convs,     \* conversations this person takes part in
  Mine,      \* messages this tab may send, by client_message_id
  Theirs,    \* messages other people may send
  Files,     \* those of Mine that carry an attachment
  Home,      \* the conversation of each message
  None,
  MaxDocked, \* MAX_DOCKED_WINDOWS
  Budgets    \* what one exploration may do at most: see Budget

Msgs == Mine \cup Theirs

\* bounds: the messages that exist, opens of one conversation in flight at once, threads
\* opened, list fetches, failed requests, socket drops, and whether the tab is ever left
Budget == [msgs : SUBSET Msgs, loads : Nat, opens : Nat, lists : Nat, faults : Nat,
           cuts : Nat, blurs : BOOLEAN]

ASSUME ChatAssumption ==
  /\ Mine \cap Theirs = {} /\ Files \subseteq Mine
  /\ Home \in [Msgs -> Convs]
  /\ None \notin Msgs \cup Convs
  /\ MaxDocked \in Nat \ {0}
  /\ Budgets \subseteq Budget

VARIABLES
  at,         \* messages.created_at as a position in time, 0 when not stored
  mark,       \* conversation_participants.last_read_at of this person
  req,        \* where the request that stores a message is
  threadLoads, \* thread loads in flight, per conversation
  listing,    \* GET /conversations in flight
  resync,     \* GET /conversations/unread in flight
  marks,      \* POST /conversations/:id/read in flight
  loaded,     \* conversations that have an entry in threads
  thread,     \* the rows of each
  listRow,    \* the list row of each conversation: absent, read or unread
  activeId,   \* the conversation on the chats page
  docks,      \* ChatDockService.windows, oldest first
  holders,    \* threadHolders
  lastMarked, \* lastMarkedRead
  socket, wire,  \* the WebSocket and the frames on their way to the tab
  wanted,     \* RealtimeService.openConversations
  subs,       \* what realtime-service has subscribed this connection to
  unreadIds,  \* the badge
  focused,    \* document.hasFocus(); a background window counts as hidden
  left        \* the budget that is left

tables == <<at, mark>>
requests == <<req, threadLoads, listing, resync, marks>>
chats == <<loaded, thread, listRow, activeId, docks, holders, lastMarked>>
live == <<socket, wire, wanted, subs, unreadIds>>
chatVars == <<tables, requests, chats, live, focused, left>>

Spend(what) == left[what] > 0 /\ left' = [left EXCEPT ![what] = @ - 1]

Screens == {"page", "dock"}

Row(m, st) == [msg |-> m, st |-> st]
Shown(c) == {thread[c][i].msg : i \in DOMAIN thread[c]}
OnScreen == ToSet(docks) \cup (IF activeId = None THEN {} ELSE {activeId})

\* the members of S from the first to the last in the order R
Ordered(S, R) ==
  [k \in 1 .. Cardinality(S) |-> CHOOSE x \in S : Cardinality({y \in S : <<y, x>> \in R}) = k]

-----------------------------------------------------------------------------
(* messenger-service                                                       *)

StoredIn(c) == {m \in Msgs : Home[m] = c /\ at[m] > 0}
Clock == Cardinality({m \in Msgs : at[m] > 0}) + 1
ByTime(S) == Ordered(S, {p \in S \X S : at[p[1]] <= at[p[2]]})

\* getUnreadConversationIds: the last message is newer than the mark and not mine
Unread(c) ==
  \E m \in StoredIn(c) \cap Theirs :
    at[m] > mark[c] /\ \A n \in StoredIn(c) : at[n] <= at[m]
UnreadConvs == {c \in Convs : Unread(c)}
ListRow(c) == IF Unread(c) THEN "unread" ELSE "read"

\* announce: core NATS reaches the tab only through an open socket
Push(frames) == wire' = IF socket = "up" THEN wire \o frames ELSE wire

Frame(t, x) == [t |-> t, of |-> x]

\* the POST of a message of this tab: stored once per client_message_id
Post(m) ==
  /\ req[m] = "sent"
  /\ IF at[m] = 0
     THEN at' = [at EXCEPT ![m] = Clock] /\ req' = [req EXCEPT ![m] = "stored"]
     ELSE req' = [req EXCEPT ![m] = "reply"] /\ UNCHANGED at
  /\ UNCHANGED <<mark, threadLoads, listing, resync, marks, chats, live, focused, left>>

\* somebody else's message is stored
TheirPost(m) ==
  /\ m \in Theirs \cap left.msgs /\ req[m] = "no"
  /\ at' = [at EXCEPT ![m] = Clock]
  /\ req' = [req EXCEPT ![m] = "stored"]
  /\ UNCHANGED <<mark, threadLoads, listing, resync, marks, chats, live, focused, left>>

\* recordEvent has returned: message.new to every member, unread.added to the others
Announce(m) ==
  /\ req[m] = "stored"
  /\ Push(<<Frame("message.new", m)>>
            \o (IF m \in Theirs THEN <<Frame("unread.added", Home[m])>> ELSE <<>>))
  /\ req' = [req EXCEPT ![m] = IF m \in Mine THEN "reply" ELSE "done"]
  /\ UNCHANGED <<tables, threadLoads, listing, resync, marks, chats, socket, wanted, subs,
                 unreadIds, focused, left>>

\* the process dies between the commit and the announcement
HandlerDies(m) ==
  /\ req[m] = "stored"
  /\ req' = [req EXCEPT ![m] = IF m \in Mine THEN "fail" ELSE "done"]
  /\ Spend("faults")
  /\ UNCHANGED <<tables, threadLoads, listing, resync, marks, chats, live, focused>>

\* POST /conversations/:id/read: the mark only moves forward, and only a move is announced
PostMark(c, m) ==
  /\ <<c, m>> \in marks
  /\ marks' = marks \ {<<c, m>>}
  /\ IF at[m] > mark[c]
     THEN mark' = [mark EXCEPT ![c] = at[m]] /\ Push(<<Frame("unread.cleared", c)>>)
     ELSE UNCHANGED <<mark, wire>>
  /\ UNCHANGED <<at, req, threadLoads, listing, resync, chats, socket, wanted, subs,
                 unreadIds, focused, left>>

-----------------------------------------------------------------------------
(* threads                                                                 *)

Newest(rows) ==
  LET saved == {i \in DOMAIN rows : rows[i].st = "saved"} IN
  IF saved = {} THEN None
  ELSE rows[CHOOSE i \in saved : \A j \in saved : j <= i].msg

\* a row not stored yet carries this client's own clock: later than what was fetched
SortKey(row) == IF row.st = "saved" THEN at[row.msg] ELSE Clock

\* the sort by time is stable: of two rows of one time the first stays first
Before(rows, i, j) ==
  \/ SortKey(rows[i]) < SortKey(rows[j])
  \/ SortKey(rows[i]) = SortKey(rows[j]) /\ i <= j

\* a page that replaces the thread
InstallOver(rows, old) == rows

\* setThread: a fetched page keeps the local rows it does not contain
Install(rows, old) ==
  LET all == rows \o old
      keep == {i \in DOMAIN all : i \in DOMAIN rows \/ \A j \in DOMAIN rows : rows[j].msg # all[i].msg}
      order == Ordered(keep, {p \in keep \X keep : Before(all, p[1], p[2])}) IN
  IF keep = DOMAIN rows THEN rows ELSE [k \in DOMAIN order |-> all[order[k]]]

\* replaceByClientId, updateInThread, markSendFailed
Mark(rows, m, st) ==
  [i \in DOMAIN rows |-> IF rows[i].msg = m THEN Row(m, st) ELSE rows[i]]

\* no look at what is already there
AppendBlindly(c, m, st, local) ==
  IF c \notin loaded /\ ~local /\ activeId # c
  THEN UNCHANGED <<loaded, thread>>
  ELSE loaded' = loaded \cup {c} /\ thread' = [thread EXCEPT ![c] = Append(@, Row(m, st))]

\* appendToThread; a frame for a thread nobody opened is dropped
Append1(c, m, st, local) ==
  IF c \notin loaded /\ ~local /\ activeId # c
  THEN UNCHANGED <<loaded, thread>>
  ELSE /\ loaded' = loaded \cup {c}
       /\ thread' = [thread EXCEPT ![c] =
            IF m \in Shown(c) THEN Mark(@, m, st) ELSE Append(@, Row(m, st))]

\* touchConversation
Touch(lst, c, m) ==
  [lst EXCEPT ![c] =
     IF @ = "absent" THEN @
     ELSE IF c # activeId /\ m \in Theirs THEN "unread" ELSE "read"]

\* the dedupe skips the dot too
MarkReadOnce(c, rows, lst, badge) ==
  LET newest == Newest(rows) IN
  IF newest = None \/ lastMarked[c] = newest
  THEN listRow' = lst /\ unreadIds' = badge /\ UNCHANGED <<lastMarked, marks>>
  ELSE /\ listRow' = IF lst[c] = "absent" THEN lst ELSE [lst EXCEPT ![c] = "read"]
       /\ unreadIds' = badge \ {c}
       /\ lastMarked' = [lastMarked EXCEPT ![c] = newest]
       /\ marks' = marks \cup {<<c, newest>>}

\* markReadUpToNewest: the dot goes first, the write only when the newest row is another
MarkRead(c, rows, lst, badge) ==
  LET newest == Newest(rows) IN
  /\ listRow' = IF newest = None \/ lst[c] = "absent" THEN lst ELSE [lst EXCEPT ![c] = "read"]
  /\ IF newest = None \/ lastMarked[c] = newest
     THEN unreadIds' = badge /\ UNCHANGED <<lastMarked, marks>>
     ELSE /\ unreadIds' = badge \ {c}
          /\ lastMarked' = [lastMarked EXCEPT ![c] = newest]
          /\ marks' = marks \cup {<<c, newest>>}

-----------------------------------------------------------------------------
(* sending                                                                 *)

Send(m) ==
  /\ m \in Mine \cap left.msgs /\ req[m] = "no" /\ Home[m] \in OnScreen
  /\ req' = [req EXCEPT ![m] = IF m \in Files THEN "upload" ELSE "sent"]
  /\ Append1(Home[m], m, "pending", TRUE)
  /\ UNCHANGED <<tables, threadLoads, listing, resync, marks, listRow, activeId, docks, holders,
                 lastMarked, live, focused, left>>

\* FileUploadService.upload has returned a file id
Upload(m) ==
  /\ req[m] = "upload"
  /\ req' = [req EXCEPT ![m] = "sent"]
  /\ UNCHANGED <<tables, threadLoads, listing, resync, marks, chats, live, focused, left>>

\* an upload, a request or its answer is lost
SendFault(m) ==
  /\ req[m] \in {"upload", "sent", "reply"} /\ m \in Mine
  /\ req' = [req EXCEPT ![m] = "fail"]
  /\ Spend("faults")
  /\ UNCHANGED <<tables, threadLoads, listing, resync, marks, chats, live, focused>>

SendDone(m) ==
  /\ req[m] = "reply"
  /\ req' = [req EXCEPT ![m] = "done"]
  /\ thread' = [thread EXCEPT ![Home[m]] = Mark(@, m, "saved")]
  /\ listRow' = Touch(listRow, Home[m], m)
  /\ UNCHANGED <<tables, threadLoads, listing, resync, marks, loaded, activeId, docks, holders,
                 lastMarked, live, focused, left>>

SendFailed(m) ==
  /\ req[m] = "fail"
  /\ req' = [req EXCEPT ![m] = "no more"]
  /\ thread' = [thread EXCEPT ![Home[m]] = Mark(@, m, "failed")]
  /\ UNCHANGED <<tables, threadLoads, listing, resync, marks, loaded, listRow, activeId, docks, holders,
                 lastMarked, live, focused, left>>

\* retryMessage: the same client_message_id; an attachment is uploaded again
Retry(m) ==
  /\ req[m] = "no more" /\ Home[m] \in OnScreen
  /\ req' = [req EXCEPT ![m] = IF m \in Files THEN "upload" ELSE "sent"]
  /\ thread' = [thread EXCEPT ![Home[m]] = Mark(@, m, "pending")]
  /\ UNCHANGED <<tables, threadLoads, listing, resync, marks, loaded, listRow, activeId, docks, holders,
                 lastMarked, live, focused, left>>

-----------------------------------------------------------------------------
(* opening, docking and closing                                            *)

\* acquireThread and releaseThread: one subscription however many screens show it
Freed(c, h) == IF holders[c] = {h} THEN {c} ELSE {}
Hold(c, h, gone) ==
  LET freed == UNION {Freed(d, h) : d \in gone}
      first == IF holders[c] = {} THEN {c} ELSE {} IN
  /\ holders' = [d \in Convs |-> IF d = c THEN holders[d] \cup {h}
                                 ELSE IF d \in gone THEN holders[d] \ {h} ELSE holders[d]]
  /\ wanted' = (wanted \ freed) \cup first
  /\ subs' = IF socket = "up" THEN (subs \ freed) \cup first ELSE subs
LetGo(c, h) ==
  /\ holders' = [holders EXCEPT ![c] = @ \ {h}]
  /\ wanted' = wanted \ Freed(c, h)
  /\ subs' = subs \ Freed(c, h)

\* openThread up to its first await
Load(c, h) ==
  LET fresh == c \notin loaded
      load == [step |-> IF listRow[c] = "absent" THEN "detail" ELSE "page", by |-> h,
               fresh |-> fresh] IN
  IF listRow[c] # "absent" /\ ~fresh
  THEN MarkRead(c, thread[c], listRow, unreadIds) /\ UNCHANGED threadLoads
  ELSE /\ Cardinality(threadLoads[c]) < left.loads /\ load \notin threadLoads[c]
       /\ threadLoads' = [threadLoads EXCEPT ![c] = @ \cup {load}]
       /\ UNCHANGED <<listRow, lastMarked, marks, unreadIds>>

OpenPage(c) ==
  /\ activeId # c
  /\ Spend("opens")
  /\ activeId' = c
  /\ Hold(c, "page", {activeId} \ {None})
  /\ Load(c, "page")
  /\ UNCHANGED <<tables, req, listing, resync, loaded, thread, docks, socket, wire, focused>>

ClosePage ==
  /\ activeId # None
  /\ activeId' = None
  /\ LetGo(activeId, "page")
  /\ UNCHANGED <<tables, requests, loaded, thread, listRow, docks, lastMarked, socket, wire,
                 unreadIds, focused, left>>

\* openWindow: past the cap the oldest window goes
Dock(c) ==
  /\ c \notin ToSet(docks)
  /\ Spend("opens")
  /\ LET stay == IF Len(docks) < MaxDocked THEN docks ELSE Tail(docks) IN
     /\ docks' = Append(stay, c)
     /\ Hold(c, "dock", ToSet(docks) \ ToSet(stay))
  /\ Load(c, "dock")
  /\ UNCHANGED <<tables, req, listing, resync, loaded, thread, activeId, socket, wire, focused>>

Undock(c) ==
  /\ c \in ToSet(docks)
  /\ docks' = SelectSeq(docks, LAMBDA d : d # c)
  /\ LetGo(c, "dock")
  /\ UNCHANGED <<tables, requests, loaded, thread, listRow, activeId, lastMarked, socket, wire,
                 unreadIds, focused, left>>

\* the service answers GET /conversations/:id or GET /conversations/:id/messages
AnswerLoad(c, l) ==
  /\ l \in threadLoads[c] /\ l.step \in {"detail", "page"}
  /\ threadLoads' = [threadLoads EXCEPT ![c] = (@ \ {l}) \cup
       {IF l.step = "detail" THEN [step |-> "gotDetail", by |-> l.by, fresh |-> l.fresh, row |-> ListRow(c)]
        ELSE [step |-> "gotPage", by |-> l.by, fresh |-> l.fresh, page |-> ByTime(StoredIn(c))]}]
  /\ UNCHANGED <<tables, req, listing, resync, marks, chats, live, focused, left>>

\* ensureThreadLoaded goes on: upsertConversation, then the page if the thread was fresh
TakeDetail(c, l) ==
  /\ l \in threadLoads[c] /\ l.step = "gotDetail"
  /\ LET seen == [listRow EXCEPT ![c] = l.row] IN
     IF l.fresh
     THEN /\ threadLoads' = [threadLoads EXCEPT ![c] = (@ \ {l}) \cup
                          {[step |-> "page", by |-> l.by, fresh |-> TRUE]}]
          /\ listRow' = seen
          /\ UNCHANGED <<lastMarked, marks, unreadIds>>
     ELSE /\ threadLoads' = [threadLoads EXCEPT ![c] = @ \ {l}]
          /\ MarkRead(c, thread[c], seen, unreadIds)
  /\ UNCHANGED <<tables, req, listing, resync, loaded, thread, activeId, docks, holders,
                 socket, wire, wanted, subs, focused, left>>

TakePage(c, l) ==
  /\ l \in threadLoads[c] /\ l.step = "gotPage"
  /\ threadLoads' = [threadLoads EXCEPT ![c] = @ \ {l}]
  /\ loaded' = loaded \cup {c}
  /\ thread' = [thread EXCEPT ![c] =
       Install([i \in DOMAIN l.page |-> Row(l.page[i], "saved")], @)]
  /\ MarkRead(c, thread'[c], listRow, unreadIds)
  /\ UNCHANGED <<tables, req, listing, resync, activeId, docks, holders, socket, wire, wanted,
                 subs, focused, left>>

\* a failed detail ends the open; a failed page leaves what is there to be marked
LoadFault(c, l) ==
  /\ l \in threadLoads[c]
  /\ Spend("faults")
  /\ threadLoads' = [threadLoads EXCEPT ![c] = @ \ {l}]
  /\ IF l.step \in {"page", "gotPage"}
     THEN MarkRead(c, thread[c], listRow, unreadIds)
     ELSE UNCHANGED <<listRow, lastMarked, marks, unreadIds>>
  /\ UNCHANGED <<tables, req, listing, resync, loaded, thread, activeId, docks, holders,
                 socket, wire, wanted, subs, focused>>

-----------------------------------------------------------------------------
(* the list, the badge and the socket                                      *)

LoadList ==
  /\ listing = {}
  /\ listing' = {[step |-> "asked"]}
  /\ Spend("lists")
  /\ UNCHANGED <<tables, req, threadLoads, resync, marks, chats, live, focused>>

AnswerList ==
  /\ [step |-> "asked"] \in listing
  /\ listing' = {[step |-> "got", rows |-> [c \in Convs |-> ListRow(c)]]}
  /\ UNCHANGED <<tables, req, threadLoads, resync, marks, chats, live, focused, left>>

\* loadConversations: a full replace, except that the open thread is not unread
TakeList ==
  \E l \in listing :
    /\ l.step = "got"
    /\ listing' = listing \ {l}
    /\ listRow' = [c \in Convs |-> IF c = activeId THEN "read" ELSE l.rows[c]]
    /\ UNCHANGED <<tables, req, threadLoads, resync, marks, loaded, thread, activeId, docks, holders,
                   lastMarked, live, focused, left>>

ListFault ==
  /\ listing # {}
  /\ listing' = {}
  /\ Spend("faults")
  /\ UNCHANGED <<tables, req, threadLoads, resync, marks, chats, live, focused>>

AskUnread == resync' = resync \cup {[step |-> "asked"]}

AnswerUnread ==
  /\ [step |-> "asked"] \in resync
  /\ resync' = (resync \ {[step |-> "asked"]}) \cup {[step |-> "got", ids |-> UnreadConvs]}
  /\ UNCHANGED <<tables, req, threadLoads, listing, marks, chats, live, focused, left>>

\* what the service names is added to what the frames left
TakeUnreadToo ==
  \E r \in resync :
    /\ r.step = "got"
    /\ resync' = resync \ {r}
    /\ unreadIds' = unreadIds \cup r.ids
    /\ UNCHANGED <<tables, req, threadLoads, listing, marks, chats, socket, wire, wanted, subs,
                   focused, left>>

TakeUnread ==
  \E r \in resync :
    /\ r.step = "got"
    /\ resync' = resync \ {r}
    /\ unreadIds' = r.ids
    /\ UNCHANGED <<tables, req, threadLoads, listing, marks, chats, socket, wire, wanted, subs,
                   focused, left>>

UnreadFault ==
  \E r \in resync :
    /\ resync' = resync \ {r}
    /\ Spend("faults")
    /\ UNCHANGED <<tables, req, threadLoads, listing, marks, chats, live, focused>>

MarkFault(c, m) ==
  /\ <<c, m>> \in marks
  /\ marks' = marks \ {<<c, m>>}
  /\ Spend("faults")
  /\ UNCHANGED <<tables, req, threadLoads, listing, resync, chats, live, focused>>

\* onopen: subscriptions are replayed and the badge is asked for
Connect ==
  /\ socket = "down"
  /\ socket' = "up"
  /\ subs' = wanted
  /\ AskUnread
  /\ UNCHANGED <<tables, req, threadLoads, listing, marks, chats, wire, wanted, unreadIds, focused,
                 left>>

Disconnect ==
  /\ socket = "up"
  /\ socket' = "down" /\ wire' = <<>> /\ subs' = {}
  /\ Spend("cuts")
  /\ UNCHANGED <<tables, requests, chats, wanted, unreadIds, focused>>

\* handleFrame: ChatStore.applyFrame first, then what the socket service keeps itself
TakeMessage(m) ==
  LET c == Home[m] IN
  /\ Append1(c, m, "saved", FALSE)
  /\ IF c = activeId /\ focused
     THEN MarkRead(c, thread'[c], Touch(listRow, c, m), unreadIds)
     ELSE listRow' = Touch(listRow, c, m) /\ UNCHANGED <<lastMarked, marks, unreadIds>>

TakeFrame ==
  /\ wire # <<>>
  /\ wire' = Tail(wire)
  /\ LET f == Head(wire) IN
     \/ f.t = "message.new" /\ TakeMessage(f.of)
     \/ /\ f.t = "unread.added"
        /\ unreadIds' = unreadIds \cup {f.of}
        /\ UNCHANGED <<loaded, thread, listRow, lastMarked, marks>>
     \/ /\ f.t = "unread.cleared"
        /\ unreadIds' = unreadIds \ {f.of}
        /\ UNCHANGED <<loaded, thread, listRow, lastMarked, marks>>
  /\ UNCHANGED <<tables, req, threadLoads, listing, resync, activeId, docks, holders, socket, wanted,
                 subs, focused, left>>

\* coming back to the tab: resyncUnread and markActiveRead
Focus ==
  /\ ~focused
  /\ focused' = TRUE
  /\ AskUnread
  /\ IF activeId = None THEN UNCHANGED <<listRow, lastMarked, marks, unreadIds>>
     ELSE MarkRead(activeId, thread[activeId], listRow, unreadIds)
  /\ UNCHANGED <<tables, req, threadLoads, listing, loaded, thread, activeId, docks, holders, socket,
                 wire, wanted, subs, left>>

Blur ==
  /\ focused /\ left.blurs
  /\ focused' = FALSE
  /\ UNCHANGED <<tables, requests, chats, live, left>>

\* typing, focusing the composer, expanding a window
ReadThread(c) ==
  /\ c \in OnScreen /\ focused
  /\ MarkRead(c, thread[c], listRow, unreadIds)
  /\ UNCHANGED <<tables, req, threadLoads, listing, resync, loaded, thread, activeId, docks, holders,
                 socket, wire, wanted, subs, focused, left>>

-----------------------------------------------------------------------------
ChatInit ==
  /\ at = [m \in Msgs |-> 0]
  /\ mark = [c \in Convs |-> 0]
  /\ req = [m \in Msgs |-> "no"]
  /\ threadLoads = [c \in Convs |-> {}]
  /\ listing = {} /\ resync = {} /\ marks = {}
  /\ loaded = {} /\ thread = [c \in Convs |-> <<>>]
  /\ listRow = [c \in Convs |-> "absent"]
  /\ activeId = None /\ docks = <<>>
  /\ holders = [c \in Convs |-> {}]
  /\ lastMarked = [c \in Convs |-> None]
  /\ socket = "down" /\ wire = <<>> /\ wanted = {} /\ subs = {} /\ unreadIds = {}
  /\ focused = TRUE /\ left \in Budgets

Service ==
  \/ \E m \in Msgs : Post(m) \/ Announce(m)
  \/ \E c \in Convs, m \in Msgs : PostMark(c, m)
  \/ \E c \in Convs : \E l \in threadLoads[c] : AnswerLoad(c, l)
  \/ AnswerList \/ AnswerUnread
Answers ==
  \/ \E m \in Mine : Upload(m) \/ SendDone(m) \/ SendFailed(m)
  \/ \E c \in Convs : \E l \in threadLoads[c] : TakeDetail(c, l) \/ TakePage(c, l)
  \/ TakeList \/ TakeUnread \/ TakeFrame
Person ==
  \/ \E m \in Mine : Send(m) \/ Retry(m)
  \/ \E c \in Convs : OpenPage(c) \/ Dock(c) \/ Undock(c) \/ ReadThread(c)
  \/ ClosePage \/ LoadList \/ Focus \/ Blur
Faults ==
  \/ \E m \in Msgs : HandlerDies(m) \/ SendFault(m)
  \/ \E c \in Convs : \E l \in threadLoads[c] : LoadFault(c, l)
  \/ \E c \in Convs, m \in Msgs : MarkFault(c, m)
  \/ ListFault \/ UnreadFault \/ Disconnect

ChatNext == Service \/ Answers \/ Person \/ Faults \/ Connect \/ \E m \in Theirs : TheirPost(m)

\* the service answers, the browser runs its callbacks, the reconnect timer fires
Fairness ==
  /\ \A m \in Msgs : WF_chatVars(Post(m) \/ Announce(m))
  /\ \A m \in Mine : WF_chatVars(Upload(m) \/ SendDone(m) \/ SendFailed(m))
  /\ \A c \in Convs :
       /\ WF_chatVars(\E l \in threadLoads[c] : AnswerLoad(c, l) \/ TakeDetail(c, l) \/ TakePage(c, l))
       /\ WF_chatVars(\E m \in Msgs : PostMark(c, m))
  /\ WF_chatVars(AnswerList \/ TakeList)
  /\ WF_chatVars(AnswerUnread) /\ WF_chatVars(TakeUnread)
  /\ WF_chatVars(TakeFrame) /\ WF_chatVars(Connect)

ChatSpec == ChatInit /\ [][ChatNext]_chatVars /\ Fairness

-----------------------------------------------------------------------------
(* properties                                                              *)

\* The optimistic row, the echo of the socket, the answer of the POST, a page and a
\* retry all bring the same message: a thread shows it once.
NoDoubles == \A c \in Convs : Cardinality(Shown(c)) = Len(thread[c])

\* Whatever lands on a thread - a page requested before a message existed, an echo, a
\* failure - a message it has shown stays in it.
NothingVanishes == [][\A c \in Convs : Shown(c) \subseteq Shown(c)']_chatVars

\* A person who keeps coming back to the tab ends with the badge the service derives,
\* whatever frames were lost and in whatever order answers and frames landed.
BadgeHeals == []<><<Focus>>_chatVars => <>[](unreadIds = UnreadConvs)

\* A thread open on the page and showing a stored message loses its dot, also when a
\* stale answer brought it back after the newest message had been marked.
OpenDotGoesOut ==
  \A c \in Convs :
    activeId = c /\ Newest(thread[c]) # None ~> listRow[c] # "unread" \/ activeId # c

\* Not so: "a failed watermark write is corrected on the next open" (markReadUpToNewest).
\* Opening again a thread whose newest message the service has no mark for asks for none.
NextOpenCorrects ==
  [][\A c \in loaded :
       LET newest == Newest(thread[c]) IN
       /\ activeId # c /\ activeId' = c /\ listRow[c] # "absent"
       /\ newest # None /\ at[newest] > mark[c]
       => <<c, newest>> \in marks']_chatVars

=============================================================================
