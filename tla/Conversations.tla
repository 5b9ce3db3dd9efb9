--------------------------- MODULE Conversations ---------------------------
(* Making, addressing and leaving conversations: the tables and routes of   *)
(* messenger-service (conversations, conversation_participants), what       *)
(* ChatStore keeps of them, and the chats page, where the URL names the      *)
(* thread on screen.  A direct thread is made by its first message; a group *)
(* by its admin, who alone adds people.                                      *)
(*                                                                          *)
(* One person's page (Me) is modelled whole; the others act on the server.  *)
(* A flow is one async method of the page: it goes on after the page it was  *)
(* started from is destroyed, and its steps interleave with everything.     *)
EXTENDS Integers, Sequences, FiniteSets, SequencesExt, FiniteSetsExt

CONSTANTS
  People,               \* owner ids; numbers, for they are sorted
  Me,                   \* whose page it is
  MaxGroupParticipants, \* MAX_GROUP_PARTICIPANTS
  MaxRows,              \* bound: conversations ever made
  MaxLoads,             \* bound: list requests under way
  Plans                 \* bound: what may happen in one behaviour, and the group there is

ASSUME PeopleAreOrdered == People \subseteq Nat \ {0} /\ Me \in People
ASSUME GroupsHaveRoom == MaxGroupParticipants \in Nat /\ MaxGroupParticipants >= 2

\* What a plan finds in the tables: one direct row a pair, with its two people
\* in it (the unique direct_key), and groups.
PairsOf(plan) == {c \in DOMAIN plan.rows : plan.rows[c].row.kind = "direct"}

ASSUME PlansAreSound == \A plan \in Plans :
  /\ Len(plan.rows) <= MaxRows
  /\ plan.rows \in Seq([row : [kind : {"direct", "group"}, key : {<<>>} \cup (People \X People), admin : People],
                        who : SUBSET People])
  /\ \A c \in PairsOf(plan) :
       \E p, q \in People : p < q /\ plan.rows[c].row.key = <<p, q>> /\ plan.rows[c].who = {p, q}
  /\ \A c, d \in PairsOf(plan) : plan.rows[c].row.key = plan.rows[d].row.key => c = d

VARIABLES
  rows,   \* conversations, in the order they were made
  here,   \* conversation_participants with left_at NULL, per conversation
  list,   \* conversationList: the participants of each row, {} for no row
  detail, \* conversationDetails, likewise
  asked,  \* list requests not read yet
  loads,  \* list answers on their way
  asks,   \* conversations asked for by id
  active, \* activeId, 0 for none
  draftPeer,
  held,   \* conversations the page holds the subscription of
  url,
  flows,  \* the page's async methods under way
  posted, \* first messages stored: whom the draft named, where they went
  budget

vars == <<rows, here, list, detail, asked, loads, asks, active, draftPeer, held, url, flows,
          posted, budget>>
server == <<rows, here>>
store == <<list, detail>>
reads == <<asked, loads, asks>>
screen == <<active, draftPeer, held, url>>

Ids == 1 .. MaxRows
Made == 1 .. Len(rows)
Groups == {c \in Made : rows[c].kind = "group"}

-----------------------------------------------------------------------------
(* the tables                                                               *)

keyAsGiven(members) == members

\* the two owners, the smaller first
directKeyFor(members) == IF members[1] < members[2] THEN members ELSE <<members[2], members[1]>>

\* the INSERT, which one of two concurrent ones of a pair wins, and the seats;
\* who had left a conversation is seated again
Upserted(c, owners) == [here EXCEPT ![c] = @ \cup owners]

Existing(key) == {c \in Made : rows[c].kind = "direct" /\ rows[c].key = key}

createDirect(owner, peer) ==
  LET key == directKeyFor(<<owner, peer>>) IN
  IF Existing(key) = {}
    THEN /\ rows' = Append(rows, [kind |-> "direct", key |-> key, admin |-> owner])
         /\ here' = Append(here, {owner, peer})
    ELSE /\ rows' = rows
         /\ here' = Upserted(Min(Existing(key)), {owner, peer})

\* the conversation the route answers with
DirectOf(owner, peer) == Min({c \in 1 .. Len(rows') :
  rows'[c].kind = "direct" /\ rows'[c].key = directKeyFor(<<owner, peer>>)})

createGroup(owner, others) ==
  /\ rows' = Append(rows, [kind |-> "group", key |-> <<>>, admin |-> owner])
  /\ here' = Append(here, {owner} \cup others)

\* conversation.write: present and its admin; the role stays with the seat
MayWrite(owner, c) == owner \in here[c] /\ rows[c].admin = owner

\* conversation.created reaches this page, which asks for the list again; a frame
\* lost with its socket is a request that fails
Announced == asked' = Min({asked + 1, MaxLoads})

-----------------------------------------------------------------------------
(* the store                                                                *)

\* conversationById: the list first
Known(c) == IF list[c] # {} THEN list[c] ELSE detail[c]

directConversationWith(p) ==
  {c \in Made : rows[c].kind = "direct" /\ list[c] = {Me, p}}

\* openConversation(c): what is in the list becomes the detail, the rest is asked for
openConversation(c) ==
  /\ active' = c
  /\ held' = (held \ {active}) \cup {c}
  /\ IF list[c] # {} THEN detail' = [detail EXCEPT ![c] = list[c]] /\ asks' = asks
     ELSE detail' = detail /\ asks' = asks \cup {c}

closeActiveConversation ==
  /\ held' = held \ {active}
  /\ active' = 0
  /\ draftPeer' = 0

draftOverTheThread(p) ==
  /\ active' = 0
  /\ draftPeer' = p
  /\ held' = held

openDraft(p) ==
  /\ held' = held \ {active}
  /\ active' = 0
  /\ draftPeer' = p

-----------------------------------------------------------------------------
(* the page and its URL                                                     *)

At(at, id) == [at |-> at, id |-> id]

\* a draft to somebody whose thread is listed becomes that thread
Redirected(u) ==
  IF u.at = "draft" /\ directConversationWith(u.id) # {}
    THEN At("thread", Min(directConversationWith(u.id))) ELSE u

applyRoute(u) ==
  CASE u.at = "draft" -> openDraft(u.id) /\ UNCHANGED <<detail, asks>>
    [] u.at = "thread" /\ active # u.id -> openConversation(u.id) /\ UNCHANGED draftPeer
    [] u.at = "list" -> closeActiveConversation /\ UNCHANGED <<detail, asks>>
    [] OTHER -> UNCHANGED <<active, draftPeer, held, detail, asks>>

\* another route builds another page, which asks for the list; the flows of the
\* page before go on, but its busy flags are gone with it
Rebuilds(u) == u.at # url.at

\* the router ignores the URL it is at; leaving for another application of the
\* shell destroys the page and runs nothing of it
Go(to, others) ==
  LET u == Redirected(to) IN
  IF u = url THEN flows' = others /\ UNCHANGED <<url, active, draftPeer, held, detail, asks, asked>>
  ELSE /\ url' = u
       /\ applyRoute(u)
       /\ flows' = IF Rebuilds(u) THEN {[f EXCEPT !.mine = FALSE] : f \in others} ELSE others
       /\ asked' = IF Rebuilds(u) /\ u.at # "away" THEN Min({asked + 1, MaxLoads}) ELSE asked

Spends(what) == budget[what] > 0 /\ budget' = [budget EXCEPT ![what] = @ - 1]

\* onSelect, onBack, onPickPerson, a link of the header, another application
Visits(u) ==
  /\ Spends("moves")
  /\ u # url
  /\ Go(u, flows)
  /\ UNCHANGED <<server, list, loads, posted>>

Moves ==
  \/ \E c \in Made : list[c] # {} /\ Visits(At("thread", c))
  \/ url.at # "away" /\ \E p \in People \ {Me} : Visits(At("draft", p))
  \/ Visits(At("list", 0))
  \/ Visits(At("away", 0))

-----------------------------------------------------------------------------
(* the list and one conversation, read                                      *)

Listed == [c \in Ids |-> IF c \in Made THEN (IF Me \in here[c] THEN here[c] ELSE {}) ELSE {}]

ListRead ==
  /\ asked > 0
  /\ asked' = asked - 1
  /\ loads' \in {loads \cup {Listed}, loads}           \* or the request fails
  /\ UNCHANGED <<server, store, asks, screen, flows, posted, budget>>

ListArrives ==
  /\ \E l \in loads : loads' = loads \ {l} /\ list' = l
  /\ UNCHANGED <<server, detail, asked, asks, screen, flows, posted, budget>>

\* a refusal or a failure leaves LOAD_FAILED and an empty pane
DetailArrives ==
  /\ \E c \in asks :
       /\ asks' = asks \ {c}
       /\ IF Me \in here[c]
            THEN /\ detail' = [detail EXCEPT ![c] = here[c]]
                 /\ list' = [list EXCEPT ![c] = here[c]]
            ELSE UNCHANGED store
  /\ UNCHANGED <<server, asked, loads, screen, flows, posted, budget>>

-----------------------------------------------------------------------------
(* the flows                                                                *)

Flow(op, c, who) ==
  [op |-> op, stage |-> "sent", row |-> c, who |-> who, got |-> {}, mine |-> TRUE,
   n |-> budget.flows]

Starts(op, c, who) ==
  /\ Spends("flows") /\ op \in budget.ops
  /\ flows' = flows \cup {Flow(op, c, who)}
  /\ UNCHANGED <<server, store, reads, screen, posted>>

\* creatingGroup, groupBusy: what this page waits for
Busy(ops) == \E f \in flows : f.mine /\ f.op \in ops
OfGroup == {"add", "leave", "rename"}

OnPage == url.at # "away"
DetailsOpen == OnPage /\ active \in Groups /\ Known(active) # {} /\ ~Busy(OfGroup)

\* isAdminOf: by the participants the store shows
IsAdmin == Me \in Known(active) /\ rows[active].admin = Me

Calls ==
  \/ OnPage /\ draftPeer # 0 /\ Starts("first", 0, {draftPeer})
  \/ /\ OnPage /\ ~Busy({"group"})
     /\ \E who \in SUBSET (People \ {Me}) : Cardinality(who) >= 2 /\ Starts("group", 0, who)
  \/ /\ DetailsOpen /\ IsAdmin
     /\ \E who \in SUBSET (People \ Known(active)) : who # {} /\ Starts("add", active, who)
  \/ DetailsOpen /\ IsAdmin /\ Starts("rename", active, {})
  \/ DetailsOpen /\ Starts("leave", active, {})

Steps(f, stage) == flows' = (flows \ {f}) \cup {[f EXCEPT !.stage = stage]}
Answered(f, stage, c, got) ==
  flows' = (flows \ {f}) \cup {[f EXCEPT !.stage = stage, !.row = c, !.got = got]}
Ends(f) == flows' = flows \ {f}

PeerOf(f) == CHOOSE p \in f.who : TRUE

\* the server, one request
CreatesDirect(f) ==
  /\ f.op = "first" /\ f.stage = "sent"
  /\ Len(rows) < MaxRows
  /\ createDirect(Me, PeerOf(f))
  /\ LET c == DirectOf(Me, PeerOf(f)) IN Answered(f, "made", c, here'[c])
  /\ IF Len(rows') > Len(rows) THEN Announced ELSE UNCHANGED asked
  /\ UNCHANGED <<store, loads, asks, screen, posted, budget>>

CreatesGroup(f) ==
  /\ f.op = "group" /\ f.stage = "sent"
  /\ Len(rows) < MaxRows
  /\ Cardinality(f.who) + 1 <= MaxGroupParticipants
  /\ createGroup(Me, f.who)
  /\ Answered(f, "made", Len(rows'), here'[Len(rows')])
  /\ Announced
  /\ UNCHANGED <<store, loads, asks, screen, posted, budget>>

\* the facts are read first; what is added is judged by them
ChecksAdd(f) ==
  /\ f.op = "add" /\ f.stage = "sent"
  /\ MayWrite(Me, f.row)
  /\ Cardinality(here[f.row] \cup f.who) <= MaxGroupParticipants
  /\ Steps(f, "checked")
  /\ UNCHANGED <<server, store, reads, screen, posted, budget>>

\* the upsert returns the rows it wrote, and nothing else
RowsWritten(c, owners) == owners

Adds(f) ==
  /\ f.op = "add" /\ f.stage = "checked"
  /\ here' = Upserted(f.row, f.who)
  /\ Answered(f, "made", f.row, RowsWritten(f.row, f.who))
  /\ UNCHANGED <<rows, store, reads, screen, posted, budget>>

Renames(f) ==
  /\ f.op = "rename" /\ f.stage = "sent"
  /\ MayWrite(Me, f.row)
  /\ Answered(f, "made", f.row, here[f.row])
  /\ UNCHANGED <<server, store, reads, screen, posted, budget>>

LeavesGroup(f) ==
  /\ f.op = "leave" /\ f.stage = "sent"
  /\ Me \in here[f.row]
  /\ here' = [here EXCEPT ![f.row] = @ \ {Me}]
  /\ Answered(f, "made", f.row, {})
  /\ UNCHANGED <<rows, store, reads, screen, posted, budget>>

\* refused, or failed before or after it was done: a notice, nothing else changes
Fails(f) ==
  /\ f.stage \in {"sent", "checked", "made"}
  /\ \/ f.stage = "sent" /\ f.op \in {"add", "rename"} /\ ~MayWrite(Me, f.row)
     \/ f.stage = "sent" /\ f.op = "leave" /\ Me \notin here[f.row]
     \/ f.stage = "sent" /\ f.op = "group" /\ Cardinality(f.who) + 1 > MaxGroupParticipants
     \/ f.stage = "sent" /\ f.op = "add" /\ Cardinality(here[f.row] \cup f.who) > MaxGroupParticipants
     \/ f.stage = "sent" /\ f.op \in {"first", "group"} /\ Len(rows) >= MaxRows
     \/ budget.faults > 0
  /\ budget' = [budget EXCEPT !.faults = IF @ > 0 THEN @ - 1 ELSE 0]
  /\ Ends(f)
  /\ UNCHANGED <<server, store, reads, screen, posted>>

-----------------------------------------------------------------------------
(* the page, answered                                                       *)

\* upsertConversation, then the people's names are asked for
TakesRow(f) ==
  /\ f.op \in {"first", "group"} /\ f.stage = "made"
  /\ list' = [list EXCEPT ![f.row] = f.got]
  /\ Steps(f, "named")
  /\ UNCHANGED <<server, detail, reads, screen, posted, budget>>

OpensRow(f) ==
  /\ f.op \in {"first", "group"} /\ f.stage = "named"
  /\ openConversation(f.row)
  /\ Steps(f, "opened")
  /\ UNCHANGED <<server, list, asked, loads, draftPeer, url, posted, budget>>

\* sendFirstMessage goes on once the thread is loaded: the message goes to the
\* conversation the create answered with
Target(f) == f.row

Posts(f) ==
  /\ f.op = "first" /\ f.stage = "opened"
  /\ draftPeer' = 0
  /\ Steps(f, "posting")
  /\ UNCHANGED <<server, store, reads, active, held, url, posted, budget>>

\* a failed send keeps the message, marked failed; either way the URL is swapped
\* for the thread's
Stored(f) ==
  /\ f.op = "first" /\ f.stage = "posting"
  /\ \/ posted' = posted \cup {[peer |-> PeerOf(f), row |-> Target(f)]} /\ UNCHANGED budget
     \/ Spends("faults") /\ UNCHANGED posted
  /\ Go(At("thread", f.row), flows \ {f})
  /\ UNCHANGED <<server, list, loads>>

ShowsGroup(f) ==
  /\ f.op = "group" /\ f.stage = "opened"
  /\ Go(At("thread", f.row), flows \ {f})
  /\ UNCHANGED <<server, list, loads, posted, budget>>

\* applyParticipants: in both places it is held
TakesAdded(f) ==
  /\ f.op = "add" /\ f.stage = "made"
  /\ list' = [list EXCEPT ![f.row] = IF @ = {} THEN {} ELSE f.got]
  /\ detail' = [detail EXCEPT ![f.row] = IF @ = {} THEN {} ELSE f.got]
  /\ Ends(f)
  /\ UNCHANGED <<server, reads, screen, posted, budget>>

TakesRenamed(f) ==
  /\ f.op = "rename" /\ f.stage = "made"
  /\ list' = [list EXCEPT ![f.row] = f.got]
  /\ detail' = [detail EXCEPT ![f.row] = f.got]
  /\ Ends(f)
  /\ UNCHANGED <<server, reads, screen, posted, budget>>

\* the row goes, and the page leaves for the list, whatever is open by then
DropsRow(f) ==
  /\ f.op = "leave" /\ f.stage = "made"
  /\ list' = [list EXCEPT ![f.row] = {}]
  /\ IF url = At("list", 0) /\ active = f.row
       THEN closeActiveConversation /\ Ends(f) /\ UNCHANGED <<detail, asks, asked, url>>
       ELSE Go(At("list", 0), flows \ {f})
  /\ UNCHANGED <<server, loads, posted, budget>>

Runs ==
  \E f \in flows :
    \/ CreatesDirect(f) \/ CreatesGroup(f) \/ ChecksAdd(f) \/ Adds(f) \/ Renames(f)
    \/ LeavesGroup(f) \/ Fails(f) \/ TakesRow(f) \/ OpensRow(f) \/ Posts(f) \/ Stored(f)
    \/ ShowsGroup(f) \/ TakesAdded(f) \/ TakesRenamed(f) \/ DropsRow(f)

-----------------------------------------------------------------------------
(* the other people                                                         *)

\* somebody writes to Me first, or starts a group; Me's page is told
OthersCreate ==
  /\ Len(rows) < MaxRows
  /\ \/ \E p \in People \ {Me} :
          /\ createDirect(p, Me)
          /\ posted' = posted \cup {[peer |-> p, row |-> DirectOf(p, Me)]}
     \/ /\ \E p \in People \ {Me} : createGroup(p, People \ {p})
        /\ UNCHANGED posted
  /\ IF Len(rows') > Len(rows) THEN Announced ELSE UNCHANGED asked
  /\ Spends("others")
  /\ UNCHANGED <<store, loads, asks, screen, flows>>

OthersLeave ==
  /\ \E c \in Groups : \E p \in here[c] \ {Me} : here' = [here EXCEPT ![c] = @ \ {p}]
  /\ Spends("others")
  /\ UNCHANGED <<rows, store, reads, screen, flows, posted>>

-----------------------------------------------------------------------------

Init ==
  /\ \E plan \in Plans :
       /\ budget = [moves |-> plan.moves, flows |-> plan.flows, others |-> plan.others,
                    faults |-> plan.faults, ops |-> plan.ops]
       /\ rows = [c \in 1 .. Len(plan.rows) |-> plan.rows[c].row]
       /\ here = [c \in 1 .. Len(plan.rows) |-> plan.rows[c].who]
  /\ list = [c \in Ids |-> {}]
  /\ detail = [c \in Ids |-> {}]
  /\ asked = 1 /\ loads = {} /\ asks = {}
  /\ active = 0 /\ draftPeer = 0 /\ held = {}
  /\ url = At("list", 0)
  /\ flows = {} /\ posted = {}

Next ==
  \/ Moves \/ ListRead \/ ListArrives \/ DetailArrives
  \/ Calls \/ Runs \/ OthersCreate \/ OthersLeave

Spec == Init /\ [][Next]_vars

-----------------------------------------------------------------------------
(* properties                                                               *)

\* A first message is where its sender meant it: in the one direct
\* conversation of the two people there is, however many created it at once,
\* retried, or moved to another thread while it was being created
\* (createConversation, sendFirstMessage).
FirstMessageHasOneHome ==
  /\ \A m \in posted : rows[m.row].kind = "direct" /\ here[m.row] = {Me, m.peer}
  /\ \A m, n \in posted : m.peer = n.peer => m.row = n.row

AtRest == flows = {}

\* "The open thread follows the URL": with no flow under way, the thread that is
\* open, the subscription the page holds and the draft are those of the URL,
\* whatever came back late and moved the page meanwhile (applyRoute).
ThreadFollowsUrl ==
  AtRest =>
    CASE url.at = "thread" -> active = url.id /\ held = {url.id}
      [] url.at = "draft" -> active = 0 /\ held = {} /\ draftPeer = url.id
      [] url.at = "list" -> active = 0 /\ held = {} /\ draftPeer = 0
      [] OTHER -> held = {active} \ {0}

\* The thread whose messages are shown is the one the composer writes to: a
\* draft is not open beside another thread (onSend, draftPeer).
ComposerFollowsThread ==
  active # 0 /\ draftPeer # 0 =>
    rows[active].kind = "direct" /\ here[active] = {Me, draftPeer}

\* The answer of an add is the full participant list: once it is taken and
\* nothing else happened to the group, who is in it is who is shown.
MembersShown ==
  AtRest /\ asked = 0 /\ loads = {} /\ budget.others = 0 =>
    \A c \in Groups : Me \in here[c] /\ list[c] # {} => here[c] \subseteq list[c]

\* "Navigating away brings it back": away from the chats page no conversation
\* is taken for the one on screen, which would hide its docked window.
LeavingBringsWindowBack == AtRest /\ url.at = "away" => active = 0
=============================================================================
