----------------------------- MODULE CallClient -----------------------------
(***************************************************************************)
(* The call lifecycle of browser tabs: CallService (webrtc-call.service.ts)*)
(* with the ongoing-call banner of ChatStore, against the call room of     *)
(* realtime-service, for one conversation.  What the two ends of a pair    *)
(* negotiate is CallLink; how the room is kept in Redis is CallServer:     *)
(* here the server runs one frame at a time.                               *)
(*                                                                         *)
(* A tab's frames to the server are served in order.  The answers to them  *)
(* go into the connection's own queue (down) at once; what is published to *)
(* its owner crosses the bus first, and so may be overtaken by them.       *)
(***************************************************************************)
EXTENDS Naturals, Sequences, FiniteSets, SequencesExt

CONSTANTS
  Owners,     \* people
  Rank,       \* the order of their ids
  Tabs,       \* browser tabs
  OwnerOf,    \* whose tab
  Calls,      \* call ids
  Plans,      \* the bounded instances to look at: see PlanType
  Tries,      \* fetches of one refreshCalls
  None

OwnersOf(tabs) == {OwnerOf[t] : t \in tabs}

(* Which tabs are open, which of them are talking already (the others have  *)
(* declined), who is in the conversation, who the callers'       *)
(* clients believe is in it, in which tabs requests for the history succeed *)
(* and how many refreshes may run in one of them at once (one more fails), *)
(* and how often who dials, accepts, hangs up, joins and *)
(* open the thread, captures and media fail, sockets drop.                 *)
Presses == {"dials", "accepts", "hangups", "joins", "opens", "faults", "drops"}
PlanType == [tabs : SUBSET Tabs, talking : SUBSET Tabs, people : SUBSET Owners, believed : SUBSET Owners,
             watchers : SUBSET Tabs, fetches : Nat, left : [Presses -> [Tabs -> Nat]]]

ASSUME OrderAssumption == Rank \in [Owners -> Nat] /\ \A a, b \in Owners : Rank[a] = Rank[b] => a = b
ASSUME TabAssumption == OwnerOf \in [Tabs -> Owners] /\ None \notin Calls \cup Tabs \cup Owners
ASSUME PlansAssumption == Plans \subseteq PlanType /\ Tries \in Nat \ {0}
ASSUME CallsAssumption == IsFiniteSet(Calls) /\ Calls # {}
(* Who talks already is in the conversation, in a tab that is open.        *)
ASSUME TalkersAssumption == \A p \in Plans : p.talking \subseteq p.tabs /\ OwnersOf(p.talking) \subseteq p.people
(* Who reads the history of a conversation is in it.                       *)
ASSUME ReadersAssumption == \A p \in Plans : \A t \in p.watchers : OwnerOf[t] \in p.people

VARIABLES
  plan,      \* the instance, with what is left of its bounds
  tab,       \* CallService per tab
  store,     \* the call rows ChatStore holds per tab
  conn,      \* tabs whose socket is open
  net,       \* frames on their way: up, bus, down
  closing,   \* calls whose place is held by a closed connection of the tab
  room,      \* the calls of realtime-service
  row,       \* the history messenger-service has projected
  misled,    \* tabs that took a step no later frame sets right: see Misleads
  cut        \* tabs that lost a frame with their socket

vars == <<plan, tab, store, conn, net, closing, room, row, misled, cut>>

NoCall == [state |-> "none", dir |-> "none", id |-> None, people |-> {}, joined |-> {}, offer |-> FALSE]

(* The microphone: held, while localMedia refers to its stream; lost, while *)
(* a stream runs that nothing refers to.  met is a history: two captures    *)
(* have been asked for at once.                                             *)
NoMic == [held |-> FALSE, lost |-> FALSE, met |-> FALSE]

(* A continuation waiting for the browser: for the capture, then (1:1) for *)
(* the description; bare: it carries none; torn: the call was torn down     *)
(* while it waited for that.                                               *)
Job(why, id, bare, opens) ==
    [why |-> why, id |-> id, bare |-> bare, opens |-> opens, stage |-> "capture", torn |-> FALSE]

Up(kind, id, sdp, reason) == [kind |-> kind, id |-> id, sdp |-> sdp, reason |-> reason]
Down(kind, id, from, owners, sdp, reason) ==
    [kind |-> kind, id |-> id, from |-> from, owners |-> owners, sdp |-> sdp, reason |-> reason]
Error(code, id) == Down("error", id, None, {}, FALSE, code)

Reasons == {"", "hangup", "declined", "busy", "missed", "empty", "ice_failed", "answered_elsewhere"}
CallStates == {"none", "ringing", "connecting", "active"}
JobType == [why : {"start", "accept", "join"}, id : Calls \cup {None}, bare : BOOLEAN, opens : BOOLEAN,
            stage : {"capture", "describe"}, torn : BOOLEAN]
RefreshType == [id : Calls \cup {None}, until : {"present", "ended"}, left : 1 .. Tries,
                watch : BOOLEAN, reply : Seq([Calls -> {"none", "open", "ended"}])]
UpType == [kind : {"invite", "answer", "join", "hangup"}, id : Calls \cup {None}, sdp : BOOLEAN, reason : Reasons]
DownType == [kind : {"ringing", "incoming", "answered", "participant", "ended", "error"},
             id : Calls \cup {None}, from : Owners \cup {None}, owners : SUBSET Owners, sdp : BOOLEAN,
             reason : Reasons \cup {"call_gone", "call_exists", "forbidden", "not_supported", "bad_frame"}]

TypeOK ==
    /\ plan \in PlanType
    /\ \A t \in Tabs :
         /\ tab[t].call \in [state : CallStates, dir : {"none", "outgoing", "incoming"},
                             id : Calls \cup {None}, people : SUBSET Owners, joined : SUBSET Owners,
                             offer : BOOLEAN]
         /\ tab[t].timer \in BOOLEAN /\ tab[t].mic \in [held : BOOLEAN, lost : BOOLEAN, met : BOOLEAN]
         /\ tab[t].jobs \in Seq(JobType)
         /\ store[t].rows \in [Calls -> {"none", "open", "ended"}]
         /\ store[t].ended \subseteq Calls /\ store[t].rung \subseteq Calls
         /\ store[t].fetch \in Seq(RefreshType)
         /\ net.up[t] \in Seq(UpType) /\ net.down[t] \in Seq(DownType) /\ net.bus[t] \in Seq(DownType)
    /\ room \in [Calls -> [status : {"unborn", "ringing", "active", "over"}, caller : Owners \cup {None},
                           member : [Owners -> Tabs \cup {None}], dismissed : SUBSET Owners,
                           ever : SUBSET Owners, reason : Reasons]]
    /\ row \in [Calls -> {"none", "open", "ended"}]
    /\ conn \subseteq Tabs /\ cut \subseteq Tabs /\ misled \subseteq Tabs
    /\ closing \in [Tabs -> SUBSET Calls]

People == plan.people
IsGroup == Cardinality(People) > 2

First == CHOOSE c \in Calls : TRUE

Talking(p, t) ==
    [call |-> [state |-> "active", dir |-> "outgoing", id |-> First, people |-> p.people,
               joined |-> OwnersOf(p.talking), offer |-> FALSE],
     timer |-> FALSE, mic |-> [NoMic EXCEPT !.held = TRUE], jobs |-> <<>>]
Idle == [call |-> NoCall, timer |-> FALSE, mic |-> NoMic, jobs |-> <<>>]

Unborn == [status |-> "unborn", caller |-> None, member |-> [o \in Owners |-> None],
           dismissed |-> {}, ever |-> {}, reason |-> ""]
Underway(p) ==
    [Unborn EXCEPT !.status = "active", !.ever = OwnersOf(p.talking),
                   !.caller = CHOOSE o \in OwnersOf(p.talking) : TRUE,
                   !.member = [o \in Owners |-> IF o \in OwnersOf(p.talking)
                                                 THEN CHOOSE t \in p.talking : OwnerOf[t] = o ELSE None],
                   !.dismissed = p.people \ OwnersOf(p.talking)]

Init ==
    /\ plan \in Plans
    /\ tab = [t \in Tabs |-> IF t \in plan.talking THEN Talking(plan, t) ELSE Idle]
    /\ store = [t \in Tabs |-> [rows |-> [c \in Calls |-> "none"], ended |-> {}, rung |-> {}, fetch |-> <<>>]]
    /\ conn = plan.tabs
    /\ net = [up |-> [t \in Tabs |-> <<>>], bus |-> [t \in Tabs |-> <<>>], down |-> [t \in Tabs |-> <<>>]]
    /\ closing = [t \in Tabs |-> {}]
    /\ room = [c \in Calls |-> IF c = First /\ plan.talking # {} THEN Underway(plan) ELSE Unborn]
    /\ row = [c \in Calls |-> "none"]
    /\ misled = {}
    /\ cut = {}

Spend(t, press) ==
    /\ plan.left[press][t] > 0
    /\ plan' = [plan EXCEPT !.left[press][t] = @ - 1]

-----------------------------------------------------------------------------
(* The room: handlers of realtime-service over w = [room, net].            *)

ToTab(w, t, f) == [w EXCEPT !.net.down[t] = Append(@, f)]
ToOwners(w, owners, f) ==
    [w EXCEPT !.net.bus = [t \in Tabs |-> IF t \in conn /\ OwnerOf[t] \in owners
                                          THEN Append(@[t], f) ELSE @[t]]]

Joined(r) == {o \in Owners : r.member[o] # None}
Live(c) == room[c].status \in {"ringing", "active"}

endCall(w, c, reason, from) ==
    ToOwners([w EXCEPT !.room[c].status = "over", !.room[c].member = [o \in Owners |-> None],
                       !.room[c].reason = reason],
             People, Down("ended", c, from, {}, FALSE, reason))

announceParticipant(w, c, o) ==
    ToOwners(w, People, Down("participant", c, o, Joined(w.room[c]), FALSE, ""))

handleInvite(w, t, f) ==
    LET o == OwnerOf[t]
        busy == {c \in Calls : Live(c)}
        c == CHOOSE x \in Calls : room[x].status = "unborn"
        placed == [w EXCEPT !.room[c] = [@ EXCEPT !.status = "ringing", !.caller = o,
                                                  !.member[o] = t, !.ever = {o}]]
    IN IF o \notin People THEN ToTab(w, t, Error("forbidden", None))
       ELSE IF People = {o} THEN ToTab(w, t, Error("not_supported", None))
       ELSE IF f.sdp = IsGroup THEN ToTab(w, t, Error("bad_frame", None))
       ELSE IF busy # {} THEN ToTab(w, t, Error("call_exists", CHOOSE x \in busy : TRUE))
       ELSE ToOwners(ToTab(placed, t, Down("ringing", c, None, People, FALSE, "")),
                     People \ {o}, Down("incoming", c, o, People, f.sdp, ""))

(* A place is won when it is free or held by the same tab (its session).   *)
Won(t, c) == room[c].member[OwnerOf[t]] \in {None, t}
Lost(w, t, c) == ToTab(w, t, Down("ended", c, None, {}, FALSE, "answered_elsewhere"))
Seated(w, t, c) == [w EXCEPT !.room[c].member[OwnerOf[t]] = t, !.room[c].status = "active",
                             !.room[c].ever = @ \cup {OwnerOf[t]}]

handleAnswer(w, t, f) ==
    LET c == f.id
        o == OwnerOf[t]
    IN IF ~Live(c) THEN ToTab(w, t, Error("call_gone", None))
       ELSE IF o = room[c].caller THEN ToTab(w, t, Error("forbidden", None))
       ELSE IF ~Won(t, c) THEN Lost(w, t, c)
       ELSE ToOwners(ToOwners(Seated(w, t, c), {room[c].caller}, Down("answered", c, o, {}, TRUE, "")),
                     {o}, Down("ended", c, None, {}, FALSE, "answered_elsewhere"))

handleJoin(w, t, f) ==
    LET c == f.id
    IN IF ~Live(c) THEN ToTab(w, t, Error("call_gone", None))
       ELSE IF ~Won(t, c) THEN Lost(w, t, c)
       ELSE announceParticipant(Seated(w, t, c), c, OwnerOf[t])

(* After a departure a group call that ran out of people ends.             *)
Spent(w, c, reason) ==
    LET left == Cardinality(Joined(w.room[c]))
    IN IF left = 0 THEN endCall(w, c, reason, None)
       ELSE IF room[c].status = "active" /\ left < 2 THEN endCall(w, c, "empty", None)
       ELSE w

Gone(w, c, o) == [w EXCEPT !.room[c].member[o] = None]

leaveGroupCall(w, c, o, reason) ==
    LET left == [Gone(w, c, o) EXCEPT !.room[c].dismissed = @ \cup {o}]
    IN Spent(announceParticipant(left, c, o), c, reason)

handleHangup(w, t, f) ==
    LET c == f.id
        o == OwnerOf[t]
    IN IF c = None THEN ToTab(w, t, Error("bad_frame", None))
       ELSE IF ~Live(c) THEN ToTab(w, t, Error("call_gone", None))
       ELSE IF IsGroup THEN leaveGroupCall(w, c, o, f.reason)
       ELSE endCall(w, c, f.reason, o)

(* The number of call ids bounds the calls that may be placed.             *)
Serve(t) ==
    /\ t \in conn /\ net.up[t] # <<>>
    /\ Head(net.up[t]).kind = "invite" => \E c \in Calls : room[c].status = "unborn"
    /\ LET f == Head(net.up[t])
           w == [room |-> room, net |-> [net EXCEPT !.up[t] = Tail(@)]]
           r == CASE f.kind = "invite" -> handleInvite(w, t, f)
                  [] f.kind = "answer" -> handleAnswer(w, t, f)
                  [] f.kind = "join"   -> handleJoin(w, t, f)
                  [] f.kind = "hangup" -> handleHangup(w, t, f)
       IN /\ room' = r.room
          /\ net' = r.net
          \* The same session on a new connection takes its place over.
          /\ closing' = [closing EXCEPT ![t] = {c \in @ : f.kind \notin {"join", "answer"} \/ f.id # c}]
    /\ UNCHANGED <<plan, tab, store, conn, row, misled, cut>>

(* Nobody answered in time.                                                *)
RingTimesOut(c) ==
    /\ room[c].status = "ringing"
    /\ LET w == endCall([room |-> room, net |-> net], c, "missed", None)
       IN room' = w.room /\ net' = w.net
    /\ UNCHANGED <<plan, tab, store, conn, closing, row, misled, cut>>

(* The socket drops: what is on its way either way is lost.                *)
Drop(t) ==
    /\ t \in conn /\ Spend(t, "drops")
    /\ conn' = conn \ {t}
    /\ net' = [up |-> [net.up EXCEPT ![t] = <<>>], down |-> [net.down EXCEPT ![t] = <<>>],
               bus |-> [net.bus EXCEPT ![t] = <<>>]]
    /\ closing' = [closing EXCEPT ![t] = @ \cup {c \in Calls : room[c].member[OwnerOf[t]] = t}]
    /\ cut' = cut \cup {t}
    /\ UNCHANGED <<tab, store, room, row, misled>>

(* releaseCalls for one call of the closed connection, if the connection   *)
(* still holds the place.                                                  *)
Release(t) ==
    \E c \in closing[t] :
        /\ closing' = [closing EXCEPT ![t] = @ \ {c}]
        /\ LET o == OwnerOf[t]
               w == [room |-> room, net |-> net]
               r == IF ~Live(c) \/ room[c].member[o] # t THEN w
                    ELSE IF ~IsGroup THEN endCall(w, c, "hangup", o)
                    ELSE Spent(announceParticipant(Gone(w, c, o), c, o), c, "hangup")
           IN room' = r.room /\ net' = r.net
        /\ UNCHANGED <<plan, tab, store, conn, row, misled, cut>>

(* On connect the server rings the calls this person has not decided about.*)
ringPending(t) ==
    LET o == OwnerOf[t]
        pending == {c \in Calls : Live(c) /\ o \in People \ (room[c].ever \cup room[c].dismissed)}
        frames == {Down("incoming", c, room[c].caller, People, FALSE, "") : c \in pending}
    IN SetToSeq(frames)

Reconnect(t) ==
    /\ t \in plan.tabs \ conn
    /\ conn' = conn \cup {t}
    /\ net' = [net EXCEPT !.down[t] = ringPending(t)]
    /\ UNCHANGED <<plan, tab, store, closing, room, row, misled, cut>>

-----------------------------------------------------------------------------
(* CallService: handlers over u = [tab, out], `out` what the tab sends.    *)

Say(u, f) == [u EXCEPT !.out = Append(@, f)]
Patch(u, call) == [u EXCEPT !.tab.call = call]

(* teardown, and the call is gone: it stops the stream that localMedia      *)
(* refers to.  A description being made on a closed connection is not what  *)
(* it was.                                                                  *)
finish(u) ==
    [u EXCEPT !.tab = [call |-> NoCall, timer |-> FALSE, mic |-> [u.tab.mic EXCEPT !.held = FALSE],
                       jobs |-> [i \in DOMAIN u.tab.jobs |->
                                   [u.tab.jobs[i] EXCEPT !.torn = @ \/ u.tab.jobs[i].stage = "describe"]]]]

fail(u) ==
    finish(IF u.tab.call.id # None THEN Say(u, Up("hangup", u.tab.call.id, FALSE, "ice_failed")) ELSE u)

abandonJoin(u) == finish(u)

(* The captures of a tab that the browser has not answered.                *)
Asking(jobs) == {i \in DOMAIN jobs : jobs[i].opens /\ jobs[i].stage = "capture"}

(* openLocalMedia up to its await: the browser is asked unless localMedia   *)
(* is there.                                                                *)
Capture(u, why, id, bare) ==
    LET opens == ~u.tab.mic.held
    IN [u EXCEPT !.tab.jobs = Append(@, Job(why, id, bare, opens)),
                 !.tab.mic.met = @ \/ (opens /\ Asking(u.tab.jobs) # {})]

(* The join is sent before the microphone is asked for.                    *)
joinOngoing(u, id, people) ==
    LET claimed == Say([u EXCEPT !.tab.call = [NoCall EXCEPT !.state = "connecting", !.dir = "outgoing",
                                                             !.id = id, !.people = people],
                                 !.tab.timer = TRUE],
                       Up("join", id, FALSE, ""))
    IN Capture(claimed, "join", id, TRUE)

startCall(u, o) ==
    Capture(Patch(u, [NoCall EXCEPT !.state = "ringing", !.dir = "outgoing",
                                    !.people = plan.believed \cup {o}, !.joined = {o}]),
            "start", None, Cardinality(plan.believed \cup {o}) > 2)

accept(u) ==
    LET call == u.tab.call
    IN Capture(Patch(u, [call EXCEPT !.state = "connecting"]), "accept", call.id,
               Cardinality(call.people) > 2 \/ ~call.offer)

hangUp(u, reason) ==
    LET call == u.tab.call
        resolved == IF reason # "" THEN reason
                    ELSE IF call.dir = "incoming" /\ call.state = "ringing" THEN "declined" ELSE "hangup"
    IN finish(IF call.id # None THEN Say(u, Up("hangup", call.id, FALSE, resolved)) ELSE u)

Dialling(call) == call.dir = "outgoing" /\ call.state = "ringing" /\ call.id = None

onRinging(u, f) ==
    IF u.tab.call = NoCall THEN u
    ELSE Patch(u, [u.tab.call EXCEPT !.id = f.id, !.people = f.owners])

Ringing(f) == [NoCall EXCEPT !.state = "ringing", !.dir = "incoming", !.id = f.id,
                             !.people = f.owners, !.offer = f.sdp]

onIncoming(u, f, me) ==
    LET call == u.tab.call
        yields == call.dir = "outgoing" /\ call.state = "ringing" /\ Rank[me] < Rank[f.from]
    IN IF call = NoCall THEN Patch(u, Ringing(f))
       ELSE IF ~yields THEN Say(u, Up("hangup", f.id, FALSE, "busy"))
       ELSE Patch(finish(Say(u, Up("hangup", call.id, FALSE, "hangup"))), Ringing(f))

(* Only a tab whose connection to the callee is there takes the answer.    *)
onAnswered(u, f) ==
    LET call == u.tab.call
    IN IF call = NoCall \/ (call.id # None /\ call.id # f.id) \/ u.tab.jobs # <<>> THEN u
       ELSE Patch(u, [call EXCEPT !.state = "connecting", !.joined = @ \cup {f.from}])

(* A plausible slip: the timer is stopped by any announcement.             *)
onParticipantAnybody(u, f, me) ==
    LET call == u.tab.call
        seen == Patch(u, [call EXCEPT !.joined = f.owners])
    IN IF call = NoCall \/ (call.id # None /\ call.id # f.id) THEN u
       ELSE [seen EXCEPT !.tab.timer = FALSE,
                         !.tab.call.state = IF f.owners # {me} /\ @ = "ringing" THEN "connecting" ELSE @]

(* The place of this person is confirmed: a Join in flight has succeeded.  *)
onParticipant(u, f, me) ==
    LET call == u.tab.call
        seen == Patch(u, [call EXCEPT !.joined = f.owners])
    IN IF call = NoCall \/ (call.id # None /\ call.id # f.id) THEN u
       ELSE IF me \notin f.owners THEN seen
       ELSE [seen EXCEPT !.tab.timer = FALSE,
                         !.tab.call.state = IF f.owners # {me} /\ @ = "ringing" THEN "connecting" ELSE @]

onEnded(u, f) ==
    LET call == u.tab.call
        elsewhere == f.reason = "answered_elsewhere"
    IN IF call = NoCall \/ (call.id # None /\ call.id # f.id) THEN u
       ELSE IF elsewhere /\ u.tab.timer THEN abandonJoin(u)
       ELSE IF elsewhere /\ call.state # "ringing" THEN u
       ELSE finish(u)

(* A plausible slip: one of the refusals is not known to be one.           *)
onServerErrorLate(u, f) ==
    LET call == u.tab.call
        code == f.reason
    IN IF call = NoCall THEN u
       ELSE IF code = "call_gone" /\ u.tab.timer THEN abandonJoin(u)
       ELSE IF ~Dialling(call) THEN u
       ELSE IF code = "call_exists" THEN joinOngoing(finish(u), f.id, call.people)
       ELSE IF code \in {"not_supported", "forbidden"} THEN finish(u)
       ELSE u

onServerError(u, f) ==
    LET call == u.tab.call
        code == f.reason
    IN IF call = NoCall THEN u
       ELSE IF code = "call_gone" /\ u.tab.timer THEN abandonJoin(u)
       ELSE IF ~Dialling(call) THEN u
       ELSE IF code = "call_exists" THEN joinOngoing(finish(u), f.id, call.people)
       ELSE IF code \in {"not_supported", "forbidden", "bad_frame"} THEN finish(u)
       ELSE u

onFrame(u, f, me) ==
    CASE f.kind = "ringing"     -> onRinging(u, f)
      [] f.kind = "incoming"    -> onIncoming(u, f, me)
      [] f.kind = "answered"    -> onAnswered(u, f)
      [] f.kind = "participant" -> onParticipant(u, f, me)
      [] f.kind = "ended"       -> onEnded(u, f)
      [] f.kind = "error"       -> onServerError(u, f)

-----------------------------------------------------------------------------
(* ChatStore: the call rows of the thread.                                 *)

(* One refreshCalls; `watch` is callsRefreshing.  Past plan.fetches the    *)
(* requests fail, and a failed request changes nothing.                    *)
refreshCalls(t, s, id, until, watch) ==
    IF t \notin plan.watchers \/ Len(s.fetch) >= plan.fetches THEN s
    ELSE [s EXCEPT !.fetch = Append(@, [id |-> id, until |-> until, watch |-> watch, reply |-> <<>>,
                                        left |-> IF id = None THEN 1 ELSE Tries])]

applyCallParticipants(t, s, c) ==
    IF s.rows[c] # "none" \/ c \notin s.rung \/ (\E i \in DOMAIN s.fetch : s.fetch[i].watch /\ s.fetch[i].id = c)
    THEN s
    ELSE refreshCalls(t, s, c, "present", TRUE)

(* A plausible slip: only the rows are asked again.                        *)
markNothing(s, c) == s

markCallEnded(s, c) == [s EXCEPT !.ended = @ \cup {c}]

applyFrame(t, s, f) ==
    LET c == f.id
        told == [markCallEnded(s, c) EXCEPT !.rung = @ \ {c}]
    IN CASE f.kind = "incoming" -> [s EXCEPT !.rung = @ \cup {c}]
         [] f.kind = "participant" -> applyCallParticipants(t, s, c)
         [] f.kind = "ended" -> IF s.rows[c] # "none" \/ c \in s.rung
                                THEN refreshCalls(t, told, c, "ended", FALSE) ELSE told
         [] OTHER -> s

(* The Join buttons the thread may show.                                   *)
ongoingCallOf(t) ==
    {c \in Calls : store[t].rows[c] = "open" /\ c # tab[t].call.id /\ c \notin store[t].ended}

-----------------------------------------------------------------------------
(* One task of a tab: its handlers run, its frames leave (or are dropped   *)
(* by a closed socket), then the effect that watches the call runs.        *)

Start(t) == [tab |-> tab[t], out |-> <<>>]

Sent(n, t, out) == IF t \in conn THEN [n EXCEPT !.up[t] = @ \o out] ELSE n

Task(t, u, s, n) ==
    /\ tab' = [tab EXCEPT ![t] = u.tab]
    /\ net' = Sent(n, t, u.out)
    /\ cut' = IF t \notin conn /\ u.out # <<>> THEN cut \cup {t} ELSE cut
    /\ store' = [store EXCEPT ![t] = IF tab[t].call # NoCall /\ u.tab.call = NoCall
                                    THEN refreshCalls(t, s, tab[t].call.id, "ended", FALSE) ELSE s]
    /\ UNCHANGED <<conn, closing, room, row>>

Relay(t) ==
    /\ net.bus[t] # <<>>
    /\ net' = [net EXCEPT !.bus[t] = Tail(@), !.down[t] = Append(@, Head(net.bus[t]))]
    /\ UNCHANGED <<plan, tab, store, conn, closing, room, row, misled, cut>>

(* The person has left a group call, or the tab is about to say so.        *)
Left(t, c) ==
    /\ IsGroup
    /\ \/ OwnerOf[t] \in room[c].dismissed
       \/ \E i \in DOMAIN net.up[t] : net.up[t][i].kind = "hangup" /\ net.up[t][i].id = c

(* The tab takes a frame for what it is not: the answer to a dial its       *)
(* person gave up, the ring of a call they are in or have left, the refusal *)
(* of another frame for that of its Join (refusals name no call), the news  *)
(* of another call for that of the one being dialled (it has no id yet).    *)
Misleads(t, f) ==
    LET call == tab[t].call
    IN \/ f.kind = "ringing" /\ ~Dialling(call)
       \/ f.kind = "incoming" /\ f.id = call.id
       \/ f.kind \in {"ringing", "incoming"} /\ Left(t, f.id)
       \/ f.kind = "error" /\ f.reason = "call_gone" /\ tab[t].timer /\ Live(call.id)
       \/ /\ f.kind \in {"answered", "participant"} /\ IsGroup
          /\ Dialling(call) /\ ~Dialling(onFrame(Start(t), f, OwnerOf[t]).tab.call)

Receive(t) ==
    /\ net.down[t] # <<>>
    /\ LET f == Head(net.down[t])
       IN /\ Task(t, onFrame(Start(t), f, OwnerOf[t]), applyFrame(t, store[t], f),
                  [net EXCEPT !.down[t] = Tail(@)])
          /\ misled' = IF Misleads(t, f) THEN misled \cup {t} ELSE misled
    /\ UNCHANGED plan

Dial(t) ==
    /\ t \in plan.tabs /\ tab[t].call = NoCall
    /\ Spend(t, "dials")
    /\ Task(t, startCall(Start(t), OwnerOf[t]), store[t], net)
    /\ UNCHANGED misled

Accept(t) ==
    /\ tab[t].call.dir = "incoming" /\ tab[t].call.state = "ringing"
    /\ Spend(t, "accepts")
    /\ Task(t, accept(Start(t)), store[t], net)
    /\ UNCHANGED misled

HangUp(t) ==
    /\ tab[t].call # NoCall
    /\ Spend(t, "hangups")
    /\ Task(t, hangUp(Start(t), ""), store[t], net)
    /\ UNCHANGED misled

(* Join, on the banner of the thread.                                      *)
Join(t) ==
    /\ tab[t].call = NoCall
    /\ Spend(t, "joins")
    /\ \E c \in ongoingCallOf(t) : Task(t, joinOngoing(Start(t), c, People), store[t], net)
    /\ UNCHANGED misled

JoinTimesOut(t) ==
    /\ tab[t].timer
    /\ Task(t, IF tab[t].call.state = "connecting" THEN abandonJoin(Start(t))
               ELSE [Start(t) EXCEPT !.tab.timer = FALSE], store[t], net)
    /\ misled' = misled \cup {t}
    /\ UNCHANGED plan

-----------------------------------------------------------------------------
(* What the browser answers.                                               *)

(* The frame a job sends once it has what it waited for.                   *)
Announce(u, job) ==
    CASE job.why = "start"  -> Say(u, Up("invite", None, ~job.bare, ""))
      [] job.why = "accept" -> Say(u, IF job.bare THEN Up("join", job.id, FALSE, "")
                                      ELSE Up("answer", job.id, TRUE, ""))
      [] job.why = "join"   -> u

(* A plausible slip: nobody looks whether the call is still there.         *)
openBlindly(u, job) == IF job.opens THEN [u EXCEPT !.tab.mic.held = TRUE, !.tab.mic.lost = @ \/ u.tab.mic.held] ELSE u

(* openLocalMedia from its await: a capture that comes after its call is    *)
(* stopped; one that finds another there takes its place in localMedia, and *)
(* that one runs on.                                                        *)
openLocalMedia(u, job) ==
    IF job.opens /\ u.tab.call # NoCall
    THEN [u EXCEPT !.tab.mic.held = TRUE, !.tab.mic.lost = @ \/ u.tab.mic.held]
    ELSE u

Drained(u, i) == [u EXCEPT !.tab.jobs = RemoveAt(@, i)]

(* A job that enters a call its person has hung up on in the meantime.     *)
Strays(t, job) == IF job.why = "accept" /\ tab[t].call.id # job.id THEN misled \cup {t} ELSE misled

CaptureResolves(t) ==
    \E i \in DOMAIN tab[t].jobs :
        LET job == tab[t].jobs[i]
            u == openLocalMedia(Start(t), job)
            done == job.bare \/ job.why = "join"
        IN /\ job.stage = "capture"
           /\ Task(t, IF done THEN Announce(Drained(u, i), job)
                      ELSE [u EXCEPT !.tab.jobs[i].stage = "describe"], store[t], net)
           /\ misled' = IF done THEN Strays(t, job) ELSE misled
           /\ UNCHANGED plan

(* Torn down in between: with the connection made already its description  *)
(* fails, and that failure hangs up whatever call there is by now; with    *)
(* the connection still being made, the invite or the answer goes out.     *)
DescriptionReady(t) ==
    \E i \in DOMAIN tab[t].jobs :
        LET job == tab[t].jobs[i]
            u == [Drained(Start(t), i) EXCEPT !.tab.call.offer = @ /\ job.why # "accept"]
        IN /\ job.stage = "describe"
           /\ \/ /\ Task(t, Announce(u, job), store[t], net)
                 /\ misled' = Strays(t, job)
              \/ /\ job.torn
                 /\ Task(t, fail(Drained(Start(t), i)), store[t], net)
                 /\ UNCHANGED misled
           /\ UNCHANGED plan

(* The microphone is refused, or the description fails.  A Join goes on    *)
(* without a microphone.                                                   *)
JobFails(t) ==
    \E i \in DOMAIN tab[t].jobs :
        LET job == tab[t].jobs[i]
            u == Drained(Start(t), i)
        IN /\ job.opens \/ job.stage = "describe"
           /\ Spend(t, "faults")
           /\ Task(t, IF job.why = "join" THEN u ELSE fail(u), store[t], net)
           /\ UNCHANGED misled

InCall(t) == tab[t].call.state \in {"connecting", "active"}

MediaConnects(t) ==
    /\ tab[t].call.state = "connecting" /\ tab[t].jobs = <<>>
    /\ \E x \in Tabs : OwnerOf[x] # OwnerOf[t] /\ InCall(x) /\ tab[x].call.id = tab[t].call.id
    /\ Task(t, [Start(t) EXCEPT !.tab.call.state = "active"], store[t], net)
    /\ UNCHANGED <<plan, misled>>

(* No candidate pair works, or stops working: a 1:1 call hangs up.         *)
MediaFails(t) ==
    /\ InCall(t) /\ tab[t].jobs = <<>> /\ Cardinality(tab[t].call.people) = 2
    /\ Spend(t, "faults")
    /\ Task(t, hangUp(Start(t), "ice_failed"), store[t], net)
    /\ UNCHANGED misled

-----------------------------------------------------------------------------
(* The history: the projector of messenger-service comes along some time   *)
(* later, and a request reads what it has written so far.                  *)

Project(c) ==
    /\ plan.watchers # {}
    /\ \/ room[c].status = "active" /\ row[c] = "none" /\ row' = [row EXCEPT ![c] = "open"]
       \/ room[c].status = "over" /\ row[c] # "ended" /\ row' = [row EXCEPT ![c] = "ended"]
    /\ UNCHANGED <<plan, tab, store, conn, net, closing, room, misled, cut>>

OpenThread(t) ==
    /\ t \in plan.tabs /\ Spend(t, "opens")
    /\ store' = [store EXCEPT ![t] = refreshCalls(t, @, None, "present", FALSE)]
    /\ UNCHANGED <<tab, conn, net, closing, room, row, misled, cut>>

Fetch(t) ==
    \E i \in DOMAIN store[t].fetch :
        /\ store[t].fetch[i].reply = <<>>
        /\ store' = [store EXCEPT ![t].fetch[i].reply = <<row>>]
        /\ UNCHANGED <<plan, tab, conn, net, closing, room, row, misled, cut>>

(* A refresh stops at the row it waits for, or after its last fetch.       *)
Settled(r, got) ==
    \/ r.left = 1
    \/ got[r.id] = "ended"
    \/ got[r.id] = "open" /\ r.until = "present"

Land(t) ==
    \E i \in DOMAIN store[t].fetch :
        LET r == store[t].fetch[i]
            got == Head(r.reply)
            s == [store[t] EXCEPT !.rows = got]
        IN /\ r.reply # <<>>
           /\ store' = [store EXCEPT ![t] =
                          IF Settled(r, got) THEN [s EXCEPT !.fetch = RemoveAt(@, i)]
                          ELSE [s EXCEPT !.fetch[i].left = @ - 1, !.fetch[i].reply = <<>>]]
           /\ UNCHANGED <<plan, tab, conn, net, closing, room, row, misled, cut>>

-----------------------------------------------------------------------------
Next ==
    \/ \E t \in Tabs :
          \/ Serve(t) \/ Drop(t) \/ Release(t) \/ Reconnect(t) \/ Relay(t) \/ Receive(t)
          \/ Dial(t) \/ Accept(t) \/ HangUp(t) \/ Join(t) \/ JoinTimesOut(t)
          \/ CaptureResolves(t) \/ DescriptionReady(t) \/ JobFails(t)
          \/ MediaConnects(t) \/ MediaFails(t)
          \/ OpenThread(t) \/ Fetch(t) \/ Land(t)
    \/ \E c \in Calls : RingTimesOut(c) \/ Project(c)

Spec == Init /\ [][Next]_vars

(* A timer that is set goes off.                                           *)
FairSpec == Spec /\ \A t \in Tabs : WF_vars(JoinTimesOut(t))

-----------------------------------------------------------------------------
Alone(t) == \A x \in plan.tabs \ {t} : OwnerOf[x] # OwnerOf[t]

(* Every frame has arrived, no continuation is pending.                    *)
Rest ==
    /\ \A t \in Tabs : /\ net.up[t] = <<>> /\ net.down[t] = <<>> /\ net.bus[t] = <<>>
                        /\ tab[t].jobs = <<>> /\ closing[t] = {}

(* At rest the dock and the room tell the same story: a tab that shows a   *)
(* call holds that person's place in it, a tab that rings is asked about a *)
(* live call its person has not decided about, and a place in a room has   *)
(* its call on screen - whatever was refused, timed out, hung up, joined   *)
(* instead of placed, or crossed on the way.  (For the only tab of a       *)
(* person, whose socket lost nothing, and that took none of the steps no   *)
(* later frame sets right: to enter a call its person had hung up on, to   *)
(* give up joining without saying so, to take a frame for what it is not.) *)
RoomsAgree ==
    Rest =>
      \A t \in plan.tabs \ (cut \cup misled) :
        LET o == OwnerOf[t]
            call == tab[t].call
        IN Alone(t) =>
             /\ call.dir = "outgoing" \/ InCall(t) =>
                   call.id # None /\ Live(call.id) /\ room[call.id].member[o] = t
             /\ call.dir = "incoming" /\ call.state = "ringing" =>
                   Live(call.id) /\ o \notin room[call.id].ever \cup room[call.id].dismissed
             /\ \A c \in Calls : room[c].member[o] = t => call.id = c

(* "The call we pressed Join on is already over": who gives up joining     *)
(* because a call is gone was refused that very call.                      *)
GoneIsOver ==
    \A t \in Tabs :
        tab[t].timer /\ net.down[t] # <<>> /\ Head(net.down[t]).reason = "call_gone" => ~Live(tab[t].call.id)

(* "The conversation already has a call, so this invite becomes a join":   *)
(* once every frame has arrived no dock shows a call the server has not    *)
(* named (for a tab whose socket lost nothing).                            *)
DialsAreAnswered == Rest => \A t \in plan.tabs \ cut : tab[t].call # NoCall => tab[t].call.id # None

(* Once a tab has heard that a call ended, no history that was read before *)
(* the projector caught up makes the thread offer to join it again (for a  *)
(* tab whose socket lost nothing).                                         *)
BannerIsHonest ==
    \A t \in plan.tabs \ cut : net.bus[t] = <<>> /\ net.down[t] = <<>> => \A c \in ongoingCallOf(t) : Live(c)

(* The stream in localMedia is a call's: a capture that comes after the     *)
(* call has gone is let go (openLocalMedia), and whatever ends a call stops *)
(* it.  Nothing else is recorded, unless two captures were asked for before *)
(* the first was there.                                                     *)
MicrophoneFollowsCall ==
    \A t \in Tabs : /\ tab[t].mic.held => tab[t].call # NoCall
                    /\ tab[t].mic.lost => tab[t].mic.met

(* Not so: no "live recording indicator and a stream nothing will ever      *)
(* stop" is left without a call (openLocalMedia).  Of two captures that are *)
(* there together the second overwrites the first.                          *)
NoStrayMicrophone == \A t \in Tabs : tab[t].mic.held \/ tab[t].mic.lost => tab[t].call # NoCall

(* A Join does not hang: the place is confirmed, or media flows, or the    *)
(* dock gives up, also when the frame or its answer was lost.              *)
JoinResolves ==
    \A t \in Tabs :
        (tab[t].call.dir = "outgoing" /\ tab[t].call.state = "connecting" /\ tab[t].call.joined = {} /\ tab[t].timer)
        ~> (tab[t].call = NoCall \/ OwnerOf[t] \in tab[t].call.joined \/ tab[t].call.state = "active")
=============================================================================
