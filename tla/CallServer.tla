----------------------------- MODULE CallServer -----------------------------
(***************************************************************************)
(* The call handlers of realtime-service (internal/wsapi): invite, answer, *)
(* join, hang-up, the release on socket close, the ring timer and the      *)
(* orphan reaper.  Every connection is a process that handles one frame at *)
(* a time; every ring timer and every instance's reaper is a process too.  *)
(* A step is one Redis command or publish with the local work around it,   *)
(* so handlers interleave exactly where the code lets them.                *)
(***************************************************************************)
EXTENDS CallRegistry

CONSTANTS
    Late,          \* connections that open after the start, as a late sign-in
    Dialers,       \* bound: connections that send call.invite
    Reapers,       \* bound: instances whose periodic sweep is explored
    MaxFrames,     \* bound: frames the clients send altogether
    MaxCloses,     \* bound: sockets that close
    Mortal,        \* bound: instances that may die
    MaxCrashes,    \* bound: how often they die
    MaxRestarts,   \* bound: instances that come back under the same INSTANCE_ID
    MaxFaults      \* bound: Redis commands that fail

ASSUME BoundsAreNumbers ==
    /\ Late \in SUBSET Conns /\ Dialers \in SUBSET Conns
    /\ Reapers \in SUBSET Instances /\ Mortal \in SUBSET Instances
    /\ {MaxFrames, MaxCloses, MaxCrashes, MaxRestarts, MaxFaults} \subseteq Nat

VARIABLES
    up,        \* instances whose process runs
    sock,      \* each connection: "off", "open", "closing" or "gone"
    tracked,   \* conn.calls: what the connection releases when it closes
    armed,     \* ringTimers: calls whose timer is set (on the inviter's instance)
    loc,       \* what each process is doing and what it has read so far
    heard,     \* calls each connection was told of: call.incoming, call_exists
    rang,      \* history: calls whose call.incoming was published
    started,   \* history: call.started events of each call
    missed,    \* history: owners named by call.missed events of each group call
    told,      \* history: <<call, life>> whose ending was announced
    spent      \* how much of each bound is used

proc == <<sock, tracked, armed, loc>>
events == <<heard, rang, started, missed, told>>
vars == <<info, registry, alive, up, proc, events, spent>>

Procs == Conns \cup Calls \cup Instances      \* a call stands for its ring timer

Labels == {"idle", "pending", "pget", "pjoined", "pdismissed",
           "claim", "holder", "steal", "save", "unclaim", "index", "room", "hjoin",
           "sadd", "ring", "arm", "activate", "reclaim", "started",
           "leave", "dismiss", "count", "release", "relleave",
           "end", "consume", "cleanup", "unindex", "announce",
           "tget", "scan", "look", "members", "reap"}
Reasons == {"hangup", "declined", "empty", "missed"}

Blank == [pc |-> "idle", op |-> "none", call |-> None, other |-> None,
          seen |-> "none", why |-> "hangup", mine |-> 0, owners |-> {},
          calls |-> {}, found |-> {}, live |-> {}, fresh |-> {}]

Local == [pc : Labels, op : {"none", "invite", "join"}, call : Calls \cup {None},
          other : Calls \cup {None}, seen : Status, why : Reasons, mine : Nat,
          owners : SUBSET Owners, calls : SUBSET Calls, found : SUBSET Calls,
          live : SUBSET Instances, fresh : SUBSET (Calls \X Conns)]

Bounds == [frames : Nat, closes : Nat, crashes : Nat, restarts : Nat, faults : Nat]

TypeOK ==
    /\ RegistryTypeOK
    /\ up \in SUBSET Instances
    /\ sock \in [Conns -> {"off", "open", "closing", "gone"}]
    /\ tracked \in [Conns -> SUBSET Calls]
    /\ armed \in SUBSET Calls
    /\ loc \in [Procs -> Local]
    /\ heard \in [Conns -> SUBSET Calls]
    /\ rang \in SUBSET Calls
    /\ started \in [Calls -> Nat]
    /\ missed \in [Calls -> SUBSET Owners]
    /\ told \in SUBSET (Calls \X Nat)
    /\ spent \in Bounds

Init ==
    /\ RegistryInit
    /\ up = Instances
    /\ sock = [c \in Conns |-> IF c \in Late THEN "off" ELSE "open"]
    /\ tracked = [c \in Conns |-> {}]
    /\ armed = {}
    /\ loc = [p \in Procs |-> Blank]
    /\ heard = [c \in Conns |-> {}]
    /\ rang = {}
    /\ started = [d \in Calls |-> 0]
    /\ missed = [d \in Calls |-> {}]
    /\ told = {}
    /\ spent = [frames |-> 0, closes |-> 0, crashes |-> 0, restarts |-> 0, faults |-> 0]

-----------------------------------------------------------------------------
(* Moving a process on. *)

At(p, label) == loc[p].pc = label
InHand(p) == loc[p].call
Become(p, l) == loc' = [loc EXCEPT ![p] = l]
Goto(p, label) == Become(p, [loc[p] EXCEPT !.pc = label])

(* Where a process goes when it is done with the call in hand: a closing     *)
(* socket and a sweep have more calls to see to, a handler returns to the    *)
(* read loop.                                                                *)
LoopHead(p) ==
    IF p \in Instances THEN "reap"
    ELSE IF p \in Conns /\ sock[p] = "closing" THEN "release" ELSE "idle"

Home(p) ==
    IF LoopHead(p) = "idle" THEN Blank
    ELSE [Blank EXCEPT !.pc = LoopHead(p), !.calls = loc[p].calls,
                       !.live = loc[p].live, !.fresh = loc[p].fresh]
Finish(p) == Become(p, Home(p))

InstanceRunning(p) ==
    IF p \in Conns THEN InstanceOf[p]
    ELSE IF p \in Calls THEN (IF Minted(p) THEN InstanceOf[info[p].host] ELSE None)
    ELSE p

(* cancelRingTimeout: the timer map is this process's own memory.            *)
CancelTimer(p, d) ==
    armed' = IF InstanceOf[info[d].host] = InstanceRunning(p) THEN armed \ {d} ELSE armed

(* Participants are kept sorted, so loops over them run in one fixed order.  *)
First(owners) == CHOOSE o \in owners : TRUE

(* A handler takes a frame from the socket.                                  *)
Receive(c) ==
    /\ sock[c] = "open" /\ At(c, "idle") /\ spent.frames < MaxFrames
    /\ spent' = [spent EXCEPT !.frames = @ + 1]

(* A client names a call it rang or was told of, or reads it off the thread, *)
(* where call.started puts it; a reloaded tab still has its own.             *)
Knows(c, d) ==
    \/ d \in heard[c] \/ started[d] > 0
    \/ c = info[d].host
    \/ Minted(d) /\ SessionOf[c] # None /\ SessionOf[c] = SessionOf[info[d].host]

-----------------------------------------------------------------------------
(* Connecting: subscribe, then read the rings that went out before.          *)

Connect(c) ==
    /\ sock[c] = "off" /\ InstanceOf[c] \in up
    /\ sock' = [sock EXCEPT ![c] = "open"]
    /\ Become(c, [Blank EXCEPT !.pc = "pending"])
    /\ UNCHANGED <<info, registry, alive, up, tracked, armed, events, spent>>

PendingIndex(c) ==
    /\ At(c, "pending")
    /\ Become(c, [loc[c] EXCEPT !.pc = "pget", !.calls = index[OwnerOf[c]]])
    /\ UNCHANGED <<info, registry, alive, up, sock, tracked, armed, events, spent>>

PendingGet(c) ==
    /\ At(c, "pget")
    /\ \E d \in loc[c].calls :
          Become(c, [loc[c] EXCEPT !.pc = IF Live(d) THEN "pjoined" ELSE "pget",
                                   !.call = d, !.calls = @ \ {d}])
    /\ UNCHANGED <<info, registry, alive, up, sock, tracked, armed, events, spent>>

PendingJoined(c) ==
    /\ At(c, "pjoined")
    /\ Goto(c, IF OwnerOf[c] \in joined[InHand(c)] THEN "pget" ELSE "pdismissed")
    /\ UNCHANGED <<info, registry, alive, up, sock, tracked, armed, events, spent>>

PendingDismissed(c) ==
    /\ At(c, "pdismissed")
    /\ Become(c, [loc[c] EXCEPT !.pc = "pget",
           !.found = IF OwnerOf[c] \in dismissed[InHand(c)] THEN @ ELSE @ \cup {InHand(c)}])
    /\ UNCHANGED <<info, registry, alive, up, sock, tracked, armed, events, spent>>

RingPending(c) ==
    /\ At(c, "pget") /\ loc[c].calls = {}
    /\ heard' = [heard EXCEPT ![c] = @ \cup loc[c].found]
    /\ Become(c, Blank)
    /\ UNCHANGED <<info, registry, alive, up, sock, tracked, armed, rang, started, missed, told, spent>>

-----------------------------------------------------------------------------
(* Inviting. *)

(* The conversation is claimed first; a taken claim is looked into.          *)
Invite(c, v, d) ==
    /\ c \in Dialers /\ Receive(c)
    /\ ~Minted(d)
    /\ OwnerOf[c] \in People[v]
    /\ Cardinality(People[v]) \in 2 .. MaxParticipants
    /\ info' = [info EXCEPT ![d] = [host |-> c, conv |-> v]]
    /\ Become(c, [Blank EXCEPT !.pc = "claim", !.op = "invite", !.call = d, !.seen = "ringing"])
    /\ UNCHANGED <<registry, alive, up, sock, tracked, armed, events>>

ClaimConversation(c) ==
    /\ At(c, "claim")
    /\ LET d == InHand(c)
           v == info[d].conv
       IN IF claim[v] = None
          THEN Claim(v, d) /\ Goto(c, "save")
          ELSE /\ Become(c, [loc[c] EXCEPT !.pc = "holder", !.other = claim[v]])
               /\ UNCHANGED registry
    /\ UNCHANGED <<info, alive, up, sock, tracked, armed, events, spent>>

(* A live holder refuses the invite (call_exists); a gone one is taken over. *)
CheckHolder(c) ==
    /\ At(c, "holder")
    /\ IF Live(loc[c].other)
       THEN Finish(c) /\ heard' = [heard EXCEPT ![c] = @ \cup {loc[c].other}]
       ELSE Goto(c, "steal") /\ UNCHANGED heard
    /\ UNCHANGED <<info, registry, alive, up, sock, tracked, armed, rang, started, missed, told, spent>>

StealClaim(c) ==
    /\ At(c, "steal")
    /\ Claim(info[InHand(c)].conv, InHand(c))
    /\ Goto(c, "save")
    /\ UNCHANGED <<info, alive, up, sock, tracked, armed, events, spent>>

(* Mutant of SaveRinging: the index under the participants is not written.   *)
SaveUnindexed(c) ==
    /\ At(c, "save")
    /\ Save(InHand(c), "ringing")
    /\ Goto(c, "hjoin")
    /\ UNCHANGED <<info, alive, up, sock, tracked, armed, events, spent>>

SaveRinging(c) ==
    /\ At(c, "save")
    /\ Save(InHand(c), "ringing")
    /\ Become(c, [loc[c] EXCEPT !.pc = "index", !.owners = Participants(InHand(c))])
    /\ UNCHANGED <<info, alive, up, sock, tracked, armed, events, spent>>

(* The save failed: whatever holds the claim now is deleted.                 *)
UndoClaim(c) ==
    /\ At(c, "unclaim")
    /\ Claim(info[InHand(c)].conv, None)
    /\ Finish(c)
    /\ UNCHANGED <<info, alive, up, sock, tracked, armed, events, spent>>

IndexOwner(c) ==
    /\ At(c, "index")
    /\ LET o == First(loc[c].owners) IN
       /\ AddToIndex(o, InHand(c))
       /\ Become(c, [loc[c] EXCEPT !.pc = IF loc[c].owners = {o} THEN "hjoin" ELSE "index",
                                   !.owners = @ \ {o}])
    /\ UNCHANGED <<info, alive, up, sock, tracked, armed, events, spent>>

(* call.incoming to every tab of every other participant that listens now.   *)
Ring(c) ==
    /\ At(c, "ring")
    /\ LET d == InHand(c) IN
       /\ tracked' = [tracked EXCEPT ![c] = @ \cup {d}]
       /\ heard' = [b \in Conns |-> IF /\ sock[b] = "open"
                                      /\ OwnerOf[b] \in Participants(d) \ {OwnerOf[c]}
                                   THEN heard[b] \cup {d} ELSE heard[b]]
       /\ rang' = rang \cup {d}
    /\ Goto(c, "arm")
    /\ UNCHANGED <<info, registry, alive, up, sock, armed, started, missed, told, spent>>

ArmRingTimeout(c) ==
    /\ At(c, "arm")
    /\ armed' = armed \cup {InHand(c)}
    /\ Finish(c)
    /\ UNCHANGED <<info, registry, alive, up, sock, tracked, events, spent>>

-----------------------------------------------------------------------------
(* Joining: call.join, and call.answer which is the callee's join of a 1:1.  *)

Join(c, d) ==
    /\ Receive(c)
    /\ Knows(c, d) /\ Live(d)
    /\ OwnerOf[c] \in Participants(d)
    /\ Become(c, [Blank EXCEPT !.pc = IF OwnerOf[c] = Caller(d) THEN "hjoin" ELSE "room",
                               !.op = "join", !.call = d, !.seen = rec[d]])
    /\ UNCHANGED <<info, registry, alive, up, sock, tracked, armed, events>>

CheckRoom(c) ==
    /\ At(c, "room")
    /\ IF Full(InHand(c), OwnerOf[c]) THEN Finish(c) ELSE Goto(c, "hjoin")
    /\ UNCHANGED <<info, registry, alive, up, sock, tracked, armed, events, spent>>

(* The member written carries this connection, so also its instance; a sweep *)
(* under way notes the place as taken after it began.                        *)
HJoin(c) ==
    /\ At(c, "hjoin")
    /\ LET d == InHand(c) IN
       IF JoinWins(d, c)
       THEN /\ SetMember(d, OwnerOf[c], c)
            /\ loc' = [p \in Procs |->
                 IF p = c THEN [loc[c] EXCEPT !.pc = "sadd"]
                 ELSE IF p \in Instances /\ loc[p].pc # "idle"
                 THEN [loc[p] EXCEPT !.fresh = @ \cup {<<d, c>>}]
                 ELSE loc[p]]
       ELSE /\ IF loc[c].op = "invite" THEN Goto(c, "ring") ELSE Finish(c)
            /\ UNCHANGED registry
    /\ UNCHANGED <<info, alive, up, sock, tracked, armed, events, spent>>

(* An answered call is not activated again by those who saw it active.       *)
SAddJoined(c) ==
    /\ At(c, "sadd")
    /\ LET d == InHand(c) IN
       /\ RecordJoin(d, OwnerOf[c])
       /\ IF loc[c].op = "invite"
          THEN Goto(c, "ring") /\ UNCHANGED <<tracked, armed>>
          ELSE /\ tracked' = [tracked EXCEPT ![c] = @ \cup {d}]
               /\ IF loc[c].seen = "active"
                  THEN CancelTimer(c, d) /\ Finish(c)
                  ELSE Goto(c, "activate") /\ UNCHANGED armed
    /\ UNCHANGED <<info, alive, up, sock, events, spent>>

Activate(c) ==
    /\ At(c, "activate")
    /\ Save(InHand(c), "active")
    /\ Goto(c, "reclaim")
    /\ UNCHANGED <<info, alive, up, sock, tracked, armed, events, spent>>

ExtendClaim(c) ==
    /\ At(c, "reclaim")
    /\ Claim(info[InHand(c)].conv, InHand(c))
    /\ CancelTimer(c, InHand(c))
    /\ Goto(c, "started")
    /\ UNCHANGED <<info, alive, up, sock, tracked, events, spent>>

PublishStarted(c) ==
    /\ At(c, "started")
    /\ started' = [started EXCEPT ![InHand(c)] = @ + 1]
    /\ Finish(c)
    /\ UNCHANGED <<info, registry, alive, up, sock, tracked, armed, heard, rang, missed, told, spent>>

-----------------------------------------------------------------------------
(* Hanging up and closing. *)

(* A 1:1 call ends; a group call loses one person.                           *)
Hangup(c, d) ==
    /\ Receive(c)
    /\ Knows(c, d) /\ Live(d)
    /\ OwnerOf[c] \in Participants(d)
    /\ tracked' = [tracked EXCEPT ![c] = @ \ {d}]
    /\ Become(c, [Blank EXCEPT !.pc = IF IsGroup(d) THEN "leave" ELSE "end",
           !.call = d, !.seen = rec[d],
           !.why = IF rec[d] = "ringing" /\ OwnerOf[c] # Caller(d) THEN "declined" ELSE "hangup"])
    /\ UNCHANGED <<info, registry, alive, up, sock, armed, events>>

Leave(c) ==
    /\ At(c, "leave")
    /\ SetMember(InHand(c), OwnerOf[c], None)
    /\ Goto(c, "dismiss")
    /\ UNCHANGED <<info, alive, up, sock, tracked, armed, events, spent>>

DismissLeaver(c) ==
    /\ At(c, "dismiss")
    /\ Dismiss(InHand(c), OwnerOf[c])
    /\ Goto(c, "count")
    /\ UNCHANGED <<info, alive, up, sock, tracked, armed, events, spent>>

(* Whether the departure spent the call, judged with the status read first.  *)
CountMembers(c) ==
    /\ At(c, "count")
    /\ LET left == Cardinality(Members(InHand(c))) IN
       IF left = 0 THEN Goto(c, "end")
       ELSE IF loc[c].seen = "active" /\ left < 2
       THEN Become(c, [loc[c] EXCEPT !.pc = "end", !.why = "empty"])
       ELSE Finish(c)
    /\ UNCHANGED <<info, registry, alive, up, sock, tracked, armed, events, spent>>

Close(c) ==
    /\ sock[c] = "open" /\ At(c, "idle") /\ spent.closes < MaxCloses
    /\ sock' = [sock EXCEPT ![c] = "closing"]
    /\ Become(c, [Blank EXCEPT !.pc = "release", !.calls = tracked[c]])
    /\ spent' = [spent EXCEPT !.closes = @ + 1]
    /\ UNCHANGED <<info, registry, alive, up, tracked, armed, events>>

ReleaseNext(c) ==
    /\ At(c, "release")
    /\ \E d \in loc[c].calls :
          Become(c, [loc[c] EXCEPT !.pc = IF Live(d) THEN "relleave" ELSE "release",
                                   !.call = d, !.seen = rec[d], !.calls = @ \ {d}])
    /\ UNCHANGED <<info, registry, alive, up, sock, tracked, armed, events, spent>>

LeaveIfHeldBy(c) ==
    /\ At(c, "relleave")
    /\ LET d == InHand(c) IN
       IF HeldBy(d, c)
       THEN /\ SetMember(d, OwnerOf[c], None)
            /\ Goto(c, IF IsGroup(d) THEN "count" ELSE "end")
       ELSE Finish(c) /\ UNCHANGED registry
    /\ UNCHANGED <<info, alive, up, sock, tracked, armed, events, spent>>

Closed(c) ==
    /\ At(c, "release") /\ loc[c].calls = {}
    /\ sock' = [sock EXCEPT ![c] = "gone"]
    /\ tracked' = [tracked EXCEPT ![c] = {}]
    /\ Become(c, Blank)
    /\ UNCHANGED <<info, registry, alive, up, armed, events, spent>>

-----------------------------------------------------------------------------
(* endCall, run by a hang-up, a closing socket, a ring timer or a reaper.    *)

EndCancelTimer(p) ==
    /\ At(p, "end")
    /\ CancelTimer(p, InHand(p))
    /\ Goto(p, "consume")
    /\ UNCHANGED <<info, registry, alive, up, sock, tracked, events, spent>>

(* Consuming the record is the right to announce the ending.                 *)
ClaimEnding(p) ==
    /\ At(p, "consume")
    /\ Consume(InHand(p))
    /\ Become(p, [loc[p] EXCEPT !.pc = "cleanup",
                                !.mine = IF Live(InHand(p)) THEN life[InHand(p)] ELSE 0])
    /\ UNCHANGED <<info, alive, up, sock, tracked, armed, events, spent>>

DeleteKeys(p) ==
    /\ At(p, "cleanup")
    /\ CleanUp(InHand(p))
    /\ Become(p, [loc[p] EXCEPT !.pc = "unindex", !.owners = Participants(InHand(p))])
    /\ UNCHANGED <<info, alive, up, sock, tracked, armed, events, spent>>

Unindex(p) ==
    /\ At(p, "unindex")
    /\ LET o == First(loc[p].owners) IN
       /\ RemoveFromIndex(o, InHand(p))
       /\ IF loc[p].owners # {o}
          THEN Become(p, [loc[p] EXCEPT !.owners = @ \ {o}])
          ELSE IF loc[p].mine = 0 THEN Finish(p)
          ELSE Become(p, [loc[p] EXCEPT !.pc = "announce", !.owners = {}])
    /\ UNCHANGED <<info, alive, up, sock, tracked, armed, events, spent>>

(* One missed event per person who never joined a group call, asked of the   *)
(* joined set as it is now; otherwise one event for the call.                *)
AnnounceEnding(p) ==
    /\ At(p, "announce")
    /\ LET d == InHand(p) IN
       /\ told' = told \cup {<<d, loc[p].mine>>}
       /\ missed' = IF loc[p].why = "missed" /\ IsGroup(d)
                    THEN [missed EXCEPT ![d] = @ \cup NeverJoined(d)] ELSE missed
    /\ Finish(p)
    /\ UNCHANGED <<info, registry, alive, up, sock, tracked, armed, heard, rang, started, spent>>

EndCall(p) ==
    \/ EndCancelTimer(p)
    \/ ClaimEnding(p)
    \/ DeleteKeys(p)
    \/ Unindex(p)
    \/ AnnounceEnding(p)

-----------------------------------------------------------------------------
(* The ring timer. *)

RingTimeout(d) ==
    /\ d \in armed /\ At(d, "idle")
    /\ armed' = armed \ {d}
    /\ Become(d, [Blank EXCEPT !.pc = "tget", !.call = d])
    /\ UNCHANGED <<info, registry, alive, up, sock, tracked, events, spent>>

RingTimeoutFired(d) ==
    /\ At(d, "tget")
    /\ IF rec[d] = "ringing"
       THEN Become(d, [loc[d] EXCEPT !.pc = "end", !.seen = "ringing", !.why = "missed"])
       ELSE Become(d, Blank)
    /\ UNCHANGED <<info, registry, alive, up, sock, tracked, armed, events, spent>>

-----------------------------------------------------------------------------
(* The reaper: heartbeats first, then every call record, then the endings.   *)

SweepHeartbeats(i) ==
    /\ i \in up \cap Reapers /\ At(i, "idle")
    /\ Become(i, [Blank EXCEPT !.pc = "scan", !.live = alive])
    /\ UNCHANGED <<info, registry, alive, up, sock, tracked, armed, events, spent>>

SweepScan(i) ==
    /\ At(i, "scan")
    /\ Become(i, [loc[i] EXCEPT !.pc = "look", !.calls = {d \in Calls : Live(d)}])
    /\ UNCHANGED <<info, registry, alive, up, sock, tracked, armed, events, spent>>

SweepGet(i) ==
    /\ At(i, "look")
    /\ \E d \in loc[i].calls :
          Become(i, [loc[i] EXCEPT !.pc = IF Live(d) THEN "members" ELSE "look",
                                   !.call = d, !.calls = @ \ {d}])
    /\ UNCHANGED <<info, registry, alive, up, sock, tracked, armed, events, spent>>

SweepMembers(i) ==
    /\ At(i, "members")
    /\ Become(i, [loc[i] EXCEPT !.pc = "look",
           !.found = IF Orphaned(InHand(i), loc[i].live) THEN @ \cup {InHand(i)} ELSE @])
    /\ UNCHANGED <<info, registry, alive, up, sock, tracked, armed, events, spent>>

SweepFound(i) ==
    /\ At(i, "look") /\ loc[i].calls = {}
    /\ Become(i, [loc[i] EXCEPT !.pc = "reap", !.call = None,
                                !.calls = loc[i].found, !.found = {}])
    /\ UNCHANGED <<info, registry, alive, up, sock, tracked, armed, events, spent>>

ReapOrphan(i) ==
    /\ At(i, "reap")
    /\ \E d \in loc[i].calls :
          Become(i, [loc[i] EXCEPT !.pc = "end", !.call = d, !.calls = @ \ {d}])
    /\ UNCHANGED <<info, registry, alive, up, sock, tracked, armed, events, spent>>

SweepDone(i) ==
    /\ At(i, "reap") /\ loc[i].calls = {}
    /\ Become(i, Blank)
    /\ UNCHANGED <<info, registry, alive, up, sock, tracked, armed, events, spent>>

-----------------------------------------------------------------------------
(* Failures and time. *)

(* A Redis command fails before it takes effect, and the process goes where  *)
(* the code's error path goes: an invite whose save failed gives the claim   *)
(* back, a failed dismissal or cleanup is only logged, a failed consume is   *)
(* "not mine", and every other error abandons the call in hand.  (A record    *)
(* that releaseCalls cannot read is skipped: it leaves what a failed removal  *)
(* leaves, at "relleave".)                                                   *)
AfterFault(p) ==
    CASE At(p, "save") -> [loc[p] EXCEPT !.pc = "unclaim"]
      [] At(p, "dismiss") -> [loc[p] EXCEPT !.pc = "count"]
      [] At(p, "end") -> [loc[p] EXCEPT !.pc = "consume"]
      [] loc[p].pc \in {"cleanup", "unindex"} /\ loc[p].mine # 0
            -> [loc[p] EXCEPT !.pc = "announce", !.owners = {}]
      [] OTHER -> Home(p)

Fault(p) ==
    /\ spent.faults < MaxFaults
    /\ loc[p].pc \in {"pending", "pget", "pjoined", "pdismissed", "tget",
                      "claim", "holder", "steal", "save", "unclaim", "index", "room", "hjoin", "sadd",
                      "activate", "reclaim", "leave", "dismiss", "count",
                      "relleave", "consume", "cleanup", "unindex"}
    /\ Become(p, AfterFault(p))
    /\ spent' = [spent EXCEPT !.faults = @ + 1]
    /\ UNCHANGED <<info, registry, alive, up, sock, tracked, armed, events>>

(* The process dies with everything it held in memory.                       *)
Crash(i) ==
    /\ i \in up \cap Mortal /\ spent.crashes < MaxCrashes
    /\ up' = up \ {i}
    /\ sock' = [c \in Conns |-> IF InstanceOf[c] = i /\ sock[c] # "off" THEN "gone" ELSE sock[c]]
    /\ tracked' = [c \in Conns |-> IF InstanceOf[c] = i THEN {} ELSE tracked[c]]
    /\ armed' = {d \in armed : InstanceRunning(d) # i}
    /\ loc' = [p \in Procs |-> IF InstanceRunning(p) = i THEN Blank ELSE loc[p]]
    /\ spent' = [spent EXCEPT !.crashes = @ + 1]
    /\ UNCHANGED <<info, registry, alive, events>>

Restart(i) ==
    /\ i \notin up /\ spent.restarts < MaxRestarts
    /\ up' = up \cup {i}
    /\ alive' = alive \cup {i}
    /\ spent' = [spent EXCEPT !.restarts = @ + 1]
    /\ UNCHANGED <<info, registry, proc, events>>

(* A dead instance's heartbeat key outlives it by its TTL.  A running one    *)
(* re-arms the key several times per TTL.                                    *)
HeartbeatLapses(i) ==
    /\ i \in alive \ up
    /\ alive' = alive \ {i}
    /\ UNCHANGED <<info, registry, up, proc, events, spent>>

(* The ringing TTL outlasts the ring timer and every handler, so it is seen  *)
(* only when neither is left to end the call; a sweep reads records without  *)
(* keeping them alive.  (Left out: a claim whose extension failed lapses      *)
(* while the call it names is active.)                                       *)
RingingExpires(d) ==
    /\ \/ rec[d] = "ringing"
       \/ rec[d] = "none" /\ \E v \in Conversations : claim[v] = d
    /\ d \notin armed
    /\ \A p \in Conns \cup {d} : loc[p].call # d
    /\ Lapse(d)
    /\ UNCHANGED <<info, alive, up, proc, events, spent>>

-----------------------------------------------------------------------------
Connecting(c) ==
    \/ PendingIndex(c)
    \/ PendingGet(c)
    \/ PendingJoined(c)
    \/ PendingDismissed(c)
    \/ RingPending(c)

Inviting(c) ==
    \/ ClaimConversation(c)
    \/ CheckHolder(c)
    \/ StealClaim(c)
    \/ SaveRinging(c)
    \/ UndoClaim(c)
    \/ IndexOwner(c)
    \/ Ring(c)
    \/ ArmRingTimeout(c)

Joining(c) ==
    \/ CheckRoom(c)
    \/ HJoin(c)
    \/ SAddJoined(c)
    \/ Activate(c)
    \/ ExtendClaim(c)
    \/ PublishStarted(c)

Leaving(c) ==
    \/ Leave(c)
    \/ DismissLeaver(c)
    \/ CountMembers(c)
    \/ ReleaseNext(c)
    \/ LeaveIfHeldBy(c)
    \/ Closed(c)

Sweeping(i) ==
    \/ SweepHeartbeats(i)
    \/ SweepScan(i)
    \/ SweepGet(i)
    \/ SweepMembers(i)
    \/ SweepFound(i)
    \/ ReapOrphan(i)
    \/ SweepDone(i)

(* What the service does by itself once a frame, a socket or a timer set it  *)
(* off.                                                                      *)
Handle(c) == Connecting(c) \/ Inviting(c) \/ Joining(c) \/ Leaving(c) \/ EndCall(c)
Time(d) == RingTimeout(d) \/ RingTimeoutFired(d) \/ EndCall(d)
Reap(i) == Sweeping(i) \/ EndCall(i)

(* What people and machines do. *)
Client(c) ==
    \/ Connect(c)
    \/ \E v \in Conversations, d \in Calls : Invite(c, v, d)
    \/ \E d \in Calls : Join(c, d)
    \/ \E d \in Calls : Hangup(c, d)
    \/ Close(c)

Next ==
    \/ \E c \in Conns : Client(c)
    \/ \E c \in Conns : Handle(c)
    \/ \E d \in Calls : Time(d)
    \/ \E i \in Instances : Reap(i)
    \/ \E p \in Procs : Fault(p)
    \/ \E i \in Instances : Crash(i)
    \/ \E i \in Instances : Restart(i)
    \/ \E i \in Instances : HeartbeatLapses(i)
    \/ \E d \in Calls : RingingExpires(d)

(* Handlers run to their end, timers fire, sweeps recur and TTLs lapse.      *)
(* Nobody has to dial, answer, hang up, close, crash or come back.           *)
Fairness ==
    /\ \A c \in Conns : WF_vars(Handle(c))
    /\ \A d \in Calls : WF_vars(Time(d))
    /\ \A i \in Instances : WF_vars(Reap(i)) /\ WF_vars(HeartbeatLapses(i))
    /\ \A d \in Calls : WF_vars(RingingExpires(d))

Spec == Init /\ [][Next]_vars /\ Fairness

-----------------------------------------------------------------------------
(* Properties. *)

Ending(p) == loc[p].mine # 0
EndingOf(p) == <<loc[p].call, loc[p].mine>>

(* endCall: "exactly one of them announces".  However a hang-up, closing     *)
(* sockets, a ring timer and reapers coincide, no two of them hold the       *)
(* ending of one life of a call record, none holds one that was announced,   *)
(* and a record that is there has not been announced as ended.               *)
OneAnnouncerPerLife ==
    /\ \A p \in Procs : Ending(p) => EndingOf(p) \notin told
    /\ \A p, q \in Procs : Ending(p) /\ Ending(q) /\ p # q => EndingOf(p) # EndingOf(q)
    /\ \A d \in Calls : Live(d) =>
          /\ <<d, life[d]>> \notin told
          /\ \A p \in Procs : Ending(p) => EndingOf(p) # <<d, life[d]>>

(* releaseCalls, leaveScript: the place an open connection holds is emptied  *)
(* only by a hang-up of the same person or by the end of the call, never by  *)
(* the late close of a connection it replaced.  (A record brought back by a  *)
(* late Activate is excepted: the cleanup of its first life may follow.)     *)
OpenPlaceIsKept ==
    [][\A d \in Calls, o \in Owners :
          LET c == members[d][o] IN
          /\ c # None /\ sock[c] = "open" /\ members'[d][o] = None
          /\ Live(d) /\ life[d] = 1
          => \E b \in Conns : OwnerOf[b] = o /\ At(b, "leave") /\ InHand(b) = d]_vars

(* Join records the joiner for call history after winning the place: whoever *)
(* sits in a call over a connection that still exists is in the joined set,  *)
(* or a join of theirs is about to record it.                                *)
HistoryKnowsWhoJoined ==
    \A d \in Calls : \A o \in Members(d) :
        sock[members[d][o]] # "gone" =>
            \/ o \in joined[d]
            \/ \E b \in Conns : OwnerOf[b] = o /\ At(b, "sadd") /\ InHand(b) = d

(* FindOrphans: the calls a sweep has condemned and not yet consumed.        *)
Condemned(i) ==
    loc[i].found \cup (IF At(i, "reap") THEN loc[i].calls ELSE {})
                \cup (IF loc[i].pc \in {"end", "consume"} THEN loc[i].calls \cup {InHand(i)} ELSE {})

(* A condemned call holds nobody that was in it, on an instance that was     *)
(* alive, when the sweep began: whoever sits in it now came after.           *)
SweepSparesTheHeld ==
    \A i \in Instances : \A d \in Condemned(i) : \A o \in Members(d) :
        InstanceOf[members[d][o]] \in loc[i].live => <<d, members[d][o]>> \in loc[i].fresh

(* ringPending: once the ring went out and a socket has caught up, every     *)
(* open tab of everybody invited who neither joined nor declined was rung,   *)
(* in whatever order the ring, the index writes and the sign-in came.        *)
UndecidedAreRung ==
    \A d \in rang, c \in Conns :
        /\ rec[d] = "ringing"
        /\ sock[c] = "open" /\ loc[c].pc \notin {"pending", "pget", "pjoined", "pdismissed"}
        /\ OwnerOf[c] \in Participants(d) \ ({Caller(d)} \cup joined[d] \cup dismissed[d])
        => d \in heard[c]

(* claimConversation, End and the TTLs: a conversation does not stay claimed *)
(* by a call that is gone, whichever command failed.                         *)
DeadClaim(w) == claim[w] # None /\ ~Live(claim[w])
ClaimsAreFreed == \A w \in Conversations : DeadClaim(w) ~> ~DeadClaim(w)

(* ReapOrphanedCalls: a call whose members' processes have all died ends, or *)
(* one of the processes returns.                                             *)
Stranded(d) == rec[d] = "active" /\ \A o \in Members(d) : InstanceOf[members[d][o]] \notin up
StrandedCallEnds == \A d \in Calls : Stranded(d) ~> ~Stranded(d)

-----------------------------------------------------------------------------
(* What comments and tests say, and the handlers do not guarantee.           *)

(* calls.go, conversationKey: "names the one live call a conversation may    *)
(* have".                                                                    *)
OneCallPerConversation ==
    \A d, e \in Calls : d # e /\ Live(d) /\ Live(e) => info[d].conv # info[e].conv

(* calls.go, End: "only one of those may announce it".                       *)
EndsOnce == \A x, y \in told : x[1] = y[1] => x = y

(* wsapi/calls.go, handleJoin: "`started` fires once, on the transition".    *)
StartsOnce == \A d \in Calls : started[d] <= 1

(* events.go, Publish: a missed event must not "tell the caller that they    *)
(* missed their own call".                                                   *)
CallerIsNotMissed == \A d \in Calls : missed[d] # {} => Caller(d) \notin missed[d]

(* liveness.go: "reaping a live call is not [harmless]".                     *)
ReaperSparesOpenCalls ==
    \A i \in Instances : At(i, "consume") /\ Live(InHand(i)) =>
        \A o \in Members(InHand(i)) : sock[members[InHand(i)][o]] = "gone"
=============================================================================
