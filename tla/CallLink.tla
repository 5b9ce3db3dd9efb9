------------------------------ MODULE CallLink ------------------------------
(***************************************************************************)
(* One leg of the mesh: the two browsers of one pair and the perfect       *)
(* negotiation between them (webrtc-call.service.ts).  "lo" is the side    *)
(* whose owner id sorts first: it makes the first offer of the pair and it *)
(* is the polite one.                                                      *)
(*                                                                         *)
(* An `await` on the peer connection is an entry of the connection's       *)
(* operations chain: the browser runs the head of the chain and, in the    *)
(* same task, the handler goes on until it awaits again (RunOperation).    *)
(* Everything else may happen between two operations.  Descriptions are    *)
(* abstracted to the set of tracks they send.  The signalling server       *)
(* relays the frames of one sender to one receiver in order.               *)
(***************************************************************************)
EXTENDS Naturals, Sequences, FiniteSets

CONSTANTS
  Plans,      \* the calls to look at: see PlanType
  Screens,    \* identities of shared screens (one per press of Share)
  None

Sides == {"lo", "hi"}
Other(s) == CHOOSE o \in Sides : o # s
Tracks == {"mic", "cam"} \cup Screens

(* How the pair comes about ("mesh": group call, both sides learn of the   *)
(* other from call.participant; "answer": a 1:1 ring that carried the      *)
(* offer; "join": a 1:1 ring that did not), who placed a 1:1 call, who     *)
(* walked in by the Join button and so opens the microphone after the      *)
(* join, whose microphone is refused then, who is presenting already, how  *)
(* many announcements follow the first, how often the people change what   *)
(* they send.                                                              *)
PlanType == [mode : {"mesh", "answer", "join"}, caller : Sides, walkedIn : SUBSET Sides,
             refused : SUBSET Sides, presenting : SUBSET Sides, news : Nat, moves : Nat]

ASSUME PlanAssumption == Plans \subseteq PlanType
ASSUME ScreensAssumption == Screens \cap {"mic", "cam"} = {} /\ None \notin Screens

VARIABLES
  plan,     \* the call, with what is left of its bounds
  pc,       \* the PeerLink and its RTCPeerConnection, per side
  media,    \* capture: microphone, tracks handed to the connection, shared screen
  tile,     \* RemotePeer: what this side shows of the other
  chain,    \* the connection's operations chain
  waiting,  \* handlers waiting in ensureLink for the build
  net,      \* frames on their way to a side
  cand,     \* where a side's ICE candidate is
  call      \* the call record: named (has its id), active, held offer, over

vars == <<plan, pc, media, tile, chain, waiting, net, cand, call>>

-----------------------------------------------------------------------------
(* `to` is the offer an answer answers.                                    *)
Frame(kind, sends, to, screen) == [kind |-> kind, sends |-> sends, to |-> to, screen |-> screen]
Ice == Frame("ice", {}, {}, None)
Op(name, why, sends, frame) == [name |-> name, why |-> why, sends |-> sends, frame |-> frame]

Kinds == {"offer", "answer", "invite", "answered", "ice"}
Frames == [kind : Kinds, sends : SUBSET Tracks, to : SUBSET Tracks, screen : Screens \cup {None}]
Ops == [name : {"createOffer", "setOffer", "setRemote", "createAnswer", "setAnswer"},
        why : {"negotiate", "invite", "accept", "answered", "frame"},
        sends : SUBSET Tracks, frame : Frames]

TypeOK ==
    /\ plan \in PlanType
    /\ pc \in [Sides -> [link : {"none", "asked", "bare", "wired"}, via : BOOLEAN,
                         signaling : {"stable", "have-local-offer", "have-remote-offer"},
                         making : BOOLEAN, flagged : BOOLEAN, heard : BOOLEAN, ice : BOOLEAN,
                         offer : SUBSET Tracks, agreed : SUBSET Tracks, sees : SUBSET Tracks]]
    /\ media \in [Sides -> [mic : {"pending", "open", "refused"},
                            tracks : SUBSET Tracks, screen : Screens \cup {None},
                            used : SUBSET Screens]]
    /\ tile \in [Sides -> [stream : Tracks \cup {None}, screen : Screens \cup {None},
                           screenStreamId : Screens \cup {None},
                           state : {"connecting", "connected", "failed"}]]
    /\ chain \in [Sides -> Seq(Ops)]
    /\ waiting \in [Sides -> Seq(Frames)]
    /\ net \in [Sides -> Seq(Frames)]
    /\ cand \in [Sides -> {"none", "gathered", "sent", "dropped", "queued", "added"}]
    /\ call \in [Sides -> [named : BOOLEAN, active : BOOLEAN, news : Nat, over : BOOLEAN,
                           held : SUBSET Frames]]

Init ==
    \E p \in Plans :
        /\ plan = p
        /\ pc = [s \in Sides |-> [link |-> "none", via |-> FALSE, signaling |-> "stable",
                                  making |-> FALSE, flagged |-> FALSE, heard |-> FALSE, ice |-> FALSE,
                                  offer |-> {}, agreed |-> {}, sees |-> {}]]
        /\ media = [s \in Sides |->
                      LET shared == IF s \in p.presenting THEN {CHOOSE x \in Screens : TRUE} ELSE {}
                      IN [mic |-> IF s \in p.walkedIn THEN "pending" ELSE "open",
                          tracks |-> {}, used |-> shared,
                          screen |-> IF shared = {} THEN None ELSE CHOOSE x \in shared : TRUE]]
        /\ tile = [s \in Sides |-> [stream |-> None, screen |-> None, screenStreamId |-> None,
                                    state |-> "connecting"]]
        /\ chain = [s \in Sides |-> <<>>]
        /\ waiting = [s \in Sides |-> <<>>]
        /\ net = [s \in Sides |-> <<>>]
        /\ cand = [s \in Sides |-> "none"]
        \* In a group the call is active already, thanks to somebody else.
        /\ call = [s \in Sides |-> [named |-> p.mode = "mesh" \/ s # p.caller,
                                    active |-> p.mode = "mesh",
                                    news |-> IF p.mode = "mesh" THEN 1 + p.news ELSE 0,
                                    over |-> FALSE, held |-> {}]]

-----------------------------------------------------------------------------
(* Small steps the handlers are made of.                                   *)

Initiator(s) == s = "lo"

politeTo(s) == s = "lo"

Live(s) == ~call[s].over
Registered(s) == pc[s].link \in {"bare", "wired"}

(* A waiter of a finished build resumes before anything else happens.      *)
Resuming(s) == pc[s].link = "wired" /\ waiting[s] # <<>>

Send(s, f) == [net EXCEPT ![Other(s)] = Append(@, f)]
Enqueue(s, op) == chain' = [chain EXCEPT ![s] = Append(@, op)]
(* The head of the chain is done and its handler goes on to `op`.          *)
GoOnTo(s, op) == chain' = [chain EXCEPT ![s] = Append(Tail(@), op)]
Done(s) == chain' = [chain EXCEPT ![s] = Tail(@)]

(* The candidates that came before the remote description.                 *)
drainCandidates(s) ==
    cand' = [cand EXCEPT ![Other(s)] = IF @ = "queued" THEN "added" ELSE @]

(* One pair could not be established: the call in a 1:1, a tile in a       *)
(* group.                                                                  *)
failLink(s) ==
    IF plan.mode = "mesh"
    THEN tile' = [tile EXCEPT ![s].state = "failed"] /\ UNCHANGED call
    ELSE call' = [x \in Sides |-> [call[x] EXCEPT !.over = TRUE]] /\ UNCHANGED tile

(* What a connection would say it still has to negotiate.                  *)
Needed(s) == media[s].tracks # pc[s].agreed

-----------------------------------------------------------------------------
(* Offers.                                                                 *)

(* Mutant of Gated: both sides wait for the other's first offer.           *)
GatedByFirst(s) ==
    /\ call[s].named
    /\ pc[s].via \/ call[s].active
    /\ pc[s].heard
    /\ ~pc[s].making

(* The gates of negotiate: a link whose first offer is the other side's    *)
(* stays quiet until it came, a 1:1 link until the call is active, and one *)
(* offer is made at a time.                                                *)
Gated(s) ==
    /\ call[s].named
    /\ pc[s].via \/ call[s].active
    /\ Initiator(s) \/ pc[s].heard
    /\ ~pc[s].making

negotiate(s) ==
    IF Gated(s)
    THEN /\ Enqueue(s, Op("createOffer", "negotiate", {}, Ice))
         /\ pc' = [pc EXCEPT ![s].making = TRUE, ![s].flagged = TRUE]
    ELSE /\ pc' = [pc EXCEPT ![s].flagged = TRUE]
         /\ UNCHANGED chain

(* The browser's negotiationneeded event: fired once for a need, when the  *)
(* connection is stable and idle, and again only after it has been stable  *)
(* anew.                                                                   *)
NeedIsNoticed(s) ==
    /\ Registered(s) /\ ~Resuming(s) /\ Live(s)
    /\ chain[s] = <<>> /\ pc[s].signaling = "stable" /\ Needed(s) /\ ~pc[s].flagged
    /\ negotiate(s)
    /\ UNCHANGED <<plan, media, tile, waiting, net, cand, call>>

-----------------------------------------------------------------------------
(* ensureLink and buildLink.                                               *)

(* The build starts: credentials are asked for.                            *)
Build(s, via) == pc' = [pc EXCEPT ![s].link = "asked", ![s].via = via]

(* The tracks a finished build puts on the connection.                     *)
LocalTracks(m) ==
    (IF m.mic = "open" THEN {"mic"} ELSE {}) \cup (IF m.screen = None THEN {} ELSE {m.screen})

(* The credentials are there: the link is registered and, unless capture   *)
(* is still being opened, gets its tracks.                                 *)
CredentialsArrive(s) ==
    /\ Live(s) /\ pc[s].link = "asked"
    /\ IF media[s].mic = "pending"
       THEN /\ pc' = [pc EXCEPT ![s].link = "bare"]
            /\ UNCHANGED media
       ELSE /\ pc' = [pc EXCEPT ![s].link = "wired"]
            /\ media' = [media EXCEPT ![s].tracks = @ \cup LocalTracks(media[s])]
    /\ UNCHANGED <<plan, tile, chain, waiting, net, cand, call>>

(* mediaReady resolves: capture opened, or was refused and reported; a     *)
(* build that waited for it goes on.  A screen shared on the bare link     *)
(* meanwhile is added a second time, which the browser refuses.            *)
CaptureResolves(s) ==
    LET m == [media[s] EXCEPT !.mic = IF s \in plan.refused THEN "refused" ELSE "open"]
    IN /\ Live(s) /\ media[s].mic = "pending"
       /\ IF pc[s].link = "bare"
          THEN /\ pc' = [pc EXCEPT ![s].link = "wired"]
               /\ media' = [media EXCEPT ![s] = [m EXCEPT !.tracks = @ \cup LocalTracks(m)]]
               /\ IF m.screen \in m.tracks THEN failLink(s) ELSE UNCHANGED <<tile, call>>
          ELSE /\ media' = [media EXCEPT ![s] = m]
               /\ UNCHANGED <<pc, tile, call>>
       /\ UNCHANGED <<plan, chain, waiting, net, cand>>

-----------------------------------------------------------------------------
(* Frames.                                                                 *)

(* onParticipant finds a link whose offer reached nobody.                  *)
Unanswered(s) == Initiator(s) /\ ~pc[s].heard /\ ~pc[s].making

(* call.participant: both are in the room.                                 *)
onParticipant(s) ==
    /\ Live(s) /\ ~Resuming(s) /\ call[s].news > 0
    /\ call' = [call EXCEPT ![s].news = @ - 1]
    /\ CASE pc[s].link = "none" -> Build(s, TRUE) /\ UNCHANGED chain
         [] Registered(s) /\ Unanswered(s) -> negotiate(s)
         [] OTHER -> UNCHANGED <<pc, chain>>
    /\ UNCHANGED <<plan, media, tile, waiting, net, cand>>

(* A late screen_stream_id re-files a track taken for a camera.            *)
Refiled(t, id) ==
    IF id # None /\ t.stream = id
    THEN [t EXCEPT !.screenStreamId = id, !.screen = id, !.stream = None]
    ELSE [t EXCEPT !.screenStreamId = id]

(* Mutant of Crossed: only a connection that is not stable counts.         *)
CrossedOnTheWire(s, f) == f.kind = "offer" /\ pc[s].signaling # "stable"

(* The collision test of onRenegotiate.                                    *)
Crossed(s, f) == f.kind = "offer" /\ (pc[s].making \/ pc[s].signaling # "stable")

(* onRenegotiate, once the link is there.                                  *)
Negotiated(s, f) ==
    /\ tile' = [tile EXCEPT ![s] = Refiled(@, f.screen)]
    /\ IF Crossed(s, f) /\ ~politeTo(s)
       THEN UNCHANGED chain
       ELSE Enqueue(s, Op("setRemote", "frame", {}, f))

onRenegotiate(s, f) ==
    /\ f.kind \in {"offer", "answer"}
    /\ UNCHANGED <<cand, call>>
    /\ IF Registered(s)
       THEN Negotiated(s, f) /\ UNCHANGED <<pc, waiting>>
       ELSE /\ waiting' = [waiting EXCEPT ![s] = Append(@, f)]
            /\ IF pc[s].link = "none" THEN Build(s, plan.mode = "mesh") ELSE UNCHANGED pc
            /\ UNCHANGED <<tile, chain>>

onRemoteCandidate(s, f) ==
    /\ f.kind = "ice"
    /\ cand' = [cand EXCEPT ![Other(s)] =
                  IF Registered(s) /\ pc[s].heard THEN "added" ELSE "queued"]
    /\ UNCHANGED <<pc, tile, chain, waiting, call>>

(* onIncoming: the offer is held until the person accepts.                 *)
onIncoming(s, f) ==
    /\ f.kind = "invite"
    /\ call' = [call EXCEPT ![s].held = {f}]
    /\ UNCHANGED <<pc, tile, chain, waiting, cand>>

(* The server sends the caller call.ringing before anybody can answer.     *)
onAnswered(s, f) ==
    /\ f.kind = "answered" /\ call[s].named
    /\ Enqueue(s, Op("setRemote", "answered", {}, f))
    /\ UNCHANGED <<pc, tile, waiting, cand, call>>

Deliver(s) ==
    /\ Live(s) /\ ~Resuming(s) /\ net[s] # <<>>
    /\ LET f == Head(net[s]) IN
          \/ onRenegotiate(s, f)
          \/ onRemoteCandidate(s, f)
          \/ onIncoming(s, f)
          \/ onAnswered(s, f)
    /\ net' = [net EXCEPT ![s] = Tail(@)]
    /\ UNCHANGED <<plan, media>>

(* The build is finished: a handler that waited for it goes on.            *)
Resume(s) ==
    /\ Live(s) /\ Resuming(s)
    /\ LET f == Head(waiting[s]) IN
       CASE f.kind = "invite" ->
              Enqueue(s, Op("setRemote", "accept", {}, f)) /\ UNCHANGED tile
         [] f.kind = "ice" ->
              Enqueue(s, Op("createOffer", "invite", {}, Ice)) /\ UNCHANGED tile
         [] OTHER -> Negotiated(s, f)
    /\ waiting' = [waiting EXCEPT ![s] = Tail(@)]
    /\ UNCHANGED <<plan, pc, media, net, cand, call>>

-----------------------------------------------------------------------------
(* What the person of a 1:1 call does.                                     *)

(* startCall, past the capture.  (What waits is marked by the frame that   *)
(* carries nothing.)                                                       *)
startCall(s) ==
    /\ plan.mode # "mesh" /\ s = plan.caller /\ pc[s].link = "none"
    /\ Build(s, FALSE)
    /\ waiting' = [waiting EXCEPT ![s] = <<Ice>>]
    /\ UNCHANGED <<plan, media, tile, chain, net, cand, call>>

(* accept, past the capture, of a ring that carried the offer.             *)
accept(s) ==
    /\ plan.mode = "answer" /\ Live(s) /\ call[s].held # {}
    /\ Build(s, FALSE)
    /\ waiting' = [waiting EXCEPT ![s] = <<CHOOSE f \in call[s].held : TRUE>>]
    /\ call' = [call EXCEPT ![s].held = {}]
    /\ UNCHANGED <<plan, media, tile, chain, net, cand>>

(* accept of a ring without one: the invite reached nobody, so its offer   *)
(* and the candidates behind it are gone, and the join is announced to     *)
(* both.                                                                   *)
acceptByJoining(s) ==
    /\ plan.mode = "join" /\ Live(s) /\ call[s].held # {}
    /\ call' = [x \in Sides |-> [call[x] EXCEPT !.news = 1 + plan.news, !.held = {}]]
    /\ UNCHANGED <<plan, pc, media, tile, chain, waiting, net, cand>>
-----------------------------------------------------------------------------
(* The operations chain.                                                   *)

(* The tracks that come with a description: each new one fires ontrack,    *)
(* which files a video as the peer's screen when the id is the announced   *)
(* one, as their camera otherwise (ontrack, fileRemoteTrack).              *)
Filed(t, id) ==
    IF t.screenStreamId = id
    THEN [t EXCEPT !.screen = id, !.stream = IF @ = id THEN None ELSE @]
    ELSE [t EXCEPT !.stream = id]

WithTracks(t, new) ==
    LET camera == IF "cam" \in new THEN Filed(t, "cam") ELSE t
        shared == new \cap Screens
    IN IF shared = {} THEN camera ELSE Filed(camera, CHOOSE x \in shared : TRUE)

(* What is no longer received is no longer shown.                          *)
syncRemoteVideo(t, live) ==
    [t EXCEPT !.stream = IF @ \in live THEN @ ELSE None,
              !.screen = IF @ \in live THEN @ ELSE None]

(* createOffer: refused half-way through the other side's offer.           *)
CreateOffer(s, op) ==
    /\ op.name = "createOffer"
    /\ IF pc[s].signaling # "have-remote-offer"
       THEN /\ GoOnTo(s, Op("setOffer", op.why, media[s].tracks, Ice))
            /\ UNCHANGED <<pc, tile, call>>
       ELSE /\ Done(s)
            /\ pc' = [pc EXCEPT ![s].making = FALSE]
            /\ failLink(s)
    /\ UNCHANGED <<net, cand>>

(* setLocalDescription of an offer, and the frame that carries it; the     *)
(* first description also starts gathering.  An invite to somebody without *)
(* a socket reaches nobody; they are rung from stored state when they      *)
(* connect.                                                                *)
SetOffer(s, op) ==
    /\ op.name = "setOffer"
    /\ Done(s)
    /\ IF pc[s].signaling # "have-remote-offer"
       THEN /\ pc' = [pc EXCEPT ![s].signaling = "have-local-offer", ![s].offer = op.sends,
                               ![s].making = FALSE]
            /\ cand' = [cand EXCEPT ![s] = IF @ = "none" THEN "gathered" ELSE @]
            /\ IF op.why = "invite" /\ plan.mode = "join"
               THEN /\ call' = [call EXCEPT ![Other(s)].held = {Frame("invite", {}, {}, None)}]
                    /\ UNCHANGED net
               ELSE /\ net' = Send(s, Frame(IF op.why = "invite" THEN "invite" ELSE "offer",
                                            op.sends, {}, media[s].screen))
                    /\ UNCHANGED call
            /\ UNCHANGED tile
       ELSE /\ pc' = [pc EXCEPT ![s].making = FALSE]
            /\ failLink(s)
            /\ UNCHANGED <<net, cand>>

(* setRemoteDescription of an offer, which rolls an offer of our own back. *)
SetRemoteOffer(s, op) ==
    /\ op.name = "setRemote" /\ op.frame.kind \in {"offer", "invite"}
    /\ pc' = [pc EXCEPT ![s].signaling = "have-remote-offer", ![s].heard = TRUE,
                       ![s].sees = op.frame.sends]
    /\ tile' = [tile EXCEPT ![s] = WithTracks(@, op.frame.sends \ pc[s].sees)]
    /\ drainCandidates(s)
    /\ GoOnTo(s, Op("createAnswer", op.why, {}, op.frame))
    /\ UNCHANGED <<net, call>>

(* setRemoteDescription of an answer: an error unless an offer of ours     *)
(* with the same lines is outstanding.                                     *)
SetRemoteAnswer(s, op) ==
    /\ op.name = "setRemote" /\ op.frame.kind \in {"answer", "answered"}
    /\ Done(s)
    /\ UNCHANGED net
    /\ IF pc[s].signaling = "have-local-offer" /\ pc[s].offer = op.frame.to
       THEN /\ pc' = [pc EXCEPT ![s].signaling = "stable", ![s].heard = TRUE, ![s].flagged = FALSE,
                               ![s].agreed = pc[s].offer, ![s].sees = op.frame.sends]
            /\ LET t == WithTracks(tile[s], op.frame.sends \ pc[s].sees) IN
               tile' = [tile EXCEPT ![s] =
                          IF op.why = "frame" THEN syncRemoteVideo(t, op.frame.sends) ELSE t]
            /\ drainCandidates(s)
            /\ UNCHANGED call
       ELSE failLink(s) /\ UNCHANGED <<pc, cand>>

(* createAnswer.  A microphone answers a microphone; which of the videos   *)
(* that are not agreed yet fit the lines of the offer is the browser's     *)
(* affair, and the rest need an offer of this side's own.                  *)
CreateAnswer(s, op) ==
    /\ op.name = "createAnswer"
    /\ IF pc[s].signaling = "have-remote-offer"
       THEN /\ \E fitting \in SUBSET (media[s].tracks \ pc[s].agreed) :
                 /\ "mic" \in (op.frame.sends \cap media[s].tracks) \ pc[s].agreed => "mic" \in fitting
                 /\ GoOnTo(s, Op("setAnswer", op.why,
                                 (pc[s].agreed \cap media[s].tracks) \cup fitting, op.frame))
            /\ UNCHANGED <<tile, call>>
       ELSE Done(s) /\ failLink(s)
    /\ UNCHANGED <<pc, net, cand>>

SetAnswer(s, op) ==
    /\ op.name = "setAnswer"
    /\ Done(s)
    /\ IF pc[s].signaling = "have-remote-offer"
       THEN /\ pc' = [pc EXCEPT ![s].signaling = "stable", ![s].flagged = FALSE,
                               ![s].agreed = op.sends]
            /\ cand' = [cand EXCEPT ![s] = IF @ = "none" THEN "gathered" ELSE @]
            /\ net' = Send(s, Frame(IF op.why = "accept" THEN "answered" ELSE "answer",
                                    op.sends, op.frame.sends, media[s].screen))
            /\ tile' = [tile EXCEPT ![s] =
                          IF op.why = "frame" THEN syncRemoteVideo(@, pc[s].sees) ELSE @]
            /\ UNCHANGED call
       ELSE failLink(s) /\ UNCHANGED <<pc, net, cand>>

RunOperation(s) ==
    /\ Live(s) /\ chain[s] # <<>>
    /\ LET op == Head(chain[s]) IN
          \/ CreateOffer(s, op)
          \/ SetOffer(s, op)
          \/ SetRemoteOffer(s, op)
          \/ SetRemoteAnswer(s, op)
          \/ CreateAnswer(s, op)
          \/ SetAnswer(s, op)
    /\ UNCHANGED <<plan, media, waiting>>

-----------------------------------------------------------------------------
(* Candidates and the path.                                                *)

(* onicecandidate: without the call's id there is nothing to address the   *)
(* candidate by, and it is dropped; so is one sent to somebody who has no  *)
(* socket yet.                                                             *)
onIceCandidate(s) ==
    LET reaches == call[s].named /\ (plan.mode = "join" => call[Other(s)].held = {})
    IN /\ Live(s) /\ cand[s] = "gathered"
       /\ cand' = [cand EXCEPT ![s] = IF reaches THEN "sent" ELSE "dropped"]
       /\ net' = IF reaches THEN Send(s, Ice) ELSE net
       /\ UNCHANGED <<plan, pc, media, tile, chain, waiting, call>>

(* call.ringing: the caller learns the call's id.                          *)
onRinging(s) ==
    /\ Live(s) /\ ~call[s].named /\ cand[s] # "none"
    /\ call' = [call EXCEPT ![s].named = TRUE]
    /\ UNCHANGED <<plan, pc, media, tile, chain, waiting, net, cand>>

(* oniceconnectionstatechange: a candidate of either side is enough for a  *)
(* path once both know the other's description.                            *)
onConnected(s) ==
    /\ Live(s) /\ ~pc[s].ice
    /\ \A x \in Sides : pc[x].heard
    /\ \E x \in Sides : cand[x] = "added"
    /\ pc' = [pc EXCEPT ![s].ice = TRUE]
    /\ tile' = [tile EXCEPT ![s].state = "connected"]
    /\ call' = [call EXCEPT ![s].active = TRUE]
    /\ UNCHANGED <<plan, media, chain, waiting, net, cand>>

-----------------------------------------------------------------------------
(* What people change during the call.                                     *)

(* The browser takes the need back when a change is undone.                *)
Reconsidered(s, tracks) == pc[s].flagged /\ tracks # pc[s].agreed

Change(s, m) ==
    /\ Live(s) /\ call[s].active /\ Registered(s) /\ ~Resuming(s) /\ plan.moves > 0
    /\ plan' = [plan EXCEPT !.moves = @ - 1]
    /\ media' = [media EXCEPT ![s] = m]
    /\ pc' = [pc EXCEPT ![s].flagged = Reconsidered(s, m.tracks)]
    /\ UNCHANGED <<tile, chain, waiting, net, cand, call>>

toggleScreenShare(s) ==
    /\ media[s].screen = None
    /\ \E x \in Screens \ media[s].used :
          Change(s, [media[s] EXCEPT !.screen = x, !.used = @ \cup {x}, !.tracks = @ \cup {x}])

stopScreenShare(s) ==
    /\ media[s].screen # None
    /\ Change(s, [media[s] EXCEPT !.screen = None, !.tracks = @ \ {media[s].screen}])

promoteToVideo(s) ==
    /\ media[s].mic = "open" /\ "cam" \notin media[s].tracks
    /\ Change(s, [media[s] EXCEPT !.tracks = @ \cup {"cam"}])

-----------------------------------------------------------------------------
System(s) ==
    \/ NeedIsNoticed(s) \/ CredentialsArrive(s) \/ CaptureResolves(s)
    \/ onParticipant(s) \/ Deliver(s) \/ Resume(s) \/ RunOperation(s)
    \/ onIceCandidate(s) \/ onRinging(s) \/ onConnected(s)

People(s) ==
    \/ startCall(s) \/ accept(s) \/ acceptByJoining(s)
    \/ toggleScreenShare(s) \/ stopScreenShare(s) \/ promoteToVideo(s)

Next == \E s \in Sides : System(s) \/ People(s)

Spec == Init /\ [][Next]_vars

(* The browsers run what is queued and the server relays what it was sent; *)
(* nobody is obliged to press anything.                                    *)
FairSpec == Spec /\ \A s \in Sides : WF_vars(System(s))
-----------------------------------------------------------------------------
(* Properties.                                                             *)

(* Nothing is queued, on its way or about to happen.                       *)
AtRest(s) ==
    /\ Live(s) /\ pc[s].link = "wired" /\ waiting[s] = <<>>
    /\ chain[s] = <<>> /\ net[s] = <<>>
    /\ call[s].named /\ call[s].news = 0 /\ call[s].held = {}
    /\ cand[s] # "gathered"
    /\ ~(pc[s].signaling = "stable" /\ Needed(s) /\ ~pc[s].flagged)

Quiet == \A s \in Sides : AtRest(s)
Settled == Quiet /\ \A s \in Sides : pc[s].signaling = "stable"

(* Once both are in, they hear of each other, whatever crosses on the wire *)
(* and in whatever order the announcements, the builds and the microphones *)
(* come, unless the call ends.  A 1:1 ring that carried no offer is the    *)
(* exception, whatever the comment at webrtc-call.service.ts:1241 says.    *)
PairOpens ==
    plan.mode # "join" =>
       <>[](\/ \E s \in Sides : call[s].over \/ pc[s].link = "none"
            \/ \A s \in Sides : pc[s].heard)

(* A pair that has come to rest receives exactly what the other sends:     *)
(* no change of tracks is lost between the gates of negotiate, the rolled  *)
(* back offers and the answers that could not carry it.  The screen the    *)
(* other shares is shown as their screen, and no tile stays behind for one *)
(* they stopped (fileRemoteTrack, syncRemoteVideo); and no candidate that  *)
(* came too early is still waiting (drainCandidates).                      *)
RestIsAgreement ==
    Settled => \A s \in Sides :
                  /\ pc[s].heard /\ cand[s] # "queued"
                  /\ pc[s].agreed = media[s].tracks
                  /\ pc[s].sees = media[Other(s)].tracks
                  /\ tile[s].screen = media[Other(s)].screen
                  /\ tile[s].stream \in {None, "cam"}

(* The collision rule as onRenegotiate states it                           *)
(* (webrtc-call.service.ts:1366): the offer that is ignored crossed one of *)
(* the ignoring side, so that one of the two gets its answer.  A pair at   *)
(* rest would then have no offer outstanding.                              *)
NoOfferForgotten == Quiet => \A s \in Sides : pc[s].signaling # "have-local-offer"

=============================================================================
