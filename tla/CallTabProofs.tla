---------------------------- MODULE CallTabProofs ----------------------------
(***************************************************************************)
(* Theorems about the browser tabs of a call: CallClient, how calls come    *)
(* and go in them and in the room, and CallStage, what one of them captures *)
(* and sends.  They share no state: CallStage is an instance with variables *)
(* of its own.                                                              *)
(***************************************************************************)
EXTENDS CallClient, TabStage, FiniteSetTheorems, TLAPS

(***************************************************************************)
(* CallStage: the tracks of a tab.                                          *)
(***************************************************************************)

Tracks == Cams \cup Captured
AskType == [why : {"share", "promote", "switch", "swap", "stats"}, gets : Tracks \cup {NoTrack},
            off : BOOLEAN, olds : SUBSET Cams, at : Peers \cup {NoTrack},
            old : Cams \cup {NoTrack}, done : SUBSET Peers]
CallFields == {"n", "media", "sendingVideo", "cameraOff", "micMuted", "micSilent", "sharingScreen"}
LocalFields == {"open", "cams", "enabled", "screen", "silentSamples"}
StageTypes ==
    /\ tabCall = [f \in CallFields |-> tabCall[f]] /\ local = [f \in LocalFields |-> local[f]]
    /\ local.cams \subseteq Cams /\ local.screen \in Captured \cup {NoTrack}
    /\ tabCall.cameraOff \in BOOLEAN
    /\ running \subseteq Tracks /\ links \in [Peers -> {NoTrack} \cup SUBSET Tracks]
    /\ asks \subseteq AskType

(* The handlers that await a device or a replaceTrack: each has a track of  *)
(* its own, of the kind it asked for and not yet a camera of the call's;    *)
(* a replaceTrack is on a link that is there.                               *)
AsksOK ==
    \A a \in asks :
        /\ a.gets = NoTrack <=> a.why = "stats"
        /\ a.gets \in Captured <=> a.why = "share"
        /\ a.gets \notin local.cams
        /\ \A b \in asks : a.gets \notin b.olds /\ (a.gets = b.gets /\ a.gets # NoTrack => a = b)
        /\ a.why # "swap" => a.olds = {} /\ a.done = {}
        /\ a.why = "swap" => a.at \in S!Linked /\ a.done \subseteq S!Linked

LEMMA FreshTrack ==
    ASSUME StageTypes, NEW kind, S!CanOpen(kind)
    PROVE  /\ S!Fresh(kind) \in kind /\ S!Fresh(kind) \notin running \cup local.cams
           /\ \A a \in asks : S!Fresh(kind) # a.gets /\ S!Fresh(kind) \notin a.olds
<1>1. \E t \in kind : t \notin S!Used
  BY DEF S!CanOpen
<1>2. S!Fresh(kind) \in kind /\ S!Fresh(kind) \notin S!Used
  BY <1>1 DEF S!Fresh
<1> DEFINE f == S!Fresh(kind)
<1> HIDE DEF f
<1>3. f \in kind /\ f \notin S!Used
  BY <1>2 DEF f
<1>4. f \notin running \cup local.cams
  BY <1>3 DEF S!Used
<1>5. ASSUME NEW a \in asks PROVE f # a.gets /\ f \notin a.olds
  <2>1. a.gets \in {b.gets : b \in asks} /\ a.olds \subseteq UNION {b.olds : b \in asks}
    OBVIOUS
  <2>2. a.gets \in S!Used
    BY <2>1, Zenon DEF S!Used
  <2>3. \A t \in a.olds : t \in S!Used
    BY <2>1, Zenon DEF S!Used
  <2> QED
    BY <1>3, <2>2, <2>3
<1> QED
  BY <1>3, <1>4, <1>5 DEF f

(* What a step makes of the handlers that wait.                             *)
NewAsk(a) ==
    /\ a \in AskType /\ a.olds = {} /\ a.done = {} /\ a.why # "swap"
    /\ \/ a.why = "stats" /\ a.gets = NoTrack
       \/ a.why = "share" /\ a.gets \in Captured
       \/ a.why \in {"promote", "switch"} /\ a.gets \in Cams

LEMMA NewAsks ==
    ASSUME NEW t, NEW off \in BOOLEAN
    PROVE  /\ t \in Captured => NewAsk(S!Share(t)) /\ S!Share(t).gets = t
           /\ t \in Cams => /\ NewAsk(S!Promote(t)) /\ S!Promote(t).gets = t
                            /\ NewAsk(S!Switch(t, off)) /\ S!Switch(t, off).gets = t
           /\ NewAsk(S!Stats) /\ S!Stats.gets = NoTrack
BY DEF NewAsk, S!Share, S!Promote, S!Switch, S!Stats, AskType, Tracks


(* Of the cameras a peer is sent one runs that no exchange which has been    *)
(* to the peer's link will stop.                                            *)
Lit(p) == \E c \in links[p] \cap Cams \cap running : \A a \in asks : p \in a.done => c \notin a.olds
(* Whoever is sent a camera is sent one that stays on; the one that comes   *)
(* runs as well, and the sender an exchange waits for sends a camera.       *)
CamerasRun ==
    /\ local.cams \subseteq running
    /\ \A a \in asks : a.why = "swap" => a.gets \in running /\ a.old \in links[a.at] \cap Cams
    /\ \A p \in S!Linked : links[p] \cap Cams # {} => Lit(p)
Presents ==
    tabCall.sharingScreen => /\ local.screen \in Captured \cap running
                          /\ \A p \in S!Linked : local.screen \in links[p]
StageInv == StageTypes /\ AsksOK /\ CamerasRun /\ Presents

LEMMA LinkedPeers == ASSUME StageTypes, S!TracksDiffer PROVE S!Linked \subseteq Peers /\ \A p \in S!Linked : links[p] \subseteq Tracks
BY DEF S!Linked, StageTypes


(* A handler that comes to wait, with a track nobody has seen.              *)
Brings(t) ==
    /\ NewAsk(t)
    /\ t.gets # NoTrack => t.gets \notin local.cams /\ \A a \in asks : t.gets # a.gets /\ t.gets \notin a.olds

LEMMA AskFacts ==
    ASSUME StageTypes, S!TracksDiffer, NEW a, a \in asks \/ NewAsk(a)
    PROVE  a \in AskType /\ a.olds \subseteq Cams /\ a.gets \in Tracks \cup {NoTrack} /\ a.at \in Peers \cup {NoTrack}
           /\ a.done \subseteq Peers /\ NoTrack \notin a.olds /\ NoTrack \notin local.cams
BY DEF StageTypes, AskType, NewAsk, S!TracksDiffer

(* The camera of a handler that waits to switch or to add one.              *)
LEMMA AskedCamera ==
    ASSUME StageInv, S!TracksDiffer, NEW a \in asks, a.why \in {"promote", "switch", "swap"}
    PROVE  a.gets \in Cams /\ a.gets \in Tracks /\ a.gets # NoTrack
BY AskFacts DEF StageInv, AsksOK, Tracks

(* The cameras sent, those that run, and the exchanges under way stay.      *)
LEMMA CamerasStay ==
    ASSUME StageInv, S!TracksDiffer, S!Linked' = S!Linked, local'.cams = local.cams,
           \A p \in S!Linked : links'[p] \cap Cams = links[p] \cap Cams,
           \A c \in Cams : c \in running => c \in running',
           \A a \in asks' : a \in asks \/ (a.why # "swap" /\ a.done = {})
    PROVE  CamerasRun'
<1>1. local'.cams \subseteq running'
  BY DEF StageInv, CamerasRun, StageTypes
<1>2. ASSUME NEW a \in asks', a.why = "swap" PROVE a.gets \in running' /\ a.old \in links'[a.at] \cap Cams
  <2>1. a \in asks /\ a.at \in S!Linked
    BY <1>2 DEF StageInv, AsksOK
  <2>2. a.gets \in Cams
    BY <1>2, <2>1, AskedCamera
  <2> QED
    BY <1>2, <2>1, <2>2 DEF StageInv, CamerasRun
<1>3. ASSUME NEW p \in S!Linked, links'[p] \cap Cams # {} PROVE Lit(p)'
  <2>1. PICK c \in links[p] \cap Cams \cap running : \A a \in asks : p \in a.done => c \notin a.olds
    BY <1>3 DEF StageInv, CamerasRun, Lit
  <2>2. c \in links'[p] \cap Cams \cap running'
    BY <2>1
  <2>3. \A a \in asks' : p \in a.done => c \notin a.olds
    BY <2>1
  <2> QED
    BY <2>2, <2>3 DEF Lit
<1> QED
  BY <1>1, <1>2, <1>3 DEF CamerasRun

(* Handlers come or are done; links, screen and cameras stay; nothing that  *)
(* runs stops.                                                              *)
LEMMA Harmless ==
    ASSUME StageInv, S!TracksDiffer, StageTypes', UNCHANGED links, running \subseteq running',
           local'.cams = local.cams, local'.screen = local.screen, tabCall'.sharingScreen = tabCall.sharingScreen,
           \A a \in asks' : a \in asks \/ Brings(a),
           \A a, b \in asks' : a \in asks \/ b \in asks \/ a = b
    PROVE  StageInv'
<1>1. S!Linked' = S!Linked
  BY DEF S!Linked
<1>2. \A a \in asks' : Brings(a) => a.olds = {} /\ a.done = {} /\ a.why # "swap" /\ NewAsk(a)
  BY DEF Brings, NewAsk
<1>3. ASSUME NEW a \in asks' PROVE /\ a.gets = NoTrack <=> a.why = "stats"
                                   /\ a.gets \in Captured <=> a.why = "share"
                                   /\ a.gets \notin local'.cams
                                   /\ a.why # "swap" => a.olds = {} /\ a.done = {}
                                   /\ a.why = "swap" => a.at \in S!Linked' /\ a.done \subseteq S!Linked'
  <2>1. CASE a \in asks
    BY <1>1, <2>1 DEF StageInv, AsksOK
  <2>2. CASE Brings(a)
    BY <1>2, <2>2 DEF Brings, NewAsk, S!TracksDiffer, StageInv, StageTypes
  <2> QED
    BY <2>1, <2>2
<1>4. ASSUME NEW a \in asks', NEW b \in asks' PROVE a.gets \notin b.olds /\ (a.gets = b.gets /\ a.gets # NoTrack => a = b)
  <2>1. CASE a \in asks /\ b \in asks
    BY <2>1 DEF StageInv, AsksOK
  <2>2. CASE Brings(a) /\ b \in asks
    BY <2>2, AskFacts DEF StageInv, Brings
  <2>3. CASE a \in asks /\ Brings(b)
    BY <1>2, <2>3 DEF Brings
  <2>4. CASE Brings(a) /\ Brings(b) /\ a = b
    BY <1>2, <2>4
  <2> QED
    BY <2>1, <2>2, <2>3, <2>4
<1>5. AsksOK'
  BY <1>3, <1>4 DEF AsksOK
<1>6. CamerasRun'
  BY <1>1, <1>2, CamerasStay
<1>7. Presents'
  BY <1>1 DEF Presents, StageInv
<1> QED
  BY <1>5, <1>6, <1>7 DEF StageInv

(* What leaves the captures, the links and the screen alone.                *)
LEMMA Views == ASSUME StageInv, S!TracksDiffer, S!View PROVE StageInv'
<1>1. UNCHANGED S!tabVars
  BY DEF S!View, S!ScreensCounted, S!togglePin, S!showPeople, S!toggleExpanded, S!PeerShows
<1>2. StageTypes'
  BY <1>1 DEF S!tabVars, StageInv, StageTypes
<1> QED
  BY <1>1, <1>2, Harmless DEF S!tabVars, StageInv, StageTypes

LEMMA Pressed ==
    ASSUME StageInv, S!TracksDiffer,
           \/ S!toggleMute \/ S!toggleCamera \/ S!watchOutgoingAudio \/ S!StatsArrive \/ S!NothingOpened
           \/ S!promoteToVideo \/ S!useCamera \/ (S!toggleScreenShare /\ ~tabCall.sharingScreen)
    PROVE  StageInv'
<1>1. UNCHANGED <<running, links>> /\ StageTypes
  BY DEF S!toggleMute, S!toggleCamera, S!watchOutgoingAudio, S!StatsArrive, S!NothingOpened, S!promoteToVideo,
     S!useCamera, S!toggleScreenShare, StageInv
<1>2. /\ local' = [f \in LocalFields |-> local'[f]]
      /\ local'.cams = local.cams /\ local'.screen = local.screen
  <2>1. UNCHANGED local \/ (\E v : local' = [local EXCEPT !.enabled = v]) \/ \E v : local' = [local EXCEPT !.silentSamples = v]
    BY DEF S!toggleMute, S!toggleCamera, S!watchOutgoingAudio, S!StatsArrive, S!NothingOpened, S!promoteToVideo,
       S!useCamera, S!toggleScreenShare
  <2> QED
    BY <1>1, <2>1 DEF StageTypes, LocalFields
<1>3. /\ tabCall' = [f \in CallFields |-> tabCall'[f]] /\ tabCall'.sharingScreen = tabCall.sharingScreen
      /\ tabCall'.cameraOff \in BOOLEAN
  <2>1. \/ UNCHANGED tabCall \/ (\E v : tabCall' = [tabCall EXCEPT !.micMuted = v])
        \/ (\E v \in BOOLEAN : tabCall' = [tabCall EXCEPT !.cameraOff = v]) \/ \E v : tabCall' = [tabCall EXCEPT !.micSilent = v]
    BY DEF S!toggleMute, S!toggleCamera, S!watchOutgoingAudio, S!StatsArrive, S!NothingOpened, S!promoteToVideo,
       S!useCamera, S!toggleScreenShare
  <2> QED
    BY <1>1, <2>1 DEF StageTypes, CallFields
<1>4. ASSUME NEW kind, S!CanOpen(kind), NEW t, NewAsk(t), t.gets = S!Fresh(kind) PROVE Brings(t)
  BY <1>1, <1>4, FreshTrack DEF Brings
<1>5. asks' \subseteq asks \/ (\E t : asks' = asks \cup {t} /\ Brings(t))
  <2>1. ASSUME S!toggleMute \/ S!toggleCamera \/ S!StatsArrive \/ S!NothingOpened PROVE asks' \subseteq asks
    BY <2>1 DEF S!toggleMute, S!toggleCamera, S!StatsArrive, S!NothingOpened
  <2>2. ASSUME S!watchOutgoingAudio PROVE asks' \subseteq asks \/ (\E t : asks' = asks \cup {t} /\ Brings(t))
    BY <2>2, NewAsks DEF S!watchOutgoingAudio, Brings
  <2>3. ASSUME S!promoteToVideo PROVE \E t : asks' = asks \cup {t} /\ Brings(t)
    <3>1. S!CanOpen(Cams) /\ asks' = asks \cup {S!Promote(S!Fresh(Cams))} /\ S!Fresh(Cams) \in Cams
      BY <1>1, <2>3, FreshTrack DEF S!promoteToVideo
    <3> QED
      BY <1>4, <3>1, NewAsks
  <2>4. ASSUME S!useCamera PROVE \E t : asks' = asks \cup {t} /\ Brings(t)
    <3>1. S!CanOpen(Cams) /\ asks' = asks \cup {S!Switch(S!Fresh(Cams), tabCall.cameraOff)} /\ S!Fresh(Cams) \in Cams
      BY <1>1, <2>4, FreshTrack DEF S!useCamera
    <3>2. tabCall.cameraOff \in BOOLEAN
      BY DEF StageInv, StageTypes
    <3> QED
      BY <1>4, <3>1, <3>2, NewAsks
  <2>5. ASSUME S!toggleScreenShare, ~tabCall.sharingScreen PROVE \E t : asks' = asks \cup {t} /\ Brings(t)
    <3>1. S!CanOpen(Captured) /\ asks' = asks \cup {S!Share(S!Fresh(Captured))} /\ S!Fresh(Captured) \in Captured
      BY <1>1, <2>5, FreshTrack DEF S!toggleScreenShare
    <3> QED
      BY <1>4, <3>1, NewAsks
  <2> QED
    BY <2>1, <2>2, <2>3, <2>4, <2>5
<1>6. StageTypes'
  BY <1>1, <1>2, <1>3, <1>5 DEF StageTypes, Brings, NewAsk
<1> QED
  BY <1>1, <1>2, <1>3, <1>5, <1>6, Harmless

(* A screen goes: nobody presents it, and only it stops.                    *)
LEMMA Stops ==
    ASSUME StageInv, S!TracksDiffer, (S!toggleScreenShare /\ tabCall.sharingScreen) \/ S!ScreenEnds
    PROVE  StageInv'
<1>1. StageTypes
  BY DEF StageInv
<1>2. S!stopScreenShare /\ UNCHANGED asks
  BY DEF S!toggleScreenShare, S!ScreenEnds
<1>3. PICK X : running' = running \ X /\ X \cap Cams = {}
  <2>1. {local.screen} \cap Cams = {}
    BY <1>1 DEF StageTypes, S!TracksDiffer
  <2>2. \A x \in Captured : {x, local.screen} \cap Cams = {}
    BY <2>1 DEF S!TracksDiffer
  <2>3. CASE S!toggleScreenShare /\ tabCall.sharingScreen
    BY <2>1, <2>3 DEF S!toggleScreenShare
  <2>4. CASE S!ScreenEnds
    BY <2>2, <2>4 DEF S!ScreenEnds
  <2> QED
    BY <2>3, <2>4
<1>4. /\ local' = [f \in LocalFields |-> local'[f]] /\ local'.cams = local.cams /\ local'.screen = NoTrack
      /\ tabCall' = [f \in CallFields |-> tabCall'[f]] /\ tabCall'.sharingScreen = FALSE /\ tabCall'.cameraOff = tabCall.cameraOff
  BY <1>1, <1>2 DEF S!stopScreenShare, StageTypes, LocalFields, CallFields
<1>5. \A p \in S!Linked : links[p] \subseteq Tracks /\ links[p] \ {local.screen} # NoTrack
  BY <1>1, LinkedPeers DEF S!TracksDiffer, Tracks
<1>6. /\ links' \in [Peers -> {NoTrack} \cup SUBSET Tracks] /\ S!Linked' = S!Linked
      /\ \A p \in S!Linked : links'[p] \subseteq links[p]
  BY <1>1, <1>2, <1>5, LinkedPeers DEF S!stopScreenShare, S!Linked
<1>7. StageTypes'
  BY <1>1, <1>2, <1>3, <1>4, <1>6 DEF StageTypes
<1>8. AsksOK'
  BY <1>2, <1>4, <1>6 DEF AsksOK, StageInv
<1>9. CamerasRun'
  <2>1. \A p \in S!Linked : links'[p] \cap Cams = links[p] \cap Cams
    <3>1. local.screen \notin Cams
      BY <1>1 DEF StageTypes, S!TracksDiffer
    <3> QED
      BY <1>1, <1>2, <3>1, LinkedPeers DEF S!stopScreenShare
  <2> QED
    BY <1>2, <1>3, <1>4, <1>6, <2>1, CamerasStay
<1>10. Presents'
  BY <1>4 DEF Presents
<1> QED
  BY <1>7, <1>8, <1>9, <1>10 DEF StageInv

(* Every link is sent one track more, and the handler that waited for it is *)
(* done: the screen picked, the camera added.                               *)
LEMMA Adds ==
    ASSUME StageInv, S!TracksDiffer, S!ScreenPicked \/ S!CameraOpened
    PROVE  StageInv'
<1>1. StageTypes
  BY DEF StageInv
<1>2. CASE S!ScreenPicked
  <2>1. PICK a \in asks :
          /\ a.why = "share" /\ asks' = asks \ {a} /\ running' = running \cup {a.gets}
          /\ links' = [p \in Peers |-> IF p \in S!Linked THEN links[p] \cup {a.gets} ELSE NoTrack]
          /\ local' = [local EXCEPT !.screen = a.gets]
          /\ tabCall' = IF tabCall.n = 0 THEN tabCall ELSE [tabCall EXCEPT !.sharingScreen = TRUE]
    BY <1>2 DEF S!ScreenPicked
  <2>2. a.gets \in Captured /\ a.gets \in Tracks /\ a.gets \notin Cams
    BY <2>1 DEF StageInv, AsksOK, S!TracksDiffer, Tracks
  <2>3. /\ local' = [f \in LocalFields |-> local'[f]] /\ local'.cams = local.cams /\ local'.screen = a.gets
        /\ tabCall' = [f \in CallFields |-> tabCall'[f]] /\ tabCall'.cameraOff = tabCall.cameraOff
    BY <1>1, <2>1 DEF StageTypes, LocalFields, CallFields
  <2>4. \A p \in S!Linked : links[p] \cup {a.gets} \subseteq Tracks /\ links[p] \cup {a.gets} # NoTrack
    BY <1>1, <2>2, LinkedPeers DEF S!TracksDiffer, Tracks
  <2>5. /\ links' \in [Peers -> {NoTrack} \cup SUBSET Tracks] /\ S!Linked' = S!Linked
        /\ \A p \in S!Linked : links'[p] = links[p] \cup {a.gets}
    BY <1>1, <2>1, <2>4, LinkedPeers DEF S!Linked
  <2>6. StageTypes'
    BY <1>1, <2>1, <2>2, <2>3, <2>5 DEF StageTypes
  <2>7. AsksOK'
    BY <2>1, <2>3, <2>5 DEF AsksOK, StageInv
  <2>8. CamerasRun'
    BY <2>1, <2>2, <2>3, <2>5, CamerasStay
  <2>9. Presents'
    BY <2>1, <2>2, <2>3, <2>5 DEF Presents
  <2> QED
    BY <2>6, <2>7, <2>8, <2>9 DEF StageInv
<1>3. CASE S!CameraOpened
  <2>1. PICK a \in asks :
          /\ a.why = "promote" /\ asks' = asks \ {a} /\ running' = running \cup {a.gets}
          /\ IF local.open
             THEN /\ links' = [p \in Peers |-> IF p \in S!Linked THEN links[p] \cup {a.gets} ELSE NoTrack]
                  /\ local' = [local EXCEPT !.cams = @ \cup {a.gets}, !.enabled = @ \cup {a.gets}]
                  /\ tabCall' = [tabCall EXCEPT !.media = "video", !.cameraOff = FALSE, !.sendingVideo = TRUE]
             ELSE UNCHANGED <<links, local, tabCall>>
    BY <1>3 DEF S!CameraOpened
  <2>2. a.gets \in Cams /\ a.gets \in Tracks
    BY <1>1, <2>1, AskFacts DEF StageInv, AsksOK, Tracks
  <2>3. CASE ~local.open
    <3>1. StageTypes'
      BY <1>1, <2>1, <2>2, <2>3 DEF StageTypes
    <3> QED
      BY <1>1, <2>1, <2>3, <3>1, Harmless
  <2>4. CASE local.open
    <3>1. /\ local' = [f \in LocalFields |-> local'[f]]
          /\ local'.cams = local.cams \cup {a.gets} /\ local'.screen = local.screen
          /\ tabCall' = [f \in CallFields |-> tabCall'[f]] /\ tabCall'.cameraOff = FALSE
          /\ tabCall'.sharingScreen = tabCall.sharingScreen
      BY <1>1, <2>1, <2>4 DEF StageTypes, LocalFields, CallFields
    <3>2. \A p \in S!Linked : links[p] \cup {a.gets} \subseteq Tracks /\ links[p] \cup {a.gets} # NoTrack
      BY <1>1, <2>2, LinkedPeers DEF S!TracksDiffer, Tracks
    <3>3. /\ links' \in [Peers -> {NoTrack} \cup SUBSET Tracks] /\ S!Linked' = S!Linked
          /\ \A p \in S!Linked : links'[p] = links[p] \cup {a.gets}
      BY <1>1, <2>1, <2>4, <3>2, LinkedPeers DEF S!Linked
    <3>4. StageTypes'
      BY <1>1, <2>1, <2>2, <3>1, <3>3 DEF StageTypes
    <3>5. AsksOK'
      <4>1. \A b \in asks' : b \in asks /\ b.gets # a.gets
        BY <2>1, <2>2 DEF AsksOK, StageInv, S!TracksDiffer
      <4> QED
        BY <3>1, <3>3, <4>1 DEF AsksOK, StageInv
    <3>6. CamerasRun'
      <4>1. ASSUME NEW p \in S!Linked PROVE Lit(p)'
        BY <2>1, <2>2, <3>3 DEF StageInv, AsksOK, Lit
      <4>2. \A b \in asks' : b.why = "swap" => b.gets \in running' /\ b.old \in links'[b.at] \cap Cams
        BY <2>1, <3>3 DEF StageInv, AsksOK, CamerasRun
      <4> QED
        BY <2>1, <3>1, <3>3, <4>1, <4>2 DEF CamerasRun, StageInv
    <3>7. Presents'
      BY <2>1, <3>1, <3>3 DEF Presents, StageInv
    <3> QED
      BY <3>4, <3>5, <3>6, <3>7 DEF StageInv
  <2> QED
    BY <2>3, <2>4
<1> QED
  BY <1>2, <1>3

(* An exchange goes on to a sender that sends a camera on its way out.      *)
LEMMA NextSender ==
    ASSUME StageTypes, S!TracksDiffer, NEW a \in AskType, NEW b \in S!Replacing(a)
    PROVE  /\ b \in AskType /\ b.why = a.why /\ b.gets = a.gets /\ b.olds = a.olds /\ b.done = a.done
           /\ b.at \in S!Linked \ a.done /\ b.old \in links[b.at] \cap a.olds
<1>1. PICK p \in S!Due(a) : \E c \in links[p] \cap a.olds : b = [a EXCEPT !.at = p, !.old = c]
  BY DEF S!Replacing
<1>2. PICK c \in links[p] \cap a.olds : b = [a EXCEPT !.at = p, !.old = c]
  BY <1>1
<1>3. p \in S!Linked \ a.done /\ p \in Peers /\ c \in Cams
  BY <1>1, LinkedPeers DEF S!Due, AskType
<1> QED
  BY <1>2, <1>3 DEF AskType

LEMMA NowhereToGo ==
    ASSUME StageTypes, NEW a \in AskType, S!Replacing(a) = {}
    PROVE  \A p \in S!Linked \ a.done : links[p] \cap a.olds = {}
<1> SUFFICES ASSUME NEW p \in S!Linked \ a.done, NEW c \in links[p] \cap a.olds PROVE FALSE
  OBVIOUS
<1>1. p \in S!Due(a)
  BY DEF S!Due
<1> DEFINE to(q) == {[a EXCEPT !.at = q, !.old = x] : x \in links[q] \cap a.olds}
<1>2. [a EXCEPT !.at = p, !.old = c] \in to(p)
  OBVIOUS
<1>3. S!Replacing(a) = UNION {to(q) : q \in S!Due(a)}
  BY DEF S!Replacing
<1> HIDE DEF to
<1> QED
  BY <1>1, <1>2, <1>3

LEMMA OtherOpened == ASSUME StageInv, S!TracksDiffer, S!OtherCameraOpened PROVE StageInv'
<1>1. StageTypes
  BY DEF StageInv
<1> DEFINE swap(a) == [a EXCEPT !.why = "swap", !.olds = local.cams]
<1>2. /\ UNCHANGED <<tabCall, local, links>>
      /\ \E a \in asks :
           /\ a.why = "switch"
           /\ \/ asks' = asks \ {a} /\ (running' = running \/ running' = running \cup {a.gets})
              \/ \E b \in S!Replacing(swap(a)) : asks' = (asks \ {a}) \cup {b} /\ running' = running \cup {a.gets}
  BY DEF S!OtherCameraOpened
<1> HIDE DEF swap
<1>3. PICK a \in asks :
           /\ a.why = "switch"
           /\ \/ asks' = asks \ {a} /\ (running' = running \/ running' = running \cup {a.gets})
              \/ \E b \in S!Replacing(swap(a)) : asks' = (asks \ {a}) \cup {b} /\ running' = running \cup {a.gets}
  BY <1>2
<1>4. a.gets \in Cams /\ a.gets \in Tracks /\ a.gets # NoTrack
  BY <1>3, AskedCamera
<1>5. running \subseteq running' /\ running' \subseteq Tracks /\ S!Linked' = S!Linked
  BY <1>1, <1>2, <1>3, <1>4 DEF StageTypes, S!Linked
<1>6. CASE asks' = asks \ {a}
  <2>1. StageTypes'
    BY <1>1, <1>2, <1>5, <1>6 DEF StageTypes
  <2> QED
    BY <1>2, <1>5, <1>6, <2>1, Harmless
<1>7. ASSUME NEW b \in S!Replacing(swap(a)), asks' = (asks \ {a}) \cup {b}, running' = running \cup {a.gets}
      PROVE  StageInv'
  <2>1. /\ swap(a) \in AskType /\ swap(a).why = "swap" /\ swap(a).gets = a.gets
        /\ swap(a).olds = local.cams /\ swap(a).done = {}
    <3>1. a \in AskType /\ a.done = {} /\ local.cams \subseteq Cams
      BY <1>1, <1>3, AskFacts DEF StageInv, AsksOK, StageTypes
    <3> QED
      BY <3>1 DEF swap, AskType
  <2>2. /\ b \in AskType /\ b.why = "swap" /\ b.gets = a.gets /\ b.olds = local.cams /\ b.done = {}
        /\ b.at \in S!Linked /\ b.old \in links[b.at] \cap Cams
    BY <1>1, <1>7, <2>1, NextSender DEF StageTypes
  <2>4. StageTypes'
    BY <1>1, <1>2, <1>5, <1>7, <2>2 DEF StageTypes
  <2>5. AsksOK'
    <3>1. ASSUME NEW c \in asks' PROVE /\ c.gets = NoTrack <=> c.why = "stats"
                                       /\ c.gets \in Captured <=> c.why = "share"
                                       /\ c.gets \notin local'.cams
                                       /\ c.why # "swap" => c.olds = {} /\ c.done = {}
                                       /\ c.why = "swap" => c.at \in S!Linked' /\ c.done \subseteq S!Linked'
      <4>1. CASE c = b
        BY <1>2, <1>4, <1>5, <2>2, <4>1 DEF StageInv, AsksOK, S!TracksDiffer
      <4>2. CASE c \in asks
        BY <1>2, <1>5, <4>2 DEF StageInv, AsksOK
      <4> QED
        BY <1>7, <4>1, <4>2
    <3>2. ASSUME NEW c \in asks', NEW d \in asks' PROVE c.gets \notin d.olds /\ (c.gets = d.gets /\ c.gets # NoTrack => c = d)
      BY <1>7, <2>2 DEF StageInv, AsksOK
    <3> QED
      BY <3>1, <3>2 DEF AsksOK
  <2>6. CamerasRun'
    <3>1. \A p \in S!Linked : Lit(p) => Lit(p)'
      BY <1>2, <1>7, <2>2 DEF Lit
    <3>2. \A c \in asks' : c.why = "swap" => c.gets \in running' /\ c.old \in links'[c.at] \cap Cams
      BY <1>2, <1>7, <2>2 DEF CamerasRun, StageInv
    <3> QED
      BY <1>2, <1>5, <3>1, <3>2 DEF CamerasRun, StageInv
  <2>7. Presents'
    BY <1>2, <1>5 DEF Presents, StageInv
  <2> QED
    BY <2>4, <2>5, <2>6, <2>7 DEF StageInv
<1> QED
  BY <1>3, <1>6, <1>7

LEMMA Replaced == ASSUME StageInv, S!TracksDiffer, S!CameraReplaced PROVE StageInv'
<1>1. StageTypes
  BY DEF StageInv
<1> DEFINE swap(a) == [a EXCEPT !.done = @ \cup {a.at}]
<1>2. PICK a \in asks :
        /\ a.why = "swap" /\ links' = [links EXCEPT ![a.at] = (@ \ {a.old}) \cup {a.gets}] /\ UNCHANGED tabCall
        /\ IF S!Replacing(swap(a)) # {}
           THEN /\ \E b \in S!Replacing(swap(a)) : asks' = S!Others(a) \cup {b}
                /\ UNCHANGED <<local, running>>
           ELSE /\ asks' = S!Others(a) /\ running' = running \ a.olds
                /\ local' = [local EXCEPT !.cams = (@ \ a.olds) \cup {a.gets},
                                          !.enabled = (@ \ a.olds) \cup (IF a.off THEN {} ELSE {a.gets})]
  BY DEF S!CameraReplaced
<1>3. a.gets \in Cams /\ a.gets \in Tracks /\ a.gets # NoTrack /\ a.gets \in running
  BY <1>2, AskedCamera DEF StageInv, CamerasRun
<1>4. /\ a \in AskType /\ a.olds \subseteq Cams /\ a.at \in S!Linked /\ a.at \in Peers /\ a.done \subseteq S!Linked
      /\ \A c \in asks : a.gets \notin c.olds /\ c.gets \notin a.olds
      /\ \A c \in asks \ {a} : c.gets # a.gets
      /\ a.old \in links[a.at] \cap Cams
  BY <1>1, <1>2, <1>3, AskFacts, LinkedPeers DEF StageInv, AsksOK, CamerasRun
<1>5. \A p \in S!Linked : links'[p] = IF p = a.at THEN (links[p] \ {a.old}) \cup {a.gets} ELSE links[p]
  BY <1>1, <1>2, LinkedPeers DEF StageTypes
<1>6. links' \in [Peers -> {NoTrack} \cup SUBSET Tracks] /\ S!Linked' = S!Linked
  <2>1. (links[a.at] \ {a.old}) \cup {a.gets} \subseteq Tracks /\ (links[a.at] \ {a.old}) \cup {a.gets} # NoTrack
    BY <1>1, <1>3, <1>4, LinkedPeers DEF S!TracksDiffer, Tracks
  <2> QED
    BY <1>1, <1>2, <1>4, <2>1 DEF StageTypes, S!Linked
<1> DEFINE follow(b) == IF S!SameSender(a, b) THEN [b EXCEPT !.old = a.gets] ELSE b
<1>7. \A b \in asks : /\ follow(b) \in AskType /\ follow(b).why = b.why /\ follow(b).gets = b.gets
                      /\ follow(b).olds = b.olds /\ follow(b).at = b.at /\ follow(b).done = b.done
                      /\ b.why = "swap" => follow(b).old \in links'[b.at] \cap Cams
  <2> SUFFICES ASSUME NEW b \in asks
               PROVE  /\ follow(b) \in AskType /\ follow(b).why = b.why /\ follow(b).gets = b.gets
                      /\ follow(b).olds = b.olds /\ follow(b).at = b.at /\ follow(b).done = b.done
                      /\ b.why = "swap" => follow(b).old \in links'[b.at] \cap Cams
    OBVIOUS
  <2>1. b \in AskType /\ (b.why = "swap" => b.at \in S!Linked /\ b.old \in links[b.at] \cap Cams)
    BY <1>1 DEF StageTypes, StageInv, AsksOK, CamerasRun
  <2>2. CASE S!SameSender(a, b)
    <3>1. follow(b) = [b EXCEPT !.old = a.gets] /\ b.why = "swap" /\ b.at = a.at
      BY <2>2 DEF S!SameSender
    <3>2. a.gets \in links'[b.at] \cap Cams
      BY <1>3, <1>4, <1>5, <3>1
    <3> HIDE DEF follow
    <3> QED
      BY <1>3, <2>1, <3>1, <3>2 DEF AskType
  <2>3. CASE ~S!SameSender(a, b)
    <3>1. follow(b) = b
      BY <2>3
    <3>2. b.why = "swap" => b.old \in links'[b.at] \cap Cams
      BY <1>5, <2>1, <2>3 DEF S!SameSender
    <3> HIDE DEF follow
    <3> QED
      BY <2>1, <3>1, <3>2
  <2> QED
    BY <2>2, <2>3
<1>8. \A c \in S!Others(a) : \E b \in asks \ {a} : c = follow(b)
  BY DEF S!Others
<1> HIDE DEF follow
<1>9. /\ swap(a) \in AskType /\ swap(a).why = "swap" /\ swap(a).gets = a.gets /\ swap(a).olds = a.olds
      /\ swap(a).done = a.done \cup {a.at}
  BY <1>2, <1>4 DEF AskType
<1> HIDE DEF swap
\* What the exchange makes of those that wait besides.
<1>10. ASSUME NEW c \in S!Others(a)
       PROVE  /\ c \in AskType /\ c.gets # a.gets /\ c.gets \notin a.olds
              /\ c.gets = NoTrack <=> c.why = "stats"
              /\ c.gets \in Captured <=> c.why = "share"
              /\ c.gets \notin local.cams /\ a.gets \notin c.olds
              /\ c.why # "swap" => c.olds = {} /\ c.done = {}
              /\ c.why = "swap" => /\ c.at \in S!Linked /\ c.done \subseteq S!Linked
                                   /\ c.gets \in running /\ c.old \in links'[c.at] \cap Cams
  <2>1. PICK b \in asks \ {a} : c = follow(b)
    BY <1>8
  <2> QED
    BY <1>4, <1>7, <2>1 DEF StageInv, AsksOK, CamerasRun
<1>11. ASSUME NEW c \in S!Others(a), NEW d \in S!Others(a)
       PROVE  c.gets \notin d.olds /\ (c.gets = d.gets /\ c.gets # NoTrack => c = d)
  <2>1. PICK b \in asks \ {a} : c = follow(b)
    BY <1>8
  <2>2. PICK e \in asks \ {a} : d = follow(e)
    BY <1>8
  <2> QED
    BY <1>7, <2>1, <2>2 DEF StageInv, AsksOK
\* Where it has been, the new camera stays on; elsewhere what did so does.
<1>12. ASSUME NEW p \in S!Linked, links'[p] \cap Cams # {}
       PROVE  \E x \in links'[p] \cap Cams \cap running :
                 /\ \A c \in S!Others(a) : p \in c.done => x \notin c.olds
                 /\ p \in a.done \cup {a.at} => x \notin a.olds
  <2>1. CASE p = a.at
    <3>1. a.gets \in links'[p] \cap Cams \cap running
      BY <1>3, <1>4, <1>5, <2>1
    <3>2. a.gets \notin a.olds /\ \A c \in S!Others(a) : a.gets \notin c.olds
      BY <1>4, <1>10
    <3> QED
      BY <3>1, <3>2
  <2>2. CASE p # a.at
    <3>1. PICK x \in links[p] \cap Cams \cap running : \A b \in asks : p \in b.done => x \notin b.olds
      BY <1>5, <1>12, <2>2 DEF StageInv, CamerasRun, Lit
    <3>2. \A c \in S!Others(a) : p \in c.done => x \notin c.olds
      BY <1>7, <1>8, <3>1
    <3> QED
      BY <1>5, <2>2, <3>1, <3>2
  <2> QED
    BY <2>1, <2>2
<1>13. ASSUME NEW b \in S!Replacing(swap(a)), asks' = S!Others(a) \cup {b}, UNCHANGED <<local, running>>
       PROVE  StageInv'
  <2>1. /\ b \in AskType /\ b.why = "swap" /\ b.gets = a.gets /\ b.olds = a.olds /\ b.done = a.done \cup {a.at}
        /\ b.at \in S!Linked /\ b.old \in links[b.at] \cap a.olds /\ b.at \notin b.done
    BY <1>1, <1>9, NextSender
  <2>2. b.old \in links'[b.at] \cap Cams
    BY <1>4, <1>5, <2>1
  <2>3. StageTypes'
    BY <1>1, <1>2, <1>6, <1>10, <1>13, <2>1 DEF StageTypes
  <2>4. AsksOK'
    <3>1. ASSUME NEW c \in asks' PROVE /\ c.gets = NoTrack <=> c.why = "stats"
                                       /\ c.gets \in Captured <=> c.why = "share"
                                       /\ c.gets \notin local'.cams
                                       /\ c.why # "swap" => c.olds = {} /\ c.done = {}
                                       /\ c.why = "swap" => c.at \in S!Linked' /\ c.done \subseteq S!Linked'
      <4>1. CASE c = b
        BY <1>2, <1>3, <1>4, <1>6, <1>13, <2>1, <4>1 DEF StageInv, AsksOK, S!TracksDiffer
      <4>2. CASE c \in S!Others(a)
        BY <1>6, <1>10, <1>13, <4>2
      <4> QED
        BY <1>13, <4>1, <4>2
    <3>2. ASSUME NEW c \in asks', NEW d \in asks' PROVE c.gets \notin d.olds /\ (c.gets = d.gets /\ c.gets # NoTrack => c = d)
      BY <1>4, <1>10, <1>11, <1>13, <2>1
    <3> QED
      BY <3>1, <3>2 DEF AsksOK
  <2>5. CamerasRun'
    <3>1. \A c \in asks' : c.why = "swap" => c.gets \in running' /\ c.old \in links'[c.at] \cap Cams
      BY <1>3, <1>10, <1>13, <2>1, <2>2
    <3>2. ASSUME NEW p \in S!Linked, links'[p] \cap Cams # {} PROVE Lit(p)'
      BY <1>12, <1>13, <2>1, <3>2 DEF Lit
    <3> QED
      BY <1>6, <1>13, <3>1, <3>2 DEF CamerasRun, StageInv
  <2>6. Presents'
    BY <1>2, <1>4, <1>5, <1>6, <1>13 DEF Presents, StageInv, S!TracksDiffer
  <2> QED
    BY <2>3, <2>4, <2>5, <2>6 DEF StageInv
<1>14. ASSUME S!Replacing(swap(a)) = {}, asks' = S!Others(a), running' = running \ a.olds,
              local' = [local EXCEPT !.cams = (@ \ a.olds) \cup {a.gets},
                                     !.enabled = (@ \ a.olds) \cup (IF a.off THEN {} ELSE {a.gets})]
       PROVE  StageInv'
  <2>1. /\ local' = [f \in LocalFields |-> local'[f]]
        /\ local'.cams = (local.cams \ a.olds) \cup {a.gets} /\ local'.screen = local.screen
    BY <1>1, <1>14 DEF StageTypes, LocalFields
  <2>2. StageTypes'
    BY <1>1, <1>2, <1>3, <1>6, <1>10, <1>14, <2>1 DEF StageTypes
  <2>3. AsksOK'
    BY <1>6, <1>10, <1>11, <1>14, <2>1 DEF AsksOK
  <2>4. CamerasRun'
    <3>1. local'.cams \subseteq running'
      BY <1>2, <1>3, <1>4, <1>14, <2>1 DEF CamerasRun, StageInv
    <3>2. \A c \in asks' : c.why = "swap" => c.gets \in running' /\ c.old \in links'[c.at] \cap Cams
      BY <1>10, <1>14
    <3>3. ASSUME NEW p \in S!Linked, links'[p] \cap Cams # {} PROVE Lit(p)'
      <4>1. PICK x \in links'[p] \cap Cams \cap running :
               /\ \A c \in S!Others(a) : p \in c.done => x \notin c.olds
               /\ p \in a.done \cup {a.at} => x \notin a.olds
        BY <1>12, <3>3
      <4>2. x \notin a.olds
        <5>1. CASE p \in a.done \cup {a.at}
          BY <4>1, <5>1
        <5>2. CASE p \notin a.done \cup {a.at}
          BY <1>1, <1>5, <1>9, <1>14, <4>1, <5>2, NowhereToGo
        <5> QED
          BY <5>1, <5>2
      <4> QED
        BY <1>14, <4>1, <4>2 DEF Lit
    <3> QED
      BY <1>6, <3>1, <3>2, <3>3 DEF CamerasRun
  <2>5. Presents'
    BY <1>2, <1>4, <1>5, <1>6, <1>14, <2>1 DEF Presents, StageInv, S!TracksDiffer
  <2> QED
    BY <2>2, <2>3, <2>4, <2>5 DEF StageInv
<1> QED
  BY <1>2, <1>13, <1>14

(* Calls and peers.                                                         *)
LEMMA Begins == ASSUME StageInv, S!TracksDiffer, S!CallBegins PROVE StageInv'
<1>1. StageTypes
  BY DEF StageInv
<1>2. PICK media, with, cam :
        /\ cam = {} \/ (S!CanOpen(Cams) /\ cam = {S!Fresh(Cams)})
        /\ tabCall' = [S!NoCall EXCEPT !.n = 3 - tabPlan.left["call"], !.media = media, !.sendingVideo = with]
        /\ local' = [local EXCEPT !.open = TRUE, !.cams = cam, !.enabled = cam]
        /\ running' = running \cup cam /\ UNCHANGED <<links, asks>>
  <2>1. PICK media \in tabPlan.media, camera \in BOOLEAN :
          LET with == camera /\ media = "video" /\ S!CanOpen(Cams)
              cam == IF with THEN {S!Fresh(Cams)} ELSE {}
          IN /\ tabCall' = [S!NoCall EXCEPT !.n = 3 - tabPlan.left["call"], !.media = media, !.sendingVideo = with]
             /\ local' = [local EXCEPT !.open = TRUE, !.cams = cam, !.enabled = cam]
             /\ running' = running \cup cam
             /\ UNCHANGED <<links, asks>>
    BY DEF S!CallBegins
  <2> DEFINE with == camera /\ media = "video" /\ S!CanOpen(Cams)
             cam == IF with THEN {S!Fresh(Cams)} ELSE {}
  <2>2. cam = {} \/ (S!CanOpen(Cams) /\ cam = {S!Fresh(Cams)})
    OBVIOUS
  <2>3. /\ tabCall' = [S!NoCall EXCEPT !.n = 3 - tabPlan.left["call"], !.media = media, !.sendingVideo = with]
        /\ local' = [local EXCEPT !.open = TRUE, !.cams = cam, !.enabled = cam]
        /\ running' = running \cup cam /\ UNCHANGED <<links, asks>>
    BY <2>1
  <2> HIDE DEF with, cam
  <2> QED
    BY <2>2, <2>3
<1>3. /\ cam \subseteq Cams /\ cam \subseteq running'
      /\ \A a \in asks : a.gets \notin cam
  BY <1>1, <1>2, FreshTrack
<1>4. /\ local' = [f \in LocalFields |-> local'[f]] /\ local'.cams = cam /\ local'.screen = local.screen
  BY <1>1, <1>2 DEF StageTypes, LocalFields
<1>5. tabCall' = [f \in CallFields |-> tabCall'[f]] /\ tabCall'.sharingScreen = FALSE /\ tabCall'.cameraOff = FALSE
  BY <1>2 DEF S!NoCall, CallFields
<1>6. StageTypes' /\ S!Linked' = S!Linked
  BY <1>1, <1>2, <1>3, <1>4, <1>5 DEF StageTypes, Tracks, S!Linked
<1>7. AsksOK'
  BY <1>2, <1>3, <1>4, <1>6 DEF AsksOK, StageInv
<1>8. CamerasRun'
  <2>1. \A p \in S!Linked : links'[p] = links[p] /\ (Lit(p) => Lit(p)')
    BY <1>2 DEF Lit
  <2> QED
    BY <1>2, <1>3, <1>4, <1>6, <2>1 DEF CamerasRun, StageInv
<1> QED
  BY <1>5, <1>6, <1>7, <1>8 DEF StageInv, Presents

LEMMA Comes == ASSUME StageInv, S!TracksDiffer, S!PeerComes PROVE StageInv'
<1>1. StageTypes
  BY DEF StageInv
<1>2. PICK p \in Peers \ S!Linked : links' = [links EXCEPT ![p] = S!LocalTracks] /\ UNCHANGED <<tabCall, local, running, asks>>
  BY DEF S!PeerComes
<1>3. /\ S!LocalTracks \subseteq Tracks /\ S!LocalTracks # NoTrack /\ S!LocalTracks \cap Cams = local.cams
      /\ tabCall.sharingScreen => local.screen \in S!LocalTracks
  BY <1>1 DEF S!LocalTracks, StageTypes, Tracks, S!TracksDiffer, StageInv, Presents
<1>4. /\ links' \in [Peers -> {NoTrack} \cup SUBSET Tracks] /\ S!Linked' = S!Linked \cup {p}
      /\ links'[p] = S!LocalTracks /\ \A q \in S!Linked : links'[q] = links[q]
  BY <1>1, <1>2, <1>3, LinkedPeers DEF StageTypes, S!Linked
<1>5. StageTypes'
  BY <1>1, <1>2, <1>4 DEF StageTypes
<1>6. AsksOK'
  BY <1>2, <1>4 DEF AsksOK, StageInv
<1>7. CamerasRun'
  <2>1. ASSUME links'[p] \cap Cams # {} PROVE Lit(p)'
    <3>1. PICK c \in local.cams : c \in links'[p] \cap Cams \cap running'
      BY <1>2, <1>3, <1>4, <2>1 DEF CamerasRun, StageInv
    <3>2. \A a \in asks : p \notin a.done
      BY <1>2 DEF AsksOK, StageInv
    <3> QED
      BY <1>2, <3>1, <3>2 DEF Lit
  <2>2. \A q \in S!Linked : Lit(q) => Lit(q)'
    BY <1>2, <1>4 DEF Lit
  <2>3. \A a \in asks' : a.why = "swap" => a.gets \in running' /\ a.old \in links'[a.at] \cap Cams
    BY <1>2, <1>4 DEF CamerasRun, AsksOK, StageInv
  <2> QED
    BY <1>2, <1>4, <2>1, <2>2, <2>3 DEF CamerasRun, StageInv
<1>8. Presents'
  BY <1>2, <1>3, <1>4 DEF Presents, StageInv
<1> QED
  BY <1>5, <1>6, <1>7, <1>8 DEF StageInv

LEMMA Goes == ASSUME StageInv, S!TracksDiffer, S!PeerGoes PROVE StageInv'
<1>1. StageTypes
  BY DEF StageInv
<1>2. PICK p \in S!Linked : S!dropLink(p) /\ UNCHANGED <<tabCall, local, running>>
  BY DEF S!PeerGoes
<1> DEFINE left(a) == [a EXCEPT !.done = @ \ {p}]
<1>3. /\ links' \in [Peers -> {NoTrack} \cup SUBSET Tracks] /\ S!Linked' = S!Linked \ {p}
      /\ \A q \in S!Linked' : links'[q] = links[q]
  BY <1>1, <1>2, LinkedPeers DEF StageTypes, S!Linked, S!dropLink
<1>4. \A a \in asks : /\ left(a) \in AskType /\ left(a).why = a.why /\ left(a).gets = a.gets /\ left(a).olds = a.olds
                      /\ left(a).at = a.at /\ left(a).old = a.old /\ left(a).done = a.done \ {p}
  BY <1>1 DEF StageTypes, AskType
<1>5. \A b \in asks' : \E a \in asks : b = left(a) /\ ~(a.why = "swap" /\ a.at = p)
  BY <1>2 DEF S!dropLink, S!Hung
<1> HIDE DEF left
<1>6. StageTypes'
  BY <1>1, <1>2, <1>3, <1>4, <1>5 DEF StageTypes
<1>7. AsksOK'
  <2>1. ASSUME NEW b \in asks' PROVE /\ b.gets = NoTrack <=> b.why = "stats"
                                     /\ b.gets \in Captured <=> b.why = "share"
                                     /\ b.gets \notin local'.cams
                                     /\ b.why # "swap" => b.olds = {} /\ b.done = {}
                                     /\ b.why = "swap" => b.at \in S!Linked' /\ b.done \subseteq S!Linked'
    <3>1. PICK a \in asks : b = left(a) /\ ~(a.why = "swap" /\ a.at = p)
      BY <1>5
    <3> QED
      BY <1>2, <1>3, <1>4, <3>1 DEF StageInv, AsksOK
  <2>2. ASSUME NEW b \in asks', NEW d \in asks' PROVE b.gets \notin d.olds /\ (b.gets = d.gets /\ b.gets # NoTrack => b = d)
    <3>1. PICK a \in asks : b = left(a)
      BY <1>5
    <3>2. PICK c \in asks : d = left(c)
      BY <1>5
    <3> QED
      BY <1>4, <3>1, <3>2 DEF StageInv, AsksOK
  <2> QED
    BY <2>1, <2>2 DEF AsksOK
<1>8. CamerasRun'
  <2>1. ASSUME NEW b \in asks', b.why = "swap"
        PROVE  b.gets \in running' /\ b.old \in links'[b.at] \cap Cams
    <3>1. PICK a \in asks : b = left(a) /\ ~(a.why = "swap" /\ a.at = p)
      BY <1>5
    <3> QED
      BY <1>2, <1>3, <1>4, <2>1, <3>1 DEF StageInv, CamerasRun, AsksOK
  <2>2. ASSUME NEW q \in S!Linked', Lit(q) PROVE Lit(q)'
    <3>1. PICK c \in links[q] \cap Cams \cap running : \A a \in asks : q \in a.done => c \notin a.olds
      BY <2>2 DEF Lit
    <3>2. \A b \in asks' : q \in b.done => c \notin b.olds
      <4>1. \A a \in asks : q \in left(a).done => c \notin left(a).olds
        BY <1>4, <3>1
      <4> QED
        BY <1>5, <4>1
    <3> QED
      BY <1>2, <1>3, <3>1, <3>2 DEF Lit
  <2> QED
    BY <1>2, <1>3, <2>1, <2>2 DEF CamerasRun, StageInv
<1>9. Presents'
  BY <1>2, <1>3 DEF Presents, StageInv
<1> QED
  BY <1>6, <1>7, <1>8, <1>9 DEF StageInv

LEMMA EndsCall == ASSUME StageInv, S!TracksDiffer, S!teardown PROVE StageInv'
<1>1. StageTypes
  BY DEF StageInv
<1>2. /\ tabCall' = S!NoCall /\ local' = S!NoMedia /\ running' \subseteq running
      /\ links' = [p \in Peers |-> NoTrack] /\ asks' = asks \ S!Hung(Peers)
  BY DEF S!teardown
<1>3. S!Linked' = {} /\ links' \in [Peers -> {NoTrack} \cup SUBSET Tracks]
  BY <1>2 DEF S!Linked
<1>4. \A a \in asks' : a \in asks /\ a.why # "swap"
  BY <1>1, <1>2, LinkedPeers DEF S!Hung, StageInv, AsksOK
<1>5. StageTypes'
  BY <1>1, <1>2, <1>3, <1>4 DEF StageTypes, S!NoCall, S!NoMedia, CallFields, LocalFields
<1>6. local'.cams = {} /\ tabCall'.sharingScreen = FALSE
  BY <1>2 DEF S!NoMedia, S!NoCall
<1>7. AsksOK'
  BY <1>4, <1>6 DEF AsksOK, StageInv
<1> QED
  BY <1>3, <1>4, <1>5, <1>6, <1>7 DEF StageInv, CamerasRun, Presents

LEMMA Stage == ASSUME S!TracksDiffer PROVE S!Spec => []StageInv
<1>1. S!Init => StageInv
  <2> SUFFICES ASSUME S!Init PROVE StageInv
    OBVIOUS
  <2>1. /\ tabCall = S!NoCall /\ local = S!NoMedia /\ running = {} /\ asks = {}
        /\ links = [p \in Peers |-> NoTrack]
    BY DEF S!Init
  <2>2. S!Linked = {}
    BY <2>1 DEF S!Linked
  <2>3. StageTypes
    BY <2>1 DEF StageTypes, S!NoCall, S!NoMedia, CallFields, LocalFields
  <2>4. local.cams = {} /\ tabCall.sharingScreen = FALSE
    BY <2>1 DEF S!NoMedia, S!NoCall
  <2> QED
    BY <2>1, <2>2, <2>3, <2>4 DEF StageInv, AsksOK, CamerasRun, Presents
<1>2. StageInv /\ [S!Next]_S!vars => StageInv'
  <2> SUFFICES ASSUME StageInv, [S!Next]_S!vars PROVE StageInv'
    OBVIOUS
  <2>1. CASE UNCHANGED S!vars
    BY <2>1 DEF S!vars, StageInv, StageTypes, AsksOK, CamerasRun, Lit, Presents, S!Linked
  <2>2. CASE S!View
    BY <2>2, Views
  <2>3. CASE S!Device
    BY <2>3, Pressed, Stops, Adds, OtherOpened, Replaced DEF S!Device
  <2>4. CASE S!Buttons
    <3>1. CASE S!toggleScreenShare
      <4>1. CASE tabCall.sharingScreen
        BY <3>1, <4>1, Stops
      <4>2. CASE ~tabCall.sharingScreen
        BY <3>1, <4>2, Pressed
      <4> QED
        BY <4>1, <4>2
    <3>2. CASE S!toggleMute \/ S!toggleCamera \/ S!watchOutgoingAudio \/ S!promoteToVideo \/ S!useCamera
      BY <3>2, Pressed
    <3> QED
      BY <2>4, <3>1, <3>2 DEF S!Buttons
  <2>5. CASE S!CallBegins \/ S!PeerComes \/ S!PeerGoes \/ S!teardown
    BY <2>5, Begins, Comes, Goes, EndsCall
  <2> QED
    BY <2>1, <2>2, <2>3, <2>4, <2>5 DEF S!Next
<1> QED
  BY <1>1, <1>2, PTL DEF S!Spec

(* While the call says that a screen is shared, everybody in it is sent     *)
(* that screen, in calls of any size and with any number of cameras,        *)
(* screens and presses (toggleScreenShare, buildLink).                      *)
THEOREM ScreenReaches == S!Spec => []PresenterReachesEveryone
<1>1. StageInv => PresenterReachesEveryone
  BY DEF StageInv, Presents, PresenterReachesEveryone, S!PresenterReachesEveryone
<1> QED
  BY <1>1, Stage, StageTracks, PTL

(* Whoever is sent a camera is sent one that runs, however many cameras a   *)
(* call came to have and however many exchanges of useCamera run at once,   *)
(* while peers come and go between their awaits.                            *)
THEOREM CamerasSent == S!Spec => []CameraReachesEveryone
<1>1. StageInv => CameraReachesEveryone
  BY DEF StageInv, CamerasRun, Lit, CameraReachesEveryone, S!CameraReachesEveryone
<1> QED
  BY <1>1, Stage, StageTracks, PTL

(***************************************************************************)
(* CallClient: the tabs and the room.                                       *)
(***************************************************************************)

(* What there may be in a tab, in the queues and in the room.               *)
CallRecs ==
    {r \in [state : CallStates, dir : {"none", "outgoing", "incoming"}, id : Calls \cup {None},
            people : SUBSET Owners, joined : SUBSET Owners, offer : BOOLEAN] :
        /\ r.state # "none" \/ r = NoCall
        /\ r.dir = "incoming" => r.id \in Calls}
JobRecs == {j \in JobType : j.why = "accept" => j.id \in Calls}
MicRecs == [held : BOOLEAN, lost : BOOLEAN, met : BOOLEAN]
(* Until two captures are asked for at once, one is pending at most, and    *)
(* none while localMedia has a stream: so none is overwritten.              *)
Kept(m, js) == ~m.met => /\ ~m.lost
                         /\ \A i, j \in Asking(js) : i = j
                         /\ m.held => Asking(js) = {}
TabRecs == {v \in [call : CallRecs, timer : BOOLEAN, mic : MicRecs, jobs : Seq(JobRecs)] :
              (v.mic.held => v.call # NoCall) /\ Kept(v.mic, v.jobs)}
Ups == {f \in UpType : /\ f.kind \in {"answer", "join"} => f.id \in Calls
                       /\ f.reason # "answered_elsewhere"}
Downs == {f \in DownType : /\ f.kind # "error" \/ f.reason = "call_exists" => f.id \in Calls
                           /\ f.kind = "answered" => f.from \in Owners}
RoomRecs == [status : {"unborn", "ringing", "active", "over"}, caller : Owners \cup {None},
             member : [Owners -> Tabs \cup {None}], dismissed : SUBSET Owners,
             ever : SUBSET Owners, reason : Reasons]
Rooms == [Calls -> RoomRecs]
Nets == [up : [Tabs -> Seq(Ups)], bus : [Tabs -> Seq(Downs)], down : [Tabs -> Seq(Downs)]]
Turns == [tab : TabRecs, out : Seq(Ups)]

USE DEF Reasons, CallStates

(*-------------------------------------------------------------------------*)
(* A tab's handlers keep a microphone to its call.                          *)

LEMMA Saying == ASSUME NEW u \in Turns, NEW f \in Ups PROVE Say(u, f) \in Turns /\ Say(u, f).tab = u.tab
BY DEF Say, Turns

LEMMA Frames ==
    ASSUME NEW id \in Calls \cup {None}, NEW sdp \in BOOLEAN, NEW reason \in Reasons \ {"answered_elsewhere"}
    PROVE  /\ Up("invite", id, sdp, reason) \in Ups /\ Up("hangup", id, sdp, reason) \in Ups
           /\ id \in Calls => Up("answer", id, sdp, reason) \in Ups /\ Up("join", id, sdp, reason) \in Ups
BY DEF Up, Ups, UpType

LEMMA NoCallFits == NoCall \in CallRecs /\ NoCall.state = "none" /\ NoCall.dir = "none" /\ NoCall.id = None
BY DEF NoCall, CallRecs

LEMMA Patching ==
    ASSUME NEW u \in Turns, NEW r \in CallRecs, r.state # "none"
    PROVE  Patch(u, r) \in Turns /\ Patch(u, r).tab = [u.tab EXCEPT !.call = r] /\ r # NoCall
BY NoCallFits DEF Patch, Turns, TabRecs

LEMMA Finishing == ASSUME NEW u \in Turns PROVE finish(u) \in Turns
<1> DEFINE tear(j) == [j EXCEPT !.torn = @ \/ j.stage = "describe"]
           js == [i \in DOMAIN u.tab.jobs |-> tear(u.tab.jobs[i])]
<1>1. u.tab.jobs \in Seq(JobRecs)
  BY DEF Turns, TabRecs
<1>2. \A j \in JobRecs : tear(j) \in JobRecs /\ tear(j).opens = j.opens /\ tear(j).stage = j.stage
  <2> SUFFICES ASSUME NEW j \in JobRecs
               PROVE  tear(j) \in JobRecs /\ tear(j).opens = j.opens /\ tear(j).stage = j.stage
    OBVIOUS
  <2>1. PICK b \in BOOLEAN : tear(j) = [j EXCEPT !.torn = b]
    OBVIOUS
  <2> HIDE DEF tear
  <2> QED
    BY <2>1 DEF JobRecs, JobType
<1> HIDE DEF tear
<1>3. js \in Seq(JobRecs)
  <2> DEFINE jobs == u.tab.jobs
  <2>1. jobs \in Seq(JobRecs)
    BY <1>1
  <2> HIDE DEF jobs
  <2>2. [i \in DOMAIN jobs |-> tear(jobs[i])] \in Seq(JobRecs)
    BY <1>2, <2>1
  <2> QED
    BY <2>2 DEF jobs
<1> DEFINE mic == [u.tab.mic EXCEPT !.held = FALSE]
<1>4. Kept(mic, js) /\ mic \in MicRecs /\ mic.held = FALSE
  <2>1. Asking(js) = Asking(u.tab.jobs)
    BY <1>1, <1>2 DEF Asking
  <2>2. u.tab.mic \in MicRecs /\ Kept(u.tab.mic, u.tab.jobs)
    BY DEF Turns, TabRecs
  <2> HIDE DEF js
  <2> QED
    BY <2>1, <2>2 DEF Kept, MicRecs
<1> USE DEF tear
<1> HIDE DEF js
<1>5. finish(u) = [u EXCEPT !.tab = [call |-> NoCall, timer |-> FALSE, mic |-> mic, jobs |-> js]]
  BY DEF finish, js
<1> HIDE DEF mic
<1>6. [call |-> NoCall, timer |-> FALSE, mic |-> mic, jobs |-> js] \in TabRecs
  BY <1>3, <1>4, NoCallFits DEF TabRecs
<1> QED
  BY <1>5, <1>6 DEF Turns

(* One capture more.                                                        *)
Takes(w, u, m, js) == w = [u EXCEPT !.tab = [u.tab EXCEPT !.jobs = js, !.mic = m]] /\ js \in Seq(JobRecs) /\ Kept(m, js)

LEMMA CapturedMore ==
    ASSUME NEW u \in Turns, NEW why \in {"start", "accept", "join"}, NEW id \in Calls \cup {None},
           NEW bare \in BOOLEAN, why = "accept" => id \in Calls
    PROVE  \E m \in MicRecs, j \in JobRecs :
              /\ j.why = why /\ j.id = id /\ j.bare = bare /\ m.held = u.tab.mic.held
              /\ Takes(Capture(u, why, id, bare), u, m, Append(u.tab.jobs, j))
<1> DEFINE mic == u.tab.mic
           jobs == u.tab.jobs
           j == Job(why, id, bare, ~mic.held)
           js == Append(jobs, j)
           b == mic.met \/ (~mic.held /\ Asking(jobs) # {})
           m == [mic EXCEPT !.met = b]
<1>1. mic \in MicRecs /\ jobs \in Seq(JobRecs) /\ Kept(mic, jobs)
  BY DEF Turns, TabRecs
<1>2. Capture(u, why, id, bare) = [u EXCEPT !.tab = [u.tab EXCEPT !.jobs = js, !.mic = m]]
  BY DEF Capture, Turns, TabRecs, MicRecs
<1> HIDE DEF mic, jobs
<1>3. (~mic.held) \in BOOLEAN /\ b \in BOOLEAN
  BY <1>1 DEF MicRecs
<1> HIDE DEF m
<1>4. /\ j \in JobRecs /\ j.stage = "capture" /\ (j.opens <=> ~mic.held)
      /\ j.why = why /\ j.id = id /\ j.bare = bare
  BY <1>3 DEF Job, JobRecs, JobType
<1> HIDE DEF j
<1>5. js \in Seq(JobRecs) /\ Asking(js) = IF j.opens THEN Asking(jobs) \cup {Len(jobs) + 1} ELSE Asking(jobs)
  <2>1. js \in Seq(JobRecs) /\ DOMAIN js = 1 .. Len(jobs) + 1 /\ js[Len(jobs) + 1] = j
        /\ DOMAIN jobs = 1 .. Len(jobs) /\ Len(jobs) \in Nat /\ \A i \in 1 .. Len(jobs) : js[i] = jobs[i]
    BY <1>1, <1>4
  <2> HIDE DEF js
  <2>2. \A i \in DOMAIN js : i \in DOMAIN jobs \/ i = Len(jobs) + 1
    BY <2>1
  <2>3. \A i \in DOMAIN jobs : i \in DOMAIN js /\ js[i] = jobs[i]
    BY <2>1
  <2>4. Len(jobs) + 1 \in DOMAIN js
    BY <2>1
  <2> QED
    BY <1>4, <2>1, <2>2, <2>3, <2>4 DEF Asking
<1> HIDE DEF js
<1>6. m \in MicRecs /\ m.held = mic.held /\ m.lost = mic.lost /\ m.met = b
  BY <1>1, <1>3 DEF m, MicRecs
<1> HIDE DEF b
<1>7. ~b => ~mic.met /\ (~mic.held => Asking(jobs) = {})
  BY DEF b
<1>8. Kept(m, js)
  BY <1>1, <1>4, <1>5, <1>6, <1>7 DEF Kept
<1>9. Takes(Capture(u, why, id, bare), u, m, js)
  BY <1>2, <1>5, <1>8 DEF Takes
<1> QED
  BY <1>4, <1>6, <1>9 DEF js, jobs, mic

LEMMA Capturing ==
    ASSUME NEW u \in Turns, NEW why \in {"start", "accept", "join"}, NEW id \in Calls \cup {None},
           NEW bare \in BOOLEAN, why = "accept" => id \in Calls
    PROVE  Capture(u, why, id, bare) \in Turns
<1>1. PICK m \in MicRecs, j \in JobRecs :
        m.held = u.tab.mic.held /\ Takes(Capture(u, why, id, bare), u, m, Append(u.tab.jobs, j))
  BY CapturedMore
<1> DEFINE js == Append(u.tab.jobs, j)
<1>2. Capture(u, why, id, bare) = [u EXCEPT !.tab = [u.tab EXCEPT !.jobs = js, !.mic = m]] /\ js \in Seq(JobRecs) /\ Kept(m, js)
  BY <1>1 DEF Takes
<1> HIDE DEF js
<1>3. [u.tab EXCEPT !.jobs = js, !.mic = m] \in TabRecs
  BY <1>1, <1>2 DEF Turns, TabRecs
<1> QED
  BY <1>2, <1>3 DEF Turns

LEMMA Failing == ASSUME NEW u \in Turns PROVE fail(u) \in Turns
<1>1. u.tab.call.id \in Calls \cup {None}
  BY DEF Turns, TabRecs, CallRecs
<1> QED
  BY <1>1, Frames, Saying, Finishing DEF fail

LEMMA Joining ==
    ASSUME NEW u \in Turns, NEW id \in Calls, NEW people \in SUBSET Owners
    PROVE  joinOngoing(u, id, people) \in Turns
<1> DEFINE joins == [NoCall EXCEPT !.state = "connecting", !.dir = "outgoing", !.id = id, !.people = people]
           waits == [u EXCEPT !.tab.call = joins, !.tab.timer = TRUE]
<1>1. joins \in CallRecs /\ joins # NoCall
  BY DEF NoCall, CallRecs
<1>2. waits \in Turns
  BY <1>1 DEF Turns, TabRecs
<1>3. Say(waits, Up("join", id, FALSE, "")) \in Turns
  BY <1>2, Frames, Saying
<1> HIDE DEF joins, waits
<1>4. joinOngoing(u, id, people) = Capture(Say(waits, Up("join", id, FALSE, "")), "join", id, TRUE)
  BY DEF joinOngoing, joins, waits
<1> QED
  BY <1>3, <1>4, Capturing

LEMMA Hanging == ASSUME NEW u \in Turns, NEW reason \in {"", "ice_failed"} PROVE hangUp(u, reason) \in Turns
<1>1. u.tab.call.id \in Calls \cup {None}
  BY DEF Turns, TabRecs, CallRecs
<1>2. \A r \in Reasons \ {"answered_elsewhere"} : u.tab.call.id # None => Say(u, Up("hangup", u.tab.call.id, FALSE, r)) \in Turns
  BY <1>1, Frames, Saying
<1> QED
  BY <1>2, Finishing DEF hangUp

LEMMA Starting ==
    ASSUME NEW u \in Turns, NEW o \in Owners, plan \in PlanType
    PROVE  startCall(u, o) \in Turns
<1> DEFINE dials == [NoCall EXCEPT !.state = "ringing", !.dir = "outgoing",
                                   !.people = plan.believed \cup {o}, !.joined = {o}]
<1>1. dials \in CallRecs /\ dials.state # "none"
  BY DEF NoCall, CallRecs, PlanType
<1>2. Patch(u, dials) \in Turns
  BY <1>1, Patching
<1> HIDE DEF dials
<1>3. startCall(u, o) = Capture(Patch(u, dials), "start", None, Cardinality(plan.believed \cup {o}) > 2)
  BY DEF startCall, dials
<1>4. (Cardinality(plan.believed \cup {o}) > 2) \in BOOLEAN
  OBVIOUS
<1> QED
  BY <1>2, <1>3, <1>4, Capturing

LEMMA Accepting ==
    ASSUME NEW u \in Turns, u.tab.call.dir = "incoming", u.tab.call.state = "ringing"
    PROVE  accept(u) \in Turns
<1> DEFINE takes == [u.tab.call EXCEPT !.state = "connecting"]
           bare == Cardinality(u.tab.call.people) > 2 \/ ~u.tab.call.offer
<1>1. u.tab.call \in CallRecs /\ u.tab.call.id \in Calls
  BY DEF Turns, TabRecs, CallRecs
<1>2. takes \in CallRecs /\ takes.state # "none"
  BY <1>1 DEF CallRecs
<1>3. Patch(u, takes) \in Turns
  BY <1>2, Patching
<1>4. bare \in BOOLEAN
  OBVIOUS
<1> HIDE DEF takes, bare
<1>5. accept(u) = Capture(Patch(u, takes), "accept", u.tab.call.id, bare)
  BY DEF accept, takes, bare
<1> QED
  BY <1>1, <1>3, <1>4, <1>5, Capturing

(* What a frame does to the call of a tab.                                  *)
LEMMA Hearing ==
    ASSUME NEW u \in Turns, NEW f \in Downs, NEW me \in Owners
    PROVE  onFrame(u, f, me) \in Turns
<1> DEFINE c == u.tab.call
<1>1. c \in CallRecs /\ c.id \in Calls \cup {None} /\ (c # NoCall => c.state # "none")
      /\ c.people \in SUBSET Owners
  BY DEF Turns, TabRecs, CallRecs
<1>2. /\ f \in DownType /\ f.id \in Calls \cup {None} /\ f.sdp \in BOOLEAN
      /\ f.kind # "error" \/ f.reason = "call_exists" => f.id \in Calls
      /\ f.owners \in SUBSET Owners /\ (f.kind = "answered" => f.from \in Owners)
  BY DEF Downs, DownType
<1> HIDE DEF c
<1>3. ASSUME f.kind = "ringing" PROVE onRinging(u, f) \in Turns
  <2>1. c # NoCall => [c EXCEPT !.id = f.id, !.people = f.owners] \in CallRecs
                      /\ [c EXCEPT !.id = f.id, !.people = f.owners].state # "none"
    BY <1>1, <1>2, <1>3 DEF CallRecs
  <2> QED
    BY <2>1, Patching DEF onRinging, c
<1>4. ASSUME f.kind = "incoming" PROVE onIncoming(u, f, me) \in Turns
  <2>1. Ringing(f) \in CallRecs /\ Ringing(f).state # "none"
    BY <1>2, <1>4 DEF Ringing, NoCall, CallRecs
  <2>2. \A r \in {"busy", "hangup"} : \A i \in Calls \cup {None} : Say(u, Up("hangup", i, FALSE, r)) \in Turns
    BY Frames, Saying
  <2>3. finish(Say(u, Up("hangup", c.id, FALSE, "hangup"))) \in Turns
    BY <1>1, <2>2, Finishing
  <2> QED
    BY <1>1, <1>2, <2>1, <2>2, <2>3, Patching DEF onIncoming, c
<1>5. ASSUME f.kind = "answered" PROVE onAnswered(u, f) \in Turns
  <2> DEFINE takes == [c EXCEPT !.state = "connecting", !.joined = @ \cup {f.from}]
  <2>1. c # NoCall => takes \in CallRecs /\ takes.state # "none"
    BY <1>1, <1>2, <1>5 DEF CallRecs
  <2> QED
    BY <2>1, Patching DEF onAnswered, c
<1>6. ASSUME f.kind = "participant" PROVE onParticipant(u, f, me) \in Turns
  <2> DEFINE sees == [c EXCEPT !.joined = f.owners]
             seen == Patch(u, sees)
             now == IF f.owners # {me} /\ sees.state = "ringing" THEN "connecting" ELSE sees.state
             told == [seen EXCEPT !.tab.timer = FALSE, !.tab.call.state = now]
  <2>1. c # NoCall => sees \in CallRecs /\ sees.state # "none"
    BY <1>1, <1>2 DEF CallRecs
  <2>2. c # NoCall => seen \in Turns /\ seen.tab = [u.tab EXCEPT !.call = sees]
    BY <2>1, Patching
  <2>3. u \in Turns /\ u.tab \in TabRecs /\ u.tab = [f1 \in {"call", "timer", "mic", "jobs"} |-> u.tab[f1]]
    BY DEF Turns, TabRecs
  <2> HIDE DEF sees
  <2>4. ASSUME c # NoCall PROVE told \in Turns
    <3>1. [sees EXCEPT !.state = now] \in CallRecs /\ [sees EXCEPT !.state = now] # NoCall
      BY <2>1, <2>4, NoCallFits DEF CallRecs
    <3>2. told = [seen EXCEPT !.tab = [seen.tab EXCEPT !.timer = FALSE, !.call = [sees EXCEPT !.state = now]]]
      BY <2>2, <2>3, <2>4 DEF Turns
    <3>3. [seen.tab EXCEPT !.timer = FALSE, !.call = [sees EXCEPT !.state = now]] \in TabRecs
      BY <2>2, <2>4, <3>1 DEF TabRecs, Turns
    <3> QED
      BY <2>2, <2>4, <3>2, <3>3 DEF Turns
  <2>5. c # NoCall /\ onParticipant(u, f, me) # u => onParticipant(u, f, me) = seen \/ onParticipant(u, f, me) = told
    <3> SUFFICES ASSUME c # NoCall, onParticipant(u, f, me) # u
                 PROVE  onParticipant(u, f, me) = seen \/ onParticipant(u, f, me) = told
      OBVIOUS
    <3>1. seen.tab.call = sees
      BY <2>2, <2>3
    <3>2. told = [seen EXCEPT !.tab.timer = FALSE,
                              !.tab.call.state = IF f.owners # {me} /\ @ = "ringing" THEN "connecting" ELSE @]
      BY <3>1
    <3> HIDE DEF told
    <3> QED
      BY <3>2 DEF onParticipant, c, sees
  <2>6. c = NoCall => onParticipant(u, f, me) = u
    BY DEF onParticipant, c
  <2> HIDE DEF seen, told
  <2> QED
    BY <2>2, <2>4, <2>5, <2>6
<1>7. ASSUME f.kind = "ended" PROVE onEnded(u, f) \in Turns
  BY Finishing DEF onEnded, abandonJoin
<1>8. ASSUME f.kind = "error" PROVE onServerError(u, f) \in Turns
  <2>1. finish(u) \in Turns
    BY Finishing
  <2>2. f.reason = "call_exists" => joinOngoing(finish(u), f.id, c.people) \in Turns
    BY <1>1, <1>2, <2>1, Joining
  <2> QED
    BY <2>1, <2>2 DEF onServerError, abandonJoin, c
<1>9. f.kind \in {"ringing", "incoming", "answered", "participant", "ended", "error"}
  BY <1>2 DEF DownType
<1> QED
  BY <1>3, <1>4, <1>5, <1>6, <1>7, <1>8, <1>9 DEF onFrame

(* The continuations of a tab.                                              *)
LEMMA Removed ==
    ASSUME NEW jobs \in Seq(JobRecs), NEW i \in DOMAIN jobs, NEW js, js = RemoveAt(jobs, i)
    PROVE  /\ js \in Seq(JobRecs) /\ Len(jobs) \in Nat /\ DOMAIN jobs = 1 .. Len(jobs)
           /\ DOMAIN js = 1 .. Len(jobs) - 1
           /\ \A n \in 1 .. Len(jobs) - 1 : js[n] = IF n < i THEN jobs[n] ELSE jobs[n + 1]
<1> DEFINE a == SubSeq(jobs, 1, i - 1)
           b == SubSeq(jobs, i + 1, Len(jobs))
           n == Len(jobs)
<1>1. DOMAIN jobs = 1 .. Len(jobs) /\ Len(jobs) \in Nat /\ i \in 1 .. Len(jobs)
  OBVIOUS
<1>2. a \in Seq(JobRecs) /\ Len(a) = i - 1 /\ \A k \in 1 .. i - 1 : a[k] = jobs[k]
  BY <1>1
<1>3. b \in Seq(JobRecs) /\ Len(b) = n - i /\ \A k \in 1 .. n - i : b[k] = jobs[k + i]
  BY <1>1
<1>4. js = a \o b
  BY DEF RemoveAt
<1>5. n \in Nat /\ i \in 1 .. n
  BY <1>1
<1> HIDE DEF a, b, n
<1>6. js \in Seq(JobRecs) /\ DOMAIN js = 1 .. n - 1 /\ \A k \in 1 .. n - 1 : js[k] = IF k <= i - 1 THEN a[k] ELSE b[k - (i - 1)]
  BY <1>2, <1>3, <1>4, <1>5
<1>7. ASSUME NEW k \in 1 .. n - 1 PROVE js[k] = IF k < i THEN jobs[k] ELSE jobs[k + 1]
  <2>1. CASE k < i
    <3>1. k \in 1 .. i - 1 /\ k <= i - 1
      BY <1>5, <2>1
    <3> QED
      BY <1>2, <1>6, <2>1, <3>1
  <2>2. CASE ~(k < i)
    <3>1. k - (i - 1) \in 1 .. n - i /\ k - (i - 1) + i = k + 1 /\ ~(k <= i - 1)
      BY <1>5, <2>2
    <3> QED
      BY <1>3, <1>6, <2>2, <3>1
  <2> QED
    BY <2>1, <2>2
<1> QED
  BY <1>1, <1>6, <1>7 DEF n

(* The captures that are still pending when one continuation is done, or    *)
(* has its stream.                                                          *)
LEMMA AskingRemoved ==
    ASSUME NEW jobs \in Seq(JobRecs), NEW i \in DOMAIN jobs, NEW js, js = RemoveAt(jobs, i)
    PROVE  /\ (\A k, n \in Asking(jobs) : k = n) => \A k, n \in Asking(js) : k = n
           /\ (\A k \in Asking(jobs) : k = i) => Asking(js) = {}
<1> DEFINE was(n) == IF n < i THEN n ELSE n + 1
<1>1. /\ Len(jobs) \in Nat /\ DOMAIN jobs = 1 .. Len(jobs) /\ DOMAIN js = 1 .. Len(jobs) - 1
      /\ \A n \in 1 .. Len(jobs) - 1 : js[n] = IF n < i THEN jobs[n] ELSE jobs[n + 1]
  BY Removed
<1>2. \A n \in DOMAIN js : n \in Nat /\ was(n) \in DOMAIN jobs /\ was(n) # i /\ js[n] = jobs[was(n)]
  BY <1>1
<1>3. \A k, n \in DOMAIN js : was(k) = was(n) => k = n
  BY <1>1
<1> HIDE DEF was
<1>4. \A n \in Asking(js) : n \in DOMAIN js /\ was(n) \in Asking(jobs) /\ was(n) # i
  BY <1>2 DEF Asking
<1> QED
  BY <1>3, <1>4

LEMMA AskingDescribed ==
    ASSUME NEW jobs \in Seq(JobRecs), NEW i \in DOMAIN jobs
    PROVE  Asking([jobs EXCEPT ![i].stage = "describe"]) = Asking(jobs) \ {i}
<1> DEFINE js == [jobs EXCEPT ![i].stage = "describe"]
<1>1. /\ DOMAIN js = DOMAIN jobs /\ js[i] = [jobs[i] EXCEPT !.stage = "describe"]
      /\ \A k \in DOMAIN jobs \ {i} : js[k] = jobs[k]
  OBVIOUS
<1>2. jobs[i] \in JobRecs
  OBVIOUS
<1>3. js[i].stage = "describe"
  BY <1>1, <1>2 DEF JobRecs, JobType
<1> HIDE DEF js
<1>4. Asking(js) = Asking(jobs) \ {i}
  BY <1>1, <1>3 DEF Asking
<1> QED
  BY <1>4 DEF js

LEMMA Draining ==
    ASSUME NEW u \in Turns, NEW i \in DOMAIN u.tab.jobs
    PROVE  Drained(u, i) \in Turns /\ u.tab.jobs[i] \in JobRecs
<1> DEFINE jobs == u.tab.jobs
           mic == u.tab.mic
           js == RemoveAt(jobs, i)
<1>1. jobs \in Seq(JobRecs) /\ i \in DOMAIN jobs /\ mic \in MicRecs /\ Kept(mic, jobs)
  BY DEF Turns, TabRecs
<1>2. Drained(u, i) = [u EXCEPT !.tab = [u.tab EXCEPT !.jobs = js]]
  BY DEF Drained, Turns, TabRecs
<1> HIDE DEF jobs, mic, js
<1>3. js \in Seq(JobRecs) /\ jobs[i] \in JobRecs
  BY <1>1, Removed DEF js
<1>4. Kept(mic, js)
  <2>1. (\A k, n \in Asking(jobs) : k = n) => \A k, n \in Asking(js) : k = n
    BY <1>1, AskingRemoved DEF js
  <2>2. Asking(jobs) = {} => Asking(js) = {}
    BY <1>1, AskingRemoved DEF js
  <2> QED
    BY <1>1, <2>1, <2>2 DEF Kept
<1>5. [u.tab EXCEPT !.jobs = js] \in TabRecs
  BY <1>3, <1>4 DEF Turns, TabRecs, mic
<1> QED
  BY <1>2, <1>3, <1>5 DEF Turns, jobs

LEMMA Announcing ==
    ASSUME NEW u \in Turns, NEW job \in JobRecs
    PROVE  Announce(u, job) \in Turns
<1>1. job.why \in {"start", "accept", "join"} /\ job.id \in Calls \cup {None} /\ (~job.bare) \in BOOLEAN
      /\ (job.why = "accept" => job.id \in Calls)
  BY DEF JobRecs, JobType
<1>2. Up("invite", None, ~job.bare, "") \in Ups
  BY <1>1, Frames
<1>3. job.why = "accept" => Up("join", job.id, FALSE, "") \in Ups /\ Up("answer", job.id, TRUE, "") \in Ups
  BY <1>1, Frames
<1> QED
  BY <1>1, <1>2, <1>3, Saying DEF Announce

LEMMA Begun == ASSUME tab \in [Tabs -> TabRecs], NEW t \in Tabs PROVE Start(t) \in Turns /\ Start(t).tab = tab[t]
BY DEF Start, Turns

LEMMA Describing ==
    ASSUME NEW u \in Turns, NEW i \in DOMAIN u.tab.jobs
    PROVE  [u EXCEPT !.tab.jobs[i].stage = "describe"] \in Turns
<1> DEFINE jobs == u.tab.jobs
           mic == u.tab.mic
           js == [jobs EXCEPT ![i].stage = "describe"]
<1>1. jobs \in Seq(JobRecs) /\ i \in DOMAIN jobs /\ jobs[i] \in JobRecs /\ Kept(mic, jobs)
  BY DEF Turns, TabRecs
<1>2. [jobs[i] EXCEPT !.stage = "describe"] \in JobRecs
  BY <1>1 DEF JobRecs, JobType
<1>3. js \in Seq(JobRecs)
  BY <1>1, <1>2
<1>4. [u EXCEPT !.tab.jobs[i].stage = "describe"] = [u EXCEPT !.tab.jobs = js]
  BY DEF Turns, TabRecs
<1>5. Asking(js) = Asking(jobs) \ {i}
  BY <1>1, AskingDescribed
<1> HIDE DEF jobs, js, mic
<1>6. Kept(mic, js)
  BY <1>1, <1>5 DEF Kept
<1> QED
  BY <1>3, <1>4, <1>6 DEF Turns, TabRecs, mic

(* A capture is there.  The continuation that asked for it goes on, which   *)
(* does not look at the stream: what it leaves pending is no capture but    *)
(* where two had met.                                                       *)
OpensAlone(v) == v.mic.met \/ (~v.mic.held /\ Asking(v.jobs) = {})

LEMMA Opening ==
    ASSUME NEW u \in Turns, NEW job \in JobRecs, job.opens => OpensAlone(u.tab)
    PROVE  LET w == openLocalMedia(u, job)
           IN w \in Turns /\ w.tab.jobs = u.tab.jobs /\ w.out = u.out /\ w.tab.call = u.tab.call /\ w.tab.timer = u.tab.timer
<1> DEFINE mic == u.tab.mic
           b == mic.lost \/ mic.held
           m == [mic EXCEPT !.held = TRUE, !.lost = b]
<1>1. mic \in MicRecs /\ Kept(mic, u.tab.jobs)
  BY DEF Turns, TabRecs
<1>2. openLocalMedia(u, job) = u \/ (/\ job.opens /\ u.tab.call # NoCall
                                     /\ openLocalMedia(u, job) = [u EXCEPT !.tab = [u.tab EXCEPT !.mic = m]])
  BY DEF openLocalMedia, Turns, TabRecs, MicRecs
<1>3. job.opens => mic.met \/ (~mic.held /\ Asking(u.tab.jobs) = {})
  BY DEF OpensAlone
<1> HIDE DEF mic
<1>4. b \in BOOLEAN
  BY <1>1 DEF MicRecs
<1> HIDE DEF m
<1>5. m \in MicRecs /\ m.held = TRUE /\ m.lost = b /\ m.met = mic.met
  BY <1>1, <1>4 DEF m, MicRecs
<1>6. job.opens => Kept(m, u.tab.jobs)
  BY <1>1, <1>3, <1>5 DEF Kept
<1> HIDE DEF b
<1>7. job.opens /\ u.tab.call # NoCall => [u.tab EXCEPT !.mic = m] \in TabRecs
  BY <1>5, <1>6 DEF Turns, TabRecs
<1> QED
  BY <1>2, <1>7 DEF Turns, TabRecs

LEMMA Opened ==
    ASSUME NEW u \in Turns, NEW job, job.opens, u.tab.call # NoCall
    PROVE  openLocalMedia(u, job) =
             [u EXCEPT !.tab = [u.tab EXCEPT !.mic = [u.tab.mic EXCEPT !.held = TRUE, !.lost = @ \/ u.tab.mic.held]]]
BY DEF openLocalMedia, Turns, TabRecs, MicRecs

LEMMA Resolving ==
    ASSUME NEW u \in Turns, NEW i \in DOMAIN u.tab.jobs, u.tab.jobs[i].stage = "capture"
    PROVE  LET job == u.tab.jobs[i]
               p == Drained(u, i)
               q == [u EXCEPT !.tab.jobs[i].stage = "describe"]
           IN /\ job.opens => OpensAlone(p.tab) /\ OpensAlone(q.tab)
              /\ Drained(openLocalMedia(u, job), i) = openLocalMedia(p, job)
              /\ [openLocalMedia(u, job) EXCEPT !.tab.jobs[i].stage = "describe"] = openLocalMedia(q, job)
<1> DEFINE jobs == u.tab.jobs
           job == jobs[i]
           mic == u.tab.mic
           less == RemoveAt(jobs, i)
           said == [jobs EXCEPT ![i].stage = "describe"]
           m == [mic EXCEPT !.held = TRUE, !.lost = @ \/ mic.held]
           opened == [u EXCEPT !.tab = [u.tab EXCEPT !.mic = m]]
           p == Drained(u, i)
           q == [u EXCEPT !.tab.jobs[i].stage = "describe"]
<1>1. jobs \in Seq(JobRecs) /\ i \in DOMAIN jobs /\ Kept(mic, jobs)
  BY DEF Turns, TabRecs
<1>2. /\ p = [u EXCEPT !.tab = [u.tab EXCEPT !.jobs = less]]
      /\ q = [u EXCEPT !.tab = [u.tab EXCEPT !.jobs = said]]
  BY DEF Drained, Turns, TabRecs
<1>3. /\ \A v \in {u, p, q} : v.tab.call = u.tab.call
      /\ p.tab.jobs = less /\ q.tab.jobs = said /\ p.tab.mic = mic /\ q.tab.mic = mic
  <2> HIDE DEF p, q, less, said
  <2> QED
    BY <1>2 DEF Turns, TabRecs
<1>4. ASSUME job.opens PROVE OpensAlone(p.tab) /\ OpensAlone(q.tab)
  <2>1. i \in Asking(jobs)
    BY <1>1, <1>4 DEF Asking
  <2>2. ASSUME ~mic.met PROVE ~mic.held /\ \A k \in Asking(jobs) : k = i
    BY <1>1, <2>1, <2>2 DEF Kept
  <2>3. ASSUME ~mic.met PROVE Asking(less) = {} /\ Asking(said) = {}
    BY <1>1, <2>2, <2>3, AskingRemoved, AskingDescribed
  <2> HIDE DEF p, q, less, said
  <2> QED
    BY <1>3, <2>2, <2>3 DEF OpensAlone
<1>5. /\ Drained(opened, i) = [u EXCEPT !.tab = [u.tab EXCEPT !.mic = m, !.jobs = less]]
      /\ [opened EXCEPT !.tab.jobs[i].stage = "describe"] = [u EXCEPT !.tab = [u.tab EXCEPT !.mic = m, !.jobs = said]]
  BY DEF Drained, Turns, TabRecs
<1>6. CASE job.opens /\ u.tab.call # NoCall
  <2>1. openLocalMedia(u, job) = opened
    BY <1>6, Opened
  <2>2. openLocalMedia(p, job) = [p EXCEPT !.tab = [p.tab EXCEPT !.mic = m]]
    <3>1. p \in Turns /\ p.tab.call # NoCall /\ p.tab.mic = mic
      BY <1>3, <1>6, Draining
    <3> HIDE DEF p, mic, job
    <3> QED
      BY <1>6, <3>1, Opened
  <2>3. openLocalMedia(q, job) = [q EXCEPT !.tab = [q.tab EXCEPT !.mic = m]]
    <3>1. q \in Turns /\ q.tab.call # NoCall /\ q.tab.mic = mic
      BY <1>3, <1>6, Describing
    <3> HIDE DEF q, mic, job
    <3> QED
      BY <1>6, <3>1, Opened
  <2>4. /\ [p EXCEPT !.tab = [p.tab EXCEPT !.mic = m]] = [u EXCEPT !.tab = [u.tab EXCEPT !.mic = m, !.jobs = less]]
        /\ [q EXCEPT !.tab = [q.tab EXCEPT !.mic = m]] = [u EXCEPT !.tab = [u.tab EXCEPT !.mic = m, !.jobs = said]]
    <3> HIDE DEF p, q, less, said, m
    <3> QED
      BY <1>2 DEF Turns, TabRecs
  <2> QED
    BY <1>4, <1>5, <2>1, <2>2, <2>3, <2>4
<1>7. CASE ~(job.opens /\ u.tab.call # NoCall)
  <2>1. \A v \in {u, p, q} : openLocalMedia(v, job) = v
    BY <1>3, <1>7 DEF openLocalMedia
  <2> QED
    BY <1>4, <2>1
<1> QED
  BY <1>6, <1>7

LEMMA OfferKept ==
    ASSUME NEW u \in Turns, NEW b \in BOOLEAN
    PROVE  [u EXCEPT !.tab.call.offer = @ /\ b] \in Turns
<1> DEFINE c == u.tab.call
<1>1. c \in CallRecs /\ (c.offer /\ b) \in BOOLEAN
  BY DEF Turns, TabRecs
<1> DEFINE x == c.offer /\ b
<1>2. x \in BOOLEAN /\ (x => c.offer)
  BY <1>1
<1>3. c = NoCall => x = FALSE
  BY <1>2 DEF NoCall
<1>4. [u EXCEPT !.tab.call.offer = @ /\ b] = [u EXCEPT !.tab.call = [c EXCEPT !.offer = x]]
  BY DEF Turns, TabRecs
<1> HIDE DEF c, x
<1>5. c = NoCall => [c EXCEPT !.offer = x] = c
  <2>1. \A r \in CallRecs : r.offer = FALSE => [r EXCEPT !.offer = FALSE] = r
    BY DEF CallRecs
  <2>2. NoCall.offer = FALSE
    BY DEF NoCall
  <2> QED
    BY <1>1, <1>3, <2>1, <2>2
<1>6. [c EXCEPT !.offer = x] \in CallRecs
  <2>1. CASE c = NoCall
    BY <1>1, <1>5, <2>1
  <2>2. CASE c # NoCall
    BY <1>1, <1>2, <2>2 DEF CallRecs
  <2> QED
    BY <2>1, <2>2
<1>7. c # NoCall => [c EXCEPT !.offer = x] # NoCall
  BY <1>1, <1>2, NoCallFits DEF CallRecs
<1> QED
  BY <1>4, <1>6, <1>7 DEF Turns, TabRecs, c

(*-------------------------------------------------------------------------*)
(* The room: whoever is in the conversation and lost no frame hears that a  *)
(* call is over.                                                            *)

Tells(q, c) == \E i \in DOMAIN q : q[i].kind = "ended" /\ q[i].id = c
Hears == {t \in Tabs : t \in plan.tabs \ cut /\ OwnerOf[t] \in People}
Told(rm, n, st) ==
    \A c \in Calls : rm[c].status = "over" =>
       \A t \in Hears : c \in st[t].ended \/ Tells(n.bus[t], c) \/ Tells(n.down[t], c)
Worlds == [room : Rooms, net : Nets]
(* A handler's world: nobody is left untold, no call is unborn again.       *)
Served(w) ==
    /\ w \in Worlds /\ Told(w.room, w.net, store)
    /\ \A c \in Calls : room[c].status # "unborn" => w.room[c].status # "unborn"

LEMMA WorldParts ==
    ASSUME NEW w \in Worlds, NEW rm, NEW n
    PROVE  /\ [w EXCEPT !.room = rm] = [room |-> rm, net |-> w.net]
           /\ [room |-> rm, net |-> n].room = rm /\ [room |-> rm, net |-> n].net = n
           /\ rm \in Rooms /\ n \in Nets => [room |-> rm, net |-> n] \in Worlds
BY DEF Worlds

LEMMA Queued ==
    ASSUME NEW q \in Seq(Downs), NEW f \in Downs
    PROVE  /\ Append(q, f) \in Seq(Downs)
           /\ \A c : Tells(q, c) => Tells(Append(q, f), c)
           /\ f.kind = "ended" => Tells(Append(q, f), f.id)
<1>1. \A i \in DOMAIN q : i \in DOMAIN Append(q, f) /\ Append(q, f)[i] = q[i]
  OBVIOUS
<1>2. Len(q) + 1 \in DOMAIN Append(q, f) /\ Append(q, f)[Len(q) + 1] = f
  OBVIOUS
<1>3. Append(q, f) \in Seq(Downs)
  OBVIOUS
<1> QED
  BY <1>1, <1>2, <1>3 DEF Tells

LEMMA Unqueued ==
    ASSUME NEW q \in Seq(Downs), q # <<>>
    PROVE  /\ Tail(q) \in Seq(Downs) /\ Head(q) \in Downs
           /\ \A c : Tells(q, c) => Tells(Tail(q), c) \/ (Head(q).kind = "ended" /\ Head(q).id = c)
<1>1. \A i \in DOMAIN q : i = 1 \/ (i - 1 \in DOMAIN Tail(q) /\ Tail(q)[i - 1] = q[i])
  OBVIOUS
<1>2. Head(q) = q[1] /\ Head(q) \in Downs /\ Tail(q) \in Seq(Downs)
  OBVIOUS
<1> QED
  BY <1>1, <1>2 DEF Tells

LEMMA Answers ==
    ASSUME NEW w, Served(w), NEW t \in Tabs, NEW f \in Downs
    PROVE  Served(ToTab(w, t, f)) /\ ToTab(w, t, f).room = w.room
<1> DEFINE down == w.net.down
           d == [down EXCEPT ![t] = Append(@, f)]
<1>1. w \in Worlds /\ down \in [Tabs -> Seq(Downs)] /\ w.net \in Nets
  BY DEF Served, Worlds, Nets
<1>2. ToTab(w, t, f) = [w EXCEPT !.net.down = d]
  BY <1>1 DEF ToTab, Worlds, Nets
<1> HIDE DEF down
<1>3. d \in [Tabs -> Seq(Downs)]
  BY <1>1, Queued
<1>4. \A x \in Tabs : \A c : Tells(down[x], c) => Tells(d[x], c)
  BY <1>1, Queued
<1> HIDE DEF d
<1> DEFINE n == [w.net EXCEPT !.down = d]
<1>5. ToTab(w, t, f) = [room |-> w.room, net |-> n]
  BY <1>1, <1>2 DEF Worlds, Nets
<1>6. n \in Nets /\ n.down = d /\ n.bus = w.net.bus
  BY <1>1, <1>3 DEF Nets
<1> HIDE DEF n
<1>7. ToTab(w, t, f) \in Worlds
  BY <1>1, <1>5, <1>6 DEF Worlds
<1>8. Hears \subseteq Tabs
  BY DEF Hears
<1>9. ToTab(w, t, f).room = w.room /\ ToTab(w, t, f).net.down = d /\ ToTab(w, t, f).net.bus = w.net.bus
  BY <1>5, <1>6
<1>10. \A x \in Tabs : \A c : Tells(w.net.down[x], c) => Tells(d[x], c)
  BY <1>4 DEF down
<1> QED
  BY <1>7, <1>8, <1>9, <1>10 DEF Served, Told

(* What is said to some people: to those of the conversation, an end.       *)
LEMMA Publishes ==
    ASSUME NEW w \in Worlds, conn \subseteq Tabs, NEW owners, NEW f \in Downs
    PROVE  LET n == ToOwners(w, owners, f).net
           IN /\ ToOwners(w, owners, f) = [room |-> w.room, net |-> n] /\ n \in Nets /\ n.down = w.net.down
              /\ \A x \in Tabs : \A c : Tells(w.net.bus[x], c) => Tells(n.bus[x], c)
              /\ \A x \in conn : OwnerOf[x] \in owners /\ f.kind = "ended" => Tells(n.bus[x], f.id)
<1> DEFINE bus == w.net.bus
           b == [t \in Tabs |-> IF t \in conn /\ OwnerOf[t] \in owners THEN Append(bus[t], f) ELSE bus[t]]
<1>1. bus \in [Tabs -> Seq(Downs)] /\ w.net \in Nets
  BY DEF Worlds, Nets
<1>2. ToOwners(w, owners, f) = [w EXCEPT !.net.bus = b]
  BY <1>1 DEF ToOwners
<1> HIDE DEF bus
<1>3. b \in [Tabs -> Seq(Downs)]
  BY <1>1, Queued
<1>4. \A x \in Tabs : \A c : Tells(bus[x], c) => Tells(b[x], c)
  BY <1>1, Queued
<1>5. \A x \in conn : OwnerOf[x] \in owners /\ f.kind = "ended" => Tells(b[x], f.id)
  BY <1>1, Queued
<1> HIDE DEF b
<1>6. ToOwners(w, owners, f) = [room |-> w.room, net |-> [w.net EXCEPT !.bus = b]]
      /\ ToOwners(w, owners, f).net = [w.net EXCEPT !.bus = b]
  BY <1>2 DEF Worlds, Nets
<1>7. [w.net EXCEPT !.bus = b] \in Nets /\ [w.net EXCEPT !.bus = b].bus = b /\ [w.net EXCEPT !.bus = b].down = w.net.down
  BY <1>1, <1>3 DEF Nets
<1> QED
  BY <1>4, <1>5, <1>6, <1>7 DEF bus

LEMMA Announces ==
    ASSUME NEW w, Served(w), conn \subseteq Tabs, NEW owners, NEW f \in Downs
    PROVE  Served(ToOwners(w, owners, f)) /\ ToOwners(w, owners, f).room = w.room
<1>1. w \in Worlds
  BY DEF Served
<1>2. PICK n \in Nets : /\ ToOwners(w, owners, f) = [room |-> w.room, net |-> n] /\ n.down = w.net.down
                        /\ \A x \in Tabs : \A c : Tells(w.net.bus[x], c) => Tells(n.bus[x], c)
  BY <1>1, Publishes
<1>3. ToOwners(w, owners, f) \in Worlds /\ ToOwners(w, owners, f).room = w.room /\ ToOwners(w, owners, f).net = n
  BY <1>1, <1>2 DEF Worlds
<1>4. Hears \subseteq Tabs
  BY DEF Hears
<1> QED
  BY <1>2, <1>3, <1>4 DEF Served, Told

(* A history knows of no call that has not begun.                           *)
Histories == {h \in [Calls -> {"none", "open", "ended"}] :
                \A c \in Calls : h[c] = "open" => room[c].status # "unborn"}
Fetches == [id : Calls \cup {None}, until : {"present", "ended"}, left : 1 .. Tries,
            watch : BOOLEAN, reply : Seq(Histories)]
Stores == [rows : Histories, ended : SUBSET Calls, rung : SUBSET Calls, fetch : Seq(Fetches)]
Unread(t, s) == t \notin plan.watchers => s.fetch = <<>> /\ \A c \in Calls : s.rows[c] = "none"

Setting ==
    /\ plan \in PlanType /\ \A t \in plan.watchers : OwnerOf[t] \in plan.people
    /\ conn \subseteq Tabs /\ plan.tabs \ cut \subseteq conn
    /\ tab \in [Tabs -> TabRecs] /\ closing \in [Tabs -> SUBSET Calls]
    /\ room \in Rooms /\ net \in Nets
ClientInv ==
    /\ Setting /\ Told(room, net, store)
    /\ row \in Histories /\ store \in [Tabs -> Stores] /\ \A t \in Tabs : Unread(t, store[t])

LEMMA Sayings ==
    ASSUME NEW c \in Calls, NEW o \in Owners, NEW people \in SUBSET Owners, NEW sdp \in BOOLEAN
    PROVE  /\ Down("participant", c, o, people, FALSE, "") \in Downs
           /\ Down("answered", c, o, {}, TRUE, "") \in Downs
           /\ Down("ringing", c, None, people, FALSE, "") \in Downs
           /\ Down("incoming", c, o, people, sdp, "") \in Downs
           /\ Down("incoming", c, None, people, sdp, "") \in Downs
BY DEF Down, Downs, DownType

LEMMA Refusals ==
    /\ \A code \in {"call_gone", "forbidden", "not_supported", "bad_frame"} : Error(code, None) \in Downs
    /\ \A c \in Calls : Error("call_exists", c) \in Downs
BY DEF Error, Down, Downs, DownType

LEMMA EndSaid ==
    ASSUME NEW c \in Calls, NEW from \in Owners \cup {None}, NEW reason \in Reasons
    PROVE  /\ Down("ended", c, from, {}, FALSE, reason) \in Downs
           /\ Down("ended", c, from, {}, FALSE, reason).kind = "ended"
           /\ Down("ended", c, from, {}, FALSE, reason).id = c
BY DEF Down, Downs, DownType

LEMMA Changing ==
    ASSUME NEW w, Served(w), NEW c \in Calls,
           NEW r \in RoomRecs,
           r.status = w.room[c].status \/ r.status \in {"ringing", "active"}
    PROVE  Served([w EXCEPT !.room[c] = r]) /\ [w EXCEPT !.room[c] = r].room[c] = r
           /\ [w EXCEPT !.room[c] = r].net = w.net
<1>1. w \in Worlds
  BY DEF Served
<1>2. [w.room EXCEPT ![c] = r] \in Rooms /\ [w.room EXCEPT ![c] = r][c] = r
      /\ \A d \in Calls : d # c => [w.room EXCEPT ![c] = r][d] = w.room[d]
  BY <1>1 DEF Worlds, Rooms
<1> DEFINE rm == [w.room EXCEPT ![c] = r]
<1> HIDE DEF rm
<1>3. [w EXCEPT !.room[c] = r] = [room |-> rm, net |-> w.net]
  <2>1. [w EXCEPT !.room[c] = r] = [w EXCEPT !.room = rm]
    BY <1>1 DEF Worlds, rm
  <2> QED
    BY <1>1, <2>1 DEF Worlds
<1>4. /\ [w EXCEPT !.room[c] = r].room = rm /\ [w EXCEPT !.room[c] = r].net = w.net
      /\ [w EXCEPT !.room[c] = r] \in Worlds
  BY <1>1, <1>2, <1>3 DEF Worlds, rm
<1>5. Told(rm, w.net, store)
  BY <1>2 DEF Served, Told, rm
<1>6. \A d \in Calls : room[d].status # "unborn" => rm[d].status # "unborn"
  BY <1>2 DEF Served, rm
<1> QED
  BY <1>2, <1>4, <1>5, <1>6 DEF Served, rm

LEMMA Ending ==
    ASSUME Setting, NEW w, Served(w), NEW c \in Calls, NEW reason \in Reasons, NEW from \in Owners \cup {None}
    PROVE  Served(endCall(w, c, reason, from))
<1> DEFINE r == [w.room[c] EXCEPT !.status = "over", !.member = [o \in Owners |-> None], !.reason = reason]
           rm == [w.room EXCEPT ![c] = r]
           f == Down("ended", c, from, {}, FALSE, reason)
<1>1. w \in Worlds
  BY DEF Served
<1>2. w.room[c] \in RoomRecs /\ r \in RoomRecs /\ r.status = "over"
  <2>1. w.room[c] \in RoomRecs
    BY <1>1 DEF Worlds, Rooms
  <2> QED
    BY <2>1 DEF RoomRecs
<1>3. [w EXCEPT !.room[c].status = "over", !.room[c].member = [o \in Owners |-> None], !.room[c].reason = reason]
        = [w EXCEPT !.room = rm]
  BY <1>1, <1>2 DEF Worlds, Rooms, RoomRecs
<1> HIDE DEF r
<1>12. rm \in Rooms /\ rm[c].status = "over" /\ \A d \in Calls : d # c => rm[d] = w.room[d]
  BY <1>1, <1>2 DEF Worlds, Rooms
<1> HIDE DEF rm
<1>13. [w EXCEPT !.room = rm] = [room |-> rm, net |-> w.net]
  BY <1>1, WorldParts
<1> DEFINE v == [room |-> rm, net |-> w.net]
<1>4. v \in Worlds /\ v.room = rm /\ v.net = w.net
  BY <1>1, <1>12 DEF Worlds
<1>5. f \in Downs /\ f.kind = "ended" /\ f.id = c /\ conn \subseteq Tabs
  BY EndSaid DEF Setting
<1> HIDE DEF v, f
<1>6. endCall(w, c, reason, from) = ToOwners(v, People, f)
  BY <1>3, <1>13 DEF endCall, v, f
<1> DEFINE n == ToOwners(v, People, f).net
<1>7. /\ ToOwners(v, People, f) = [room |-> rm, net |-> n] /\ n \in Nets /\ n.down = w.net.down
      /\ \A x \in Tabs : \A d : Tells(w.net.bus[x], d) => Tells(n.bus[x], d)
      /\ \A x \in conn : OwnerOf[x] \in People => Tells(n.bus[x], c)
  BY ZenonT(60), <1>4, <1>5, Publishes
<1> HIDE DEF n
<1>8. /\ endCall(w, c, reason, from).room = rm /\ endCall(w, c, reason, from).net = n
      /\ endCall(w, c, reason, from) \in Worlds
  <2>1. endCall(w, c, reason, from) = [room |-> rm, net |-> n]
    BY <1>6, <1>7
  <2>2. [room |-> rm, net |-> n].room = rm /\ [room |-> rm, net |-> n].net = n /\ [room |-> rm, net |-> n] \in Worlds
    BY <1>1, <1>7, <1>12, WorldParts
  <2> QED
    BY <2>1, <2>2
<1>9. Hears \subseteq conn /\ (\A t \in Hears : OwnerOf[t] \in People) /\ Hears \subseteq Tabs
  BY DEF Setting, Hears
<1>10. Told(rm, n, store)
  BY <1>12, <1>7, <1>9 DEF Served, Told
<1>11. \A d \in Calls : room[d].status # "unborn" => rm[d].status # "unborn"
  BY <1>12 DEF Served
<1> QED
  BY <1>8, <1>10, <1>11 DEF Served

LEMMA Participants ==
    ASSUME Setting, NEW w, Served(w), NEW c \in Calls, NEW o \in Owners
    PROVE  Served(announceParticipant(w, c, o))
<1>1. Joined(w.room[c]) \in SUBSET Owners
  BY DEF Joined
<1>2. Down("participant", c, o, Joined(w.room[c]), FALSE, "") \in Downs /\ conn \subseteq Tabs
  BY <1>1, Sayings DEF Setting
<1> QED
  BY <1>2, Announces DEF announceParticipant

LEMMA Spending ==
    ASSUME Setting, NEW w, Served(w), NEW c \in Calls, NEW reason \in Reasons
    PROVE  Served(Spent(w, c, reason))
<1>1. Served(endCall(w, c, reason, None)) /\ Served(endCall(w, c, "empty", None))
  BY Ending
<1> QED
  BY <1>1 DEF Spent

LEMMA SeatTaken ==
    ASSUME Setting, NEW w, Served(w), NEW t \in Tabs, NEW c \in Calls
    PROVE  Served(Seated(w, t, c))
<1> DEFINE r == [w.room[c] EXCEPT !.member[OwnerOf[t]] = t, !.status = "active", !.ever = @ \cup {OwnerOf[t]}]
<1>1. w \in Worlds /\ OwnerOf[t] \in Owners
  BY TabAssumption DEF Served
<1>2. /\ r \in RoomRecs
      /\ r.status = "active"
  <2>1. w.room[c] \in RoomRecs
    BY <1>1 DEF Worlds, Rooms
  <2> QED
    BY <1>1, <2>1 DEF RoomRecs
<1> HIDE DEF r
<1>3. Seated(w, t, c) = [w EXCEPT !.room[c] = r]
  BY <1>1 DEF Seated, r, Worlds, Rooms, RoomRecs
<1>4. Served([w EXCEPT !.room[c] = r])
  BY <1>2, Changing
<1> QED
  BY <1>3, <1>4

LEMMA SeatLeft ==
    ASSUME Setting, NEW w, Served(w), NEW o \in Owners, NEW c \in Calls
    PROVE  Served(Gone(w, c, o)) /\ Served([Gone(w, c, o) EXCEPT !.room[c].dismissed = @ \cup {o}])
<1> DEFINE r == [w.room[c] EXCEPT !.member[o] = None]
           g == Gone(w, c, o)
           d == [r EXCEPT !.dismissed = @ \cup {o}]
<1>1. w \in Worlds
  BY DEF Served
<1>2. /\ r \in RoomRecs
      /\ r.status = w.room[c].status
  <2>1. w.room[c] \in RoomRecs
    BY <1>1 DEF Worlds, Rooms
  <2> QED
    BY <2>1 DEF RoomRecs
<1>3. g = [w EXCEPT !.room[c] = r]
  BY <1>1 DEF Gone, Worlds, Rooms
<1>4. /\ d \in RoomRecs
      /\ d.status = r.status
  BY <1>2 DEF RoomRecs
<1> HIDE DEF r, d
<1>5. Served(g) /\ g.room[c] = r
  <2>1. Served([w EXCEPT !.room[c] = r]) /\ [w EXCEPT !.room[c] = r].room[c] = r
    BY <1>2, Changing
  <2> QED
    BY <1>3, <2>1
<1> HIDE DEF g
<1>6. g \in Worlds
  BY <1>5 DEF Served
<1>7. [g EXCEPT !.room[c].dismissed = @ \cup {o}] = [g EXCEPT !.room[c] = d]
  BY <1>5, <1>6 DEF Worlds, Rooms, d
<1> QED
  BY <1>4, <1>5, <1>7, Changing DEF g

LEMMA Inviting ==
    ASSUME Setting, NEW w, Served(w), NEW t \in Tabs, NEW f \in Ups, f.kind = "invite",
           \E c \in Calls : room[c].status = "unborn"
    PROVE  Served(handleInvite(w, t, f))
<1> DEFINE o == OwnerOf[t]
           busy == {c \in Calls : Live(c)}
           c == CHOOSE x \in Calls : room[x].status = "unborn"
           r == [w.room[c] EXCEPT !.status = "ringing", !.caller = o, !.member[o] = t, !.ever = {o}]
           placed == [w EXCEPT !.room[c] = r]
           rings == Down("ringing", c, None, People, FALSE, "")
           comes == Down("incoming", c, o, People, f.sdp, "")
           called == ToOwners(ToTab(placed, t, rings), People \ {o}, comes)
<1>1. c \in Calls /\ o \in Owners /\ w \in Worlds /\ People \in SUBSET Owners /\ f.sdp \in BOOLEAN /\ conn \subseteq Tabs
  BY TabAssumption DEF Served, Setting, PlanType, People, Ups, UpType
<1>2. \A code \in {"forbidden", "not_supported", "bad_frame"} : Served(ToTab(w, t, Error(code, None)))
  BY <1>1, Refusals, Answers
<1>3. busy # {} => Served(ToTab(w, t, Error("call_exists", CHOOSE x \in busy : TRUE)))
  <2>1. busy # {} => (CHOOSE x \in busy : TRUE) \in Calls
    OBVIOUS
  <2>2. \A x \in Calls : Error("call_exists", x) \in Downs
    BY Refusals
  <2> QED
    BY <2>1, <2>2, Answers
<1> HIDE DEF c, o
<1>4. /\ r \in RoomRecs
      /\ r.status = "ringing"
  <2>1. w.room[c] \in RoomRecs
    BY <1>1 DEF Worlds, Rooms
  <2> QED
    BY <1>1, <2>1 DEF RoomRecs
<1> HIDE DEF r
<1>5. Served(placed)
  BY <1>1, <1>4, Changing
<1>6. rings \in Downs /\ comes \in Downs
  BY <1>1, Sayings
<1> HIDE DEF placed, rings, comes
<1>7. Served(called)
  BY <1>1, <1>5, <1>6, Answers, Announces
<1> HIDE DEF called
<1>8. handleInvite(w, t, f) \in {ToTab(w, t, Error("forbidden", None)), ToTab(w, t, Error("not_supported", None)),
        ToTab(w, t, Error("bad_frame", None)), called}
      \/ (busy # {} /\ handleInvite(w, t, f) = ToTab(w, t, Error("call_exists", CHOOSE x \in busy : TRUE)))
  BY DEF handleInvite, called, placed, rings, comes, r, c, o
<1> HIDE DEF busy
<1> QED
  BY <1>2, <1>3, <1>7, <1>8

LEMMA Answering ==
    ASSUME Setting, NEW w, Served(w), NEW t \in Tabs, NEW f \in Ups, f.kind = "answer"
    PROVE  Served(handleAnswer(w, t, f))
<1> DEFINE c == f.id
           o == OwnerOf[t]
           takes == Down("answered", c, o, {}, TRUE, "")
           stops == Down("ended", c, None, {}, FALSE, "answered_elsewhere")
           met == ToOwners(Seated(w, t, c), {room[c].caller}, takes)
<1>1. c \in Calls /\ o \in Owners /\ conn \subseteq Tabs
  BY TabAssumption DEF Setting, Ups
<1>2. \A code \in {"call_gone", "forbidden"} : Served(ToTab(w, t, Error(code, None)))
  BY <1>1, Refusals, Answers
<1>3. takes \in Downs /\ stops \in Downs
  BY <1>1, Sayings, EndSaid
<1> HIDE DEF takes, stops
<1>4. Served(ToTab(w, t, stops))
  BY <1>3, Answers
<1>5. Served(met)
  BY <1>1, <1>3, SeatTaken, Announces
<1> HIDE DEF met
<1>6. Served(ToOwners(met, {o}, stops))
  BY <1>1, <1>3, <1>5, Announces
<1>7. handleAnswer(w, t, f) \in {ToTab(w, t, Error("call_gone", None)), ToTab(w, t, Error("forbidden", None)),
        ToTab(w, t, stops), ToOwners(met, {o}, stops)}
  BY DEF handleAnswer, Lost, met, takes, stops
<1> QED
  BY <1>2, <1>4, <1>6, <1>7

LEMMA JoinServed ==
    ASSUME Setting, NEW w, Served(w), NEW t \in Tabs, NEW f \in Ups, f.kind = "join"
    PROVE  Served(handleJoin(w, t, f))
<1> DEFINE c == f.id
           stops == Down("ended", c, None, {}, FALSE, "answered_elsewhere")
<1>1. c \in Calls /\ OwnerOf[t] \in Owners
  BY TabAssumption DEF Setting, Ups
<1>2. Served(ToTab(w, t, Error("call_gone", None)))
  BY <1>1, Refusals, Answers
<1>3. Served(ToTab(w, t, stops))
  BY <1>1, EndSaid, Answers
<1>4. Served(announceParticipant(Seated(w, t, c), c, OwnerOf[t]))
  BY <1>1, SeatTaken, Participants
<1> QED
  BY <1>2, <1>3, <1>4 DEF handleJoin, Lost

LEMMA HangupServed ==
    ASSUME Setting, NEW w, Served(w), NEW t \in Tabs, NEW f \in Ups
    PROVE  Served(handleHangup(w, t, f))
<1> DEFINE c == f.id
           o == OwnerOf[t]
           left == [Gone(w, c, o) EXCEPT !.room[c].dismissed = @ \cup {o}]
<1>1. c \in Calls \cup {None} /\ o \in Owners /\ f.reason \in Reasons
  BY TabAssumption DEF Setting, Ups, UpType
<1>2. \A code \in {"call_gone", "bad_frame"} : Served(ToTab(w, t, Error(code, None)))
  BY Refusals, Answers
<1>3. CASE c = None
  BY <1>2, <1>3 DEF handleHangup
<1>4. CASE c \in Calls /\ c # None
  <2>1. Served(endCall(w, c, f.reason, o))
    BY <1>1, <1>4, Ending
  <2>2. Served(left)
    BY <1>1, <1>4, SeatLeft
  <2>3. Served(Spent(announceParticipant(left, c, o), c, f.reason))
    BY <1>1, <1>4, <2>2, Participants, Spending
  <2> HIDE DEF left
  <2>4. leaveGroupCall(w, c, o, f.reason) = Spent(announceParticipant(left, c, o), c, f.reason)
    BY DEF leaveGroupCall, left
  <2> QED
    BY <1>2, <1>4, <2>1, <2>3, <2>4 DEF handleHangup
<1> QED
  BY <1>1, <1>3, <1>4

(*-------------------------------------------------------------------------*)
(* What is read of the history.                                             *)

LEMMA Remembers ==
    ASSUME \A c \in Calls : room[c].status # "unborn" => room'[c].status # "unborn"
    PROVE  Histories \subseteq Histories' /\ Stores \subseteq Stores'
<1>1. Histories \subseteq Histories'
  BY DEF Histories
<1>2. Seq(Histories) \subseteq Seq(Histories')
  BY <1>1
<1>3. Fetches \subseteq Fetches'
  BY <1>2 DEF Fetches
<1>4. Seq(Fetches) \subseteq Seq(Fetches')
  BY <1>3
<1> QED
  BY <1>1, <1>4 DEF Stores

LEMMA Refreshing ==
    ASSUME Setting, NEW t \in Tabs, NEW s \in Stores, Unread(t, s), NEW id \in Calls \cup {None},
           NEW until \in {"present", "ended"}, NEW watch \in BOOLEAN
    PROVE  LET after == refreshCalls(t, s, id, until, watch)
           IN after \in Stores /\ after.ended = s.ended /\ Unread(t, after)
<1> DEFINE asked == [id |-> id, until |-> until, watch |-> watch, reply |-> <<>>, left |-> IF id = None THEN 1 ELSE Tries]
<1>1. asked \in Fetches
  BY PlansAssumption DEF Fetches
<1>2. s.fetch \in Seq(Fetches)
  BY DEF Stores
<1> HIDE DEF asked
<1>3. Append(s.fetch, asked) \in Seq(Fetches)
  BY <1>1, <1>2
<1> DEFINE more == Append(s.fetch, asked)
<1> HIDE DEF more
<1>4. [s EXCEPT !.fetch = more] \in Stores /\ [s EXCEPT !.fetch = more].ended = s.ended
  BY <1>3 DEF Stores, more
<1>5. t \in plan.watchers => Unread(t, [s EXCEPT !.fetch = more])
  BY DEF Unread
<1>6. refreshCalls(t, s, id, until, watch) = s
      \/ (t \in plan.watchers /\ refreshCalls(t, s, id, until, watch) = [s EXCEPT !.fetch = more])
  BY DEF refreshCalls, asked, more
<1> QED
  BY <1>4, <1>5, <1>6

LEMMA Applying ==
    ASSUME Setting, NEW t \in Tabs, NEW s \in Stores, Unread(t, s), NEW f \in Downs
    PROVE  LET after == applyFrame(t, s, f)
           IN /\ after \in Stores /\ Unread(t, after) /\ s.ended \subseteq after.ended
              /\ f.kind = "ended" => f.id \in after.ended
<1> DEFINE c == f.id
           rings == [s EXCEPT !.rung = @ \cup {c}]
           told == [markCallEnded(s, c) EXCEPT !.rung = @ \ {c}]
           reads == refreshCalls(t, s, c, "present", TRUE)
           checks == refreshCalls(t, told, c, "ended", FALSE)
<1>1. c \in Calls \cup {None} /\ (f.kind # "error" => c \in Calls)
  BY DEF Downs, DownType
<1> HIDE DEF c
<1>2. c \in Calls => rings \in Stores /\ rings.ended = s.ended /\ Unread(t, rings)
  BY DEF Stores, Unread
<1>3. c \in Calls => told \in Stores /\ told.ended = s.ended \cup {c} /\ Unread(t, told)
  BY DEF markCallEnded, Stores, Unread
<1>4. reads \in Stores /\ reads.ended = s.ended /\ Unread(t, reads)
  BY <1>1, Refreshing
<1>5. c \in Calls => checks \in Stores /\ checks.ended = told.ended /\ Unread(t, checks)
  BY <1>1, <1>3, Refreshing
<1>6. CASE f.kind = "incoming"
  BY <1>1, <1>2, <1>6 DEF applyFrame, c
<1>7. CASE f.kind = "participant"
  <2>1. applyFrame(t, s, f) = s \/ applyFrame(t, s, f) = reads
    BY <1>7 DEF applyFrame, applyCallParticipants, c
  <2> HIDE DEF reads
  <2> QED
    BY <1>4, <1>7, <2>1
<1>8. CASE f.kind = "ended"
  <2>1. applyFrame(t, s, f) = told \/ applyFrame(t, s, f) = checks
    BY <1>8 DEF applyFrame, c
  <2>2. c \in Calls /\ c = f.id
    BY <1>1, <1>8 DEF c
  <2> HIDE DEF told, checks
  <2> QED
    BY <1>3, <1>5, <1>8, <2>1, <2>2
<1>9. CASE f.kind \notin {"incoming", "participant", "ended"}
  BY <1>9 DEF applyFrame
<1> QED
  BY <1>6, <1>7, <1>8, <1>9

(*-------------------------------------------------------------------------*)
(* The steps of the room and of the sockets.                                *)

LEMMA World ==
    ASSUME ClientInv
    PROVE  Served([room |-> room, net |-> net])
BY DEF ClientInv, Setting, Served, Worlds

LEMMA RoomSteps ==
    ASSUME ClientInv, NEW r, Served(r), room' = r.room, net' = r.net, closing' \in [Tabs -> SUBSET Calls],
           UNCHANGED <<plan, tab, store, conn, row, cut>>
    PROVE  ClientInv'
<1>1. room' \in Rooms /\ net' \in Nets /\ Told(room', net', store)
      /\ \A c \in Calls : room[c].status # "unborn" => room'[c].status # "unborn"
  BY DEF Served, Worlds
<1>2. Told(room, net, store)'
  BY <1>1 DEF Told, Hears, People
<1>3. row' \in Histories' /\ store' \in [Tabs -> Stores']
  BY <1>1, Remembers DEF ClientInv
<1>4. Setting'
  BY <1>1 DEF ClientInv, Setting
<1>5. \A t \in Tabs : Unread(t, store[t])'
  BY DEF ClientInv, Unread
<1> QED
  BY <1>2, <1>3, <1>4, <1>5 DEF ClientInv

LEMMA Serves == ASSUME ClientInv, NEW t \in Tabs, Serve(t) PROVE ClientInv'
<1> DEFINE f == Head(net.up[t])
           w == [room |-> room, net |-> [net EXCEPT !.up[t] = Tail(@)]]
           r == CASE f.kind = "invite" -> handleInvite(w, t, f)
                  [] f.kind = "answer" -> handleAnswer(w, t, f)
                  [] f.kind = "join"   -> handleJoin(w, t, f)
                  [] f.kind = "hangup" -> handleHangup(w, t, f)
<1>1. /\ net.up[t] # <<>> /\ room' = r.room /\ net' = r.net
      /\ f.kind = "invite" => \E c \in Calls : room[c].status = "unborn"
      /\ UNCHANGED <<plan, tab, store, conn, row, cut>>
  BY DEF Serve
<1>2. closing' \in [Tabs -> SUBSET Calls]
  <2>1. closing' = [closing EXCEPT ![t] = {c \in @ : f.kind \notin {"join", "answer"} \/ f.id # c}]
    BY DEF Serve
  <2> QED
    BY <2>1 DEF ClientInv, Setting
<1>3. Setting /\ net \in Nets /\ net.up \in [Tabs -> Seq(Ups)] /\ net.up[t] \in Seq(Ups)
  BY DEF ClientInv, Setting, Nets
<1>4. f \in Ups /\ Tail(net.up[t]) \in Seq(Ups)
  BY <1>1, <1>3
<1>5. f.kind \in {"invite", "answer", "join", "hangup"}
  BY <1>4 DEF Ups, UpType
<1> DEFINE n == [net EXCEPT !.up[t] = Tail(@)]
<1>6. n \in Nets /\ n.bus = net.bus /\ n.down = net.down
  BY <1>3, <1>4 DEF Nets
<1> HIDE DEF f
<1>7. w.room = room /\ w.net = n /\ w \in Worlds
  BY <1>3, <1>6 DEF Worlds, Setting
<1> HIDE DEF n, w
<1>8. Served(w)
  BY <1>6, <1>7 DEF Served, ClientInv, Told
<1>9. Served(r)
  BY <1>1, <1>3, <1>4, <1>5, <1>8, Inviting, Answering, JoinServed, HangupServed
<1> HIDE DEF r
<1> QED
  BY <1>1, <1>2, <1>9, RoomSteps

LEMMA TimesOut == ASSUME ClientInv, NEW c \in Calls, RingTimesOut(c) PROVE ClientInv'
<1> DEFINE w == endCall([room |-> room, net |-> net], c, "missed", None)
<1>1. Served(w)
  BY World, Ending DEF ClientInv
<1> HIDE DEF w
<1>2. room' = w.room /\ net' = w.net /\ UNCHANGED <<plan, tab, store, conn, closing, row, cut>>
  BY DEF RingTimesOut, w
<1> QED
  BY <1>1, <1>2, RoomSteps DEF ClientInv, Setting

LEMMA Releases == ASSUME ClientInv, NEW t \in Tabs, Release(t) PROVE ClientInv'
<1>1. PICK c \in closing[t] :
        /\ closing' = [closing EXCEPT ![t] = @ \ {c}] /\ UNCHANGED <<plan, tab, store, conn, row, cut>>
        /\ LET o == OwnerOf[t]
               w == [room |-> room, net |-> net]
               r == IF ~Live(c) \/ room[c].member[o] # t THEN w
                    ELSE IF ~IsGroup THEN endCall(w, c, "hangup", o)
                    ELSE Spent(announceParticipant(Gone(w, c, o), c, o), c, "hangup")
           IN room' = r.room /\ net' = r.net
  BY DEF Release
<1> DEFINE o == OwnerOf[t]
           w == [room |-> room, net |-> net]
           r == IF ~Live(c) \/ room[c].member[o] # t THEN w
                ELSE IF ~IsGroup THEN endCall(w, c, "hangup", o)
                ELSE Spent(announceParticipant(Gone(w, c, o), c, o), c, "hangup")
<1>2. c \in Calls /\ o \in Owners /\ Setting /\ closing' \in [Tabs -> SUBSET Calls]
  BY <1>1, TabAssumption DEF ClientInv, Setting
<1>3. Served(w)
  BY World
<1>4. room' = r.room /\ net' = r.net
  BY <1>1
<1> HIDE DEF o, w
<1>5. Served(endCall(w, c, "hangup", o)) /\ Served(Spent(announceParticipant(Gone(w, c, o), c, o), c, "hangup"))
  BY <1>2, <1>3, Ending, SeatLeft, Participants, Spending
<1>6. Served(r)
  BY <1>3, <1>5
<1> HIDE DEF r
<1> QED
  BY <1>1, <1>2, <1>4, <1>6, RoomSteps

LEMMA Spends ==
    ASSUME plan \in PlanType, NEW t \in Tabs, NEW press \in Presses, Spend(t, press)
    PROVE  /\ plan' \in PlanType /\ plan'.tabs = plan.tabs /\ plan'.people = plan.people
           /\ plan'.watchers = plan.watchers
<1>1. plan.left \in [Presses -> [Tabs -> Nat]] /\ plan.left[press][t] > 0
  BY DEF PlanType, Spend
<1>2. [plan.left EXCEPT ![press][t] = @ - 1] \in [Presses -> [Tabs -> Nat]]
  BY <1>1
<1>3. plan' = [plan EXCEPT !.left = [plan.left EXCEPT ![press][t] = @ - 1]]
  BY DEF Spend, PlanType
<1> QED
  BY <1>2, <1>3 DEF PlanType

LEMMA Drops == ASSUME ClientInv, NEW t \in Tabs, Drop(t) PROVE ClientInv'
<1>1. /\ conn' = conn \ {t} /\ cut' = cut \cup {t} /\ Spend(t, "drops")
      /\ net' = [up |-> [net.up EXCEPT ![t] = <<>>], down |-> [net.down EXCEPT ![t] = <<>>],
                 bus |-> [net.bus EXCEPT ![t] = <<>>]]
      /\ closing' = [closing EXCEPT ![t] = @ \cup {c \in Calls : room[c].member[OwnerOf[t]] = t}]
      /\ UNCHANGED <<tab, store, room, row>>
  BY DEF Drop
<1>2. /\ plan' \in PlanType /\ plan'.tabs = plan.tabs /\ plan'.people = plan.people /\ plan'.watchers = plan.watchers
  BY <1>1, Spends DEF ClientInv, Setting, Presses
<1>3. net' \in Nets /\ \A x \in Tabs \ {t} : net'.bus[x] = net.bus[x] /\ net'.down[x] = net.down[x]
  BY <1>1 DEF ClientInv, Setting, Nets
<1>4. closing' \in [Tabs -> SUBSET Calls]
  BY <1>1 DEF ClientInv, Setting
<1>5. Setting'
  BY <1>1, <1>2, <1>3, <1>4 DEF ClientInv, Setting
<1>6. Hears' \subseteq Hears /\ t \notin Hears' /\ Hears' \subseteq Tabs
  BY <1>1, <1>2 DEF Hears, People
<1>7. Told(room, net, store)'
  BY <1>1, <1>3, <1>6 DEF ClientInv, Told
<1>8. row' \in Histories' /\ store' \in [Tabs -> Stores']
  BY <1>1, Remembers DEF ClientInv
<1>9. \A x \in Tabs : Unread(x, store[x])'
  BY <1>1, <1>2 DEF ClientInv, Unread
<1> QED
  BY <1>5, <1>7, <1>8, <1>9 DEF ClientInv

LEMMA Sequenced == ASSUME NEW X, IsFiniteSet(X) PROVE SetToSeq(X) \in Seq(X)
<1>1. Cardinality(X) \in Nat /\ ExistsBijection(1 .. Cardinality(X), X)
  BY FS_CardinalityType
<1>2. \E f \in [1 .. Cardinality(X) -> X] : IsInjective(f)
  BY <1>1 DEF ExistsBijection, Bijection, Injection
<1>3. SetToSeq(X) \in [1 .. Cardinality(X) -> X]
  BY <1>2 DEF SetToSeq
<1> QED
  BY <1>1, <1>3

LEMMA Pending == ASSUME Setting, NEW t \in Tabs PROVE ringPending(t) \in Seq(Downs)
<1> DEFINE o == OwnerOf[t]
           pending == {c \in Calls : Live(c) /\ o \in People \ (room[c].ever \cup room[c].dismissed)}
           frame(c) == Down("incoming", c, room[c].caller, People, FALSE, "")
           frames == {frame(c) : c \in pending}
           map == [c \in pending |-> frame(c)]
<1>1. IsFiniteSet(pending)
  BY CallsAssumption, FS_Subset
<1>2. map \in Surjection(pending, frames)
  BY DEF Surjection
<1>3. IsFiniteSet(frames)
  BY <1>1, <1>2, FS_Surjection
<1>4. \A c \in Calls : frame(c) \in Downs
  <2> SUFFICES ASSUME NEW c \in Calls PROVE frame(c) \in Downs
    OBVIOUS
  <2>1. room[c].caller \in Owners \cup {None} /\ People \in SUBSET Owners
    BY DEF Setting, Rooms, RoomRecs, PlanType, People
  <2> QED
    BY <2>1 DEF Down, Downs, DownType
<1>5. frames \subseteq Downs
  BY <1>4
<1>6. ringPending(t) = SetToSeq(frames)
  BY DEF ringPending
<1> HIDE DEF frames
<1> QED
  BY <1>3, <1>5, <1>6, Sequenced

LEMMA Reconnects == ASSUME ClientInv, NEW t \in Tabs, Reconnect(t) PROVE ClientInv'
<1>1. /\ t \in plan.tabs \ conn /\ conn' = conn \cup {t} /\ net' = [net EXCEPT !.down[t] = ringPending(t)]
      /\ UNCHANGED <<plan, tab, store, closing, room, row, cut>>
  BY DEF Reconnect
<1>2. Setting /\ ringPending(t) \in Seq(Downs)
  BY Pending DEF ClientInv
<1>3. net' \in Nets /\ \A x \in Tabs \ {t} : net'.bus[x] = net.bus[x] /\ net'.down[x] = net.down[x]
  BY <1>1, <1>2 DEF Setting, Nets
<1>4. Setting'
  BY <1>1, <1>2, <1>3 DEF Setting
<1>5. Hears' = Hears /\ t \notin Hears' /\ Hears' \subseteq Tabs
  BY <1>1, <1>2 DEF Hears, People, Setting
<1>6. Told(room, net, store)'
  BY <1>1, <1>3, <1>5 DEF ClientInv, Told
<1>7. row' \in Histories' /\ store' \in [Tabs -> Stores']
  BY <1>1, Remembers DEF ClientInv
<1>8. \A x \in Tabs : Unread(x, store[x])'
  BY <1>1 DEF ClientInv, Unread
<1> QED
  BY <1>4, <1>6, <1>7, <1>8 DEF ClientInv

LEMMA Relays == ASSUME ClientInv, NEW t \in Tabs, Relay(t) PROVE ClientInv'
<1> DEFINE f == Head(net.bus[t])
<1>1. /\ net.bus[t] # <<>> /\ net' = [net EXCEPT !.bus[t] = Tail(@), !.down[t] = Append(@, f)]
      /\ UNCHANGED <<plan, tab, store, conn, closing, room, row, cut>>
  BY DEF Relay
<1>2. net \in Nets /\ net.bus \in [Tabs -> Seq(Downs)] /\ net.down \in [Tabs -> Seq(Downs)]
  BY DEF ClientInv, Setting, Nets
<1>3. /\ f \in Downs /\ Tail(net.bus[t]) \in Seq(Downs) /\ Append(net.down[t], f) \in Seq(Downs)
      /\ \A c : Tells(net.bus[t], c) \/ Tells(net.down[t], c)
                  => Tells(Tail(net.bus[t]), c) \/ Tells(Append(net.down[t], f), c)
  <2> DEFINE bus == net.bus[t]
             down == net.down[t]
  <2>1. bus \in Seq(Downs) /\ bus # <<>> /\ down \in Seq(Downs)
    BY <1>1, <1>2
  <2> HIDE DEF bus, down
  <2>2. /\ Head(bus) \in Downs /\ Tail(bus) \in Seq(Downs)
        /\ \A c : Tells(bus, c) => Tells(Tail(bus), c) \/ (Head(bus).kind = "ended" /\ Head(bus).id = c)
    BY <2>1, Unqueued
  <2>3. /\ Append(down, Head(bus)) \in Seq(Downs)
        /\ \A c : Tells(down, c) => Tells(Append(down, Head(bus)), c)
        /\ Head(bus).kind = "ended" => Tells(Append(down, Head(bus)), Head(bus).id)
    BY <2>1, <2>2, Queued
  <2> QED
    BY <2>2, <2>3 DEF bus, down
<1>4. /\ net' \in Nets /\ net'.bus[t] = Tail(net.bus[t]) /\ net'.down[t] = Append(net.down[t], f)
      /\ \A x \in Tabs \ {t} : net'.bus[x] = net.bus[x] /\ net'.down[x] = net.down[x]
  BY <1>1, <1>2, <1>3 DEF Nets
<1>5. Setting'
  BY <1>1, <1>4 DEF ClientInv, Setting
<1>6. Hears' = Hears /\ Hears \subseteq Tabs
  BY <1>1 DEF Hears, People
<1>7. Told(room, net, store)'
  BY <1>1, <1>3, <1>4, <1>6 DEF ClientInv, Told
<1>8. row' \in Histories' /\ store' \in [Tabs -> Stores']
  BY <1>1, Remembers DEF ClientInv
<1>9. \A x \in Tabs : Unread(x, store[x])'
  BY <1>1 DEF ClientInv, Unread
<1> QED
  BY <1>5, <1>7, <1>8, <1>9 DEF ClientInv

(*-------------------------------------------------------------------------*)
(* The steps of a tab.                                                      *)

SamePlan ==
    /\ plan' \in PlanType /\ plan'.tabs = plan.tabs /\ plan'.people = plan.people
    /\ plan'.watchers = plan.watchers

LEMMA Tasks ==
    ASSUME ClientInv, SamePlan, NEW t \in Tabs, NEW u \in Turns, NEW s \in Stores, Unread(t, s),
           store[t].ended \subseteq s.ended, NEW n \in Nets, n.bus = net.bus,
           \A x \in Tabs \ {t} : n.down[x] = net.down[x],
           \A c : Tells(net.down[t], c) => Tells(n.down[t], c) \/ c \in s.ended,
           Task(t, u, s, n)
    PROVE  ClientInv'
<1> DEFINE checks == refreshCalls(t, s, tab[t].call.id, "ended", FALSE)
           after == IF tab[t].call # NoCall /\ u.tab.call = NoCall THEN checks ELSE s
<1>1. /\ tab' = [tab EXCEPT ![t] = u.tab] /\ net' = Sent(n, t, u.out)
      /\ cut \subseteq cut' /\ store' = [store EXCEPT ![t] = after]
      /\ UNCHANGED <<conn, closing, room, row>>
  BY DEF Task
<1>2. u.tab \in TabRecs /\ u.out \in Seq(Ups) /\ Setting /\ tab[t].call.id \in Calls \cup {None}
  BY DEF Turns, ClientInv, Setting, TabRecs, CallRecs
<1>3. checks \in Stores /\ checks.ended = s.ended /\ Unread(t, checks)
  BY <1>2, Refreshing
<1> HIDE DEF checks
<1>4. after \in Stores /\ after.ended = s.ended /\ Unread(t, after)
  BY <1>3
<1> HIDE DEF after
<1>5. net' \in Nets /\ net'.bus = net.bus /\ net'.down = n.down
  <2>1. [n EXCEPT !.up[t] = @ \o u.out] \in Nets /\ [n EXCEPT !.up[t] = @ \o u.out].bus = n.bus
        /\ [n EXCEPT !.up[t] = @ \o u.out].down = n.down
    <3> DEFINE q == n.up[t] \o u.out
               ups == [n.up EXCEPT ![t] = q]
    <3>1. n.up \in [Tabs -> Seq(Ups)] /\ n.up[t] \in Seq(Ups)
      BY DEF Nets
    <3>2. q \in Seq(Ups)
      BY <1>2, <3>1
    <3> HIDE DEF q
    <3>3. ups \in [Tabs -> Seq(Ups)]
      BY <3>1, <3>2
    <3>4. [n EXCEPT !.up[t] = @ \o u.out] = [n EXCEPT !.up = ups]
      BY DEF q
    <3> HIDE DEF ups
    <3> QED
      BY <3>3, <3>4 DEF Nets
  <2> QED
    BY <1>1, <2>1 DEF Sent
<1>6. Setting'
  BY <1>1, <1>2, <1>5 DEF Setting, SamePlan
<1>7. store' \in [Tabs -> Stores] /\ store'[t] = after /\ \A x \in Tabs \ {t} : store'[x] = store[x]
  BY <1>1, <1>4 DEF ClientInv
<1>8. Hears' \subseteq Hears /\ Hears \subseteq Tabs
  BY <1>1 DEF Hears, People, SamePlan
<1>9. Told(room, net, store)'
  <2>1. \A x \in Tabs : store[x].ended \subseteq store'[x].ended
    BY <1>4, <1>7
  <2>2. \A x \in Tabs : \A c : Tells(net.down[x], c) => Tells(net'.down[x], c) \/ c \in store'[x].ended
    BY <1>4, <1>5, <1>7
  <2> QED
    BY <1>1, <1>5, <1>8, <2>1, <2>2 DEF ClientInv, Told
<1>10. row' \in Histories' /\ store' \in [Tabs -> Stores']
  BY <1>1, <1>7, Remembers DEF ClientInv
<1>11. \A x \in Tabs : Unread(x, store[x])'
  BY <1>4, <1>7 DEF ClientInv, Unread, SamePlan
<1> QED
  BY <1>6, <1>9, <1>10, <1>11 DEF ClientInv

(* A step of a tab that hears nothing.                                      *)
LEMMA OwnTasks ==
    ASSUME ClientInv, SamePlan, NEW t \in Tabs, NEW u \in Turns, Task(t, u, store[t], net)
    PROVE  ClientInv'
<1>1. store[t] \in Stores /\ Unread(t, store[t]) /\ net \in Nets
  BY DEF ClientInv, Setting
<1> QED
  BY <1>1, Tasks

LEMMA Receives == ASSUME ClientInv, NEW t \in Tabs, Receive(t) PROVE ClientInv'
<1> DEFINE f == Head(net.down[t])
           u == onFrame(Start(t), f, OwnerOf[t])
           s == applyFrame(t, store[t], f)
           n == [net EXCEPT !.down[t] = Tail(@)]
<1>1. net.down[t] # <<>> /\ Task(t, u, s, n) /\ UNCHANGED plan
  BY DEF Receive
<1>2. /\ Setting /\ net \in Nets /\ net.down \in [Tabs -> Seq(Downs)] /\ net.down[t] \in Seq(Downs)
      /\ OwnerOf[t] \in Owners /\ tab \in [Tabs -> TabRecs] /\ store[t] \in Stores /\ Unread(t, store[t])
  BY TabAssumption DEF ClientInv, Setting, Nets
<1>3. /\ f \in Downs /\ Tail(net.down[t]) \in Seq(Downs)
      /\ \A c : Tells(net.down[t], c) => Tells(Tail(net.down[t]), c) \/ (f.kind = "ended" /\ f.id = c)
  BY <1>1, <1>2, Unqueued
<1>4. n \in Nets /\ n.bus = net.bus /\ n.down[t] = Tail(net.down[t])
      /\ \A x \in Tabs \ {t} : n.down[x] = net.down[x]
  BY <1>2, <1>3 DEF Nets
<1> HIDE DEF f, n
<1>5. u \in Turns
  BY <1>2, <1>3, Begun, Hearing
<1>6. /\ s \in Stores /\ Unread(t, s) /\ store[t].ended \subseteq s.ended
      /\ f.kind = "ended" => f.id \in s.ended
  BY <1>2, <1>3, Applying
<1> HIDE DEF u, s
<1>7. SamePlan
  BY <1>1, <1>2 DEF SamePlan, Setting
<1>8. \A c : Tells(net.down[t], c) => Tells(n.down[t], c) \/ c \in s.ended
  BY <1>3, <1>4, <1>6
<1> QED
  BY <1>1, <1>4, <1>5, <1>6, <1>7, <1>8, Tasks

LEMMA SpendsPlan == ASSUME ClientInv, NEW t \in Tabs, NEW press \in Presses, Spend(t, press) PROVE SamePlan
BY Spends DEF ClientInv, Setting, SamePlan

LEMMA PressesButtons ==
    ASSUME ClientInv, NEW t \in Tabs, Dial(t) \/ Accept(t) \/ HangUp(t) \/ Join(t) \/ JoinTimesOut(t)
    PROVE  ClientInv'
<1>1. /\ Setting /\ plan \in PlanType /\ tab \in [Tabs -> TabRecs] /\ OwnerOf[t] \in Owners
      /\ Start(t) \in Turns /\ Start(t).tab = tab[t]
  BY TabAssumption, Begun DEF ClientInv, Setting
<1>2. CASE Dial(t)
  <2>1. Spend(t, "dials") /\ Task(t, startCall(Start(t), OwnerOf[t]), store[t], net)
    BY <1>2 DEF Dial
  <2>2. SamePlan /\ startCall(Start(t), OwnerOf[t]) \in Turns
    BY <1>1, <2>1, SpendsPlan, Starting DEF Presses
  <2> QED
    BY <2>1, <2>2, OwnTasks
<1>3. CASE Accept(t)
  <2>1. /\ tab[t].call.dir = "incoming" /\ tab[t].call.state = "ringing"
        /\ Spend(t, "accepts") /\ Task(t, accept(Start(t)), store[t], net)
    BY <1>3 DEF Accept
  <2>2. SamePlan /\ accept(Start(t)) \in Turns
    BY <1>1, <2>1, SpendsPlan, Accepting DEF Presses
  <2> QED
    BY <2>1, <2>2, OwnTasks
<1>4. CASE HangUp(t)
  <2>1. Spend(t, "hangups") /\ Task(t, hangUp(Start(t), ""), store[t], net)
    BY <1>4 DEF HangUp
  <2>2. SamePlan /\ hangUp(Start(t), "") \in Turns
    BY <1>1, <2>1, SpendsPlan, Hanging DEF Presses
  <2> QED
    BY <2>1, <2>2, OwnTasks
<1>5. CASE Join(t)
  <2>1. Spend(t, "joins") /\ \E c \in Calls : Task(t, joinOngoing(Start(t), c, People), store[t], net)
    BY <1>5 DEF Join, ongoingCallOf
  <2>2. PICK c \in Calls : Task(t, joinOngoing(Start(t), c, People), store[t], net)
    BY <2>1
  <2>3. SamePlan /\ joinOngoing(Start(t), c, People) \in Turns
    BY <1>1, <2>1, SpendsPlan, Joining DEF Presses, PlanType, People
  <2> QED
    BY <2>2, <2>3, OwnTasks
<1>6. CASE JoinTimesOut(t)
  <2> DEFINE idles == [Start(t) EXCEPT !.tab.timer = FALSE]
  <2>1. (Task(t, abandonJoin(Start(t)), store[t], net) \/ Task(t, idles, store[t], net)) /\ UNCHANGED plan
    BY <1>6 DEF JoinTimesOut
  <2>2. SamePlan
    BY <1>1, <2>1 DEF SamePlan
  <2>3. abandonJoin(Start(t)) \in Turns
    BY <1>1, Finishing DEF abandonJoin
  <2>4. idles \in Turns
    BY <1>1 DEF Turns, TabRecs
  <2> HIDE DEF idles
  <2> QED
    BY <2>1, <2>2, <2>3, <2>4, OwnTasks
<1> QED
  BY <1>2, <1>3, <1>4, <1>5, <1>6

LEMMA Browses ==
    ASSUME ClientInv, NEW t \in Tabs,
           CaptureResolves(t) \/ DescriptionReady(t) \/ JobFails(t) \/ MediaConnects(t) \/ MediaFails(t)
    PROVE  ClientInv'
<1>1. /\ Setting /\ plan \in PlanType /\ tab \in [Tabs -> TabRecs]
      /\ Start(t) \in Turns /\ Start(t).tab = tab[t] /\ tab[t] \in TabRecs
  BY Begun DEF ClientInv, Setting
<1>2. CASE CaptureResolves(t)
  <2>1. PICK i \in DOMAIN tab[t].jobs :
          LET job == tab[t].jobs[i]
              u == openLocalMedia(Start(t), job)
              done == job.bare \/ job.why = "join"
          IN /\ job.stage = "capture" /\ UNCHANGED plan
             /\ Task(t, IF done THEN Announce(Drained(u, i), job)
                        ELSE [u EXCEPT !.tab.jobs[i].stage = "describe"], store[t], net)
    BY <1>2 DEF CaptureResolves
  <2> DEFINE job == tab[t].jobs[i]
             u == openLocalMedia(Start(t), job)
             said == Announce(Drained(u, i), job)
             reads == [u EXCEPT !.tab.jobs[i].stage = "describe"]
             p == Drained(Start(t), i)
             q == [Start(t) EXCEPT !.tab.jobs[i].stage = "describe"]
  <2>2. (Task(t, said, store[t], net) \/ Task(t, reads, store[t], net)) /\ UNCHANGED plan
    BY <2>1
  <2>3. job \in JobRecs /\ p \in Turns /\ q \in Turns
    BY <1>1, Draining, Describing
  <2>4. /\ job.opens => OpensAlone(p.tab) /\ OpensAlone(q.tab)
        /\ Drained(u, i) = openLocalMedia(p, job) /\ reads = openLocalMedia(q, job)
    <3>1. i \in DOMAIN Start(t).tab.jobs /\ Start(t).tab.jobs[i] = job /\ job.stage = "capture"
      BY <1>1, <2>1
    <3> HIDE DEF job
    <3> QED
      BY <1>1, <3>1, Resolving
  <2> HIDE DEF job, p, q, u, reads
  <2>5. said \in Turns
    BY <2>3, <2>4, Opening, Announcing
  <2>6. reads \in Turns
    BY <2>3, <2>4, Opening
  <2>7. SamePlan
    BY <1>1, <2>2 DEF SamePlan
  <2> HIDE DEF said, reads
  <2> QED
    BY <2>2, <2>5, <2>6, <2>7, OwnTasks
<1>3. CASE DescriptionReady(t)
  <2>1. PICK i \in DOMAIN tab[t].jobs :
          LET job == tab[t].jobs[i]
              u == [Drained(Start(t), i) EXCEPT !.tab.call.offer = @ /\ job.why # "accept"]
          IN /\ Task(t, Announce(u, job), store[t], net) \/ Task(t, fail(Drained(Start(t), i)), store[t], net)
             /\ UNCHANGED plan
    BY <1>3 DEF DescriptionReady
  <2> DEFINE job == tab[t].jobs[i]
             d == Drained(Start(t), i)
             b == job.why # "accept"
             u == [d EXCEPT !.tab.call.offer = @ /\ b]
  <2>2. (Task(t, Announce(u, job), store[t], net) \/ Task(t, fail(d), store[t], net)) /\ UNCHANGED plan
    BY <2>1
  <2>3. d \in Turns /\ job \in JobRecs /\ b \in BOOLEAN
    BY <1>1, Draining
  <2> HIDE DEF d, b, job
  <2>4. u \in Turns
    BY <2>3, OfferKept
  <2> HIDE DEF u
  <2>5. Announce(u, job) \in Turns /\ fail(d) \in Turns
    BY <2>3, <2>4, Announcing, Failing
  <2>6. SamePlan
    BY <1>1, <2>2 DEF SamePlan
  <2> QED
    BY <2>2, <2>5, <2>6, OwnTasks
<1>4. CASE JobFails(t)
  <2>1. PICK i \in DOMAIN tab[t].jobs :
          LET job == tab[t].jobs[i]
              u == Drained(Start(t), i)
          IN Spend(t, "faults") /\ Task(t, IF job.why = "join" THEN u ELSE fail(u), store[t], net)
    BY <1>4 DEF JobFails
  <2> DEFINE u == Drained(Start(t), i)
  <2>2. Task(t, u, store[t], net) \/ Task(t, fail(u), store[t], net)
    BY <2>1
  <2>3. u \in Turns /\ SamePlan
    BY <1>1, <2>1, Draining, SpendsPlan DEF Presses
  <2> HIDE DEF u
  <2>4. fail(u) \in Turns
    BY <2>3, Failing
  <2> QED
    BY <2>2, <2>3, <2>4, OwnTasks
<1>5. CASE MediaConnects(t)
  <2> DEFINE u == [Start(t) EXCEPT !.tab.call.state = "active"]
  <2>1. tab[t].call.state = "connecting" /\ Task(t, u, store[t], net) /\ UNCHANGED plan
    BY <1>5 DEF MediaConnects
  <2>2. u \in Turns
    <3> DEFINE c == tab[t].call
    <3>1. c \in CallRecs /\ c.state = "connecting"
      BY <1>1, <2>1 DEF TabRecs
    <3>2. u = [Start(t) EXCEPT !.tab.call = [c EXCEPT !.state = "active"]]
      BY <1>1 DEF Turns, TabRecs
    <3> HIDE DEF c
    <3>3. [c EXCEPT !.state = "active"] \in CallRecs /\ [c EXCEPT !.state = "active"] # NoCall
      BY <3>1, NoCallFits DEF CallRecs
    <3> QED
      BY <1>1, <3>2, <3>3 DEF Turns, TabRecs
  <2>3. SamePlan
    BY <1>1, <2>1 DEF SamePlan
  <2> HIDE DEF u
  <2> QED
    BY <2>1, <2>2, <2>3, OwnTasks
<1>6. CASE MediaFails(t)
  <2>1. Spend(t, "faults") /\ Task(t, hangUp(Start(t), "ice_failed"), store[t], net)
    BY <1>6 DEF MediaFails
  <2>2. SamePlan /\ hangUp(Start(t), "ice_failed") \in Turns
    BY <1>1, <2>1, SpendsPlan, Hanging DEF Presses
  <2> QED
    BY <2>1, <2>2, OwnTasks
<1> QED
  BY <1>2, <1>3, <1>4, <1>5, <1>6

(*-------------------------------------------------------------------------*)
(* The steps of the history.                                                *)

LEMMA Reads ==
    ASSUME ClientInv, SamePlan, NEW t \in Tabs, NEW s \in Stores, store[t].ended \subseteq s.ended, Unread(t, s),
           store' = [store EXCEPT ![t] = s], UNCHANGED <<tab, conn, net, closing, room, row, cut>>
    PROVE  ClientInv'
<1>1. store' \in [Tabs -> Stores] /\ store'[t] = s /\ \A x \in Tabs \ {t} : store'[x] = store[x]
  BY DEF ClientInv
<1>2. Hears' = Hears /\ Hears \subseteq Tabs
  BY DEF Hears, People, SamePlan
<1>3. Told(room, net, store)'
  BY <1>1, <1>2 DEF ClientInv, Told
<1>4. row' \in Histories' /\ store' \in [Tabs -> Stores']
  BY <1>1, Remembers DEF ClientInv
<1>5. \A x \in Tabs : Unread(x, store[x])'
  BY <1>1 DEF ClientInv, Unread, SamePlan
<1>6. Setting'
  BY DEF ClientInv, Setting, SamePlan
<1> QED
  BY <1>3, <1>4, <1>5, <1>6 DEF ClientInv

LEMMA Projects == ASSUME ClientInv, NEW c \in Calls, Project(c) PROVE ClientInv'
<1>1. /\ UNCHANGED <<plan, tab, store, conn, net, closing, room, cut>>
      /\ \/ room[c].status = "active" /\ row' = [row EXCEPT ![c] = "open"]
         \/ row' = [row EXCEPT ![c] = "ended"]
  BY DEF Project
<1>2. row' \in Histories
  BY <1>1 DEF ClientInv, Histories
<1>3. row' \in Histories' /\ store' \in [Tabs -> Stores']
  BY <1>1, <1>2, Remembers DEF ClientInv
<1>4. Setting' /\ Told(room, net, store)'
  BY <1>1 DEF ClientInv, Setting, Told, Hears, People
<1>5. \A x \in Tabs : Unread(x, store[x])'
  BY <1>1 DEF ClientInv, Unread
<1> QED
  BY <1>3, <1>4, <1>5 DEF ClientInv

LEMMA Asks ==
    ASSUME ClientInv, NEW t \in Tabs, OpenThread(t) \/ Fetch(t) \/ Land(t)
    PROVE  ClientInv'
<1>1. Setting /\ store \in [Tabs -> Stores] /\ store[t] \in Stores /\ Unread(t, store[t]) /\ row \in Histories
  BY DEF ClientInv
<1>2. CASE OpenThread(t)
  <2> DEFINE s == refreshCalls(t, store[t], None, "present", FALSE)
  <2>1. Spend(t, "opens") /\ store' = [store EXCEPT ![t] = s]
        /\ UNCHANGED <<tab, conn, net, closing, room, row, cut>>
    BY <1>2 DEF OpenThread
  <2>2. s \in Stores /\ s.ended = store[t].ended /\ Unread(t, s)
    BY <1>1, Refreshing
  <2> HIDE DEF s
  <2>3. SamePlan
    BY <2>1, SpendsPlan DEF Presses
  <2> QED
    BY <2>1, <2>2, <2>3, Reads
<1> DEFINE old == store[t]
           fetch == old.fetch
<1>3. fetch \in Seq(Fetches) /\ old = [f \in {"rows", "ended", "rung", "fetch"} |-> old[f]]
  BY <1>1 DEF Stores
<1>4. (\E i : i \in DOMAIN fetch) => t \in plan.watchers
  BY <1>1 DEF Unread
<1>5. CASE Fetch(t)
  <2>1. PICK i \in DOMAIN fetch : /\ store' = [store EXCEPT ![t].fetch[i].reply = <<row>>]
                                  /\ UNCHANGED <<plan, tab, conn, net, closing, room, row, cut>>
    BY <1>5 DEF Fetch
  <2> DEFINE q == [fetch EXCEPT ![i] = [fetch[i] EXCEPT !.reply = <<row>>]]
             s == [old EXCEPT !.fetch = q]
  <2>2. store' = [store EXCEPT ![t] = s]
    BY <1>1, <2>1
  <2>3. fetch[i] \in Fetches /\ <<row>> \in Seq(Histories)
    BY <1>1, <1>3
  <2>4. [fetch[i] EXCEPT !.reply = <<row>>] \in Fetches
    BY <2>3 DEF Fetches
  <2> HIDE DEF fetch
  <2>5. q \in Seq(Fetches)
    BY <1>3, <2>4
  <2> HIDE DEF q
  <2>6. s \in Stores /\ s.ended = old.ended
    BY <1>1, <2>5 DEF Stores
  <2>7. Unread(t, s)
    BY <1>4 DEF Unread
  <2> HIDE DEF s
  <2>8. SamePlan
    BY <1>1, <2>1 DEF SamePlan, Setting
  <2> QED
    BY <2>1, <2>2, <2>6, <2>7, <2>8, Reads
<1>6. CASE Land(t)
  <2>1. PICK i \in DOMAIN fetch :
          LET r == fetch[i]
              got == Head(r.reply)
              s == [old EXCEPT !.rows = got]
          IN /\ r.reply # <<>>
             /\ store' = [store EXCEPT ![t] = IF Settled(r, got) THEN [s EXCEPT !.fetch = RemoveAt(@, i)]
                                              ELSE [s EXCEPT !.fetch[i].left = @ - 1, !.fetch[i].reply = <<>>]]
             /\ UNCHANGED <<plan, tab, conn, net, closing, room, row, cut>>
    BY <1>6 DEF Land
  <2> DEFINE r == fetch[i]
             got == Head(r.reply)
             a == [[old EXCEPT !.rows = got] EXCEPT !.fetch = RemoveAt(@, i)]
             b == [[old EXCEPT !.rows = got] EXCEPT !.fetch[i].left = @ - 1, !.fetch[i].reply = <<>>]
             qa == RemoveAt(fetch, i)
             again == [r EXCEPT !.left = @ - 1, !.reply = <<>>]
             qb == [fetch EXCEPT ![i] = again]
  <2>2. r.reply # <<>> /\ store' = [store EXCEPT ![t] = IF Settled(r, got) THEN a ELSE b]
    BY <2>1
  <2>3. a = [old EXCEPT !.rows = got, !.fetch = qa] /\ b = [old EXCEPT !.rows = got, !.fetch = qb]
    BY <1>3
  <2> HIDE DEF a, b
  <2>4. r \in Fetches /\ r.reply \in Seq(Histories)
    <3> HIDE DEF fetch
    <3>1. \A j \in DOMAIN fetch : fetch[j] \in Fetches
      BY <1>3
    <3> QED
      BY <3>1 DEF Fetches
  <2>5. got \in Histories
    BY <2>2, <2>4
  <2>6. ~Settled(r, got) => again \in Fetches
    <3> SUFFICES ASSUME ~Settled(r, got) PROVE again \in Fetches
      OBVIOUS
    <3> HIDE DEF r, got
    <3>1. r.left # 1 /\ r.left \in 1 .. Tries
      BY <2>4 DEF Settled, Fetches
    <3>2. r.left - 1 \in 1 .. Tries /\ <<>> \in Seq(Histories)
      BY <3>1, PlansAssumption
    <3> QED
      BY <2>4, <3>2 DEF Fetches
  <2> HIDE DEF fetch, again
  <2>7. qa \in Seq(Fetches)
    BY <1>3 DEF RemoveAt
  <2>8. ~Settled(r, got) => qb \in Seq(Fetches)
    BY <1>3, <2>6
  <2> HIDE DEF qa, qb, got
  <2>9. \A q \in Seq(Fetches) : /\ [old EXCEPT !.rows = got, !.fetch = q] \in Stores
                                /\ [old EXCEPT !.rows = got, !.fetch = q].ended = old.ended
    BY <1>1, <2>5 DEF Stores
  <2>10. PICK s \in Stores : store' = [store EXCEPT ![t] = s] /\ s.ended = old.ended
    <3>1. CASE Settled(r, got)
      BY <2>2, <2>3, <2>7, <2>9, <3>1
    <3>2. CASE ~Settled(r, got)
      BY <2>2, <2>3, <2>8, <2>9, <3>2
    <3> QED
      BY <3>1, <3>2
  <2>11. Unread(t, s)
    BY <1>4 DEF Unread
  <2>12. SamePlan
    BY <1>1, <2>1 DEF SamePlan, Setting
  <2> QED
    BY <2>1, <2>10, <2>11, <2>12, Reads
<1> QED
  BY <1>2, <1>5, <1>6

(*-------------------------------------------------------------------------*)

LEMMA ClientStarts == Init => ClientInv
<1> SUFFICES ASSUME Init PROVE ClientInv
  OBVIOUS
<1>1. plan \in Plans /\ plan \in PlanType /\ plan.tabs \subseteq Tabs /\ plan.talking \subseteq Tabs
      /\ plan.people \subseteq Owners /\ First \in Calls
  BY PlansAssumption, CallsAssumption DEF Init, PlanType, First
<1>2. OwnersOf(plan.talking) \subseteq Owners
  BY <1>1, TabAssumption DEF OwnersOf
<1>3. Idle \in TabRecs
  BY NoCallFits DEF Idle, TabRecs, MicRecs, NoMic, Kept, Asking
<1>4. \A t : Talking(plan, t) \in TabRecs
  <2> DEFINE r == [state |-> "active", dir |-> "outgoing", id |-> First, people |-> plan.people,
                   joined |-> OwnersOf(plan.talking), offer |-> FALSE]
  <2>1. r \in CallRecs /\ r # NoCall
    BY <1>1, <1>2, NoCallFits DEF CallRecs
  <2> HIDE DEF r
  <2>2. \A t : Talking(plan, t) = [call |-> r, timer |-> FALSE, mic |-> [NoMic EXCEPT !.held = TRUE], jobs |-> <<>>]
    BY DEF Talking, r
  <2> QED
    <3> DEFINE m == [NoMic EXCEPT !.held = TRUE]
    <3>1. m \in MicRecs /\ ~m.lost
      BY DEF MicRecs, NoMic
    <3> HIDE DEF m
    <3>2. [call |-> r, timer |-> FALSE, mic |-> m, jobs |-> <<>>] \in TabRecs
      <4>1. Asking(<<>>) = {}
        BY DEF Asking
      <4>2. Kept(m, <<>>)
        BY <3>1, <4>1 DEF Kept
      <4> QED
        BY <2>1, <3>1, <4>2 DEF TabRecs
    <3> QED
      BY <2>2, <3>2 DEF m
<1>5. tab \in [Tabs -> TabRecs]
  BY <1>3, <1>4 DEF Init
<1>6. Unborn \in RoomRecs
  BY DEF Unborn, RoomRecs
<1>7. plan.talking # {} => Underway(plan) \in RoomRecs /\ Underway(plan).status = "active"
  <2> SUFFICES ASSUME plan.talking # {} PROVE Underway(plan) \in RoomRecs /\ Underway(plan).status = "active"
    OBVIOUS
  <2> DEFINE who == OwnersOf(plan.talking)
             caller == CHOOSE o \in who : TRUE
             member == [o \in Owners |-> IF o \in who THEN CHOOSE t \in plan.talking : OwnerOf[t] = o ELSE None]
  <2>1. caller \in Owners
    BY <1>2 DEF OwnersOf
  <2>2. member \in [Owners -> Tabs \cup {None}]
    BY <1>1 DEF OwnersOf
  <2>3. plan.people \ who \in SUBSET Owners /\ who \in SUBSET Owners
    BY <1>1, <1>2
  <2>4. Underway(plan) = [Unborn EXCEPT !.status = "active", !.ever = who, !.caller = caller,
                                        !.member = member, !.dismissed = plan.people \ who]
    BY DEF Underway
  <2> HIDE DEF who, caller, member
  <2> QED
    BY <1>6, <2>1, <2>2, <2>3, <2>4 DEF RoomRecs
<1>8. room \in Rooms /\ \A c \in Calls : room[c].status # "over"
  <2>1. Unborn.status # "over"
    BY DEF Unborn
  <2> QED
    BY <1>6, <1>7, <2>1 DEF Init, Rooms
<1>9. net \in Nets
  BY DEF Init, Nets
<1>10. Setting
  BY <1>1, <1>5, <1>8, <1>9, ReadersAssumption DEF Init, Setting
<1>11. row \in Histories /\ [c \in Calls |-> "none"] \in Histories
  BY DEF Init, Histories
<1>12. store \in [Tabs -> Stores] /\ \A t \in Tabs : Unread(t, store[t])
  BY <1>11 DEF Init, Stores, Unread
<1> QED
  BY <1>8, <1>10, <1>11, <1>12 DEF ClientInv, Told

LEMMA Client == Spec => []ClientInv
<1>1. ClientInv /\ [Next]_vars => ClientInv'
  <2> SUFFICES ASSUME ClientInv, [Next]_vars PROVE ClientInv'
    OBVIOUS
  <2>1. CASE UNCHANGED vars
    <3>1. room' = room /\ UNCHANGED <<plan, tab, store, conn, net, closing, row, cut>>
      BY <2>1 DEF vars
    <3>2. Setting' /\ Told(room, net, store)' /\ \A t \in Tabs : Unread(t, store[t])'
      BY <3>1 DEF ClientInv, Setting, Told, Hears, People, Unread
    <3>3. row' \in Histories' /\ store' \in [Tabs -> Stores']
      BY <3>1, Remembers DEF ClientInv
    <3> QED
      BY <3>2, <3>3 DEF ClientInv
  <2>2. ASSUME NEW t \in Tabs,
               \/ Serve(t) \/ Drop(t) \/ Release(t) \/ Reconnect(t) \/ Relay(t) \/ Receive(t)
               \/ Dial(t) \/ Accept(t) \/ HangUp(t) \/ Join(t) \/ JoinTimesOut(t)
               \/ CaptureResolves(t) \/ DescriptionReady(t) \/ JobFails(t)
               \/ MediaConnects(t) \/ MediaFails(t)
               \/ OpenThread(t) \/ Fetch(t) \/ Land(t)
        PROVE  ClientInv'
    BY <2>2, Serves, Drops, Releases, Reconnects, Relays, Receives, PressesButtons, Browses, Asks
  <2>3. ASSUME NEW c \in Calls, RingTimesOut(c) \/ Project(c) PROVE ClientInv'
    BY <2>3, TimesOut, Projects
  <2> QED
    BY <2>1, <2>2, <2>3 DEF Next
<1> QED
  BY <1>1, ClientStarts, PTL DEF Spec

(* The stream in localMedia is a call's, in any tab of any number of people *)
(* that dial, join and hang up: a capture that comes after its call has     *)
(* gone is let go (openLocalMedia).  No stream runs on unless two captures  *)
(* had been asked for at once.                                              *)
THEOREM MicrophoneIsHeld == Spec => []MicrophoneFollowsCall
<1>1. ClientInv => MicrophoneFollowsCall
  <2> SUFFICES ASSUME ClientInv, NEW t \in Tabs
               PROVE  (tab[t].mic.held => tab[t].call # NoCall) /\ (tab[t].mic.lost => tab[t].mic.met)
    BY DEF MicrophoneFollowsCall
  <2>1. tab[t] \in TabRecs
    BY DEF ClientInv, Setting
  <2> QED
    BY <2>1 DEF TabRecs, Kept
<1> QED
  BY <1>1, Client, PTL

(* A thread offers to join no call its tab has heard to be over, whatever   *)
(* was read of the history before the projector caught up (markCallEnded,   *)
(* ongoingCallOf).                                                          *)
THEOREM BannerTrue == Spec => []BannerIsHonest
<1>1. ASSUME ClientInv PROVE BannerIsHonest
  <2> SUFFICES ASSUME NEW t \in plan.tabs \ cut, net.bus[t] = <<>>, net.down[t] = <<>>, NEW c \in ongoingCallOf(t)
               PROVE  Live(c)
    BY DEF BannerIsHonest
  <2>1. t \in Tabs /\ store[t] \in Stores /\ Setting
    BY <1>1 DEF ClientInv, Setting, PlanType
  <2>2. c \in Calls /\ store[t].rows[c] = "open" /\ c \notin store[t].ended
    BY DEF ongoingCallOf
  <2>3. room[c].status # "unborn" /\ room[c] \in RoomRecs
    BY <2>1, <2>2 DEF Stores, Histories, Setting, Rooms
  <2>4. t \in Hears
    BY <1>1, <2>1, <2>2 DEF ClientInv, Setting, Unread, Hears, People
  <2>5. ~Tells(net.bus[t], c) /\ ~Tells(net.down[t], c)
    BY DEF Tells
  <2>6. room[c].status # "over"
    BY <1>1, <2>2, <2>4, <2>5 DEF ClientInv, Told
  <2> QED
    BY <2>3, <2>6 DEF Live, RoomRecs
<1> QED
  BY <1>1, Client, PTL

(***************************************************************************)
(* The dock and the room, when every frame has arrived: RoomsAgree.  It is  *)
(* not inductive: while frames are on their way a dock and the room differ, *)
(* and what makes them meet is which frames are still to come, and in which *)
(* order.  AgreeInv says that of every tab RoomsAgree is about (Sound).     *)
(***************************************************************************)

(* For one tab: v is its state, U, D and B are the frames it has sent and   *)
(* those on their way to it, at once and over the bus; rm are the rooms.    *)
Lives(rm, c) == rm[c].status \in {"ringing", "active"}
Sits(t, rm, c) == rm[c].member[OwnerOf[t]] = t
Says(U, kind, c) == \E f \in Range(U) : f.kind = kind /\ f.id = c
Enters(U, c) == Says(U, "join", c) \/ Says(U, "answer", c)
Quits(U, c) == Says(U, "hangup", c)
(* It leaves and, if it is a group's call, does not come back.              *)
Leaves(U, c) ==
    \E i \in DOMAIN U :
        /\ U[i].kind = "hangup" /\ U[i].id = c
        /\ IsGroup => \A j \in DOMAIN U : j > i /\ U[j].id = c => U[j].kind = "hangup"
(* Once the room has read all it was sent, the person is in the call.       *)
Will(t, rm, U, c) == Lives(rm, c) /\ ~Leaves(U, c) /\ (Sits(t, rm, c) \/ Enters(U, c))
Ends(f, c) == f.kind = "ended" /\ f.id = c /\ f.reason # "answered_elsewhere"
Ended(q, c) == \E f \in Range(q) : Ends(f, c)
Learns(D, B, c) == Ended(D, c) \/ Ended(B, c)
Doomed(rm, U, c) == ~IsGroup /\ Lives(rm, c) /\ Quits(U, c)
Over(rm, U, D, B, c) == Learns(D, B, c) \/ Doomed(rm, U, c)
Quit(t, rm, U, c) == Quits(U, c) \/ (IsGroup /\ OwnerOf[t] \in rm[c].dismissed)
Accepts(v, c) == \E j \in Range(v.jobs) : j.why = "accept" /\ j.id = c
Within(v) == v.call.state \in {"connecting", "active"}
Refused(D) == \E f \in Range(D) : f.kind = "error" /\ f.reason = "call_gone"
Replies(f) == f.kind = "ringing" \/ (f.kind = "error" /\ f.reason # "call_gone")
(* A dial, from the press to the answer.                                    *)
Dials(v, U, D) ==
    \/ \E j \in Range(v.jobs) : j.why = "start"
    \/ \E f \in Range(U) : f.kind = "invite"
    \/ \E f \in Range(D) : Replies(f)
(* What becomes of the call a dock shows.                                   *)
Fate(t, v, rm, U, D, B, c) ==
    \/ Will(t, rm, U, c) \/ Over(rm, U, D, B, c)
    \/ v.timer /\ ~Lives(rm, c) /\ (Says(U, "join", c) \/ Refused(D))
    \/ Accepts(v, c) /\ Lives(rm, c)

(* Who has been in a live call is in it, or has left a group's.             *)
Seats(t, rm) ==
    \A c \in Calls :
        /\ rm[c].member[OwnerOf[t]] \in {None, t}
        /\ Lives(rm, c) /\ OwnerOf[t] \in rm[c].ever
             => Sits(t, rm, c) \/ (IsGroup /\ OwnerOf[t] \in rm[c].dismissed)
(* Nobody has heard of a call that was not placed.                          *)
Born(rm, c) == c # None => rm[c].status # "unborn"
Known(v, rm, U, D, B) ==
    /\ Born(rm, v.call.id)
    /\ \A j \in Range(v.jobs) : Born(rm, j.id)
    /\ \A f \in Range(U) \cup Range(D) \cup Range(B) : Born(rm, f.id)
(* A frame on its way tells what was true of the room, and still is.        *)
Elsewhere(f, c) == f.kind = "ended" /\ f.id = c /\ f.reason = "answered_elsewhere"
Codes == {"call_gone", "call_exists", "forbidden", "not_supported", "bad_frame"}
FrameOK(t, rm, f) ==
    LET o == OwnerOf[t]
    IN /\ f.kind = "error" => f.reason \in Codes
       /\ f.kind = "ended" /\ f.reason # "answered_elsewhere" => rm[f.id].status = "over"
       /\ f.kind = "ended" /\ f.reason = "answered_elsewhere" => ~IsGroup
       /\ f.kind = "incoming" => /\ rm[f.id].caller # o /\ f.owners = People
                                 /\ (o \in rm[f.id].dismissed => IsGroup)
       /\ f.kind = "ringing" => /\ rm[f.id].caller = o
                                /\ (Lives(rm, f.id) => Sits(t, rm, f.id) \/ (IsGroup /\ o \in rm[f.id].dismissed))
       /\ f.kind = "participant" /\ o \in f.owners => o \in rm[f.id].ever
       /\ f.kind = "answered" => o \in rm[f.id].ever
News == {"incoming", "answered", "participant", "ended"}
Stream(t, rm, D, B) ==
    /\ \A f \in Range(D) \cup Range(B) : FrameOK(t, rm, f)
    /\ \A f \in Range(B) : f.kind \in News
Tidings == {"ringing", "incoming", "answered", "participant"}
(* News of a call that is over is followed by that of its end.              *)
InTime(rm, q, rest) ==
    \A i \in DOMAIN q : q[i].kind \in Tidings =>
        \/ Lives(rm, q[i].id) \/ Ended(rest, q[i].id)
        \/ \E j \in DOMAIN q : j > i /\ Ends(q[j], q[i].id)
(* The caller hears that the call is placed before anything else about it.  *)
RingsFirst(D) ==
    \A i, j \in DOMAIN D :
        i < j /\ D[i].kind \in {"answered", "participant"} /\ D[j].kind = "ringing" => D[i].id # D[j].id
Order(rm, D, B) == InTime(rm, B, <<>>) /\ InTime(rm, D, B) /\ RingsFirst(D)
(* What the tab's own handlers never mix up.                                *)
Habits(v, U) ==
    /\ \A j \in Range(v.jobs) : (j.why = "accept" /\ IsGroup => j.bare) /\ (j.why = "start" => j.id = None)
    /\ \A f \in Range(U) : (f.kind = "answer" => ~IsGroup) /\ (f.kind = "invite" => f.id = None)
    /\ v.call # NoCall => v.call.dir # "none"
    /\ v.call.dir = "incoming" => v.call.people = People
    /\ v.timer => v.call.dir = "outgoing" /\ Within(v) /\ v.call.id # None
(* A call that is answered is left only by the tab that answered it.        *)
Once(t, v, rm, U, D, B) ==
    \A c \in Calls :
        Lives(rm, c) /\ (Accepts(v, c) \/ Says(U, "answer", c) \/ \E f \in Range(D) \cup Range(B) : Elsewhere(f, c))
          => Quit(t, rm, U, c) \/ (v.call.id = c /\ Within(v) /\ ~v.timer)
(* Where the person will be in a call it is on screen, or about to be.      *)
Placed(t, v, rm, U, D) ==
    \A c \in Calls : Will(t, rm, U, c) => v.call.id = c \/ \E f \in Range(D) : f.kind = "ringing" /\ f.id = c
(* A dock without an id has been dialled, and will be told.                 *)
Unnamed(v, rm, U, D, B) ==
    v.call # NoCall /\ v.call.id = None =>
        \/ Dialling(v.call) /\ Dials(v, U, D)
        \/ Within(v) /\ v.call.dir = "outgoing" /\ \E c \in Calls : Over(rm, U, D, B, c)
(* A dock with an id is in that call, or will be, or will hear of its end.  *)
Named(t, v, rm, U, D, B) ==
    v.call.id # None /\ (v.call.dir = "outgoing" \/ Within(v)) => Fate(t, v, rm, U, D, B, v.call.id)
(* Who is asked about a call has not decided about it.                      *)
Undecided(t, v, rm, U, c) ==
    /\ Lives(rm, c) /\ OwnerOf[t] \notin rm[c].ever \cup rm[c].dismissed
    /\ \A f \in Range(U) : f.id # c
    /\ ~Accepts(v, c)
Asked(t, v, rm, U, D, B) ==
    v.call.dir = "incoming" /\ v.call.state = "ringing" =>
        Over(rm, U, D, B, v.call.id) \/ Undecided(t, v, rm, U, v.call.id)

Inside(t, v, rm, U, D, B) ==
    /\ Seats(t, rm) /\ Known(v, rm, U, D, B) /\ Stream(t, rm, D, B) /\ Order(rm, D, B) /\ Habits(v, U)
    /\ Once(t, v, rm, U, D, B) /\ Placed(t, v, rm, U, D)
    /\ Unnamed(v, rm, U, D, B) /\ Named(t, v, rm, U, D, B) /\ Asked(t, v, rm, U, D, B)
(* Who is not in the conversation is refused, and hears of nothing.         *)
Outside(t, v, rm, U, D, B) ==
    /\ v.call # NoCall => Dialling(v.call) /\ Dials(v, U, D)
    /\ ~v.timer /\ Range(B) = {}
    /\ \A j \in Range(v.jobs) : j.why = "start"
    /\ \A f \in Range(U) : f.kind = "invite"
    /\ \A f \in Range(D) : f = Error("forbidden", None)
    /\ \A c \in Calls : ~Sits(t, rm, c)
Fits(t, v, rm, U, D, B) ==
    IF OwnerOf[t] \in People THEN Inside(t, v, rm, U, D, B) ELSE Outside(t, v, rm, U, D, B)

(* The only tab of a person, that lost no frame and was not misled.         *)
Sound == {t \in plan.tabs \ (cut \cup misled) : Alone(t)}
(* A tab whose socket never dropped is connected, and holds no place over a *)
(* connection it has closed.                                                *)
Open ==
    /\ conn \subseteq plan.tabs /\ \A t \in Tabs : closing[t] # {} => t \in plan.tabs
    /\ \A t \in plan.tabs \ cut : t \in conn /\ closing[t] = {}
(* What the room keeps of a call.                                           *)
Records(rm) ==
    \A c \in Calls :
        /\ rm[c].status = "unborn" => rm[c].caller = None /\ rm[c].ever = {} /\ rm[c].dismissed = {}
        /\ ~Lives(rm, c) => \A o \in Owners : rm[c].member[o] = None
        /\ rm[c].caller \in People \cup {None} /\ (rm[c].caller # None => rm[c].caller \in rm[c].ever)
        /\ \A o \in Owners : rm[c].member[o] # None => o \in rm[c].ever
AgreeInv ==
    /\ Open /\ Records(room)
    /\ \A t \in Sound : Fits(t, tab[t], room, net.up[t], net.down[t], net.bus[t])

(*-------------------------------------------------------------------------*)
(* Queues: what is in them, and what comes after what.                      *)

LEMMA Queues ==
    ASSUME NEW X, NEW q \in Seq(X), NEW f \in X
    PROVE  Append(q, f) \in Seq(X) /\ Range(Append(q, f)) = Range(q) \cup {f} /\ Range(q) \subseteq X
<1>1. \A i \in DOMAIN q : i \in DOMAIN Append(q, f) /\ Append(q, f)[i] = q[i]
  OBVIOUS
<1>2. Len(q) + 1 \in DOMAIN Append(q, f) /\ Append(q, f)[Len(q) + 1] = f
  OBVIOUS
<1>3. \A i \in DOMAIN Append(q, f) : i \in DOMAIN q \/ i = Len(q) + 1
  OBVIOUS
<1>4. Append(q, f) \in Seq(X) /\ Range(q) \subseteq X
  BY DEF Range
<1> DEFINE W == Append(q, f)
           n == Len(q) + 1
<1> HIDE DEF W, n
<1>5. Range(W) = Range(q) \cup {f}
  <2>1. \A i \in DOMAIN q : i \in DOMAIN W /\ W[i] = q[i]
    BY <1>1 DEF W
  <2>2. n \in DOMAIN W /\ W[n] = f /\ \A i \in DOMAIN W : i \in DOMAIN q \/ i = n
    BY <1>2, <1>3 DEF W, n
  <2> QED
    BY <2>1, <2>2 DEF Range
<1> QED
  BY <1>4, <1>5 DEF W

LEMMA Heads ==
    ASSUME NEW X, NEW q \in Seq(X), q # <<>>
    PROVE  Head(q) \in X /\ Tail(q) \in Seq(X) /\ Range(q) = Range(Tail(q)) \cup {Head(q)}
<1>1. \A i \in DOMAIN q : i = 1 \/ (i - 1 \in DOMAIN Tail(q) /\ Tail(q)[i - 1] = q[i])
  OBVIOUS
<1>2. \A i \in DOMAIN Tail(q) : i + 1 \in DOMAIN q /\ Tail(q)[i] = q[i + 1]
  OBVIOUS
<1>3. Head(q) = q[1] /\ 1 \in DOMAIN q /\ Head(q) \in X /\ Tail(q) \in Seq(X)
  OBVIOUS
<1> DEFINE W == Tail(q)
           h == Head(q)
<1> HIDE DEF W, h
<1>4. Range(q) = Range(W) \cup {h}
  <2>1. \A i \in DOMAIN q : q[i] = h \/ \E k \in DOMAIN W : W[k] = q[i]
    BY <1>1, <1>3 DEF W, h
  <2>2. (\A k \in DOMAIN W : \E i \in DOMAIN q : q[i] = W[k]) /\ \E i \in DOMAIN q : q[i] = h
    BY <1>2, <1>3 DEF W, h
  <2> QED
    BY <2>1, <2>2 DEF Range
<1> QED
  BY <1>3, <1>4 DEF W, h

LEMMA LeavingSays ==
    ASSUME NEW U \in Seq(Ups), NEW c
    PROVE  (Leaves(U, c) => Quits(U, c)) /\ (~IsGroup => (Leaves(U, c) <=> Quits(U, c)))
BY DEF Leaves, Quits, Says, Range

(* What a tab says last is what counts.                                     *)
LEMMA LeavingLast ==
    ASSUME NEW U \in Seq(Ups), NEW f \in Ups, NEW c
    PROVE  /\ f.id # c => (Leaves(Append(U, f), c) <=> Leaves(U, c))
           /\ f.id = c /\ f.kind = "hangup" => Leaves(Append(U, f), c)
           /\ f.id = c /\ f.kind # "hangup" /\ IsGroup => ~Leaves(Append(U, f), c)
           /\ f.kind # "hangup" /\ ~IsGroup => (Leaves(Append(U, f), c) <=> Leaves(U, c))
<1> DEFINE n == Len(U) + 1
           W == Append(U, f)
<1>1. \A i \in DOMAIN U : i \in DOMAIN W /\ W[i] = U[i] /\ i < n /\ i \in Nat
  OBVIOUS
<1>2. n \in DOMAIN W /\ W[n] = f /\ n \in Nat
  OBVIOUS
<1>3. \A i \in DOMAIN W : i \in DOMAIN U \/ i = n
  OBVIOUS
<1> HIDE DEF n, W
<1>4. f.id # c => (Leaves(W, c) <=> Leaves(U, c))
  <2>1. ASSUME f.id # c, Leaves(W, c) PROVE Leaves(U, c)
    <3>1. PICK i \in DOMAIN W : /\ W[i].kind = "hangup" /\ W[i].id = c
                                /\ IsGroup => \A j \in DOMAIN W : j > i /\ W[j].id = c => W[j].kind = "hangup"
      BY <2>1 DEF Leaves
    <3>2. i \in DOMAIN U
      BY <1>2, <1>3, <2>1, <3>1
    <3> QED
      BY <1>1, <3>1, <3>2 DEF Leaves
  <2>2. ASSUME f.id # c, Leaves(U, c) PROVE Leaves(W, c)
    <3>1. PICK i \in DOMAIN U : /\ U[i].kind = "hangup" /\ U[i].id = c
                                /\ IsGroup => \A j \in DOMAIN U : j > i /\ U[j].id = c => U[j].kind = "hangup"
      BY <2>2 DEF Leaves
    <3> QED
      BY <1>1, <1>2, <1>3, <2>2, <3>1 DEF Leaves
  <2> QED
    BY <2>1, <2>2
<1>5. f.id = c /\ f.kind = "hangup" => Leaves(W, c)
  <2>1. \A j \in DOMAIN W : ~(j > n)
    BY <1>1, <1>2, <1>3
  <2> QED
    BY <1>2, <2>1 DEF Leaves
<1>6. f.id = c /\ f.kind # "hangup" /\ IsGroup => ~Leaves(W, c)
  <2> SUFFICES ASSUME f.id = c, f.kind # "hangup", IsGroup, Leaves(W, c) PROVE FALSE
    OBVIOUS
  <2>1. PICK i \in DOMAIN W : W[i].kind = "hangup" /\ \A j \in DOMAIN W : j > i /\ W[j].id = c => W[j].kind = "hangup"
    BY DEF Leaves
  <2>2. i < n
    BY <1>1, <1>2, <1>3, <2>1
  <2> QED
    BY <1>1, <1>2, <1>3, <2>1, <2>2
<1>7. f.kind # "hangup" /\ ~IsGroup => (Leaves(W, c) <=> Leaves(U, c))
  BY <1>1, <1>2, <1>3 DEF Leaves
<1> QED
  BY <1>4, <1>5, <1>6, <1>7 DEF W

(* The room reads the first frame of a tab.                                 *)
LEMMA LeavingFirst ==
    ASSUME NEW U \in Seq(Ups), U # <<>>, NEW c
    PROVE  /\ Leaves(Tail(U), c) => Leaves(U, c)
           /\ ~(Head(U).kind = "hangup" /\ Head(U).id = c) => (Leaves(Tail(U), c) <=> Leaves(U, c))
           /\ Leaves(U, c) /\ IsGroup /\ ~Leaves(Tail(U), c) => \A f \in Range(Tail(U)) : f.id = c => f.kind = "hangup"
<1> DEFINE W == Tail(U)
<1>1. \A i \in DOMAIN U : i \in Nat /\ (i = 1 \/ (i - 1 \in DOMAIN W /\ W[i - 1] = U[i] /\ i > 1))
  OBVIOUS
<1>2. \A i \in DOMAIN W : i \in Nat /\ i + 1 \in DOMAIN U /\ W[i] = U[i + 1] /\ i + 1 > 1
  OBVIOUS
<1>3. Head(U) = U[1]
  OBVIOUS
<1> HIDE DEF W
<1>4. ASSUME Leaves(W, c) PROVE Leaves(U, c)
  <2>1. PICK i \in DOMAIN W : /\ W[i].kind = "hangup" /\ W[i].id = c
                              /\ IsGroup => \A j \in DOMAIN W : j > i /\ W[j].id = c => W[j].kind = "hangup"
    BY <1>4 DEF Leaves
  <2>2. i + 1 \in DOMAIN U /\ U[i + 1].kind = "hangup" /\ U[i + 1].id = c /\ i \in Nat
    BY <1>2, <2>1
  <2>3. ASSUME IsGroup, NEW j \in DOMAIN U, j > i + 1, U[j].id = c PROVE U[j].kind = "hangup"
    <3>1. j \in Nat /\ j # 1
      BY <1>1, <2>2, <2>3
    <3>2. j - 1 \in DOMAIN W /\ W[j - 1] = U[j] /\ j - 1 > i
      BY <1>1, <2>2, <2>3, <3>1
    <3> QED
      BY <2>1, <2>3, <3>2
  <2> QED
    BY <2>2, <2>3 DEF Leaves
<1>5. ASSUME NEW i \in DOMAIN U, i # 1, U[i].kind = "hangup", U[i].id = c,
             IsGroup => \A j \in DOMAIN U : j > i /\ U[j].id = c => U[j].kind = "hangup"
      PROVE  Leaves(W, c)
  <2>1. i - 1 \in DOMAIN W /\ W[i - 1] = U[i] /\ i \in Nat
    BY <1>1, <1>5
  <2>2. ASSUME IsGroup, NEW j \in DOMAIN W, j > i - 1, W[j].id = c PROVE W[j].kind = "hangup"
    <3>1. j + 1 \in DOMAIN U /\ W[j] = U[j + 1] /\ j + 1 > i
      BY <1>2, <2>1, <2>2
    <3> QED
      BY <1>5, <2>2, <3>1
  <2> QED
    BY <1>5, <2>1, <2>2 DEF Leaves
<1>6. ASSUME Leaves(U, c), ~(Head(U).kind = "hangup" /\ Head(U).id = c) PROVE Leaves(W, c)
  <2>1. PICK i \in DOMAIN U : /\ U[i].kind = "hangup" /\ U[i].id = c
                              /\ IsGroup => \A j \in DOMAIN U : j > i /\ U[j].id = c => U[j].kind = "hangup"
    BY <1>6 DEF Leaves
  <2>2. i # 1
    BY <1>3, <1>6, <2>1
  <2> QED
    BY <1>5, <2>1, <2>2
<1>7. ASSUME Leaves(U, c), IsGroup, ~Leaves(W, c), NEW f \in Range(W), f.id = c PROVE f.kind = "hangup"
  <2>1. PICK i \in DOMAIN U : /\ U[i].kind = "hangup" /\ U[i].id = c
                              /\ \A j \in DOMAIN U : j > i /\ U[j].id = c => U[j].kind = "hangup"
    BY <1>7 DEF Leaves
  <2>2. i = 1
    BY <1>5, <1>7, <2>1
  <2>3. PICK k \in DOMAIN W : W[k] = f
    BY <1>7 DEF Range
  <2>4. k + 1 \in DOMAIN U /\ U[k + 1] = f /\ k + 1 > 1
    BY <1>2, <2>3
  <2> QED
    BY <1>7, <2>1, <2>2, <2>4
<1> QED
  BY <1>4, <1>6, <1>7 DEF W

LEMMA InTimeLater ==
    ASSUME NEW rm, NEW q \in Seq(Downs), NEW f \in Downs, NEW rest, NEW later, InTime(rm, q, rest),
           f.kind \in Tidings => Lives(rm, f.id) \/ Ended(later, f.id),
           \A c : Ended(rest, c) => Ended(later, c) \/ Ends(f, c)
    PROVE  InTime(rm, Append(q, f), later)
<1> DEFINE n == Len(q) + 1
           W == Append(q, f)
<1>1. \A i \in DOMAIN q : i \in DOMAIN W /\ W[i] = q[i] /\ i < n /\ i \in Nat
  OBVIOUS
<1>2. n \in DOMAIN W /\ W[n] = f /\ n \in Nat
  OBVIOUS
<1>3. \A i \in DOMAIN W : i \in DOMAIN q \/ i = n
  OBVIOUS
<1> HIDE DEF n, W
<1> SUFFICES ASSUME NEW i \in DOMAIN W, W[i].kind \in Tidings, ~Lives(rm, W[i].id), ~Ended(later, W[i].id)
             PROVE  \E j \in DOMAIN W : j > i /\ Ends(W[j], W[i].id)
  BY DEF InTime, W
<1>4. i \in DOMAIN q /\ W[i] = q[i] /\ n > i
  BY <1>1, <1>2, <1>3
<1>5. Ended(rest, q[i].id) \/ \E j \in DOMAIN q : j > i /\ Ends(q[j], q[i].id)
  BY <1>4 DEF InTime
<1> QED
  BY <1>1, <1>2, <1>4, <1>5

LEMMA InTimeFirst ==
    ASSUME NEW rm, NEW q \in Seq(Downs), q # <<>>, NEW rest, InTime(rm, q, rest)
    PROVE  /\ InTime(rm, Tail(q), rest)
           /\ Head(q).kind \in Tidings => \/ Lives(rm, Head(q).id) \/ Ended(rest, Head(q).id)
                                          \/ Ended(Tail(q), Head(q).id)
<1> DEFINE W == Tail(q)
<1>1. \A i \in DOMAIN q : i \in Nat /\ (i = 1 \/ (i - 1 \in DOMAIN W /\ W[i - 1] = q[i] /\ i > 1))
  OBVIOUS
<1>2. \A i \in DOMAIN W : i \in Nat /\ i + 1 \in DOMAIN q /\ W[i] = q[i + 1] /\ i + 1 > 1
  OBVIOUS
<1>3. Head(q) = q[1] /\ 1 \in DOMAIN q
  OBVIOUS
<1> HIDE DEF W
<1>4. ASSUME NEW i \in DOMAIN W, W[i].kind \in Tidings, ~Lives(rm, W[i].id), ~Ended(rest, W[i].id)
      PROVE  \E j \in DOMAIN W : j > i /\ Ends(W[j], W[i].id)
  <2>1. PICK k \in DOMAIN q : k > i + 1 /\ Ends(q[k], q[i + 1].id)
    BY <1>2, <1>4 DEF InTime
  <2>2. k - 1 \in DOMAIN W /\ W[k - 1] = q[k] /\ k - 1 > i
    BY <1>1, <1>2, <1>4, <2>1
  <2> QED
    BY <1>2, <1>4, <2>1, <2>2
<1>5. ASSUME Head(q).kind \in Tidings, ~Lives(rm, Head(q).id), ~Ended(rest, Head(q).id)
      PROVE  Ended(W, Head(q).id)
  <2>1. PICK k \in DOMAIN q : k > 1 /\ Ends(q[k], q[1].id)
    BY <1>3, <1>5 DEF InTime
  <2>2. k - 1 \in DOMAIN W /\ W[k - 1] = q[k]
    BY <1>1, <2>1
  <2> QED
    BY <1>3, <2>1, <2>2 DEF Ended, Range
<1> QED
  BY <1>4, <1>5 DEF InTime, W

LEMMA RingsLast ==
    ASSUME NEW q \in Seq(Downs), NEW f \in Downs, RingsFirst(q),
           f.kind = "ringing" => \A g \in Range(q) : g.id # f.id
    PROVE  RingsFirst(Append(q, f))
<1>1. \A i \in DOMAIN q : i \in DOMAIN Append(q, f) /\ Append(q, f)[i] = q[i] /\ i \in Nat
  OBVIOUS
<1>2. \A i \in DOMAIN Append(q, f) : i \in DOMAIN q \/ (i = Len(q) + 1 /\ Append(q, f)[i] = f)
  OBVIOUS
<1>3. \A i \in DOMAIN q : i <= Len(q) /\ ~(Len(q) + 1 < i) /\ ~(Len(q) + 1 < Len(q) + 1)
  OBVIOUS
<1>4. \A i \in DOMAIN q : q[i] \in Range(q)
  BY DEF Range
<1> QED
  BY <1>1, <1>2, <1>3, <1>4 DEF RingsFirst

LEMMA RingsPop ==
    ASSUME NEW q \in Seq(Downs), q # <<>>, RingsFirst(q)
    PROVE  /\ RingsFirst(Tail(q))
           /\ Head(q).kind \in {"answered", "participant"} => \A g \in Range(Tail(q)) : g.kind = "ringing" => g.id # Head(q).id
<1> DEFINE W == Tail(q)
<1>1. \A i \in DOMAIN W : i \in Nat /\ i + 1 \in DOMAIN q /\ W[i] = q[i + 1] /\ i + 1 > 1
  OBVIOUS
<1>2. Head(q) = q[1] /\ 1 \in DOMAIN q
  OBVIOUS
<1> HIDE DEF W
<1>3. RingsFirst(W)
  <2> SUFFICES ASSUME NEW i \in DOMAIN W, NEW j \in DOMAIN W, i < j, W[i].kind \in {"answered", "participant"}, W[j].kind = "ringing"
               PROVE  W[i].id # W[j].id
    BY DEF RingsFirst
  <2>1. i + 1 \in DOMAIN q /\ j + 1 \in DOMAIN q /\ i + 1 < j + 1 /\ W[i] = q[i + 1] /\ W[j] = q[j + 1]
    BY <1>1
  <2> QED
    BY <2>1 DEF RingsFirst
<1>4. ASSUME Head(q).kind \in {"answered", "participant"}, NEW g \in Range(W), g.kind = "ringing" PROVE g.id # Head(q).id
  <2>1. PICK k \in DOMAIN W : g = W[k]
    BY <1>4 DEF Range
  <2>2. k + 1 \in DOMAIN q /\ 1 < k + 1 /\ g = q[k + 1]
    BY <1>1, <2>1
  <2> QED
    BY <1>2, <1>4, <2>2 DEF RingsFirst
<1> QED
  BY <1>3, <1>4 DEF W

(*-------------------------------------------------------------------------*)
(* What the room does to a tab of somebody in the conversation.             *)

(* A frame comes, or goes from the bus to the connection.                   *)
LEMMA Delivered ==
    ASSUME NEW t, NEW v, NEW rm, NEW U, NEW D, NEW B, Inside(t, v, rm, U, D, B), NEW D2, NEW B2, NEW f,
           Range(D) \subseteq Range(D2), Range(B) \subseteq Range(D2) \cup Range(B2),
           Range(D2) \cup Range(B2) \subseteq Range(D) \cup Range(B) \cup {f},
           FrameOK(t, rm, f), Born(rm, f.id), \A g \in Range(B2) : g.kind \in News, Order(rm, D2, B2),
           \A c \in Calls : Elsewhere(f, c) /\ Lives(rm, c) => Quit(t, rm, U, c) \/ (v.call.id = c /\ Within(v) /\ ~v.timer)
    PROVE  Inside(t, v, rm, U, D2, B2)
<1>1. Seats(t, rm) /\ Habits(v, U) /\ Order(rm, D2, B2)
  BY DEF Inside
<1>2. Known(v, rm, U, D2, B2) /\ Stream(t, rm, D2, B2)
  BY DEF Inside, Known, Stream
<1>3. Once(t, v, rm, U, D2, B2)
  BY DEF Inside, Once
<1>4. Placed(t, v, rm, U, D2)
  BY DEF Inside, Placed
<1>5. \A c : Over(rm, U, D, B, c) => Over(rm, U, D2, B2, c)
  BY DEF Over, Learns, Ended
<1>6. (Dials(v, U, D) => Dials(v, U, D2)) /\ (Refused(D) => Refused(D2))
  BY DEF Dials, Refused
<1>7. Unnamed(v, rm, U, D2, B2) /\ Named(t, v, rm, U, D2, B2) /\ Asked(t, v, rm, U, D2, B2)
  BY <1>5, <1>6 DEF Inside, Unnamed, Named, Fate, Asked
<1> QED
  BY <1>1, <1>2, <1>3, <1>4, <1>7 DEF Inside

Ids == Calls \cup {None}
LEMMA NamesTab ==
    ASSUME NEW v \in TabRecs
    PROVE  /\ v.call.id \in Ids /\ (v.call.dir = "incoming" => v.call.id \in Calls)
           /\ \A j \in Range(v.jobs) : j.id \in Ids /\ (j.why = "accept" => j.id \in Calls)
<1>1. v.call \in CallRecs /\ Range(v.jobs) \subseteq JobRecs
  BY DEF TabRecs, Range
<1>2. \A j \in JobRecs : j.id \in Ids /\ (j.why = "accept" => j.id \in Calls)
  BY DEF JobRecs, JobType, Ids
<1> QED
  BY <1>1, <1>2 DEF CallRecs, Ids

LEMMA Names ==
    ASSUME NEW v \in TabRecs, NEW U \in Seq(Ups), NEW D \in Seq(Downs)
    PROVE  /\ v.call.id \in Ids /\ (v.call.dir = "incoming" => v.call.id \in Calls)
           /\ \A j \in Range(v.jobs) : j.id \in Ids /\ (j.why = "accept" => j.id \in Calls)
           /\ \A f \in Range(U) : f.id \in Ids
           /\ \A f \in Range(D) : f.id \in Ids /\ (f.kind # "error" => f.id \in Calls)
<1>1. Range(U) \subseteq Ups /\ Range(D) \subseteq Downs
  BY DEF Range
<1>2. \A f \in Ups : f.id \in Ids
  BY DEF Ups, UpType, Ids
<1>3. \A f \in Downs : f.id \in Ids /\ (f.kind # "error" => f.id \in Calls)
  BY DEF Downs, DownType, Ids
<1> QED
  BY <1>1, <1>2, <1>3, NamesTab

(* A call is over, and the tab is told.                                     *)
LEMMA RoomEnds ==
    ASSUME NEW t \in Tabs, NEW v \in TabRecs, NEW rm, NEW U \in Seq(Ups), NEW D \in Seq(Downs), NEW B \in Seq(Downs),
           Inside(t, v, rm, U, D, B),
           NEW c \in Calls, NEW rm2, NEW f \in Downs, Ends(f, c), rm[c].status # "unborn",
           rm2[c].status = "over", rm2[c].member[OwnerOf[t]] = None, rm2[c].caller = rm[c].caller,
           rm2[c].ever = rm[c].ever, rm2[c].dismissed = rm[c].dismissed, \A d \in Calls : d # c => rm2[d] = rm[d]
    PROVE  Inside(t, v, rm2, U, D, Append(B, f))
<1> DEFINE B2 == Append(B, f)
<1>1. /\ B2 \in Seq(Downs) /\ Range(B2) = Range(B) \cup {f}
      /\ Range(D) \subseteq Downs /\ Range(B) \subseteq Downs
  BY Queues
<1>3. ~Lives(rm2, c) /\ \A d \in Calls : Lives(rm2, d) => Lives(rm, d) /\ d # c
  BY DEF Lives
<1>4. /\ \A d \in Calls : d # c => Lives(rm2, d) = Lives(rm, d)
      /\ f.kind = "ended" /\ f.id = c /\ f.reason # "answered_elsewhere" /\ Ended(B2, c)
  BY <1>1 DEF Lives, Ends, Ended
<1>5. Seats(t, rm2)
  BY <1>3, <1>4 DEF Inside, Seats, Sits
<1>6. \A g \in Downs : g.id \in Calls \cup {None} /\ (g.kind # "error" => g.id \in Calls)
  BY DEF Downs, DownType
<1> HIDE DEF B2
<1>7. Known(v, rm2, U, D, B2)
  <2>1. \A d \in Ids : Born(rm, d) => Born(rm2, d)
    BY DEF Born, Ids
  <2>2. Born(rm2, f.id)
    BY <1>4 DEF Born
  <2> QED
    BY <1>1, <2>1, <2>2, Names DEF Inside, Known
<1>8. Stream(t, rm2, D, B2)
  <2>1. ASSUME NEW g \in Downs, FrameOK(t, rm, g) PROVE FrameOK(t, rm2, g)
    <3>1. g.kind # "error" => g.id \in Calls
      BY <1>6
    <3>2. g.id = c \/ (g.id \in Calls => rm2[g.id] = rm[g.id])
      OBVIOUS
    <3> QED
      BY <1>3, <2>1, <3>1, <3>2 DEF FrameOK, Lives, Sits
  <2>2. FrameOK(t, rm2, f)
    BY <1>4 DEF FrameOK
  <2> QED
    BY <1>1, <1>4, <2>1, <2>2 DEF Inside, Stream, News
<1>9. Order(rm2, D, B2)
  <2>1. InTime(rm2, B2, <<>>)
    <3>1. InTime(rm, B2, <<>>)
      <4>1. f.kind \notin Tidings /\ \A d : ~Ended(<<>>, d)
        BY <1>4 DEF Tidings, Ended, Range
      <4> QED
        BY <4>1, InTimeLater DEF Inside, Order, B2
    <3>2. \A i \in DOMAIN B2 : B2[i].kind \in Tidings /\ B2[i].id = c => \E j \in DOMAIN B2 : j > i /\ Ends(B2[j], c)
      <4>1. \A i \in DOMAIN B2 : i \in DOMAIN B \/ i = Len(B) + 1
        BY DEF B2
      <4>2. Len(B) + 1 \in DOMAIN B2 /\ B2[Len(B) + 1] = f /\ \A i \in DOMAIN B : Len(B) + 1 > i
        BY DEF B2
      <4>3. f.kind \notin Tidings
        BY <1>4 DEF Tidings
      <4> QED
        BY <4>1, <4>2, <4>3
    <3>3. \A i \in DOMAIN B2 : B2[i].kind \in Tidings => B2[i].id \in Calls
      BY <1>1, <1>6 DEF Tidings
    <3> QED
      BY <1>4, <3>1, <3>2, <3>3 DEF InTime
  <2>2. InTime(rm2, D, B2)
    <3>1. \A i \in DOMAIN D : D[i].kind \in Tidings => D[i].id \in Calls
      BY <1>6 DEF Tidings
    <3>2. \A d : Ended(B, d) => Ended(B2, d)
      BY <1>1 DEF Ended
    <3>3. InTime(rm, D, B)
      BY DEF Inside, Order
    <3> QED
      BY <1>4, <3>1, <3>2, <3>3 DEF InTime
  <2> QED
    BY <2>1, <2>2 DEF Inside, Order
<1>10. \A d \in Calls : /\ Will(t, rm2, U, d) <=> (Will(t, rm, U, d) /\ d # c)
                        /\ Quit(t, rm2, U, d) <=> Quit(t, rm, U, d)
                        /\ Over(rm, U, D, B, d) => Over(rm2, U, D, B2, d)
                        /\ Over(rm2, U, D, B2, c)
  <2>1. \A d : Ended(B, d) => Ended(B2, d)
    BY <1>1 DEF Ended
  <2>2. \A d \in Calls : Will(t, rm2, U, d) <=> (Will(t, rm, U, d) /\ d # c)
    BY <1>3, <1>4 DEF Will, Sits
  <2>3. \A d \in Calls : Quit(t, rm2, U, d) <=> Quit(t, rm, U, d)
    BY DEF Quit
  <2> QED
    BY <1>4, <2>1, <2>2, <2>3 DEF Over, Learns, Doomed
<1>11. Once(t, v, rm2, U, D, B2)
  <2>1. \A d : ~Elsewhere(f, d)
    BY <1>4 DEF Elsewhere
  <2> QED
    BY <1>1, <1>3, <1>10, <2>1 DEF Inside, Once
<1>12. Placed(t, v, rm2, U, D)
  BY <1>10 DEF Inside, Placed
<1>13. Unnamed(v, rm2, U, D, B2)
  BY <1>10 DEF Inside, Unnamed
<1>14. ASSUME NEW d \in Calls, Fate(t, v, rm, U, D, B, d) PROVE Fate(t, v, rm2, U, D, B2, d)
  BY <1>4, <1>10, <1>14 DEF Fate
<1>15. ASSUME NEW d \in Calls, Undecided(t, v, rm, U, d), d # c PROVE Undecided(t, v, rm2, U, d)
  BY <1>4, <1>15 DEF Undecided
<1>16. Named(t, v, rm2, U, D, B2)
  BY <1>14, Names DEF Inside, Named, Ids
<1>17. Asked(t, v, rm2, U, D, B2)
  BY <1>10, <1>15, Names DEF Inside, Asked
<1> QED
  BY <1>5, <1>7, <1>8, <1>9, <1>11, <1>12, <1>13, <1>16, <1>17 DEF Inside, B2

(* What somebody else does in a call changes nothing a tab depends on.      *)
Alike(t, rm, rm2) ==
    \A c \in Calls :
        /\ Lives(rm2, c) = Lives(rm, c) /\ (rm2[c].status = "unborn") = (rm[c].status = "unborn")
        /\ (rm2[c].status = "over") = (rm[c].status = "over")
        /\ rm2[c].member[OwnerOf[t]] = rm[c].member[OwnerOf[t]] /\ rm2[c].caller = rm[c].caller
        /\ (OwnerOf[t] \in rm2[c].ever) = (OwnerOf[t] \in rm[c].ever)
        /\ (OwnerOf[t] \in rm2[c].dismissed) = (OwnerOf[t] \in rm[c].dismissed)
LEMMA RoomAlike ==
    ASSUME NEW t \in Tabs, NEW v \in TabRecs, NEW rm, NEW U \in Seq(Ups), NEW D \in Seq(Downs), NEW B \in Seq(Downs),
           Inside(t, v, rm, U, D, B), NEW rm2, Alike(t, rm, rm2)
    PROVE  Inside(t, v, rm2, U, D, B)
<1>1. \A c \in Calls : Sits(t, rm2, c) = Sits(t, rm, c) /\ Lives(rm2, c) = Lives(rm, c)
  BY DEF Alike, Sits
<1>2. Seats(t, rm2)
  BY <1>1 DEF Inside, Seats, Alike
<1>3. Known(v, rm2, U, D, B)
  <2>1. \A d \in Ids : Born(rm, d) => Born(rm2, d)
    BY DEF Born, Ids, Alike
  <2> QED
    BY <2>1, Names DEF Inside, Known
<1>4. Stream(t, rm2, D, B)
  <2>1. ASSUME NEW g, g.kind # "error" => g.id \in Calls, FrameOK(t, rm, g) PROVE FrameOK(t, rm2, g)
    BY <1>1, <2>1 DEF FrameOK, Alike
  <2> QED
    BY <2>1, Names DEF Inside, Stream
<1>5. Order(rm2, D, B)
  <2>1. ASSUME NEW q \in Seq(Downs), NEW rest, InTime(rm, q, rest) PROVE InTime(rm2, q, rest)
    <3>1. \A i \in DOMAIN q : q[i] \in Range(q) /\ (q[i].kind \in Tidings => q[i].id \in Calls)
      BY Names DEF Range, Tidings
    <3> QED
      BY <1>1, <2>1, <3>1 DEF InTime
  <2> QED
    BY <2>1 DEF Inside, Order
<1>6. \A c \in Calls : /\ Will(t, rm2, U, c) <=> Will(t, rm, U, c)
                       /\ Quit(t, rm2, U, c) <=> Quit(t, rm, U, c)
                       /\ Over(rm2, U, D, B, c) <=> Over(rm, U, D, B, c)
  BY <1>1 DEF Will, Quit, Over, Doomed, Alike
<1>7. Once(t, v, rm2, U, D, B) /\ Placed(t, v, rm2, U, D) /\ Unnamed(v, rm2, U, D, B)
  BY <1>1, <1>6 DEF Inside, Once, Placed, Unnamed
<1>8. Named(t, v, rm2, U, D, B)
  <2>1. \A c \in Calls : Fate(t, v, rm, U, D, B, c) => Fate(t, v, rm2, U, D, B, c)
    BY <1>1, <1>6 DEF Fate
  <2> QED
    BY <2>1, Names DEF Inside, Named, Ids
<1>9. Asked(t, v, rm2, U, D, B)
  <2>1. \A c \in Calls : Undecided(t, v, rm, U, c) => Undecided(t, v, rm2, U, c)
    BY <1>1 DEF Undecided, Alike
  <2> QED
    BY <1>6, <2>1, Names DEF Inside, Asked
<1> QED
  BY <1>2, <1>3, <1>4, <1>5, <1>7, <1>8, <1>9 DEF Inside

(* The person takes a place in a live call or leaves it, as a frame of the  *)
(* tab says that is still in U.                                             *)
LEMMA RoomMoves ==
    ASSUME NEW t \in Tabs, NEW v \in TabRecs, NEW rm, NEW U \in Seq(Ups), NEW D \in Seq(Downs), NEW B \in Seq(Downs),
           Inside(t, v, rm, U, D, B), NEW rm2, NEW c \in Calls, Lives(rm, c), Lives(rm2, c),
           rm2[c].caller = rm[c].caller, rm2[c].member[OwnerOf[t]] \in {None, t},
           OwnerOf[t] \in rm[c].ever => OwnerOf[t] \in rm2[c].ever,
           OwnerOf[t] \in rm[c].dismissed => OwnerOf[t] \in rm2[c].dismissed,
           OwnerOf[t] \in rm2[c].dismissed => OwnerOf[t] \in rm[c].dismissed \/ (IsGroup /\ Quits(U, c)),
           Sits(t, rm2, c) \/ (IsGroup /\ OwnerOf[t] \in rm2[c].dismissed),
           Will(t, rm2, U, c) <=> Will(t, rm, U, c), \E f \in Range(U) : f.id = c,
           \A d \in Calls : d # c => rm2[d] = rm[d]
    PROVE  Inside(t, v, rm2, U, D, B)
<1>1. \A d \in Calls : Lives(rm2, d) = Lives(rm, d) /\ (d # c => Sits(t, rm2, d) = Sits(t, rm, d))
  BY DEF Sits, Lives
<1>2. Seats(t, rm2)
  BY <1>1 DEF Inside, Seats
<1>3. Known(v, rm2, U, D, B)
  <2>1. \A d \in Ids : Born(rm, d) => Born(rm2, d)
    BY DEF Born, Ids, Lives
  <2> QED
    BY <2>1, Names DEF Inside, Known
<1>4. Stream(t, rm2, D, B)
  <2>1. ASSUME NEW g, g.kind # "error" => g.id \in Calls, FrameOK(t, rm, g) PROVE FrameOK(t, rm2, g)
    <3>1. CASE g.id = c
      BY <2>1, <3>1 DEF FrameOK, Lives
    <3>2. CASE g.id # c
      BY <1>1, <2>1, <3>2 DEF FrameOK
    <3> QED
      BY <3>1, <3>2
  <2> QED
    BY <2>1, Names DEF Inside, Stream
<1>5. Order(rm2, D, B)
  <2>1. ASSUME NEW q \in Seq(Downs), NEW rest, InTime(rm, q, rest) PROVE InTime(rm2, q, rest)
    <3>1. \A i \in DOMAIN q : q[i] \in Range(q) /\ (q[i].kind \in Tidings => q[i].id \in Calls)
      BY Names DEF Range, Tidings
    <3> QED
      BY <1>1, <2>1, <3>1 DEF InTime
  <2> QED
    BY <2>1 DEF Inside, Order
<1>6. \A d \in Calls : /\ Will(t, rm2, U, d) <=> Will(t, rm, U, d)
                       /\ Quit(t, rm2, U, d) <=> Quit(t, rm, U, d)
                       /\ Over(rm2, U, D, B, d) <=> Over(rm, U, D, B, d)
  <2>1. \A d \in Calls : Will(t, rm2, U, d) <=> Will(t, rm, U, d)
    BY <1>1 DEF Will
  <2>2. \A d \in Calls : Quit(t, rm2, U, d) <=> Quit(t, rm, U, d)
    BY DEF Quit
  <2>3. \A d \in Calls : Over(rm2, U, D, B, d) <=> Over(rm, U, D, B, d)
    BY <1>1 DEF Over, Doomed
  <2> QED
    BY <2>1, <2>2, <2>3
<1>7. Once(t, v, rm2, U, D, B) /\ Placed(t, v, rm2, U, D) /\ Unnamed(v, rm2, U, D, B)
  BY <1>1, <1>6 DEF Inside, Once, Placed, Unnamed
<1>8. Named(t, v, rm2, U, D, B)
  <2>1. \A d \in Calls : Fate(t, v, rm, U, D, B, d) => Fate(t, v, rm2, U, D, B, d)
    BY <1>1, <1>6 DEF Fate
  <2> QED
    BY <2>1, Names DEF Inside, Named, Ids
<1>9. Asked(t, v, rm2, U, D, B)
  <2>1. \A d \in Calls : Undecided(t, v, rm, U, d) => Undecided(t, v, rm2, U, d)
    BY <1>1 DEF Undecided
  <2> QED
    BY <1>6, <2>1, Names DEF Inside, Asked
<1> QED
  BY <1>2, <1>3, <1>4, <1>5, <1>7, <1>8, <1>9 DEF Inside

(* A call is placed: nobody has heard of it.                                *)
Gets(q, f) == Append(q, f)
LEMMA RoomPlaces ==
    ASSUME NEW t \in Tabs, NEW v \in TabRecs, NEW rm, NEW U \in Seq(Ups), NEW D \in Seq(Downs), NEW B \in Seq(Downs),
           Inside(t, v, rm, U, D, B), NEW rm2, NEW c \in Calls, rm[c].status = "unborn", Lives(rm2, c),
           \A d \in Calls : d # c => rm2[d] = rm[d], NEW D2 \in Seq(Downs), NEW f \in Downs,
           \/ D2 = D /\ rm2[c].member[OwnerOf[t]] = None /\ OwnerOf[t] \notin rm2[c].ever
           \/ /\ D2 = Gets(D, f) /\ f.kind = "ringing" /\ f.id = c
              /\ rm2[c].caller = OwnerOf[t] /\ rm2[c].member[OwnerOf[t]] = t
    PROVE  Inside(t, v, rm2, U, D2, B)
<1>1. /\ \A d \in Calls : d # c => Lives(rm2, d) = Lives(rm, d) /\ Sits(t, rm2, d) = Sits(t, rm, d)
      /\ ~Lives(rm, c) /\ c # None
  BY TabAssumption DEF Sits, Lives
<1>2. Known(v, rm, U, D, B) /\ ~Born(rm, c)
  BY TabAssumption DEF Inside, Born
<1>3. /\ v.call.id # c /\ \A j \in Range(v.jobs) : j.id # c
      /\ \A g \in Range(U) \cup Range(D) \cup Range(B) : g.id # c
  BY <1>2 DEF Known
<1>4. ~Leaves(U, c) /\ ~Enters(U, c) /\ ~Quits(U, c) /\ ~Accepts(v, c)
  BY <1>3, LeavingSays DEF Enters, Says, Quits, Accepts
<1>5. Range(Gets(D, f)) = Range(D) \cup {f} /\ D # Gets(D, f)
  <2>1. Len(Append(D, f)) # Len(D)
    OBVIOUS
  <2> QED
    BY <2>1, Queues DEF Gets
<1>6. Sits(t, rm2, c) => rm2[c].member[OwnerOf[t]] # None
  BY TabAssumption DEF Sits
<1>7. \/ D2 = D /\ ~Sits(t, rm2, c)
      \/ /\ D2 = Gets(D, f) /\ f.kind = "ringing" /\ f.id = c /\ f \in Range(D2)
         /\ Sits(t, rm2, c) /\ rm2[c].caller = OwnerOf[t]
  BY <1>5, <1>6 DEF Sits
<1>8. /\ Range(D) \subseteq Range(D2)
      /\ \A g \in Range(D2) : g \in Range(D) \/ (g = f /\ D2 = Gets(D, f) /\ f.kind = "ringing" /\ f.id = c)
  BY <1>7, <1>5
<1>9. Seats(t, rm2)
  BY <1>1 DEF Inside, Seats, Sits
<1>10. Known(v, rm2, U, D2, B)
  <2>1. \A d \in Ids : Born(rm, d) => Born(rm2, d)
    BY <1>1 DEF Born, Ids, Lives
  <2>2. Born(rm2, c)
    BY DEF Born, Lives
  <2> QED
    BY <1>2, <1>8, <2>1, <2>2, Names DEF Known
<1>11. Stream(t, rm2, D2, B)
  <2>1. ASSUME NEW g, g.kind # "error" => g.id \in Calls, g.id # c, FrameOK(t, rm, g) PROVE FrameOK(t, rm2, g)
    BY <1>1, <2>1 DEF FrameOK
  <2>2. D2 = Gets(D, f) => FrameOK(t, rm2, f)
    BY <1>7, <1>5 DEF FrameOK
  <2> QED
    BY <1>3, <1>8, <2>1, <2>2, Names DEF Inside, Stream
<1>12. Order(rm2, D2, B)
  <2>1. ASSUME NEW q \in Seq(Downs), NEW rest, InTime(rm, q, rest), \A g \in Range(q) : g.id # c PROVE InTime(rm2, q, rest)
    <3>1. \A i \in DOMAIN q : q[i] \in Range(q) /\ (q[i].kind \in Tidings => q[i].id \in Calls)
      BY Names DEF Range, Tidings
    <3> QED
      BY <1>1, <2>1, <3>1 DEF InTime
  <2>2. InTime(rm2, D, B) /\ InTime(rm2, B, <<>>) /\ RingsFirst(D)
    BY <1>3, <2>1 DEF Inside, Order
  <2>3. D2 = Gets(D, f) => InTime(rm2, D2, B) /\ RingsFirst(D2)
    <3>1. CASE D2 = D
      BY <2>2, <3>1
    <3>2. CASE D2 # D /\ D2 = Gets(D, f)
      BY <1>3, <1>7, <2>2, <3>2, InTimeLater, RingsLast DEF Gets
    <3> QED
      BY <3>1, <3>2
  <2> QED
    BY <1>7, <2>2, <2>3 DEF Order
<1>13. Habits(v, U)
  BY DEF Inside
<1>14. \A d \in Calls : /\ d # c => (Will(t, rm2, U, d) <=> Will(t, rm, U, d))
                        /\ d # c => (Quit(t, rm2, U, d) <=> Quit(t, rm, U, d))
                        /\ Over(rm, U, D, B, d) => Over(rm2, U, D2, B, d)
  <2>1. \A d : Ended(D, d) => Ended(D2, d)
    BY <1>8 DEF Ended
  <2> QED
    BY <1>1, <1>4, <2>1 DEF Will, Quit, Over, Learns, Doomed
<1>15. Once(t, v, rm2, U, D2, B)
  <2>1. \A g \in Range(D2) \cup Range(B) : ~Elsewhere(g, c) /\ (g \in Range(D) \cup Range(B) \/ \A d : ~Elsewhere(g, d))
    BY <1>3, <1>8 DEF Elsewhere
  <2>2. ~Says(U, "answer", c)
    BY <1>4 DEF Enters
  <2> QED
    BY <1>1, <1>4, <1>14, <2>1, <2>2 DEF Inside, Once
<1>16. Placed(t, v, rm2, U, D2)
  <2>1. Will(t, rm2, U, c) => \E g \in Range(D2) : g.kind = "ringing" /\ g.id = c
    <3>1. Will(t, rm2, U, c) => Sits(t, rm2, c)
      BY <1>4 DEF Will
    <3> QED
      BY <1>7, <3>1
  <2> QED
    BY <1>8, <1>14, <2>1 DEF Inside, Placed
<1>17. Dials(v, U, D) => Dials(v, U, D2)
  BY <1>8 DEF Dials
<1>18. Unnamed(v, rm2, U, D2, B)
  BY <1>14, <1>17 DEF Inside, Unnamed
<1>19. Named(t, v, rm2, U, D2, B)
  <2>1. \A d \in Calls : d # c /\ Fate(t, v, rm, U, D, B, d) => Fate(t, v, rm2, U, D2, B, d)
    BY <1>1, <1>8, <1>14 DEF Fate, Refused
  <2> QED
    BY <1>3, <2>1, Names DEF Inside, Named, Ids
<1>20. Asked(t, v, rm2, U, D2, B)
  <2>1. \A d \in Calls : d # c /\ Undecided(t, v, rm, U, d) => Undecided(t, v, rm2, U, d)
    BY <1>1 DEF Undecided
  <2> QED
    BY <1>3, <1>14, <2>1, Names DEF Inside, Asked
<1> QED
  BY <1>9, <1>10, <1>11, <1>12, <1>13, <1>15, <1>16, <1>18, <1>19, <1>20 DEF Inside

(* The room has read the first frame of the tab, and acted on it.           *)
LEMMA RoomReads ==
    ASSUME NEW t \in Tabs, NEW v \in TabRecs, NEW rm, NEW U \in Seq(Ups), U # <<>>, NEW D \in Seq(Downs), NEW B \in Seq(Downs),
           Inside(t, v, rm, U, D, B), NEW f \in Ups, f = Head(U),
           f.kind = "invite" => \E g \in Range(D) : Replies(g),
           f.kind \in {"join", "answer"} => IF Lives(rm, f.id) THEN Sits(t, rm, f.id) ELSE Refused(D),
           f.kind = "hangup" /\ f.id \in Calls /\ Lives(rm, f.id) =>
               IsGroup /\ ~Sits(t, rm, f.id) /\ OwnerOf[t] \in rm[f.id].dismissed
    PROVE  Inside(t, v, rm, Tail(U), D, B)
<1> DEFINE W == Tail(U)
<1>1. /\ W \in Seq(Ups) /\ Range(U) = Range(W) \cup {f}
      /\ f.kind \in {"invite", "answer", "join", "hangup"} /\ (f.kind \in {"answer", "join"} => f.id \in Calls)
  BY Heads DEF Ups, UpType
<1>2. /\ \A c : Leaves(W, c) => Leaves(U, c)
      /\ \A c : ~(f.kind = "hangup" /\ f.id = c) => (Leaves(W, c) <=> Leaves(U, c))
      /\ \A c : Leaves(U, c) /\ IsGroup /\ ~Leaves(W, c) => \A g \in Range(W) : g.id = c => g.kind = "hangup"
  BY LeavingFirst
<1> HIDE DEF W
<1>3. \A c : \A k : /\ Says(W, k, c) => Says(U, k, c)
                    /\ ~(f.kind = k /\ f.id = c) => (Says(W, k, c) <=> Says(U, k, c))
  BY <1>1 DEF Says
<1>4. Seats(t, rm) /\ Known(v, rm, W, D, B) /\ Stream(t, rm, D, B) /\ Order(rm, D, B) /\ Habits(v, W)
  BY <1>1 DEF Inside, Known, Habits
<1>5. \A c \in Calls : Will(t, rm, W, c) <=> Will(t, rm, U, c)
  <2> SUFFICES ASSUME NEW c \in Calls, Lives(rm, c) PROVE Will(t, rm, W, c) <=> Will(t, rm, U, c)
    BY DEF Will
  <2>1. CASE ~(f.kind = "hangup" /\ f.id = c)
    <3>1. Sits(t, rm, c) \/ (Enters(W, c) <=> Enters(U, c))
      BY <1>3 DEF Enters
    <3> QED
      BY <1>2, <1>3, <2>1, <3>1 DEF Will, Enters
  <2>2. CASE f.kind = "hangup" /\ f.id = c
    <3>1. IsGroup /\ ~Sits(t, rm, c)
      BY <2>2
    <3>2. Enters(W, c) <=> Enters(U, c)
      BY <1>3, <2>2 DEF Enters
    <3>3. Leaves(U, c) /\ ~Leaves(W, c) => ~Enters(W, c)
      BY <1>2, <3>1 DEF Enters, Says
    <3> QED
      BY <1>2, <3>1, <3>2, <3>3 DEF Will
  <2> QED
    BY <2>1, <2>2
<1>6. \A c \in Calls : /\ Lives(rm, c) => (Quit(t, rm, W, c) <=> Quit(t, rm, U, c))
                       /\ Over(rm, W, D, B, c) <=> Over(rm, U, D, B, c)
  BY <1>3 DEF Quit, Quits, Over, Doomed
<1>7. Once(t, v, rm, W, D, B) /\ Placed(t, v, rm, W, D)
  BY <1>3, <1>5, <1>6 DEF Inside, Once, Placed
<1>8. Dials(v, U, D) => Dials(v, W, D)
  BY <1>1 DEF Dials
<1>9. Unnamed(v, rm, W, D, B)
  BY <1>6, <1>8 DEF Inside, Unnamed
<1>10. Named(t, v, rm, W, D, B)
  <2>1. \A c \in Calls : Fate(t, v, rm, U, D, B, c) => Fate(t, v, rm, W, D, B, c)
    BY <1>3, <1>5, <1>6 DEF Fate
  <2> QED
    BY <2>1, Names DEF Inside, Named, Ids
<1>11. Asked(t, v, rm, W, D, B)
  <2>1. \A c \in Calls : Undecided(t, v, rm, U, c) => Undecided(t, v, rm, W, c)
    BY <1>1 DEF Undecided
  <2> QED
    BY <1>6, <2>1, Names DEF Inside, Asked
<1> QED
  BY <1>4, <1>7, <1>9, <1>10, <1>11 DEF Inside, W

LEMMA RoomRelays ==
    ASSUME NEW t \in Tabs, NEW v \in TabRecs, NEW rm, NEW U \in Seq(Ups), NEW D \in Seq(Downs), NEW B \in Seq(Downs), B # <<>>,
           Inside(t, v, rm, U, D, B)
    PROVE  Inside(t, v, rm, U, Append(D, Head(B)), Tail(B))
<1> DEFINE f == Head(B)
           D2 == Append(D, f)
           B2 == Tail(B)
<1>1. f \in Downs /\ B2 \in Seq(Downs) /\ Range(B) = Range(B2) \cup {f}
  BY Heads
<1>2. D2 \in Seq(Downs) /\ Range(D2) = Range(D) \cup {f}
  BY <1>1, Queues
<1>3. /\ FrameOK(t, rm, f) /\ Born(rm, f.id) /\ f.kind \in News /\ \A g \in Range(B2) : g.kind \in News
      /\ InTime(rm, B, <<>>) /\ InTime(rm, D, B) /\ RingsFirst(D)
  BY <1>1 DEF Inside, Stream, Known, Order
<1>4. InTime(rm, B2, <<>>) /\ (f.kind \in Tidings => Lives(rm, f.id) \/ Ended(B2, f.id))
  <2>1. \A c : ~Ended(<<>>, c)
    BY DEF Ended, Range
  <2> QED
    BY <1>3, <2>1, InTimeFirst
<1>5. \A c : Ended(B, c) => Ended(B2, c) \/ Ends(f, c)
  BY <1>1 DEF Ended
<1> HIDE DEF f, B2
<1>6. InTime(rm, D2, B2)
  BY <1>1, <1>3, <1>4, <1>5, InTimeLater
<1>7. RingsFirst(D2)
  BY <1>1, <1>3, RingsLast DEF News
<1>8. \A c \in Calls : Elsewhere(f, c) /\ Lives(rm, c) => Quit(t, rm, U, c) \/ (v.call.id = c /\ Within(v) /\ ~v.timer)
  BY <1>1 DEF Inside, Once
<1>9. Order(rm, D2, B2)
  BY <1>4, <1>6, <1>7 DEF Order
<1>10. Range(D) \subseteq Range(D2) /\ Range(B) \subseteq Range(D2) \cup Range(B2)
       /\ Range(D2) \cup Range(B2) \subseteq Range(D) \cup Range(B) \cup {f}
  BY <1>1, <1>2
<1> HIDE DEF D2
<1>11. Inside(t, v, rm, U, D2, B2)
  BY <1>3, <1>8, <1>9, <1>10, Delivered
<1> QED
  BY <1>11 DEF D2, f, B2

(*-------------------------------------------------------------------------*)
(* What a tab of somebody in the conversation does.                         *)

Fewer(w, v) ==
    \A j \in Range(w.jobs) : \E k \in Range(v.jobs) : k.why = j.why /\ k.id = j.id /\ k.bare = j.bare
LEMMA FewerJobs ==
    ASSUME NEW v, NEW w, Fewer(w, v), NEW rm, NEW U, NEW D, NEW B, Known(v, rm, U, D, B), Habits(v, U)
    PROVE  /\ \A j \in Range(w.jobs) : Born(rm, j.id) /\ (j.why = "accept" /\ IsGroup => j.bare) /\ (j.why = "start" => j.id = None)
           /\ \A c : Accepts(w, c) => Accepts(v, c)
BY DEF Fewer, Known, Habits, Accepts

(* The tab has nothing to say, and to all that matters is as it was.        *)
LEMMA TabSame ==
    ASSUME NEW t, NEW v, NEW w, NEW rm, NEW U, NEW D, NEW B, Inside(t, v, rm, U, D, B),
           Fewer(w, v), \A j \in Range(v.jobs) : j.why # "join" => \E k \in Range(w.jobs) : k.why = j.why /\ k.id = j.id,
           w.timer = v.timer, w.call.id = v.call.id, w.call.dir = v.call.dir, w.call.people = v.call.people,
           (w.call = NoCall) = (v.call = NoCall), Within(w) = Within(v),
           (w.call.state = "ringing") = (v.call.state = "ringing")
    PROVE  Inside(t, w, rm, U, D, B)
<1>1. /\ Seats(t, rm) /\ Known(v, rm, U, D, B) /\ Stream(t, rm, D, B) /\ Order(rm, D, B) /\ Habits(v, U)
      /\ Once(t, v, rm, U, D, B) /\ Placed(t, v, rm, U, D)
      /\ Unnamed(v, rm, U, D, B) /\ Named(t, v, rm, U, D, B) /\ Asked(t, v, rm, U, D, B)
  BY DEF Inside
<1>2. /\ \A j \in Range(w.jobs) : Born(rm, j.id) /\ (j.why = "accept" /\ IsGroup => j.bare) /\ (j.why = "start" => j.id = None)
      /\ \A c : Accepts(w, c) <=> Accepts(v, c)
      /\ Dials(v, U, D) => Dials(w, U, D)
  BY <1>1, FewerJobs DEF Accepts, Dials
<1>3. Known(w, rm, U, D, B) /\ Habits(w, U)
  BY <1>1, <1>2 DEF Known, Habits
<1>4. Once(t, w, rm, U, D, B) /\ Placed(t, w, rm, U, D)
  BY <1>1, <1>2 DEF Once, Placed
<1>5. Unnamed(w, rm, U, D, B)
  BY <1>1, <1>2 DEF Unnamed, Dialling
<1>6. Named(t, w, rm, U, D, B)
  BY <1>1, <1>2 DEF Named, Fate
<1>7. Asked(t, w, rm, U, D, B)
  BY <1>1, <1>2 DEF Asked, Undecided
<1> QED
  BY <1>1, <1>3, <1>4, <1>5, <1>6, <1>7 DEF Inside

(* The call goes from the dock: it is hung up, or left or over already.     *)
LEMMA TabQuits ==
    ASSUME NEW t, NEW v \in TabRecs, NEW w, NEW rm, NEW U \in Seq(Ups), NEW U2 \in Seq(Ups), NEW D, NEW B,
           Inside(t, v, rm, U, D, B), Fewer(w, v), w.call = NoCall, ~w.timer, NEW f \in Ups,
           \/ U2 = U /\ (v.call.id \in Calls /\ Lives(rm, v.call.id) => Leaves(U, v.call.id))
           \/ U2 = Append(U, f) /\ f.kind = "hangup" /\ f.id = v.call.id
    PROVE  Inside(t, w, rm, U2, D, B)
<1> DEFINE id == v.call.id
<1>1. /\ Seats(t, rm) /\ Known(v, rm, U, D, B) /\ Stream(t, rm, D, B) /\ Order(rm, D, B) /\ Habits(v, U)
      /\ Once(t, v, rm, U, D, B) /\ Placed(t, v, rm, U, D)
  BY DEF Inside
<1>2. /\ \A j \in Range(w.jobs) : Born(rm, j.id) /\ (j.why = "accept" /\ IsGroup => j.bare) /\ (j.why = "start" => j.id = None)
      /\ \A c : Accepts(w, c) => Accepts(v, c)
  BY <1>1, FewerJobs
<1>3. Range(U) \subseteq Range(U2) /\ \A g \in Range(U2) : g \in Range(U) \/ (g.kind = "hangup" /\ g.id = id)
  <2>1. Range(Append(U, f)) = Range(U) \cup {f}
    BY Queues
  <2> QED
    BY <2>1
<1>4. \A c : /\ c # id => (Leaves(U2, c) <=> Leaves(U, c))
             /\ Enters(U2, c) <=> Enters(U, c)
             /\ Says(U2, "answer", c) <=> Says(U, "answer", c)
             /\ Quits(U, c) => Quits(U2, c)
  <2>1. \A c : c # id => (Leaves(U2, c) <=> Leaves(U, c))
    BY ZenonT(60), LeavingLast
  <2> QED
    BY <1>3, <2>1 DEF Enters, Says, Quits
<1>5. id \in Calls /\ Lives(rm, id) => Leaves(U2, id) /\ Quits(U2, id)
  <2>1. id \in Calls /\ Lives(rm, id) => Leaves(U2, id)
    BY ZenonT(60), LeavingLast
  <2> QED
    BY <2>1, LeavingSays
<1>6. NoCall.id = None /\ NoCall.dir = "none"
  BY NoCallFits
<1>7. Known(w, rm, U2, D, B) /\ Habits(w, U2)
  <2>1. Born(rm, id) /\ Born(rm, None)
    BY <1>1 DEF Known, Born
  <2> QED
    BY <1>1, <1>2, <1>3, <1>6, <2>1 DEF Known, Habits
<1>8. Once(t, w, rm, U2, D, B)
  BY <1>1, <1>2, <1>4, <1>5 DEF Once, Quit
<1>9. Placed(t, w, rm, U2, D)
  BY <1>1, <1>4, <1>5 DEF Placed, Will
<1>10. Unnamed(w, rm, U2, D, B) /\ Named(t, w, rm, U2, D, B) /\ Asked(t, w, rm, U2, D, B)
  BY <1>6 DEF Unnamed, Named, Asked
<1> QED
  BY <1>1, <1>7, <1>8, <1>9, <1>10 DEF Inside

(* Another call is refused: the line is busy.                               *)
LEMMA TabRefuses ==
    ASSUME NEW t, NEW v \in TabRecs, NEW rm, NEW U \in Seq(Ups), NEW D, NEW B,
           Inside(t, v, rm, U, D, B), NEW f \in Ups, f.kind = "hangup", f.id # v.call.id, f.id # None, Born(rm, f.id)
    PROVE  Inside(t, v, rm, Append(U, f), D, B)
<1> DEFINE U2 == Append(U, f)
<1>1. /\ Seats(t, rm) /\ Known(v, rm, U, D, B) /\ Stream(t, rm, D, B) /\ Order(rm, D, B) /\ Habits(v, U)
      /\ Once(t, v, rm, U, D, B) /\ Placed(t, v, rm, U, D)
      /\ Unnamed(v, rm, U, D, B) /\ Named(t, v, rm, U, D, B) /\ Asked(t, v, rm, U, D, B)
  BY DEF Inside
<1>2. U2 \in Seq(Ups) /\ Range(U2) = Range(U) \cup {f}
  BY Queues
<1>3. \A c : /\ c # f.id => (Leaves(U2, c) <=> Leaves(U, c))
             /\ Leaves(U2, f.id)
             /\ Enters(U2, c) <=> Enters(U, c)
             /\ Says(U2, "answer", c) <=> Says(U, "answer", c)
             /\ Says(U2, "join", c) <=> Says(U, "join", c)
             /\ Quits(U, c) => Quits(U2, c)
  <2>1. \A c : c # f.id => (Leaves(U2, c) <=> Leaves(U, c))
    BY LeavingLast
  <2>2. Leaves(U2, f.id)
    BY LeavingLast
  <2> QED
    BY <1>2, <2>1, <2>2 DEF Enters, Says, Quits
<1> HIDE DEF U2
<1>4. Known(v, rm, U2, D, B) /\ Habits(v, U2)
  BY <1>1, <1>2 DEF Known, Habits
<1>5. Once(t, v, rm, U2, D, B) /\ Placed(t, v, rm, U2, D)
  BY <1>1, <1>3 DEF Once, Quit, Placed, Will
<1>6. (Dials(v, U, D) => Dials(v, U2, D)) /\ \A c : Over(rm, U, D, B, c) => Over(rm, U2, D, B, c)
  BY <1>2, <1>3 DEF Dials, Over, Doomed
<1>7. Unnamed(v, rm, U2, D, B)
  BY <1>1, <1>6 DEF Unnamed
<1>8. Named(t, v, rm, U2, D, B)
  BY <1>1, <1>3, <1>6 DEF Named, Fate, Will
<1>9. Asked(t, v, rm, U2, D, B)
  BY <1>1, <1>2, <1>6 DEF Asked, Undecided
<1> QED
  BY <1>1, <1>4, <1>5, <1>7, <1>8, <1>9 DEF Inside, U2

(* A call is dialled.                                                       *)
LEMMA TabDials ==
    ASSUME NEW t, NEW v, NEW w, NEW rm, NEW U, NEW D, NEW B, Inside(t, v, rm, U, D, B), v.call = NoCall,
           Dialling(w.call), ~w.timer, NEW j, j.why = "start", j.id = None, Range(w.jobs) = Range(v.jobs) \cup {j}
    PROVE  Inside(t, w, rm, U, D, B)
<1>1. /\ Seats(t, rm) /\ Known(v, rm, U, D, B) /\ Stream(t, rm, D, B) /\ Order(rm, D, B) /\ Habits(v, U)
      /\ Once(t, v, rm, U, D, B) /\ Placed(t, v, rm, U, D)
  BY DEF Inside
<1>2. v.call.id = None /\ v.call.state = "none" /\ w.call.id = None /\ w.call.dir = "outgoing" /\ w.call.state = "ringing"
  BY NoCallFits DEF Dialling
<1>3. Dials(w, U, D) /\ \A c : Accepts(w, c) <=> Accepts(v, c)
  BY DEF Dials, Accepts
<1>4. Known(w, rm, U, D, B) /\ Habits(w, U)
  BY <1>1, <1>2 DEF Known, Habits, Born
<1>5. Once(t, w, rm, U, D, B) /\ Placed(t, w, rm, U, D)
  BY <1>1, <1>2, <1>3, TabAssumption DEF Once, Placed
<1>6. Unnamed(w, rm, U, D, B) /\ Named(t, w, rm, U, D, B) /\ Asked(t, w, rm, U, D, B)
  BY <1>2, <1>3 DEF Unnamed, Named, Asked, Within
<1> QED
  BY <1>1, <1>4, <1>5, <1>6 DEF Inside

(* A call that is offered, or that the dial found, is joined.               *)
LEMMA TabJoins ==
    ASSUME NEW t, NEW v, NEW w, NEW rm, NEW U \in Seq(Ups), NEW D, NEW B, Inside(t, v, rm, U, D, B), v.call = NoCall,
           NEW c \in Calls, Born(rm, c), w.call.id = c, w.call.dir = "outgoing", w.call.state = "connecting", w.timer,
           NEW j, j.why = "join", j.id = c, Range(w.jobs) = Range(v.jobs) \cup {j}, NEW f \in Ups, f.kind = "join", f.id = c
    PROVE  Inside(t, w, rm, Append(U, f), D, B)
<1> DEFINE U2 == Append(U, f)
<1>1. /\ Seats(t, rm) /\ Known(v, rm, U, D, B) /\ Stream(t, rm, D, B) /\ Order(rm, D, B) /\ Habits(v, U)
      /\ Once(t, v, rm, U, D, B) /\ Placed(t, v, rm, U, D)
  BY DEF Inside
<1>2. v.call.id = None /\ v.call.state = "none" /\ c # None
  BY NoCallFits, TabAssumption
<1>3. U2 \in Seq(Ups) /\ Range(U2) = Range(U) \cup {f}
  BY Queues
<1>4. \A d : Accepts(w, d) <=> Accepts(v, d)
  BY DEF Accepts
<1>5. \A d : /\ d # c => (Leaves(U2, d) <=> Leaves(U, d)) /\ (Enters(U2, d) <=> Enters(U, d))
             /\ Enters(U2, c) /\ Says(U2, "join", c)
             /\ Says(U2, "answer", d) <=> Says(U, "answer", d)
             /\ Quits(U2, d) <=> Quits(U, d)
  <2>1. \A d : d # c => (Leaves(U2, d) <=> Leaves(U, d))
    BY LeavingLast
  <2> QED
    BY <1>3, <2>1 DEF Enters, Says, Quits
<1>6. Leaves(U2, c) => ~IsGroup /\ Quits(U2, c)
  <2>1. IsGroup => ~Leaves(U2, c)
    BY LeavingLast
  <2> QED
    BY <1>3, <2>1, LeavingSays
<1> HIDE DEF U2
<1>7. Known(w, rm, U2, D, B) /\ Habits(w, U2)
  <2>1. w.call # NoCall
    BY NoCallFits
  <2> QED
    BY <1>1, <1>2, <1>3, <2>1 DEF Known, Habits, Within
<1>8. Once(t, w, rm, U2, D, B)
  BY <1>1, <1>2, <1>4, <1>5, TabAssumption DEF Once, Quit
<1>9. Placed(t, w, rm, U2, D)
  BY <1>1, <1>2, <1>5, TabAssumption DEF Placed, Will
<1>10. Fate(t, w, rm, U2, D, B, c)
  BY <1>5, <1>6 DEF Fate, Will, Over, Doomed
<1>11. Unnamed(w, rm, U2, D, B) /\ Named(t, w, rm, U2, D, B) /\ Asked(t, w, rm, U2, D, B)
  BY <1>2, <1>10 DEF Unnamed, Named, Asked
<1> QED
  BY <1>1, <1>7, <1>8, <1>9, <1>11 DEF Inside, U2

(* A call that rings is accepted; the browser is asked for the microphone.  *)
LEMMA TabAccepts ==
    ASSUME NEW t, NEW v \in TabRecs, NEW w, NEW rm, NEW U, NEW D, NEW B, Inside(t, v, rm, U, D, B),
           v.call.dir = "incoming", v.call.state = "ringing",
           w.call.dir = "incoming", w.call.state = "connecting", w.call.id = v.call.id, w.call.people = v.call.people,
           w.timer = v.timer, NEW j, j.why = "accept", j.id = v.call.id, IsGroup => j.bare, Range(w.jobs) = Range(v.jobs) \cup {j}
    PROVE  Inside(t, w, rm, U, D, B)
<1> DEFINE c == v.call.id
<1>1. /\ Seats(t, rm) /\ Known(v, rm, U, D, B) /\ Stream(t, rm, D, B) /\ Order(rm, D, B) /\ Habits(v, U)
      /\ Once(t, v, rm, U, D, B) /\ Placed(t, v, rm, U, D) /\ Asked(t, v, rm, U, D, B)
  BY DEF Inside
<1>2. c \in Calls /\ c # None /\ ~w.timer /\ ~v.timer /\ v.call # NoCall /\ w.call # NoCall /\ Within(w)
  <2>1. v.call \in CallRecs
    BY DEF TabRecs
  <2> QED
    BY <1>1, <2>1, TabAssumption, NoCallFits DEF CallRecs, Habits, Within
<1>3. Known(w, rm, U, D, B) /\ Habits(w, U)
  BY <1>1, <1>2 DEF Known, Habits
<1>4. Accepts(w, c) /\ \A d : d # c => (Accepts(w, d) <=> Accepts(v, d))
  BY DEF Accepts
<1>5. Once(t, w, rm, U, D, B)
  BY <1>1, <1>2, <1>4 DEF Once
<1>6. Placed(t, w, rm, U, D)
  BY <1>1 DEF Placed
<1>7. Fate(t, w, rm, U, D, B, c)
  BY <1>1, <1>4 DEF Asked, Undecided, Fate
<1>8. Unnamed(w, rm, U, D, B) /\ Named(t, w, rm, U, D, B) /\ Asked(t, w, rm, U, D, B)
  BY <1>2, <1>7 DEF Unnamed, Named, Asked
<1> QED
  BY <1>1, <1>3, <1>5, <1>6, <1>8 DEF Inside

(* The browser has answered, and the tab says what it waited to say.        *)
LEMMA TabAnnounces ==
    ASSUME NEW t, NEW v \in TabRecs, NEW w, NEW rm, NEW U \in Seq(Ups), NEW D, NEW B, Inside(t, v, rm, U, D, B), Fewer(w, v),
           w.timer = v.timer, w.call.id = v.call.id, w.call.dir = v.call.dir, w.call.people = v.call.people,
           (w.call = NoCall) = (v.call = NoCall), w.call.state = v.call.state,
           NEW j \in Range(v.jobs), NEW f \in Ups,
           \/ j.why = "start" /\ f.kind = "invite" /\ f.id = None
           \/ /\ j.why = "accept" /\ f.kind \in {"join", "answer"} /\ f.id = j.id /\ j.id = v.call.id
              /\ f.kind = "answer" => ~j.bare,
           \A k \in Range(v.jobs) : k = j \/ \E i \in Range(w.jobs) : i.why = k.why /\ i.id = k.id
    PROVE  Inside(t, w, rm, Append(U, f), D, B)
<1> DEFINE U2 == Append(U, f)
           c == f.id
<1>1. /\ Seats(t, rm) /\ Known(v, rm, U, D, B) /\ Stream(t, rm, D, B) /\ Order(rm, D, B) /\ Habits(v, U)
      /\ Once(t, v, rm, U, D, B) /\ Placed(t, v, rm, U, D)
      /\ Unnamed(v, rm, U, D, B) /\ Named(t, v, rm, U, D, B) /\ Asked(t, v, rm, U, D, B)
  BY DEF Inside
<1>2. /\ \A k \in Range(w.jobs) : Born(rm, k.id) /\ (k.why = "accept" /\ IsGroup => k.bare) /\ (k.why = "start" => k.id = None)
      /\ \A d : Accepts(w, d) => Accepts(v, d)
      /\ \A d : Accepts(v, d) => Accepts(w, d) \/ (j.why = "accept" /\ d = j.id)
  BY <1>1, FewerJobs DEF Accepts
<1>3. U2 \in Seq(Ups) /\ Range(U2) = Range(U) \cup {f}
  BY Queues
<1>4. \A d \in Calls : /\ d # c => (Leaves(U2, d) <=> Leaves(U, d)) /\ (Enters(U2, d) <=> Enters(U, d))
                       /\ Says(U2, "answer", d) => Says(U, "answer", d) \/ (j.why = "accept" /\ d = j.id)
                       /\ Says(U, "join", d) => Says(U2, "join", d)
                       /\ Quits(U2, d) <=> Quits(U, d)
  <2>1. \A d : d # c => (Leaves(U2, d) <=> Leaves(U, d))
    BY LeavingLast
  <2> QED
    BY <1>3, <2>1 DEF Enters, Says, Quits
<1>5. j.why = "accept" => Accepts(v, c) /\ c = v.call.id /\ c \in Calls /\ c # None /\ Enters(U2, c) /\ (IsGroup => f.kind = "join")
  <2>1. j.why = "accept" => Accepts(v, c) /\ Enters(U2, c) /\ (IsGroup => f.kind = "join")
    BY <1>1, <1>3 DEF Accepts, Habits, Enters, Says
  <2>2. j.why = "accept" => c \in Calls /\ c # None
    <3>1. v.jobs \in Seq(JobRecs)
      BY DEF TabRecs
    <3>2. j \in JobRecs
      BY <3>1 DEF Range
    <3> QED
      BY <3>2, TabAssumption DEF JobRecs
  <2> QED
    BY <2>1, <2>2
<1>6. j.why = "accept" /\ Leaves(U2, c) => ~IsGroup /\ Quits(U2, c)
  <2>1. j.why = "accept" /\ IsGroup => ~Leaves(U2, c)
    BY LeavingLast
  <2> QED
    BY <1>3, <2>1, LeavingSays
<1>7. j.why = "start" => c = None /\ \E g \in Range(U2) : g.kind = "invite"
  BY <1>3
<1> HIDE DEF U2, c
<1>8. Known(w, rm, U2, D, B) /\ Habits(w, U2)
  <2>1. Born(rm, c)
    BY <1>1, <1>5, <1>7 DEF Known, Born
  <2> QED
    BY <1>1, <1>2, <1>3, <1>5, <1>7, <2>1 DEF Known, Habits, Within, c
<1>9. Once(t, w, rm, U2, D, B)
  BY <1>1, <1>2, <1>4, <1>5 DEF Once, Quit, Within
<1>10. Placed(t, w, rm, U2, D)
  BY <1>1, <1>4, <1>5, <1>7, TabAssumption DEF Placed, Will
<1>11. \A d \in Calls : Over(rm, U, D, B, d) <=> Over(rm, U2, D, B, d)
  BY <1>4 DEF Over, Doomed
<1>12. Unnamed(w, rm, U2, D, B)
  <2>1. Dials(v, U, D) => Dials(w, U2, D)
    BY <1>3, <1>7 DEF Dials
  <2> QED
    BY <1>1, <1>11, <2>1 DEF Unnamed, Dialling, Within
<1>13. ASSUME NEW d \in Calls, Fate(t, v, rm, U, D, B, d) PROVE Fate(t, w, rm, U2, D, B, d)
  <2>1. CASE d = c /\ Lives(rm, c)
    <3>1. j.why = "accept"
      BY <2>1, <1>7, TabAssumption
    <3> QED
      BY <1>5, <1>6, <2>1, <3>1 DEF Fate, Will, Over, Doomed
  <2>2. CASE d = c /\ ~Lives(rm, c)
    BY <1>4, <1>11, <1>13, <2>2 DEF Fate, Will
  <2>3. CASE d # c
    <3>1. Accepts(v, d) => Accepts(w, d)
      BY <1>2, <2>3 DEF c
    <3> QED
      BY <1>4, <1>11, <1>13, <2>3, <3>1 DEF Fate, Will
  <2> QED
    BY <2>1, <2>2, <2>3
<1>14. Named(t, w, rm, U2, D, B)
  BY <1>1, <1>13, NamesTab DEF Named, Ids, Within
<1>15. Asked(t, w, rm, U2, D, B)
  <2>1. \A d \in Calls : Undecided(t, v, rm, U, d) => Undecided(t, w, rm, U2, d) \/ (d = v.call.id /\ Accepts(v, d))
    BY <1>2, <1>3, <1>5, <1>7, TabAssumption DEF Undecided, c
  <2> QED
    BY <1>1, <1>11, <2>1, NamesTab DEF Asked, Undecided
<1> QED
  BY <1>1, <1>8, <1>9, <1>10, <1>12, <1>14, <1>15 DEF Inside, U2

(*-------------------------------------------------------------------------*)
(* What a tab of somebody in the conversation hears.                        *)

(* Nobody is rung about a call they are in or have left for good: the room  *)
(* and the queues tell that they have not decided about it.                 *)
LEMMA TabRung ==
    ASSUME NEW t, NEW v \in TabRecs, NEW w, NEW rm, NEW U \in Seq(Ups), NEW D \in Seq(Downs), NEW B \in Seq(Downs),
           Inside(t, v, rm, U, D, B), D # <<>>, NEW f \in Downs, f = Head(D), f.kind = "incoming", v.call = NoCall,
           ~(IsGroup /\ (OwnerOf[t] \in rm[f.id].dismissed \/ Quits(U, f.id))),
           w.call.dir = "incoming", w.call.state = "ringing", w.call.id = f.id, w.call.people = f.owners,
           ~w.timer, Range(w.jobs) = Range(v.jobs)
    PROVE  Inside(t, w, rm, U, D, B)
<1> DEFINE c == f.id
<1>1. /\ Seats(t, rm) /\ Known(v, rm, U, D, B) /\ Stream(t, rm, D, B) /\ Order(rm, D, B) /\ Habits(v, U)
      /\ Once(t, v, rm, U, D, B) /\ Placed(t, v, rm, U, D)
  BY DEF Inside
<1>2. /\ v.call.id = None /\ ~Within(v) /\ ~Within(w) /\ w.call # NoCall
      /\ c \in Calls /\ c # None /\ f \in Range(D) /\ Range(D) = Range(Tail(D)) \cup {f}
  <2>1. f.id \in Calls
    BY DEF Downs
  <2>2. f \in Range(D) /\ Range(D) = Range(Tail(D)) \cup {f}
    BY Heads
  <2> QED
    BY <2>1, <2>2, NoCallFits, TabAssumption DEF Within
<1>3. /\ rm[c].caller # OwnerOf[t] /\ f.owners = People /\ OwnerOf[t] \notin rm[c].dismissed /\ Born(rm, c)
      /\ \A g \in Range(D) : g.kind = "ringing" => rm[g.id].caller = OwnerOf[t]
  BY <1>1, <1>2 DEF Stream, FrameOK, Known
<1>4. ~Will(t, rm, U, c)
  BY <1>1, <1>2, <1>3 DEF Placed
<1>5. Lives(rm, c) \/ Learns(D, B, c)
  <2>1. Lives(rm, c) \/ Ended(B, c) \/ Ended(Tail(D), c)
    BY <1>1, InTimeFirst DEF Order, Tidings
  <2> QED
    BY <1>2, <2>1 DEF Learns, Ended
<1>6. Lives(rm, c) /\ Quits(U, c) => Doomed(rm, U, c)
  BY DEF Doomed
<1>7. Lives(rm, c) /\ ~Quits(U, c) => Undecided(t, w, rm, U, c)
  <2> SUFFICES ASSUME Lives(rm, c), ~Quits(U, c) PROVE Undecided(t, w, rm, U, c)
    OBVIOUS
  <2>1. ~Leaves(U, c)
    BY LeavingSays
  <2>2. ~Sits(t, rm, c) /\ ~Enters(U, c)
    BY <1>4, <2>1 DEF Will
  <2>3. OwnerOf[t] \notin rm[c].ever
    BY <1>1, <1>2, <1>3, <2>2 DEF Seats
  <2>4. \A g \in Range(U) : g.id # c
    <3>1. \A g \in Range(U) : g.kind \in {"invite", "answer", "join", "hangup"} /\ (g.kind = "invite" => g.id = None)
      <4>1. Range(U) \subseteq Ups
        BY DEF Range
      <4> QED
        BY <1>1, <4>1 DEF Ups, UpType, Habits
    <3> QED
      BY <1>2, <2>2, <3>1 DEF Enters, Quits, Says
  <2>5. ~Accepts(v, c)
    BY <1>1, <1>2, <1>3 DEF Once, Quit
  <2>6. ~Accepts(w, c)
    BY <2>5 DEF Accepts
  <2> QED
    BY <1>3, <2>3, <2>4, <2>6 DEF Undecided
<1>8. Known(w, rm, U, D, B) /\ Habits(w, U)
  BY <1>1, <1>3 DEF Known, Habits
<1>9. Once(t, w, rm, U, D, B)
  BY <1>1, <1>2 DEF Once, Accepts
<1>10. Placed(t, w, rm, U, D)
  BY <1>1, <1>2, <1>4, TabAssumption DEF Placed
<1>11. Unnamed(w, rm, U, D, B) /\ Named(t, w, rm, U, D, B) /\ Asked(t, w, rm, U, D, B)
  BY <1>2, <1>5, <1>6, <1>7 DEF Unnamed, Named, Asked, Over
<1> QED
  BY <1>1, <1>8, <1>9, <1>10, <1>11 DEF Inside

(* The room has placed the call that was dialled.                           *)
LEMMA TabNamed ==
    ASSUME NEW t, NEW v \in TabRecs, NEW w, NEW rm, NEW U \in Seq(Ups), NEW D \in Seq(Downs), NEW B \in Seq(Downs),
           Inside(t, v, rm, U, D, B), D # <<>>, NEW f \in Downs, f = Head(D), f.kind = "ringing", Dialling(v.call),
           ~(IsGroup /\ (OwnerOf[t] \in rm[f.id].dismissed \/ Quits(U, f.id))),
           w.call.dir = "outgoing", w.call.state = "ringing", w.call.id = f.id,
           w.timer = v.timer, Range(w.jobs) = Range(v.jobs)
    PROVE  Inside(t, w, rm, U, D, B)
<1> DEFINE c == f.id
<1>1. /\ Seats(t, rm) /\ Known(v, rm, U, D, B) /\ Stream(t, rm, D, B) /\ Order(rm, D, B) /\ Habits(v, U)
      /\ Once(t, v, rm, U, D, B) /\ Placed(t, v, rm, U, D)
  BY DEF Inside
<1>2. /\ v.call.id = None /\ ~Within(v) /\ ~Within(w) /\ ~v.timer /\ w.call # NoCall
      /\ c \in Calls /\ c # None /\ f \in Range(D) /\ Range(D) = Range(Tail(D)) \cup {f}
  <2>1. f.id \in Calls
    BY DEF Downs
  <2>2. f \in Range(D) /\ Range(D) = Range(Tail(D)) \cup {f}
    BY Heads
  <2> QED
    BY <1>1, <2>1, <2>2, NoCallFits, TabAssumption DEF Within, Dialling, Habits
<1>3. Born(rm, c) /\ (Lives(rm, c) => Sits(t, rm, c) \/ (IsGroup /\ OwnerOf[t] \in rm[c].dismissed))
  BY <1>1, <1>2 DEF Stream, FrameOK, Known
<1>4. Lives(rm, c) \/ Learns(D, B, c)
  <2>1. Lives(rm, c) \/ Ended(B, c) \/ Ended(Tail(D), c)
    BY <1>1, InTimeFirst DEF Order, Tidings
  <2> QED
    BY <1>2, <2>1 DEF Learns, Ended
<1>5. Lives(rm, c) => Will(t, rm, U, c) \/ Doomed(rm, U, c)
  BY <1>3, LeavingSays DEF Will, Doomed
<1>6. Fate(t, w, rm, U, D, B, c)
  BY <1>4, <1>5 DEF Fate, Over
<1>7. Known(w, rm, U, D, B) /\ Habits(w, U)
  BY <1>1, <1>2, <1>3 DEF Known, Habits
<1>8. Once(t, w, rm, U, D, B)
  BY <1>1, <1>2 DEF Once, Accepts
<1>9. Placed(t, w, rm, U, D)
  BY <1>1, <1>2, TabAssumption DEF Placed
<1>10. Unnamed(w, rm, U, D, B) /\ Named(t, w, rm, U, D, B) /\ Asked(t, w, rm, U, D, B)
  BY <1>2, <1>6 DEF Unnamed, Named, Asked
<1> QED
  BY <1>1, <1>7, <1>8, <1>9, <1>10 DEF Inside

(* News that the person has been in a call, the one on screen or one that   *)
(* passes for it.                                                           *)
LEMMA TabNews ==
    ASSUME NEW t, NEW v \in TabRecs, NEW w, NEW rm, NEW U \in Seq(Ups), NEW D \in Seq(Downs), NEW B \in Seq(Downs),
           Inside(t, v, rm, U, D, B), D # <<>>, NEW f \in Downs, f = Head(D), f.kind \in {"answered", "participant"},
           OwnerOf[t] \in rm[f.id].ever, v.call # NoCall, v.call.id \in {None, f.id},
           w.call # NoCall, w.call.id = v.call.id, w.call.dir = v.call.dir, w.call.people = v.call.people,
           w.timer => v.timer, Within(v) => Within(w), (w.call.state = "ringing" /\ v.call.state = "ringing") \/ Within(w),
           IsGroup /\ Dialling(v.call) => Dialling(w.call), Range(w.jobs) = Range(v.jobs)
    PROVE  Inside(t, w, rm, U, D, B)
<1> DEFINE c == f.id
<1>1. /\ Seats(t, rm) /\ Known(v, rm, U, D, B) /\ Stream(t, rm, D, B) /\ Order(rm, D, B) /\ Habits(v, U)
      /\ Once(t, v, rm, U, D, B) /\ Placed(t, v, rm, U, D)
      /\ Unnamed(v, rm, U, D, B) /\ Named(t, v, rm, U, D, B) /\ Asked(t, v, rm, U, D, B)
  BY DEF Inside
<1>2. c \in Calls /\ c # None /\ f \in Range(D) /\ Range(D) = Range(Tail(D)) \cup {f}
  <2>1. f.id \in Calls
    BY DEF Downs
  <2>2. f \in Range(D) /\ Range(D) = Range(Tail(D)) \cup {f}
    BY Heads
  <2> QED
    BY <2>1, <2>2, TabAssumption
<1>3. Lives(rm, c) \/ Learns(D, B, c)
  <2>1. Lives(rm, c) \/ Ended(B, c) \/ Ended(Tail(D), c)
    BY <1>1, InTimeFirst DEF Order, Tidings
  <2> QED
    BY <1>2, <2>1 DEF Learns, Ended
<1>4. /\ v.call.state \in {"ringing", "connecting", "active"}
      /\ v.call.dir = "outgoing" \/ (v.call.dir = "incoming" /\ v.call.id = c)
  <2>1. /\ v.call.state \in CallStates /\ v.call.state # "none" /\ v.call.dir \in {"none", "outgoing", "incoming"}
        /\ v.call.dir = "incoming" => v.call.id \in Calls
    BY DEF TabRecs, CallRecs
  <2>2. v.call.dir # "none" /\ (v.call.id = None => v.call.id \notin Calls)
    BY <1>1, TabAssumption DEF Habits
  <2> QED
    BY <2>1, <2>2 DEF CallStates
<1>5. \A d : Accepts(w, d) <=> Accepts(v, d)
  BY DEF Accepts
<1>6. Known(w, rm, U, D, B) /\ Habits(w, U)
  BY <1>1 DEF Known, Habits
<1>7. Once(t, w, rm, U, D, B) /\ Placed(t, w, rm, U, D)
  BY <1>1, <1>5 DEF Once, Placed
<1>8. ASSUME Dialling(v.call), ~Dialling(w.call) PROVE Over(rm, U, D, B, c)
  <2>1. ~IsGroup /\ v.call.id = None
    BY <1>8 DEF Dialling
  <2>2. CASE ~Lives(rm, c) \/ Quits(U, c)
    BY <1>3, <2>1, <2>2 DEF Over, Doomed
  <2>3. CASE Lives(rm, c) /\ ~Quits(U, c)
    <3>1. Will(t, rm, U, c)
      BY <1>1, <1>2, <2>1, <2>3, LeavingSays DEF Seats, Will
    <3>2. \E g \in Range(D) : g.kind = "ringing" /\ g.id = c
      BY <1>1, <1>2, <2>1, <3>1 DEF Placed
    <3>3. \E g \in Range(Tail(D)) : g.kind = "ringing" /\ g.id = c
      BY <1>2, <3>2
    <3> QED
      BY <1>1, <3>3, RingsPop DEF Order
  <2> QED
    BY <2>2, <2>3
<1>9. Unnamed(w, rm, U, D, B)
  <2>1. Dials(v, U, D) => Dials(w, U, D)
    BY DEF Dials
  <2>2. ~Dialling(w.call) /\ w.call.dir = "outgoing" /\ w.call.id = None => Within(w)
    BY DEF Dialling
  <2> QED
    BY <1>1, <1>2, <1>4, <1>8, <2>1, <2>2 DEF Unnamed, Dialling
<1>10. Named(t, w, rm, U, D, B)
  <2> SUFFICES ASSUME v.call.id = c, w.call.dir = "outgoing" \/ Within(w) PROVE Fate(t, w, rm, U, D, B, c)
    BY DEF Named
  <2>1. CASE v.call.dir = "outgoing" \/ Within(v)
    <3>1. Fate(t, v, rm, U, D, B, c)
      BY <1>1, <1>2, <2>1 DEF Named
    <3>2. ~Lives(rm, c) => Over(rm, U, D, B, c)
      BY <1>3 DEF Over
    <3> QED
      BY <1>5, <3>1, <3>2 DEF Fate
  <2>2. CASE ~(v.call.dir = "outgoing" \/ Within(v))
    <3>1. v.call.dir = "incoming" /\ v.call.state = "ringing"
      BY <1>4, <2>2 DEF Within
    <3>2. Over(rm, U, D, B, c)
      BY <1>1, <3>1 DEF Asked, Undecided
    <3> QED
      BY <3>2 DEF Fate
  <2> QED
    BY <2>1, <2>2
<1>11. Asked(t, w, rm, U, D, B)
  <2>1. w.call.state = "ringing" => v.call.state = "ringing"
    BY DEF Within
  <2> QED
    BY <1>1, <1>5, <2>1 DEF Asked, Undecided
<1> QED
  BY <1>1, <1>6, <1>7, <1>9, <1>10, <1>11 DEF Inside

(* The tab has acted on the first frame of its connection.                  *)
LEMMA TabReads ==
    ASSUME NEW t, NEW v \in TabRecs, NEW rm, NEW U \in Seq(Ups), NEW D \in Seq(Downs), NEW B \in Seq(Downs),
           Inside(t, v, rm, U, D, B), D # <<>>, NEW f \in Downs, f = Head(D),
           f.kind = "ringing" => v.call.id = f.id,
           f.kind = "ended" /\ f.reason # "answered_elsewhere" => v.call = NoCall \/ v.call.id \notin {None, f.id},
           f.kind = "error" => IF f.reason = "call_gone" THEN ~v.timer ELSE ~Dialling(v.call)
    PROVE  Inside(t, v, rm, U, Tail(D), B)
<1> DEFINE D2 == Tail(D)
<1>1. /\ Seats(t, rm) /\ Known(v, rm, U, D, B) /\ Stream(t, rm, D, B) /\ Order(rm, D, B) /\ Habits(v, U)
      /\ Once(t, v, rm, U, D, B) /\ Placed(t, v, rm, U, D)
      /\ Unnamed(v, rm, U, D, B) /\ Named(t, v, rm, U, D, B) /\ Asked(t, v, rm, U, D, B)
  BY DEF Inside
<1>2. Range(D) = Range(D2) \cup {f}
  BY Heads
<1>3. Order(rm, D2, B)
  BY <1>1, InTimeFirst, RingsPop DEF Order
<1>4. f.kind # "error" => f.id \in Calls
  BY DEF Downs
<1> HIDE DEF D2
<1>5. Known(v, rm, U, D2, B) /\ Stream(t, rm, D2, B) /\ Once(t, v, rm, U, D2, B)
  BY <1>1, <1>2 DEF Known, Stream, Once
<1>6. Placed(t, v, rm, U, D2)
  BY <1>1, <1>2 DEF Placed
<1>7. \A c : Over(rm, U, D, B, c) => Over(rm, U, D2, B, c) \/ Ends(f, c)
  BY <1>2 DEF Over, Learns, Ended
<1>8. Unnamed(v, rm, U, D2, B)
  <2>1. Dialling(v.call) /\ Dials(v, U, D) => Dials(v, U, D2)
    BY <1>2, <1>4, TabAssumption DEF Dials, Replies, Dialling
  <2>2. v.call # NoCall /\ v.call.id = None => \A c : ~Ends(f, c)
    BY DEF Ends
  <2> QED
    BY <1>1, <1>7, <2>1, <2>2 DEF Unnamed
<1>9. v.call # NoCall => ~Ends(f, v.call.id)
  BY DEF Ends
<1>10. v.call.id # None => v.call # NoCall
  BY NoCallFits
<1>11. Named(t, v, rm, U, D2, B)
  <2>1. v.timer /\ Refused(D) => Refused(D2)
    BY <1>2 DEF Refused
  <2> QED
    BY <1>1, <1>7, <1>9, <1>10, <2>1 DEF Named, Fate
<1>12. Asked(t, v, rm, U, D2, B)
  <2>1. v.call.dir = "incoming" => v.call # NoCall
    BY NoCallFits
  <2> QED
    BY <1>1, <1>7, <1>9, <2>1 DEF Asked
<1> QED
  BY <1>1, <1>3, <1>5, <1>6, <1>8, <1>11, <1>12 DEF Inside, D2

(*-------------------------------------------------------------------------*)
(* The turns of a tab: what its handlers are made of.                       *)

LEMMA SameFits ==
    ASSUME plan'.people = plan.people, NEW t, NEW v, NEW rm, NEW U, NEW D, NEW B
    PROVE  Fits(t, v, rm, U, D, B)' <=> Fits(t, v, rm, U, D, B)
BY DEF Fits, Inside, Outside, Known, Seats, Stream, Order, Habits, Once, Placed, Unnamed, Named, Asked, FrameOK,
       IsGroup, People, Sits, Lives, Born, Quit, Quits, Says, Leaves, Will, Enters, Ended, Ends, Learns, Doomed, Over,
       Accepts, Within, Refused, Replies, Dials, Fate, Elsewhere, Codes, News, InTime, RingsFirst, Tidings,
       Undecided, Dialling, Error, Down, NoCall

LEMMA SaidLast ==
    ASSUME NEW q \in Seq(Ups), NEW u \in Turns, NEW f \in Ups
    PROVE  /\ Say(u, f).tab = u.tab /\ q \o u.out \in Seq(Ups) /\ q \o Say(u, f).out = Append(q \o u.out, f)
<1> DEFINE out == u.out
<1>1. out \in Seq(Ups) /\ Say(u, f).tab = u.tab /\ Say(u, f).out = Append(out, f)
  BY DEF Say, Turns
<1> HIDE DEF out
<1>2. q \o out \in Seq(Ups) /\ q \o Append(out, f) = Append(q \o out, f)
  BY <1>1
<1> QED
  BY <1>1, <1>2 DEF out

LEMMA FewerThan ==
    ASSUME NEW u, NEW v, NEW w, Fewer(w, v), Fewer(v, u)
    PROVE  Fewer(w, u)
BY DEF Fewer

LEMMA FinishParts ==
    ASSUME NEW u \in Turns
    PROVE  finish(u).tab.call = NoCall /\ ~finish(u).tab.timer /\ finish(u).out = u.out /\ Fewer(finish(u).tab, u.tab)
<1> DEFINE tear(j) == [j EXCEPT !.torn = @ \/ j.stage = "describe"]
           js == [i \in DOMAIN u.tab.jobs |-> tear(u.tab.jobs[i])]
<1>1. finish(u) = [u EXCEPT !.tab = [call |-> NoCall, timer |-> FALSE, mic |-> [u.tab.mic EXCEPT !.held = FALSE], jobs |-> js]]
  BY DEF finish
<1>2. \A i \in DOMAIN js : i \in DOMAIN u.tab.jobs /\ js[i] = tear(u.tab.jobs[i]) /\ u.tab.jobs[i] \in JobRecs
  BY DEF Turns, TabRecs
<1>3. \A j \in JobRecs : tear(j).why = j.why /\ tear(j).id = j.id /\ tear(j).bare = j.bare
  BY DEF JobRecs, JobType
<1> HIDE DEF js, tear
<1>4. /\ finish(u).tab.call = NoCall /\ finish(u).tab.timer = FALSE /\ finish(u).out = u.out
      /\ finish(u).tab.jobs = js
  BY <1>1 DEF Turns
<1>5. Fewer(finish(u).tab, u.tab)
  <2> SUFFICES ASSUME NEW j \in Range(js)
               PROVE  \E k \in Range(u.tab.jobs) : k.why = j.why /\ k.id = j.id /\ k.bare = j.bare
    BY <1>4 DEF Fewer
  <2>1. PICK i \in DOMAIN js : js[i] = j
    BY DEF Range
  <2>2. i \in DOMAIN u.tab.jobs /\ j = tear(u.tab.jobs[i]) /\ u.tab.jobs[i] \in JobRecs
    BY <1>2, <2>1
  <2>3. u.tab.jobs[i] \in Range(u.tab.jobs)
    BY <2>2 DEF Range
  <2> QED
    BY <1>3, <2>2, <2>3
<1> QED
  BY <1>4, <1>5

Gains(w, v, j) == Range(w.jobs) = Range(v.jobs) \cup {j}

LEMMA CaptureParts ==
    ASSUME NEW u \in Turns, NEW why \in {"start", "accept", "join"}, NEW id \in Calls \cup {None},
           NEW bare \in BOOLEAN, why = "accept" => id \in Calls, NEW w, w = Capture(u, why, id, bare)
    PROVE  /\ w.out = u.out /\ w.tab.call = u.tab.call /\ w.tab.timer = u.tab.timer
           /\ \E j : j.why = why /\ j.id = id /\ j.bare = bare /\ Gains(w.tab, u.tab, j)
<1>1. PICK m \in MicRecs, j \in JobRecs :
        j.why = why /\ j.id = id /\ j.bare = bare /\ Takes(Capture(u, why, id, bare), u, m, Append(u.tab.jobs, j))
  BY CapturedMore
<1> DEFINE jobs == u.tab.jobs
           js == Append(jobs, j)
<1>2. w = [u EXCEPT !.tab = [u.tab EXCEPT !.jobs = js, !.mic = m]] /\ jobs \in Seq(JobRecs)
  BY <1>1 DEF Takes, Turns, TabRecs
<1> HIDE DEF jobs
<1>3. Range(js) = Range(jobs) \cup {j}
  BY <1>2, Queues
<1> HIDE DEF js
<1>4. w.out = u.out /\ w.tab.call = u.tab.call /\ w.tab.timer = u.tab.timer /\ w.tab.jobs = js
  BY <1>2 DEF Turns, TabRecs
<1> QED
  BY <1>1, <1>3, <1>4 DEF jobs, Gains

LEMMA DrainParts ==
    ASSUME NEW u \in Turns, NEW i \in DOMAIN u.tab.jobs
    PROVE  LET w == Drained(u, i)
               j == u.tab.jobs[i]
           IN /\ w.out = u.out /\ w.tab.call = u.tab.call /\ w.tab.timer = u.tab.timer
              /\ j \in Range(u.tab.jobs) /\ Range(w.tab.jobs) \subseteq Range(u.tab.jobs)
              /\ \A k \in Range(u.tab.jobs) : k = j \/ k \in Range(w.tab.jobs)
<1> DEFINE jobs == u.tab.jobs
           js == RemoveAt(jobs, i)
<1>1. jobs \in Seq(JobRecs) /\ i \in DOMAIN jobs
  BY DEF Turns, TabRecs
<1>2. Drained(u, i) = [u EXCEPT !.tab.jobs = js]
  BY DEF Drained
<1> HIDE DEF jobs
<1>3. /\ \A n \in DOMAIN js : js[n] \in Range(jobs)
      /\ \A k \in DOMAIN jobs : k = i \/ \E n \in DOMAIN js : js[n] = jobs[k]
  <2>1. DOMAIN jobs = 1 .. Len(jobs) /\ Len(jobs) \in Nat /\ i \in 1 .. Len(jobs)
    BY <1>1
  <2>2. /\ DOMAIN js = 1 .. Len(jobs) - 1
        /\ \A n \in 1 .. Len(jobs) - 1 : js[n] = IF n < i THEN jobs[n] ELSE jobs[n + 1]
    BY <1>1, Removed
  <2>3. \A n \in DOMAIN js : js[n] \in Range(jobs)
    BY <2>1, <2>2 DEF Range
  <2>4. ASSUME NEW k \in DOMAIN jobs, k # i PROVE \E n \in DOMAIN js : js[n] = jobs[k]
    <3>1. CASE k < i
      <4>1. k \in 1 .. Len(jobs) - 1
        BY <2>1, <2>4, <3>1
      <4> QED
        BY <2>2, <3>1, <4>1
    <3>2. CASE k > i
      <4>1. k - 1 \in 1 .. Len(jobs) - 1 /\ ~(k - 1 < i) /\ k - 1 + 1 = k
        BY <2>1, <2>4, <3>2
      <4> QED
        BY <2>2, <4>1
    <3> QED
      BY <2>1, <2>4, <3>1, <3>2
  <2> QED
    BY <2>3, <2>4
<1>4. js \in Seq(JobRecs)
  BY <1>1 DEF RemoveAt
<1> HIDE DEF js
<1>5. Range(js) \subseteq Range(jobs) /\ jobs[i] \in Range(jobs) /\ \A k \in Range(jobs) : k = jobs[i] \/ k \in Range(js)
  BY <1>1, <1>3 DEF Range
<1>6. Drained(u, i).out = u.out /\ Drained(u, i).tab.call = u.tab.call /\ Drained(u, i).tab.timer = u.tab.timer
      /\ Drained(u, i).tab.jobs = js
  BY <1>2 DEF Turns, TabRecs
<1> QED
  BY <1>5, <1>6 DEF jobs

LEMMA FewerDrained ==
    ASSUME NEW v, NEW w, Range(w.jobs) \subseteq Range(v.jobs)
    PROVE  Fewer(w, v)
BY DEF Fewer

(* What a call is hung up for.                                              *)
Endings == Reasons \ {"answered_elsewhere"}

(* The dock of a tab closes, with or without a word.                        *)
LEMMA Quitting ==
    ASSUME NEW t, NEW rm, NEW q \in Seq(Ups), NEW D, NEW B, NEW v \in TabRecs, NEW u \in Turns,
           Inside(t, v, rm, q \o u.out, D, B), Fewer(u.tab, v), NEW reason \in Endings
    PROVE  LET says == finish(Say(u, Up("hangup", v.call.id, FALSE, reason)))
           IN /\ Inside(t, says.tab, rm, q \o says.out, D, B)
              /\ (v.call.id \in Calls /\ Lives(rm, v.call.id) => Leaves(q \o u.out, v.call.id))
                   => Inside(t, finish(u).tab, rm, q \o finish(u).out, D, B)
<1> DEFINE f == Up("hangup", v.call.id, FALSE, reason)
           says == Say(u, f)
<1>1. f \in Ups /\ f.kind = "hangup" /\ f.id = v.call.id
  <2>1. v.call.id \in Calls \cup {None}
    BY NamesTab DEF Ids
  <2> QED
    BY <2>1, Frames DEF Up, Endings
<1> HIDE DEF f
<1>2. says \in Turns /\ says.tab = u.tab /\ q \o u.out \in Seq(Ups) /\ q \o says.out = Append(q \o u.out, f)
  BY <1>1, Saying, SaidLast
<1> HIDE DEF says
<1>3. /\ finish(says).tab.call = NoCall /\ ~finish(says).tab.timer /\ finish(says).out = says.out
      /\ finish(u).tab.call = NoCall /\ ~finish(u).tab.timer /\ finish(u).out = u.out
      /\ Fewer(finish(says).tab, v) /\ Fewer(finish(u).tab, v)
  BY <1>2, FinishParts, FewerThan
<1> DEFINE U == q \o u.out
           U2 == Append(U, f)
<1>4. U \in Seq(Ups) /\ U2 \in Seq(Ups)
  <2>1. U \in Seq(Ups)
    BY <1>2
  <2> HIDE DEF U
  <2> QED
    BY <1>1, <2>1, Queues
<1>5. Inside(t, finish(says).tab, rm, U2, D, B)
  <2> HIDE DEF U
  <2> QED
    BY <1>1, <1>3, <1>4, TabQuits DEF U
<1>6. (v.call.id \in Calls /\ Lives(rm, v.call.id) => Leaves(U, v.call.id)) => Inside(t, finish(u).tab, rm, U, D, B)
  <2> HIDE DEF U
  <2> QED
    BY <1>1, <1>3, <1>4, TabQuits DEF U
<1> QED
  BY <1>2, <1>3, <1>5, <1>6 DEF says, f

(*-------------------------------------------------------------------------*)
(* A step, for the tabs that go on.                                         *)

LEMMA SameRecords ==
    ASSUME plan'.people = plan.people, NEW rm
    PROVE  Records(rm)' <=> Records(rm)
BY DEF Records, Lives, People

LEMMA Goings ==
    ASSUME plan'.tabs = plan.tabs, plan'.people = plan.people, cut \subseteq cut', misled \subseteq misled', Open', Records(room'),
           \A t \in Sound : t \notin cut' \cup misled' => Fits(t, tab'[t], room', net'.up[t], net'.down[t], net'.bus[t])
    PROVE  AgreeInv'
<1>1. Records(room)'
  BY SameRecords
<1>2. Sound' \subseteq Sound /\ \A t \in Sound' : t \notin cut' \cup misled'
  BY DEF Sound, Alone
<1>3. \A t \in Sound' : Fits(t, tab[t], room, net.up[t], net.down[t], net.bus[t])'
  BY <1>2, SameFits
<1> QED
  BY <1>1, <1>3 DEF AgreeInv

LEMMA SoundTabs ==
    ASSUME ClientInv, AgreeInv, NEW t \in Sound
    PROVE  /\ t \in Tabs /\ t \in conn /\ t \in plan.tabs /\ t \notin cut /\ closing[t] = {}
           /\ tab[t] \in TabRecs /\ net.up[t] \in Seq(Ups) /\ net.down[t] \in Seq(Downs) /\ net.bus[t] \in Seq(Downs)
           /\ Fits(t, tab[t], room, net.up[t], net.down[t], net.bus[t])
<1>1. t \in plan.tabs \ cut /\ plan \in PlanType
  BY DEF Sound, ClientInv, Setting
<1>2. t \in Tabs /\ t \in conn /\ closing[t] = {}
  BY <1>1 DEF PlanType, AgreeInv, Open
<1> QED
  BY <1>1, <1>2 DEF ClientInv, Setting, Nets, AgreeInv

(* The turn of a tab, and what it has sent.                                 *)
LEMMA Turned ==
    ASSUME ClientInv, AgreeInv, SamePlan, NEW t \in Tabs, NEW u \in Turns, NEW s, NEW n \in Nets,
           n.up = net.up, n.bus = net.bus, \A x \in Tabs \ {t} : n.down[x] = net.down[x],
           Task(t, u, s, n), misled \subseteq misled',
           t \in Sound \ misled' => Fits(t, u.tab, room, net.up[t] \o u.out, n.down[t], net.bus[t])
    PROVE  AgreeInv'
<1>1. /\ tab' = [tab EXCEPT ![t] = u.tab] /\ cut \subseteq cut' /\ UNCHANGED <<conn, closing, room>>
      /\ net' = IF t \in conn THEN [n EXCEPT !.up[t] = @ \o u.out] ELSE n
  BY DEF Task, Sent
<1>2. /\ plan'.tabs = plan.tabs /\ plan'.people = plan.people /\ tab \in [Tabs -> TabRecs]
      /\ n.up \in [Tabs -> Seq(Ups)]
  BY DEF SamePlan, ClientInv, Setting, Nets
<1>3. Open' /\ Records(room')
  BY <1>1, <1>2 DEF AgreeInv, Open
<1>4. /\ net'.down = n.down /\ net'.bus = n.bus /\ \A x \in Tabs \ {t} : net'.up[x] = net.up[x]
      /\ t \in conn => net'.up[t] = net.up[t] \o u.out
  BY <1>1, <1>2 DEF Nets
<1>5. ASSUME NEW x \in Sound, x \notin cut' \cup misled'
      PROVE  Fits(x, tab'[x], room', net'.up[x], net'.down[x], net'.bus[x])
  <2>1. x \in Tabs /\ x \in conn /\ Fits(x, tab[x], room, net.up[x], net.down[x], net.bus[x])
    BY SoundTabs
  <2>2. CASE x = t
    <3>1. tab'[t] = u.tab /\ net'.up[t] = net.up[t] \o u.out
      BY <1>1, <1>2, <1>4, <2>1, <2>2
    <3> QED
      BY <1>1, <1>4, <1>5, <2>2, <3>1
  <2>3. CASE x # t
    <3>1. tab'[x] = tab[x] /\ net'.up[x] = net.up[x] /\ net'.down[x] = net.down[x] /\ net'.bus[x] = net.bus[x]
      BY <1>1, <1>2, <1>4, <2>1, <2>3
    <3> QED
      BY <1>1, <2>1, <3>1
  <2> QED
    BY <2>2, <2>3
<1> QED
  BY <1>1, <1>2, <1>3, <1>5, Goings

(* A tab that hears nothing in its turn.                                    *)
LEMMA OwnTurn ==
    ASSUME ClientInv, AgreeInv, SamePlan, NEW t \in Tabs, NEW u \in Turns, Task(t, u, store[t], net), misled \subseteq misled',
           t \in Sound \ misled' => Fits(t, u.tab, room, net.up[t] \o u.out, net.down[t], net.bus[t])
    PROVE  AgreeInv'
<1>1. net \in Nets
  BY DEF ClientInv, Setting
<1> QED
  BY <1>1, Turned

LEMMA NothingSaid == ASSUME NEW q \in Seq(Ups) PROVE q \o <<>> = q
OBVIOUS

LEMMA Fresh ==
    ASSUME ClientInv, NEW t \in Tabs
    PROVE  /\ Start(t) \in Turns /\ Start(t).tab = tab[t] /\ tab[t] \in TabRecs
           /\ net.up[t] \in Seq(Ups) /\ net.up[t] \o Start(t).out = net.up[t]
<1>1. Start(t) \in Turns /\ Start(t).tab = tab[t] /\ tab[t] \in TabRecs /\ Start(t).out = <<>> /\ net.up[t] \in Seq(Ups)
  BY Begun DEF ClientInv, Setting, Nets, Start
<1> QED
  BY <1>1, NothingSaid

(*-------------------------------------------------------------------------*)
(* The buttons.                                                             *)

LEMMA OutsideKept ==
    ASSUME NEW t, NEW v, NEW w, NEW rm, NEW U, NEW U2, NEW D, NEW B, Outside(t, v, rm, U, D, B), ~w.timer,
           w.call # NoCall => Dialling(w.call) /\ Dials(w, U2, D),
           \A j \in Range(w.jobs) : j.why = "start", \A f \in Range(U2) : f.kind = "invite"
    PROVE  Outside(t, w, rm, U2, D, B)
BY DEF Outside

LEMMA Silent ==
    ASSUME NEW t, NEW v, NEW rm, NEW U, NEW D, NEW B, Fits(t, v, rm, U, D, B), v.call = NoCall
    PROVE  ~v.timer
BY NoCallFits DEF Fits, Inside, Outside, Habits

LEMMA DialTurn == ASSUME ClientInv, AgreeInv, NEW t \in Tabs, Dial(t) PROVE AgreeInv'
<1> DEFINE u == Start(t)
           o == OwnerOf[t]
           dials == [NoCall EXCEPT !.state = "ringing", !.dir = "outgoing",
                                   !.people = plan.believed \cup {o}, !.joined = {o}]
           bare == Cardinality(plan.believed \cup {o}) > 2
           p == Patch(u, dials)
           w == startCall(u, o)
<1>1. /\ u \in Turns /\ u.tab = tab[t] /\ o \in Owners /\ plan \in PlanType /\ net.up[t] \o u.out = net.up[t]
      /\ tab[t].call = NoCall /\ Spend(t, "dials") /\ Task(t, w, store[t], net) /\ UNCHANGED misled
  BY TabAssumption, Fresh DEF Dial, ClientInv, Setting
<1>2. dials \in CallRecs /\ dials.state # "none" /\ Dialling(dials)
  BY <1>1 DEF NoCall, CallRecs, PlanType, Dialling
<1>3. bare \in BOOLEAN /\ w = Capture(p, "start", None, bare) /\ w \in Turns /\ SamePlan
  <2>1. bare \in BOOLEAN /\ w = Capture(p, "start", None, bare)
    BY DEF startCall
  <2>2. w \in Turns /\ SamePlan
    BY <1>1, Starting, SpendsPlan DEF Presses
  <2> QED
    BY <2>1, <2>2
<1> HIDE DEF dials, bare, u, w
<1>4. p \in Turns /\ p.tab = [u.tab EXCEPT !.call = dials] /\ p.out = u.out
  BY <1>1, <1>2, Patching DEF Patch, Turns
<1>5. p.tab.call = dials /\ p.tab.timer = tab[t].timer /\ p.tab.jobs = tab[t].jobs
  BY <1>1, <1>4 DEF Turns, TabRecs
<1> HIDE DEF p
<1>6. /\ w.out = u.out /\ w.tab.call = dials /\ w.tab.timer = tab[t].timer
      /\ \E j : j.why = "start" /\ j.id = None /\ Range(w.tab.jobs) = Range(tab[t].jobs) \cup {j}
  <2>1. /\ w.out = p.out /\ w.tab.call = p.tab.call /\ w.tab.timer = p.tab.timer
        /\ \E j : j.why = "start" /\ j.id = None /\ Range(w.tab.jobs) = Range(p.tab.jobs) \cup {j}
    <3>1. PICK b \in BOOLEAN : w = Capture(p, "start", None, b) /\ p \in Turns
      BY <1>3, <1>4
    <3>2. w.out = p.out /\ w.tab.call = p.tab.call /\ w.tab.timer = p.tab.timer
      BY <3>1, CaptureParts
    <3>3. \E j : j.why = "start" /\ j.id = None /\ Gains(w.tab, p.tab, j)
      BY <3>1, CaptureParts
    <3> QED
      BY <3>2, <3>3 DEF Gains
  <2> QED
    BY <1>4, <1>5, <2>1
<1>7. ASSUME t \in Sound PROVE Fits(t, w.tab, room, net.up[t], net.down[t], net.bus[t])
  <2>1. Fits(t, tab[t], room, net.up[t], net.down[t], net.bus[t])
    BY <1>7, SoundTabs
  <2>2. ~w.tab.timer
    BY <1>1, <1>6, <2>1, Silent
  <2>3. CASE OwnerOf[t] \in People
    BY <1>1, <1>2, <1>6, <2>1, <2>2, <2>3, TabDials DEF Fits
  <2>4. CASE OwnerOf[t] \notin People
    <3>1. Dials(w.tab, net.up[t], net.down[t])
      BY <1>6 DEF Dials
    <3> QED
      BY <1>2, <1>6, <2>1, <2>2, <2>4, <3>1, OutsideKept DEF Fits, Outside
  <2> QED
    BY <2>3, <2>4
<1> QED
  BY <1>1, <1>3, <1>6, <1>7, OwnTurn

LEMMA AcceptParts ==
    ASSUME NEW u \in Turns, u.tab.call.dir = "incoming", u.tab.call.state = "ringing"
    PROVE  LET w == accept(u)
               call == u.tab.call
           IN /\ w.out = u.out /\ w.tab.timer = u.tab.timer
              /\ w.tab.call.dir = "incoming" /\ w.tab.call.state = "connecting"
              /\ w.tab.call.id = call.id /\ w.tab.call.people = call.people
              /\ \E j : /\ j.why = "accept" /\ j.id = call.id /\ (Cardinality(call.people) > 2 => j.bare)
                        /\ Range(w.tab.jobs) = Range(u.tab.jobs) \cup {j}
<1> DEFINE call == u.tab.call
           takes == [call EXCEPT !.state = "connecting"]
           bare == Cardinality(call.people) > 2 \/ ~call.offer
           p == Patch(u, takes)
           w == accept(u)
<1>1. call \in CallRecs /\ call.id \in Calls
  BY DEF Turns, TabRecs, CallRecs
<1>2. takes \in CallRecs /\ takes.dir = "incoming" /\ takes.state = "connecting" /\ takes.id = call.id
      /\ takes.people = call.people
  BY <1>1, NoCallFits DEF CallRecs
<1>3. w = Capture(p, "accept", call.id, bare) /\ bare \in BOOLEAN /\ (Cardinality(call.people) > 2 => bare)
  BY <1>1 DEF accept, CallRecs
<1> HIDE DEF call, takes, bare, w
<1>4. p \in Turns /\ p.tab = [u.tab EXCEPT !.call = takes] /\ p.out = u.out
  BY <1>2, Patching DEF Patch, Turns
<1>5. p.tab.call = takes /\ p.tab.timer = u.tab.timer /\ p.tab.jobs = u.tab.jobs
  BY <1>4 DEF Turns, TabRecs
<1> HIDE DEF p
<1>6. /\ w.out = p.out /\ w.tab.call = p.tab.call /\ w.tab.timer = p.tab.timer
      /\ \E j : j.why = "accept" /\ j.id = call.id /\ (Cardinality(call.people) > 2 => j.bare) /\ Gains(w.tab, p.tab, j)
  <2>1. PICK b \in BOOLEAN : w = Capture(p, "accept", call.id, b) /\ (Cardinality(call.people) > 2 => b)
    BY <1>3
  <2>2. /\ w.out = p.out /\ w.tab.call = p.tab.call /\ w.tab.timer = p.tab.timer
        /\ \E j : j.why = "accept" /\ j.id = call.id /\ j.bare = b /\ Gains(w.tab, p.tab, j)
    <3> DEFINE id == call.id
    <3>1. p \in Turns /\ id \in Calls /\ w = Capture(p, "accept", id, b)
      BY <1>1, <1>4, <2>1
    <3> HIDE DEF id
    <3>2. w.out = p.out /\ w.tab.call = p.tab.call /\ w.tab.timer = p.tab.timer
      BY <3>1, CaptureParts
    <3>3. \E j : j.why = "accept" /\ j.id = id /\ j.bare = b /\ Gains(w.tab, p.tab, j)
      BY <3>1, CaptureParts
    <3> QED
      BY <3>2, <3>3 DEF id
  <2> QED
    BY <2>1, <2>2
<1> QED
  BY <1>2, <1>3, <1>4, <1>5, <1>6 DEF w, call, Gains

LEMMA AcceptTurn == ASSUME ClientInv, AgreeInv, NEW t \in Tabs, Accept(t) PROVE AgreeInv'
<1> DEFINE u == Start(t)
           call == tab[t].call
           w == accept(u)
<1>1. /\ u \in Turns /\ u.tab = tab[t] /\ net.up[t] \o u.out = net.up[t]
      /\ call.dir = "incoming" /\ call.state = "ringing" /\ Spend(t, "accepts") /\ Task(t, w, store[t], net) /\ UNCHANGED misled
  BY Fresh DEF Accept
<1>2. w \in Turns /\ SamePlan
  BY <1>1, Accepting, SpendsPlan DEF Presses
<1>3. /\ w.out = u.out /\ w.tab.timer = tab[t].timer
      /\ w.tab.call.dir = "incoming" /\ w.tab.call.state = "connecting"
      /\ w.tab.call.id = call.id /\ w.tab.call.people = call.people
      /\ \E j : /\ j.why = "accept" /\ j.id = call.id /\ (Cardinality(call.people) > 2 => j.bare)
                /\ Range(w.tab.jobs) = Range(tab[t].jobs) \cup {j}
  BY <1>1, AcceptParts
<1> HIDE DEF u, w
<1>4. ASSUME t \in Sound PROVE Fits(t, w.tab, room, net.up[t], net.down[t], net.bus[t])
  <2>1. Fits(t, tab[t], room, net.up[t], net.down[t], net.bus[t]) /\ tab[t] \in TabRecs
    BY <1>4, SoundTabs
  <2>2. OwnerOf[t] \in People
    BY <1>1, <2>1, NoCallFits DEF Fits, Outside, Dialling
  <2>3. Inside(t, tab[t], room, net.up[t], net.down[t], net.bus[t]) /\ call.people = People
    BY <1>1, <2>1, <2>2 DEF Fits, Inside, Habits
  <2>4. PICK j : /\ j.why = "accept" /\ j.id = call.id /\ (IsGroup => j.bare)
                 /\ Range(w.tab.jobs) = Range(tab[t].jobs) \cup {j}
    BY <1>3, <2>3 DEF IsGroup
  <2> HIDE DEF call
  <2>5. Inside(t, w.tab, room, net.up[t], net.down[t], net.bus[t])
    BY <1>1, <1>3, <2>1, <2>3, <2>4, TabAccepts DEF call
  <2> QED
    BY <2>2, <2>5 DEF Fits
<1> QED
  BY <1>1, <1>2, <1>3, <1>4, OwnTurn

(* The dock closes: the call is hung up, if it is known which.              *)
LEMMA Closes ==
    ASSUME ClientInv, AgreeInv, NEW t \in Sound, NEW u \in Turns, u.out = <<>>, u.tab.call = tab[t].call, Fewer(u.tab, tab[t]),
           NEW reason \in Endings, NEW w,
           w = finish(IF u.tab.call.id # None THEN Say(u, Up("hangup", u.tab.call.id, FALSE, reason)) ELSE u)
    PROVE  Fits(t, w.tab, room, net.up[t] \o w.out, net.down[t], net.bus[t])
<1> DEFINE v == tab[t]
           U == net.up[t]
           D == net.down[t]
           B == net.bus[t]
           says == Say(u, Up("hangup", v.call.id, FALSE, reason))
<1>1. v \in TabRecs /\ U \in Seq(Ups) /\ Fits(t, v, room, U, D, B)
  BY SoundTabs
<1>2. U \o u.out = U
  BY <1>1, NothingSaid
<1>3. w = IF v.call.id # None THEN finish(says) ELSE finish(u)
  OBVIOUS
<1> HIDE DEF v, U, D, B, says
<1>4. CASE OwnerOf[t] \in People
  <2>1. Inside(t, v, room, U \o u.out, D, B) /\ Fewer(u.tab, v)
    BY <1>1, <1>2, <1>4 DEF Fits, v
  <2>2. /\ Inside(t, finish(says).tab, room, U \o finish(says).out, D, B)
        /\ v.call.id = None => Inside(t, finish(u).tab, room, U \o finish(u).out, D, B)
    BY <1>1, <2>1, Quitting, TabAssumption DEF says
  <2> QED
    BY <1>3, <1>4, <2>2 DEF Fits, U, D, B
<1>5. CASE OwnerOf[t] \notin People
  <2>1. Outside(t, v, room, U, D, B) /\ v.call.id = None
    BY <1>1, <1>5, NoCallFits DEF Fits, Outside, Dialling
  <2>2. w.tab.call = NoCall /\ ~w.tab.timer /\ w.out = u.out /\ Fewer(w.tab, v)
    <3>1. w = finish(u) /\ Fewer(u.tab, v)
      BY <1>3, <2>1 DEF v
    <3> QED
      BY <3>1, FinishParts, FewerThan
  <2>3. Outside(t, w.tab, room, U, D, B)
    <3>1. \A j \in Range(v.jobs) : j.why = "start"
      BY <2>1 DEF Outside
    <3>2. \A j \in Range(w.tab.jobs) : j.why = "start"
      BY <2>2, <3>1 DEF Fewer
    <3>3. \A f \in Range(U) : f.kind = "invite"
      BY <2>1 DEF Outside
    <3> QED
      BY <2>1, <2>2, <3>2, <3>3, OutsideKept
  <2> QED
    BY <1>2, <1>5, <2>2, <2>3 DEF Fits, U, D, B
<1> QED
  BY <1>4, <1>5

LEMMA SameFewer == ASSUME NEW v PROVE Fewer(v, v)
BY DEF Fewer

LEMMA HangUpTurn ==
    ASSUME ClientInv, AgreeInv, NEW t \in Tabs, HangUp(t) \/ MediaFails(t)
    PROVE  AgreeInv'
<1> DEFINE u == Start(t)
<1>1. u \in Turns /\ u.tab = tab[t] /\ u.out = <<>>
  BY Fresh DEF Start
<1>2. PICK reason \in {"", "ice_failed"} : Task(t, hangUp(u, reason), store[t], net)
  BY DEF HangUp, MediaFails
<1>3. UNCHANGED misled /\ SamePlan
  BY SpendsPlan DEF HangUp, MediaFails, Presses
<1> HIDE DEF u
<1> DEFINE w == hangUp(u, reason)
<1>4. w \in Turns
  BY <1>1, Hanging
<1>5. \E r \in Endings : w = finish(IF u.tab.call.id # None THEN Say(u, Up("hangup", u.tab.call.id, FALSE, r)) ELSE u)
  BY DEF hangUp, Endings
<1> HIDE DEF w
<1>6. ASSUME t \in Sound PROVE Fits(t, w.tab, room, net.up[t] \o w.out, net.down[t], net.bus[t])
  BY <1>1, <1>5, <1>6, Closes, SameFewer
<1> QED
  BY <1>2, <1>3, <1>4, <1>6, OwnTurn DEF w

LEMMA GivesUp == ASSUME ClientInv, AgreeInv, NEW t \in Tabs, JoinTimesOut(t) PROVE AgreeInv'
<1> DEFINE u == Start(t)
           idles == [u EXCEPT !.tab.timer = FALSE]
<1>1. u \in Turns
  BY Fresh
<1>2. /\ Task(t, abandonJoin(u), store[t], net) \/ Task(t, idles, store[t], net)
      /\ misled' = misled \cup {t} /\ UNCHANGED plan
  BY DEF JoinTimesOut
<1>3. idles \in Turns /\ abandonJoin(u) \in Turns
  BY <1>1, Finishing DEF abandonJoin, Turns, TabRecs
<1>4. SamePlan
  BY <1>2 DEF SamePlan, ClientInv, Setting
<1> HIDE DEF idles, u
<1> QED
  BY <1>2, <1>3, <1>4, OwnTurn

(*-------------------------------------------------------------------------*)
(* Joins, and what the browser answers.                                     *)

LEMMA JoinParts ==
    ASSUME NEW u \in Turns, NEW id \in Calls, NEW people \in SUBSET Owners, NEW w, w = joinOngoing(u, id, people)
    PROVE  /\ w.tab.timer /\ w.tab.call.id = id /\ w.tab.call.dir = "outgoing" /\ w.tab.call.state = "connecting"
           /\ \E f \in Ups : f.kind = "join" /\ f.id = id /\ w.out = Append(u.out, f)
           /\ \E j : j.why = "join" /\ j.id = id /\ Gains(w.tab, u.tab, j)
<1> DEFINE takes == [NoCall EXCEPT !.state = "connecting", !.dir = "outgoing", !.id = id, !.people = people]
           p == [u EXCEPT !.tab = [u.tab EXCEPT !.call = takes, !.timer = TRUE]]
           f == Up("join", id, FALSE, "")
           s == Say(p, f)
<1>1. takes \in CallRecs /\ takes.id = id /\ takes.dir = "outgoing" /\ takes.state = "connecting" /\ takes # NoCall
  BY DEF NoCall, CallRecs
<1>2. w = Capture(s, "join", id, TRUE)
  BY DEF joinOngoing, Turns, TabRecs
<1> HIDE DEF takes
<1>3. p \in Turns /\ p.tab.call = takes /\ p.tab.timer = TRUE /\ p.tab.jobs = u.tab.jobs /\ p.out = u.out
  BY <1>1 DEF Turns, TabRecs
<1> HIDE DEF p
<1>4. f \in Ups /\ f.kind = "join" /\ f.id = id
  BY Frames DEF Up
<1> HIDE DEF f
<1>5. s \in Turns /\ s.tab = p.tab /\ s.out = Append(u.out, f)
  BY <1>3, <1>4, Saying DEF Say, Turns
<1> HIDE DEF s
<1>6. /\ w.out = s.out /\ w.tab.call = s.tab.call /\ w.tab.timer = s.tab.timer
      /\ \E j : j.why = "join" /\ j.id = id /\ Gains(w.tab, s.tab, j)
  <2>1. PICK b \in BOOLEAN : w = Capture(s, "join", id, b)
    BY <1>2
  <2> QED
    BY <1>5, <2>1, CaptureParts
<1> QED
  BY <1>1, <1>3, <1>4, <1>5, <1>6 DEF Gains

LEMMA Entering ==
    ASSUME NEW t, NEW rm, NEW q \in Seq(Ups), NEW D, NEW B, NEW u \in Turns, Inside(t, u.tab, rm, q \o u.out, D, B),
           u.tab.call = NoCall, NEW id \in Calls, Born(rm, id), NEW people \in SUBSET Owners, NEW w, w = joinOngoing(u, id, people)
    PROVE  Inside(t, w.tab, rm, q \o w.out, D, B)
<1> DEFINE v == u.tab
           U == q \o u.out
<1>1. w.tab.timer /\ w.tab.call.id = id /\ w.tab.call.dir = "outgoing" /\ w.tab.call.state = "connecting"
  BY JoinParts
<1>2. PICK f \in Ups : f.kind = "join" /\ f.id = id /\ w.out = Append(u.out, f)
  BY JoinParts
<1>3. PICK j : j.why = "join" /\ j.id = id /\ Gains(w.tab, u.tab, j)
  BY JoinParts
<1>4. U \in Seq(Ups) /\ q \o w.out = Append(U, f)
  <2>1. Say(u, f).out = Append(u.out, f)
    BY DEF Say, Turns
  <2>2. q \o u.out \in Seq(Ups) /\ q \o Say(u, f).out = Append(q \o u.out, f)
    BY SaidLast
  <2> QED
    BY <1>2, <2>1, <2>2
<1>5. Inside(t, v, rm, U, D, B) /\ v.call = NoCall /\ Range(w.tab.jobs) = Range(v.jobs) \cup {j}
  BY <1>3 DEF Gains
<1> HIDE DEF v, U
<1>6. Inside(t, w.tab, rm, Append(U, f), D, B)
  BY ZenonT(60), <1>1, <1>2, <1>3, <1>4, <1>5, TabJoins
<1> QED
  BY <1>4, <1>6

LEMMA JoinTurn == ASSUME ClientInv, AgreeInv, NEW t \in Tabs, Join(t) PROVE AgreeInv'
<1> DEFINE u == Start(t)
<1>1. /\ u \in Turns /\ u.tab = tab[t] /\ net.up[t] \in Seq(Ups) /\ tab[t].call = NoCall
      /\ Spend(t, "joins") /\ UNCHANGED misled /\ People \in SUBSET Owners
  BY Fresh DEF Join, ClientInv, Setting, PlanType, People
<1>2. PICK c \in Calls : store[t].rows[c] = "open" /\ Task(t, joinOngoing(u, c, People), store[t], net)
  BY DEF Join, ongoingCallOf
<1> HIDE DEF u
<1> DEFINE w == joinOngoing(u, c, People)
<1>3. w \in Turns /\ SamePlan
  BY <1>1, Joining, SpendsPlan DEF Presses
<1>4. Born(room, c) /\ OwnerOf[t] \in People
  <2>1. store[t].rows \in Histories /\ Unread(t, store[t])
    BY DEF ClientInv, Stores
  <2>2. t \in plan.watchers
    BY <1>2, <2>1 DEF Unread
  <2> QED
    BY <1>2, <2>1, <2>2 DEF Histories, Born, ClientInv, Setting, People
<1>5. ASSUME t \in Sound PROVE Fits(t, w.tab, room, net.up[t] \o w.out, net.down[t], net.bus[t])
  <2>1. Fits(t, tab[t], room, net.up[t], net.down[t], net.bus[t])
    BY <1>5, SoundTabs
  <2>2. Inside(t, u.tab, room, net.up[t] \o u.out, net.down[t], net.bus[t])
    BY <1>1, <1>4, <2>1, Fresh DEF Fits, u
  <2>3. Inside(t, w.tab, room, net.up[t] \o w.out, net.down[t], net.bus[t])
    BY <1>1, <1>4, <2>2, Entering
  <2> QED
    BY <1>4, <2>3 DEF Fits
<1> HIDE DEF w
<1> QED
  BY <1>1, <1>2, <1>3, <1>5, OwnTurn DEF w

LEMMA Announced ==
    ASSUME NEW u \in Turns, NEW job \in JobRecs
    PROVE  \/ job.why = "join" /\ Announce(u, job) = u
           \/ \E f \in Ups : /\ Announce(u, job) = Say(u, f)
                             /\ \/ job.why = "start" /\ f.kind = "invite" /\ f.id = None
                                \/ /\ job.why = "accept" /\ f.kind \in {"join", "answer"} /\ f.id = job.id
                                   /\ f.kind = "answer" => ~job.bare
<1>1. job.why \in {"start", "accept", "join"} /\ job.id \in Calls \cup {None} /\ (~job.bare) \in BOOLEAN
      /\ (job.why = "accept" => job.id \in Calls)
  BY DEF JobRecs, JobType
<1>2. CASE job.why = "start"
  <2> DEFINE f == Up("invite", None, ~job.bare, "")
  <2>1. f \in Ups /\ f.kind = "invite" /\ f.id = None
    BY <1>1, Frames DEF Up
  <2>2. Announce(u, job) = Say(u, f)
    BY <1>2 DEF Announce
  <2> HIDE DEF f
  <2> QED
    BY <1>2, <2>1, <2>2
<1>3. CASE job.why = "accept"
  <2>1. CASE job.bare
    <3> DEFINE f == Up("join", job.id, FALSE, "")
    <3>1. f \in Ups /\ f.kind = "join" /\ f.id = job.id
      BY <1>1, <1>3, Frames DEF Up
    <3>2. Announce(u, job) = Say(u, f)
      BY <1>3, <2>1 DEF Announce
    <3> HIDE DEF f
    <3> QED
      BY <1>3, <3>1, <3>2
  <2>2. CASE ~job.bare
    <3> DEFINE f == Up("answer", job.id, TRUE, "")
    <3>1. f \in Ups /\ f.kind = "answer" /\ f.id = job.id
      BY <1>1, <1>3, Frames DEF Up
    <3>2. Announce(u, job) = Say(u, f)
      BY <1>3, <2>2 DEF Announce
    <3> HIDE DEF f
    <3> QED
      BY <1>3, <2>2, <3>1, <3>2
  <2> QED
    BY <2>1, <2>2
<1> QED
  BY <1>1, <1>2, <1>3 DEF Announce

(* To all that matters w is what v is, but for a job that is done.          *)
Same(w, v) ==
    /\ w.timer = v.timer /\ w.call.id = v.call.id /\ w.call.dir = v.call.dir /\ w.call.people = v.call.people
    /\ w.call.state = v.call.state /\ ((w.call = NoCall) = (v.call = NoCall))
    /\ Dialling(w.call) = Dialling(v.call)
Less(w, v, j) ==
    /\ j \in Range(v.jobs) /\ Fewer(w, v)
    /\ \A k \in Range(v.jobs) : k = j \/ \E i \in Range(w.jobs) : i.why = k.why /\ i.id = k.id

LEMMA Announcement ==
    ASSUME ClientInv, AgreeInv, NEW t \in Sound, NEW u \in Turns, u.out = <<>>, Same(u.tab, tab[t]),
           NEW j \in JobRecs, Less(u.tab, tab[t], j), j.why = "accept" => tab[t].call.id = j.id
    PROVE  LET w == Announce(u, j)
           IN Fits(t, w.tab, room, net.up[t] \o w.out, net.down[t], net.bus[t])
<1> DEFINE v == tab[t]
           U == net.up[t]
           D == net.down[t]
           B == net.bus[t]
           w == Announce(u, j)
<1>1. v \in TabRecs /\ U \in Seq(Ups) /\ Fits(t, v, room, U, D, B) /\ U \o u.out = U
  BY SoundTabs, NothingSaid
<1>2. Same(u.tab, v) /\ Less(u.tab, v, j) /\ (j.why = "accept" => v.call.id = j.id)
  OBVIOUS
<1> HIDE DEF v, U, D, B, w
<1>3. CASE j.why = "join" /\ w = u
  <2>1. ASSUME OwnerOf[t] \in People PROVE Inside(t, u.tab, room, U, D, B)
    <3>1. Inside(t, v, room, U, D, B)
      BY <1>1, <2>1 DEF Fits
    <3>2. \A k \in Range(v.jobs) : k.why # "join" => \E i \in Range(u.tab.jobs) : i.why = k.why /\ i.id = k.id
      BY <1>2, <1>3 DEF Less
    <3> QED
      BY <1>2, <3>1, <3>2, TabSame DEF Same, Less, Within
  <2>2. ASSUME OwnerOf[t] \notin People PROVE FALSE
    BY <1>1, <1>2, <1>3, <2>2 DEF Fits, Outside, Less
  <2> QED
    BY <1>1, <1>3, <2>1, <2>2 DEF Fits, U, D, B, w
<1>4. ASSUME NEW f \in Ups, w = Say(u, f),
             \/ j.why = "start" /\ f.kind = "invite" /\ f.id = None
             \/ /\ j.why = "accept" /\ f.kind \in {"join", "answer"} /\ f.id = j.id
                /\ f.kind = "answer" => ~j.bare
      PROVE  Fits(t, w.tab, room, U \o w.out, D, B)
  <2>1. w.tab = u.tab /\ U \o w.out = Append(U, f)
    BY <1>1, <1>4, SaidLast
  <2>2. ASSUME OwnerOf[t] \in People PROVE Inside(t, u.tab, room, Append(U, f), D, B)
    <3>1. Inside(t, v, room, U, D, B)
      BY <1>1, <2>2 DEF Fits
    <3> DEFINE x == u.tab
    <3>2. /\ Fewer(x, v) /\ x.timer = v.timer /\ x.call.id = v.call.id /\ x.call.dir = v.call.dir
          /\ x.call.people = v.call.people /\ ((x.call = NoCall) = (v.call = NoCall)) /\ x.call.state = v.call.state
          /\ j \in Range(v.jobs) /\ \A k \in Range(v.jobs) : k = j \/ \E i \in Range(x.jobs) : i.why = k.why /\ i.id = k.id
      BY <1>2 DEF Same, Less
    <3> HIDE DEF x
    <3>3. \/ j.why = "start" /\ f.kind = "invite" /\ f.id = None
          \/ /\ j.why = "accept" /\ f.kind \in {"join", "answer"} /\ f.id = j.id /\ j.id = v.call.id
             /\ f.kind = "answer" => ~j.bare
      BY <1>2, <1>4
    <3>4. Inside(t, x, room, Append(U, f), D, B)
      BY <1>1, <3>1, <3>2, <3>3, TabAnnounces
    <3> QED
      BY <3>4 DEF x
  <2>3. ASSUME OwnerOf[t] \notin People PROVE Outside(t, u.tab, room, Append(U, f), D, B)
    <3>1. Outside(t, v, room, U, D, B)
      BY <1>1, <2>3 DEF Fits
    <3>2. Range(Append(U, f)) = Range(U) \cup {f}
      BY <1>1, Queues
    <3>3. j.why = "start" /\ f.kind = "invite"
      BY <1>2, <1>4, <3>1 DEF Less, Outside
    <3>4. Dials(u.tab, Append(U, f), D)
      BY <3>2, <3>3 DEF Dials
    <3>5. (\A k \in Range(u.tab.jobs) : k.why = "start") /\ ~u.tab.timer /\ (u.tab.call # NoCall => Dialling(u.tab.call))
      BY <1>2, <3>1 DEF Outside, Less, Fewer, Same
    <3> QED
      BY <3>1, <3>2, <3>3, <3>4, <3>5, OutsideKept DEF Outside
  <2> QED
    BY <2>1, <2>2, <2>3 DEF Fits
<1> QED
  BY <1>3, <1>4, Announced DEF U, D, B, w

LEMMA DrainedLess ==
    ASSUME NEW u \in Turns, NEW i \in DOMAIN u.tab.jobs
    PROVE  /\ Drained(u, i).out = u.out /\ Drained(u, i).tab.call = u.tab.call /\ Drained(u, i).tab.timer = u.tab.timer
           /\ Less(Drained(u, i).tab, u.tab, u.tab.jobs[i])
BY DrainParts, FewerDrained DEF Less

LEMMA SameCall ==
    ASSUME NEW v, NEW w, w.call = v.call, w.timer = v.timer
    PROVE  Same(w, v)
BY DEF Same

LEMMA Unsaid ==
    ASSUME ClientInv, AgreeInv, NEW t \in Sound, NEW u \in Turns, u.out = <<>>, Same(u.tab, tab[t]), Fewer(u.tab, tab[t]),
           \A k \in Range(tab[t].jobs) : \E j \in Range(u.tab.jobs) : j.why = k.why /\ j.id = k.id
    PROVE  Fits(t, u.tab, room, net.up[t] \o u.out, net.down[t], net.bus[t])
<1> DEFINE v == tab[t]
           w == u.tab
           U == net.up[t]
           D == net.down[t]
           B == net.bus[t]
<1>1. v \in TabRecs /\ U \in Seq(Ups) /\ Fits(t, v, room, U, D, B) /\ U \o u.out = U
  BY SoundTabs, NothingSaid
<1>2. Same(w, v) /\ Fewer(w, v) /\ \A k \in Range(v.jobs) : \E j \in Range(w.jobs) : j.why = k.why /\ j.id = k.id
  OBVIOUS
<1> HIDE DEF v, w, U, D, B
<1>3. ASSUME OwnerOf[t] \in People PROVE Inside(t, w, room, U, D, B)
  <2>1. Inside(t, v, room, U, D, B)
    BY <1>1, <1>3 DEF Fits
  <2> QED
    BY <1>2, <2>1, TabSame DEF Same, Within
<1>4. ASSUME OwnerOf[t] \notin People PROVE Outside(t, w, room, U, D, B)
  <2>1. Outside(t, v, room, U, D, B)
    BY <1>1, <1>4 DEF Fits
  <2>2. w.call # NoCall => Dialling(w.call) /\ Dials(w, U, D)
    <3>1. w.call # NoCall => Dialling(w.call) /\ Dials(v, U, D)
      BY <1>2, <2>1 DEF Same, Outside
    <3>2. Dials(v, U, D) => Dials(w, U, D)
      BY <1>2 DEF Dials
    <3> QED
      BY <3>1, <3>2
  <2>3. ~w.timer /\ (\A j \in Range(w.jobs) : j.why = "start") /\ \A f \in Range(U) : f.kind = "invite"
    BY <1>2, <2>1 DEF Same, Fewer, Outside
  <2> QED
    BY <2>1, <2>2, <2>3, OutsideKept
<1> QED
  BY <1>1, <1>3, <1>4 DEF Fits, w, U, D, B

LEMMA DescribeParts ==
    ASSUME NEW u \in Turns, NEW i \in DOMAIN u.tab.jobs, NEW w, w = [u EXCEPT !.tab.jobs[i].stage = "describe"]
    PROVE  /\ w.out = u.out /\ w.tab.call = u.tab.call /\ w.tab.timer = u.tab.timer /\ Fewer(w.tab, u.tab)
           /\ \A k \in Range(u.tab.jobs) : \E j \in Range(w.tab.jobs) : j.why = k.why /\ j.id = k.id
<1> DEFINE jobs == u.tab.jobs
           next == [jobs[i] EXCEPT !.stage = "describe"]
           js == [jobs EXCEPT ![i] = next]
<1>1. jobs \in Seq(JobRecs) /\ i \in DOMAIN jobs /\ jobs[i] \in JobRecs
  BY DEF Turns, TabRecs
<1>2. next.why = jobs[i].why /\ next.id = jobs[i].id /\ next.bare = jobs[i].bare
  BY <1>1 DEF JobRecs, JobType
<1>3. w = [u EXCEPT !.tab.jobs = js]
  BY DEF Turns, TabRecs
<1> HIDE DEF next
<1>4. DOMAIN js = DOMAIN jobs /\ js[i] = next /\ \A k \in DOMAIN jobs : k # i => js[k] = jobs[k]
  BY <1>1
<1> HIDE DEF jobs, js
<1>5. w.out = u.out /\ w.tab.call = u.tab.call /\ w.tab.timer = u.tab.timer /\ w.tab.jobs = js
  BY <1>3 DEF Turns, TabRecs
<1>6. \A j \in Range(js) : \E k \in Range(jobs) : k.why = j.why /\ k.id = j.id /\ k.bare = j.bare
  BY <1>1, <1>2, <1>4 DEF Range
<1>7. \A k \in Range(jobs) : \E j \in Range(js) : j.why = k.why /\ j.id = k.id
  BY <1>1, <1>2, <1>4 DEF Range
<1> QED
  BY <1>5, <1>6, <1>7 DEF Fewer, jobs

LEMMA CaptureTurn == ASSUME ClientInv, AgreeInv, NEW t \in Tabs, CaptureResolves(t) PROVE AgreeInv'
<1>1. /\ Start(t) \in Turns /\ Start(t).tab = tab[t] /\ tab[t] \in TabRecs /\ Start(t).out = <<>>
  BY Fresh DEF Start
<1>2. PICK i \in DOMAIN tab[t].jobs :
        LET job == tab[t].jobs[i]
            u == openLocalMedia(Start(t), job)
            done == job.bare \/ job.why = "join"
        IN /\ job.stage = "capture"
           /\ Task(t, IF done THEN Announce(Drained(u, i), job)
                     ELSE [u EXCEPT !.tab.jobs[i].stage = "describe"], store[t], net)
           /\ misled' = IF done THEN Strays(t, job) ELSE misled
           /\ UNCHANGED plan
  BY DEF CaptureResolves
<1> DEFINE job == tab[t].jobs[i]
           u == openLocalMedia(Start(t), job)
           p == Drained(u, i)
           said == Announce(p, job)
           reads == [u EXCEPT !.tab.jobs[i].stage = "describe"]
           d == Drained(Start(t), i)
           q == [Start(t) EXCEPT !.tab.jobs[i].stage = "describe"]
<1>3. /\ \/ Task(t, said, store[t], net) /\ misled' = Strays(t, job)
         \/ Task(t, reads, store[t], net) /\ misled' = misled
      /\ UNCHANGED plan
  BY <1>2
<1>4. job \in JobRecs /\ d \in Turns /\ q \in Turns
  BY <1>1, Draining, Describing
<1>5. (job.opens => OpensAlone(d.tab) /\ OpensAlone(q.tab)) /\ p = openLocalMedia(d, job) /\ reads = openLocalMedia(q, job)
  <2>1. i \in DOMAIN Start(t).tab.jobs /\ Start(t).tab.jobs[i] = job /\ job.stage = "capture"
    BY <1>1, <1>2
  <2> HIDE DEF job
  <2> QED
    BY <1>1, <2>1, Resolving
<1>6. /\ d.out = <<>> /\ d.tab.call = tab[t].call /\ d.tab.timer = tab[t].timer /\ Less(d.tab, tab[t], job)
      /\ q.out = <<>> /\ q.tab.call = tab[t].call /\ q.tab.timer = tab[t].timer /\ Fewer(q.tab, tab[t])
      /\ \A k \in Range(tab[t].jobs) : \E j \in Range(q.tab.jobs) : j.why = k.why /\ j.id = k.id
  <2> DEFINE v == Start(t)
  <2>1. v \in Turns /\ v.tab = tab[t] /\ v.out = <<>> /\ i \in DOMAIN v.tab.jobs
    BY <1>1
  <2> HIDE DEF v
  <2>2. d = Drained(v, i) /\ q = [v EXCEPT !.tab.jobs[i].stage = "describe"]
    BY DEF v
  <2> HIDE DEF d, q
  <2>3. d.out = <<>> /\ d.tab.call = tab[t].call /\ d.tab.timer = tab[t].timer /\ Less(d.tab, tab[t], job)
    BY <2>1, <2>2, DrainedLess
  <2>4. /\ q.out = v.out /\ q.tab.call = v.tab.call /\ q.tab.timer = v.tab.timer /\ Fewer(q.tab, v.tab)
        /\ \A k \in Range(v.tab.jobs) : \E j \in Range(q.tab.jobs) : j.why = k.why /\ j.id = k.id
    BY <2>1, <2>2, DescribeParts
  <2> QED
    BY <2>1, <2>3, <2>4
<1> HIDE DEF job, u, d, q, p, reads
<1>7. /\ p \in Turns /\ p.out = <<>> /\ p.tab.call = tab[t].call /\ p.tab.timer = tab[t].timer
      /\ Less(p.tab, tab[t], job)
  <2>1. p \in Turns /\ p.out = d.out /\ p.tab.call = d.tab.call /\ p.tab.timer = d.tab.timer /\ p.tab.jobs = d.tab.jobs
    BY <1>4, <1>5, Opening
  <2> QED
    BY <1>6, <2>1 DEF Less, Fewer
<1>8. /\ reads \in Turns /\ reads.out = <<>> /\ reads.tab.call = tab[t].call /\ reads.tab.timer = tab[t].timer
      /\ Fewer(reads.tab, tab[t])
      /\ \A k \in Range(tab[t].jobs) : \E j \in Range(reads.tab.jobs) : j.why = k.why /\ j.id = k.id
  <2>1. reads \in Turns /\ reads.out = q.out /\ reads.tab.call = q.tab.call /\ reads.tab.timer = q.tab.timer
        /\ reads.tab.jobs = q.tab.jobs
    BY <1>4, <1>5, Opening
  <2> QED
    BY <1>6, <2>1 DEF Fewer
<1>9. said \in Turns
  BY <1>4, <1>7, Announcing
<1>10. SamePlan
  BY <1>3 DEF SamePlan, ClientInv, Setting
<1>11. ASSUME t \in Sound, t \notin Strays(t, job) PROVE Fits(t, said.tab, room, net.up[t] \o said.out, net.down[t], net.bus[t])
  <2>1. job.why = "accept" => tab[t].call.id = job.id
    BY <1>11 DEF Strays
  <2> QED
    BY <1>4, <1>7, <1>11, <2>1, SameCall, Announcement
<1>12. ASSUME t \in Sound PROVE Fits(t, reads.tab, room, net.up[t] \o reads.out, net.down[t], net.bus[t])
  BY <1>8, <1>12, SameCall, Unsaid
<1>13. misled \subseteq Strays(t, job)
  BY DEF Strays
<1> HIDE DEF said
<1> QED
  BY <1>3, <1>8, <1>9, <1>10, <1>11, <1>12, <1>13, OwnTurn

LEMMA Failed ==
    ASSUME ClientInv, AgreeInv, NEW t \in Sound, NEW i \in DOMAIN tab[t].jobs
    PROVE  LET w == fail(Drained(Start(t), i))
           IN Fits(t, w.tab, room, net.up[t] \o w.out, net.down[t], net.bus[t])
<1>1. /\ t \in Tabs /\ Start(t) \in Turns /\ Start(t).tab = tab[t] /\ Start(t).out = <<>>
  BY SoundTabs, Fresh DEF Start
<1> DEFINE p == Drained(Start(t), i)
           w == fail(p)
<1>2. p \in Turns /\ p.out = <<>> /\ p.tab.call = tab[t].call /\ Fewer(p.tab, tab[t])
  BY <1>1, Draining, DrainedLess DEF Less
<1> HIDE DEF p
<1>3. w = finish(IF p.tab.call.id # None THEN Say(p, Up("hangup", p.tab.call.id, FALSE, "ice_failed")) ELSE p) 
      /\ "ice_failed" \in Endings
  BY DEF fail, Endings
<1> HIDE DEF w
<1>4. Fits(t, w.tab, room, net.up[t] \o w.out, net.down[t], net.bus[t])
  BY <1>2, <1>3, Closes
<1> QED
  BY <1>4 DEF w, p

LEMMA DescriptionTurn == ASSUME ClientInv, AgreeInv, NEW t \in Tabs, DescriptionReady(t) PROVE AgreeInv'
<1>1. /\ Start(t) \in Turns /\ Start(t).tab = tab[t] /\ tab[t] \in TabRecs /\ Start(t).out = <<>>
  BY Fresh DEF Start
<1>2. PICK i \in DOMAIN tab[t].jobs :
        LET job == tab[t].jobs[i]
            u == [Drained(Start(t), i) EXCEPT !.tab.call.offer = @ /\ job.why # "accept"]
        IN /\ \/ Task(t, Announce(u, job), store[t], net) /\ misled' = Strays(t, job)
              \/ Task(t, fail(Drained(Start(t), i)), store[t], net) /\ UNCHANGED misled
           /\ UNCHANGED plan
  BY DEF DescriptionReady
<1> DEFINE job == tab[t].jobs[i]
           p == Drained(Start(t), i)
           b == job.why # "accept"
           u == [p EXCEPT !.tab.call.offer = @ /\ b]
           said == Announce(u, job)
           fails == fail(p)
<1>3. /\ \/ Task(t, said, store[t], net) /\ misled' = Strays(t, job)
         \/ Task(t, fails, store[t], net) /\ misled' = misled
      /\ UNCHANGED plan
  BY <1>2
<1>4. ASSUME t \in Sound PROVE Fits(t, fails.tab, room, net.up[t] \o fails.out, net.down[t], net.bus[t])
  BY <1>4, Failed
<1>5. /\ p \in Turns /\ p.out = <<>> /\ p.tab.call = tab[t].call /\ p.tab.timer = tab[t].timer
      /\ Less(p.tab, tab[t], job) /\ job \in JobRecs /\ b \in BOOLEAN
  BY <1>1, Draining, DrainedLess
<1>6. fails \in Turns
  BY <1>5, Failing
<1> HIDE DEF p, job, b, fails
<1>7. u \in Turns /\ u.out = <<>> /\ Same(u.tab, tab[t]) /\ Less(u.tab, tab[t], job)
  <2> DEFINE c == p.tab.call
  <2>1. u \in Turns
    BY <1>5, OfferKept
  <2>2. c \in CallRecs
    BY <1>5 DEF Turns, TabRecs
  <2>3. PICK o : u = [p EXCEPT !.tab = [p.tab EXCEPT !.call = [c EXCEPT !.offer = o]]]
    BY <1>5 DEF Turns, TabRecs
  <2> DEFINE d == [c EXCEPT !.offer = o]
  <2>4. d.state = c.state /\ d.dir = c.dir /\ d.id = c.id /\ d.people = c.people
    BY <2>2 DEF CallRecs
  <2>5. u.out = <<>> /\ u.tab.call = d /\ u.tab.timer = p.tab.timer /\ u.tab.jobs = p.tab.jobs
    BY ZenonT(60), <1>5, <2>3 DEF Turns, TabRecs
  <2> HIDE DEF d, c
  <2>6. d \in CallRecs
    BY <2>1, <2>5 DEF Turns, TabRecs
  <2>7. (d = NoCall) = (c = NoCall)
    BY <2>2, <2>4, <2>6, NoCallFits DEF CallRecs
  <2>8. Less(u.tab, tab[t], job)
    BY <1>5, <2>5 DEF Less, Fewer
  <2>9. Same(u.tab, tab[t])
    BY <1>5, <2>4, <2>5, <2>7 DEF Same, Dialling, c
  <2> QED
    BY <2>1, <2>5, <2>8, <2>9
<1> HIDE DEF u
<1>8. said \in Turns
  BY <1>5, <1>7, Announcing
<1>9. SamePlan
  BY <1>3 DEF SamePlan, ClientInv, Setting
<1>10. ASSUME t \in Sound, t \notin Strays(t, job) PROVE Fits(t, said.tab, room, net.up[t] \o said.out, net.down[t], net.bus[t])
  <2>1. job.why = "accept" => tab[t].call.id = job.id
    BY <1>10 DEF Strays
  <2> QED
    BY <1>5, <1>7, <1>10, <2>1, Announcement
<1>11. misled \subseteq Strays(t, job)
  BY DEF Strays
<1> HIDE DEF said
<1> QED
  BY <1>3, <1>4, <1>6, <1>8, <1>9, <1>10, <1>11, OwnTurn

LEMMA JobTurn == ASSUME ClientInv, AgreeInv, NEW t \in Tabs, JobFails(t) PROVE AgreeInv'
<1>1. /\ Start(t) \in Turns /\ Start(t).tab = tab[t] /\ tab[t] \in TabRecs /\ Start(t).out = <<>>
  BY Fresh DEF Start
<1>2. PICK i \in DOMAIN tab[t].jobs :
        LET job == tab[t].jobs[i]
            u == Drained(Start(t), i)
        IN /\ Spend(t, "faults") /\ Task(t, IF job.why = "join" THEN u ELSE fail(u), store[t], net)
           /\ UNCHANGED misled
  BY DEF JobFails
<1> DEFINE job == tab[t].jobs[i]
           u == Drained(Start(t), i)
           fails == fail(u)
<1>3. /\ \/ job.why = "join" /\ Task(t, u, store[t], net)
         \/ Task(t, fails, store[t], net)
      /\ misled' = misled /\ Spend(t, "faults")
  BY <1>2
<1>4. ASSUME t \in Sound PROVE Fits(t, fails.tab, room, net.up[t] \o fails.out, net.down[t], net.bus[t])
  BY <1>4, Failed
<1>5. /\ u \in Turns /\ u.out = <<>> /\ u.tab.call = tab[t].call /\ u.tab.timer = tab[t].timer
      /\ Less(u.tab, tab[t], job) /\ job \in JobRecs
  BY <1>1, Draining, DrainedLess
<1>6. fails \in Turns /\ SamePlan
  BY <1>3, <1>5, Failing, SpendsPlan DEF Presses
<1> HIDE DEF u, job, fails
<1>7. ASSUME t \in Sound, job.why = "join" PROVE Fits(t, u.tab, room, net.up[t] \o u.out, net.down[t], net.bus[t])
  <2>1. Announce(u, job) = u
    BY <1>7 DEF Announce
  <2> QED
    BY <1>5, <1>7, <2>1, SameCall, Announcement
<1> QED
  BY <1>3, <1>4, <1>5, <1>6, <1>7, OwnTurn

LEMMA MediaTurn == ASSUME ClientInv, AgreeInv, NEW t \in Tabs, MediaConnects(t) PROVE AgreeInv'
<1> DEFINE c == tab[t].call
           d == [c EXCEPT !.state = "active"]
           u == [Start(t) EXCEPT !.tab.call.state = "active"]
<1>1. /\ Start(t) \in Turns /\ Start(t).tab = tab[t] /\ tab[t] \in TabRecs /\ Start(t).out = <<>>
  BY Fresh DEF Start
<1>2. c.state = "connecting" /\ Task(t, u, store[t], net) /\ UNCHANGED plan /\ UNCHANGED misled
  BY DEF MediaConnects
<1>3. c \in CallRecs /\ c # NoCall
  BY <1>1, <1>2, NoCallFits DEF TabRecs
<1>4. u = [Start(t) EXCEPT !.tab = [tab[t] EXCEPT !.call = d]]
  BY <1>1 DEF Turns, TabRecs
<1>5. d \in CallRecs /\ d # NoCall /\ d.state = "active" /\ d.id = c.id /\ d.dir = c.dir /\ d.people = c.people
  BY <1>2, <1>3, NoCallFits DEF CallRecs
<1> HIDE DEF c, d, u
<1>6. u \in Turns /\ u.out = <<>> /\ u.tab.call = d /\ u.tab.timer = tab[t].timer /\ u.tab.jobs = tab[t].jobs
  BY <1>1, <1>3, <1>4, <1>5 DEF Turns, TabRecs, c
<1>7. SamePlan
  BY <1>2 DEF SamePlan, ClientInv, Setting
<1>8. ASSUME t \in Sound PROVE Fits(t, u.tab, room, net.up[t] \o u.out, net.down[t], net.bus[t])
  <2>1. Fits(t, tab[t], room, net.up[t], net.down[t], net.bus[t]) /\ net.up[t] \o u.out = net.up[t]
    BY <1>6, <1>8, SoundTabs, NothingSaid
  <2>2. OwnerOf[t] \in People
    BY <1>2, <1>3, <2>1 DEF Fits, Outside, Dialling, c
  <2> DEFINE v == tab[t]
             w == u.tab
  <2>3. Inside(t, v, room, net.up[t], net.down[t], net.bus[t])
    BY <2>1, <2>2 DEF Fits
  <2>4. Fewer(w, v) /\ \A j \in Range(v.jobs) : j.why # "join" => \E k \in Range(w.jobs) : k.why = j.why /\ k.id = j.id
    BY <1>6 DEF Fewer
  <2>5. /\ w.timer = v.timer /\ w.call.id = v.call.id /\ w.call.dir = v.call.dir /\ w.call.people = v.call.people
        /\ ((w.call = NoCall) = (v.call = NoCall)) /\ Within(w) = Within(v)
        /\ ((w.call.state = "ringing") = (v.call.state = "ringing"))
    BY <1>2, <1>3, <1>5, <1>6 DEF Within, c
  <2> HIDE DEF v, w
  <2>6. Inside(t, w, room, net.up[t], net.down[t], net.bus[t])
    BY <2>3, <2>4, <2>5, TabSame
  <2> QED
    BY <2>1, <2>2, <2>6 DEF Fits, w
<1> QED
  BY <1>2, <1>6, <1>7, <1>8, OwnTurn

(*-------------------------------------------------------------------------*)
(* A tab reads the first frame of its connection.                           *)

(* What all these lemmas are about.                                         *)
Reads1(t, u, q, D, B, f) ==
    /\ u \in Turns /\ u.out = <<>> /\ q \in Seq(Ups) /\ D \in Seq(Downs) /\ B \in Seq(Downs) /\ D # <<>>
    /\ f \in Downs /\ f = Head(D) /\ OwnerOf[t] \in Owners
    /\ Inside(t, u.tab, room, q, D, B)

LEMMA HeadOK ==
    ASSUME NEW t, NEW u, NEW q, NEW D, NEW B, NEW f, Reads1(t, u, q, D, B, f)
    PROVE  /\ u \in Turns /\ u.tab \in TabRecs /\ u.tab.call \in CallRecs /\ u.out = <<>> /\ q \in Seq(Ups) /\ q \o u.out = q
           /\ D \in Seq(Downs) /\ B \in Seq(Downs) /\ D # <<>> /\ f \in Downs /\ f = Head(D) /\ OwnerOf[t] \in Owners
           /\ Inside(t, u.tab, room, q, D, B) /\ FrameOK(t, room, f) /\ Born(room, f.id)
           /\ f.kind # "error" => f.id \in Calls /\ f.id # None
<1>1. /\ u \in Turns /\ u.out = <<>> /\ q \in Seq(Ups) /\ D \in Seq(Downs) /\ B \in Seq(Downs) /\ D # <<>>
      /\ f \in Downs /\ f = Head(D) /\ OwnerOf[t] \in Owners /\ Inside(t, u.tab, room, q, D, B)
  BY DEF Reads1
<1>2. f \in Range(D)
  BY <1>1, Heads
<1>3. FrameOK(t, room, f) /\ Born(room, f.id)
  BY <1>1, <1>2 DEF Inside, Stream, Known
<1>4. u.tab \in TabRecs /\ u.tab.call \in CallRecs
  BY <1>1 DEF Turns, TabRecs
<1>5. f.kind # "error" => f.id \in Calls /\ f.id # None
  BY <1>1, TabAssumption DEF Downs
<1>6. q \o u.out = q
  BY <1>1, NothingSaid
<1> QED
  BY <1>1, <1>3, <1>4, <1>5, <1>6

LEMMA ReadOn ==
    ASSUME NEW t, NEW u, NEW q, NEW D, NEW B, NEW f, Reads1(t, u, q, D, B, f),
           NEW w \in Turns, Inside(t, w.tab, room, q \o w.out, D, B),
           f.kind = "ringing" => w.tab.call.id = f.id,
           f.kind = "ended" /\ f.reason # "answered_elsewhere" => w.tab.call = NoCall \/ w.tab.call.id \notin {None, f.id},
           f.kind = "error" => IF f.reason = "call_gone" THEN ~w.tab.timer ELSE ~Dialling(w.tab.call)
    PROVE  Inside(t, w.tab, room, q \o w.out, Tail(D), B)
<1> DEFINE U == q \o w.out
           v == w.tab
<1>1. q \in Seq(Ups) /\ w.out \in Seq(Ups) /\ v \in TabRecs
  BY HeadOK DEF Turns
<1>2. U \in Seq(Ups)
  <2> DEFINE out == w.out
  <2>1. q \in Seq(Ups) /\ out \in Seq(Ups)
    BY <1>1
  <2> HIDE DEF out
  <2>2. q \o out \in Seq(Ups)
    BY <2>1
  <2> QED
    BY <2>2 DEF out
<1>3. /\ Inside(t, v, room, U, D, B)
      /\ f.kind = "ringing" => v.call.id = f.id
      /\ f.kind = "ended" /\ f.reason # "answered_elsewhere" => v.call = NoCall \/ v.call.id \notin {None, f.id}
      /\ f.kind = "error" => IF f.reason = "call_gone" THEN ~v.timer ELSE ~Dialling(v.call)
  OBVIOUS
<1>4. D \in Seq(Downs) /\ B \in Seq(Downs) /\ D # <<>> /\ f \in Downs /\ f = Head(D)
  BY HeadOK
<1> HIDE DEF U, v
<1>5. Inside(t, v, room, U, Tail(D), B)
  BY <1>1, <1>2, <1>3, <1>4, TabReads
<1> QED
  BY <1>5 DEF U, v

(* A frame that changes nothing.                                            *)
LEMMA ReadPast ==
    ASSUME NEW t, NEW u, NEW q, NEW D, NEW B, NEW f, Reads1(t, u, q, D, B, f), f.kind # "ringing",
           f.kind = "ended" /\ f.reason # "answered_elsewhere" => u.tab.call = NoCall \/ u.tab.call.id \notin {None, f.id},
           f.kind = "error" => IF f.reason = "call_gone" THEN ~u.tab.timer ELSE ~Dialling(u.tab.call)
    PROVE  Inside(t, u.tab, room, q \o u.out, Tail(D), B)
<1>1. u \in Turns /\ Inside(t, u.tab, room, q, D, B) /\ q \o u.out = q
  BY HeadOK
<1>2. Inside(t, u.tab, room, q \o u.out, D, B)
  BY <1>1
<1> QED
  BY <1>1, <1>2, ReadOn

(* A frame at which the dock closes without a word.                         *)
LEMMA ReadClosing ==
    ASSUME NEW t, NEW u, NEW q, NEW D, NEW B, NEW f, Reads1(t, u, q, D, B, f), f.kind \in {"ended", "error"},
           u.tab.call.id \in Calls /\ Lives(room, u.tab.call.id) => Leaves(q, u.tab.call.id), NEW w, w = finish(u)
    PROVE  /\ Inside(t, w.tab, room, q \o w.out, Tail(D), B)
           /\ Inside(t, w.tab, room, q \o w.out, D, B) /\ w \in Turns /\ w.tab.call = NoCall
<1>1. w \in Turns /\ w.tab.call = NoCall /\ ~w.tab.timer
  BY HeadOK, Finishing, FinishParts
<1>2. Inside(t, w.tab, room, q \o w.out, D, B)
  <2> DEFINE v == u.tab
  <2>1. /\ v \in TabRecs /\ u \in Turns /\ q \in Seq(Ups) /\ q \o u.out = q /\ Inside(t, v, room, q \o u.out, D, B)
        /\ Fewer(u.tab, v) /\ "" \in Endings
        /\ v.call.id \in Calls /\ Lives(room, v.call.id) => Leaves(q \o u.out, v.call.id)
    BY HeadOK, SameFewer DEF Endings
  <2> HIDE DEF v
  <2> QED
    BY <2>1, Quitting
<1>3. ~Dialling(w.tab.call)
  BY <1>1, NoCallFits DEF Dialling
<1> QED
  BY <1>1, <1>2, <1>3, ReadOn

LEMMA ReadRinging ==
    ASSUME NEW t, NEW u, NEW q, NEW D, NEW B, NEW f, Reads1(t, u, q, D, B, f), f.kind = "ringing", Dialling(u.tab.call),
           ~(IsGroup /\ (OwnerOf[t] \in room[f.id].dismissed \/ Quits(q, f.id))),
           NEW w \in Turns, w = onRinging(u, f)
    PROVE  Inside(t, w.tab, room, q \o w.out, Tail(D), B)
<1> DEFINE c == u.tab.call
           d == [c EXCEPT !.id = f.id, !.people = f.owners]
<1>1. /\ u \in Turns /\ u.tab \in TabRecs /\ c \in CallRecs /\ q \in Seq(Ups) /\ q \o u.out = q
      /\ D \in Seq(Downs) /\ B \in Seq(Downs) /\ D # <<>> /\ f \in Downs /\ f = Head(D) /\ Inside(t, u.tab, room, q, D, B)
  BY HeadOK
<1>2. c # NoCall /\ d.dir = "outgoing" /\ d.state = "ringing" /\ d.id = f.id
  BY <1>1, NoCallFits DEF Dialling, CallRecs
<1>3. w = [u EXCEPT !.tab.call = d]
  BY <1>2 DEF onRinging, Patch
<1> HIDE DEF d
<1>4. w.out = u.out /\ w.tab.call = d /\ w.tab.timer = u.tab.timer /\ w.tab.jobs = u.tab.jobs
  BY <1>1, <1>3 DEF Turns, TabRecs
<1> DEFINE v == u.tab
           x == w.tab
<1>5. /\ v \in TabRecs /\ Inside(t, v, room, q, D, B) /\ Dialling(v.call)
      /\ x.call.dir = "outgoing" /\ x.call.state = "ringing" /\ x.call.id = f.id
      /\ x.timer = v.timer /\ Range(x.jobs) = Range(v.jobs)
  BY <1>1, <1>2, <1>4
<1> HIDE DEF v, x, c
<1>6. Inside(t, x, room, q, D, B)
  BY <1>1, <1>5, TabNamed
<1>7. Inside(t, w.tab, room, q \o w.out, D, B) /\ w.tab.call.id = f.id
  BY <1>1, <1>4, <1>5, <1>6 DEF x
<1> QED
  BY <1>7, ReadOn

LEMMA ReadIncoming ==
    ASSUME NEW t, NEW u, NEW q, NEW D, NEW B, NEW f, Reads1(t, u, q, D, B, f), f.kind = "incoming", f.id # u.tab.call.id,
           ~(IsGroup /\ (OwnerOf[t] \in room[f.id].dismissed \/ Quits(q, f.id))),
           NEW w \in Turns, w = onIncoming(u, f, OwnerOf[t])
    PROVE  Inside(t, w.tab, room, q \o w.out, Tail(D), B)
<1> DEFINE c == u.tab.call
           d == Ringing(f)
           gives == finish(Say(u, Up("hangup", c.id, FALSE, "hangup")))
           busy == Up("hangup", f.id, FALSE, "busy")
<1>1. /\ u \in Turns /\ u.tab \in TabRecs /\ c \in CallRecs /\ q \in Seq(Ups) /\ q \o u.out = q
      /\ D \in Seq(Downs) /\ B \in Seq(Downs) /\ D # <<>> /\ f \in Downs /\ f = Head(D) /\ Inside(t, u.tab, room, q, D, B)
      /\ f.id \in Calls /\ f.id # None /\ Born(room, f.id)
  BY HeadOK
<1>2. d.dir = "incoming" /\ d.state = "ringing" /\ d.id = f.id /\ d.people = f.owners
  BY DEF Ringing, NoCall
<1>3. \/ c = NoCall /\ w = Patch(u, d)
      \/ w = Say(u, busy)
      \/ w = Patch(gives, d)
  BY DEF onIncoming
<1> HIDE DEF d
<1>4. SUFFICES Inside(t, w.tab, room, q \o w.out, D, B)
  BY <1>4, ReadOn
<1>5. ASSUME NEW p \in Turns, p.tab.call = NoCall, Inside(t, p.tab, room, q \o p.out, D, B), q \o p.out \in Seq(Ups),
             ~(IsGroup /\ (OwnerOf[t] \in room[f.id].dismissed \/ Quits(q \o p.out, f.id))), w = Patch(p, d)
      PROVE  Inside(t, w.tab, room, q \o w.out, D, B)
  <2>1. w.out = p.out /\ w.tab.call = d /\ w.tab.timer = p.tab.timer /\ w.tab.jobs = p.tab.jobs /\ p.tab \in TabRecs
    BY <1>5 DEF Patch, Turns, TabRecs
  <2> DEFINE v == p.tab
             x == w.tab
             U == q \o p.out
  <2>2. ~v.timer
    BY <1>5, NoCallFits DEF Inside, Habits
  <2>3. /\ v \in TabRecs /\ v.call = NoCall /\ Inside(t, v, room, U, D, B) /\ U \in Seq(Ups)
        /\ ~(IsGroup /\ (OwnerOf[t] \in room[f.id].dismissed \/ Quits(U, f.id)))
        /\ x.call.dir = "incoming" /\ x.call.state = "ringing" /\ x.call.id = f.id /\ x.call.people = f.owners
        /\ ~x.timer /\ Range(x.jobs) = Range(v.jobs)
    BY <1>2, <1>5, <2>1, <2>2
  <2> HIDE DEF v, x, U
  <2>4. Inside(t, x, room, U, D, B)
    BY <1>1, <2>3, TabRung
  <2> QED
    BY <2>1, <2>4 DEF x, U
<1>6. CASE c = NoCall /\ w = Patch(u, d)
  BY <1>1, <1>5, <1>6
<1>7. CASE w = Say(u, busy)
  <2>1. busy \in Ups /\ busy.kind = "hangup" /\ busy.id = f.id
    BY <1>1, Frames DEF Up
  <2> HIDE DEF busy
  <2>2. w.tab = u.tab /\ q \o w.out = Append(q, busy)
    BY <1>1, <1>7, <2>1, SaidLast
  <2> DEFINE v == u.tab
  <2>3. v \in TabRecs /\ Inside(t, v, room, q, D, B) /\ busy.id # v.call.id /\ busy.id # None /\ Born(room, busy.id)
    BY <1>1, <2>1
  <2> HIDE DEF v
  <2>4. Inside(t, v, room, Append(q, busy), D, B)
    BY <1>1, <2>1, <2>3, TabRefuses
  <2> QED
    BY <2>2, <2>4 DEF v
<1>8. CASE w = Patch(gives, d)
  <2> DEFINE v == u.tab
             bye == Up("hangup", c.id, FALSE, "hangup")
  <2>1. bye \in Ups /\ bye.kind = "hangup" /\ bye.id = c.id
    <3>1. c.id \in Calls \cup {None}
      BY <1>1 DEF CallRecs
    <3> QED
      BY <3>1, Frames DEF Up
  <2>2. v \in TabRecs /\ Inside(t, v, room, q \o u.out, D, B) /\ Fewer(u.tab, v) /\ "hangup" \in Endings /\ v.call.id = c.id
    BY <1>1, SameFewer DEF Endings
  <2>3. Inside(t, gives.tab, room, q \o gives.out, D, B)
    <3> HIDE DEF v
    <3>1. Inside(t, finish(Say(u, Up("hangup", v.call.id, FALSE, "hangup"))).tab, room,
                 q \o finish(Say(u, Up("hangup", v.call.id, FALSE, "hangup"))).out, D, B)
      BY <1>1, <2>2, Quitting
    <3> QED
      BY <2>2, <3>1
  <2> HIDE DEF bye
  <2>4. Say(u, bye) \in Turns /\ q \o Say(u, bye).out = Append(q, bye)
    BY SMTT(60), <1>1, <2>1, Saying, SaidLast
  <2>5. gives = finish(Say(u, bye))
    BY DEF bye
  <2>6. gives \in Turns /\ gives.tab.call = NoCall /\ gives.out = Say(u, bye).out
    BY <2>4, <2>5, Finishing, FinishParts
  <2>7. q \o gives.out = Append(q, bye)
    BY <2>4, <2>6
  <2>8. q \o gives.out \in Seq(Ups) /\ Range(q \o gives.out) = Range(q) \cup {bye}
    <3>1. Append(q, bye) \in Seq(Ups) /\ Range(Append(q, bye)) = Range(q) \cup {bye}
      BY <1>1, <2>1, Queues
    <3> QED
      BY <2>7, <3>1
  <2>9. Quits(q \o gives.out, f.id) => Quits(q, f.id)
    BY <2>1, <2>8 DEF Quits, Says
  <2> HIDE DEF gives
  <2> QED
    BY <1>5, <1>8, <2>3, <2>6, <2>8, <2>9
<1> QED
  BY <1>3, <1>6, <1>7, <1>8

LEMMA ReadAnswered ==
    ASSUME NEW t, NEW u, NEW q, NEW D, NEW B, NEW f, Reads1(t, u, q, D, B, f), f.kind = "answered",
           NEW w \in Turns, w = onAnswered(u, f), IsGroup /\ Dialling(u.tab.call) => Dialling(w.tab.call)
    PROVE  Inside(t, w.tab, room, q \o w.out, Tail(D), B)
<1> DEFINE c == u.tab.call
           d == [c EXCEPT !.state = "connecting", !.joined = @ \cup {f.from}]
<1>1. /\ u \in Turns /\ u.tab \in TabRecs /\ c \in CallRecs /\ q \in Seq(Ups) /\ q \o u.out = q
      /\ D \in Seq(Downs) /\ B \in Seq(Downs) /\ D # <<>> /\ f \in Downs /\ f = Head(D) /\ Inside(t, u.tab, room, q, D, B)
      /\ FrameOK(t, room, f)
  BY HeadOK
<1>2. CASE w = u
  BY <1>2, ReadPast
<1>3. CASE c # NoCall /\ c.id \in {None, f.id} /\ w = Patch(u, d)
  <2>1. d.state = "connecting" /\ d.id = c.id /\ d.dir = c.dir /\ d.people = c.people /\ d # NoCall
    BY <1>1, NoCallFits DEF CallRecs
  <2> HIDE DEF d
  <2>2. w.out = u.out /\ w.tab.call = d /\ w.tab.timer = u.tab.timer /\ w.tab.jobs = u.tab.jobs
    BY <1>1, <1>3 DEF Patch, Turns, TabRecs
  <2>3. OwnerOf[t] \in room[f.id].ever
    BY <1>1 DEF FrameOK
  <2> DEFINE v == u.tab
             x == w.tab
  <2>4. /\ v \in TabRecs /\ Inside(t, v, room, q, D, B) /\ v.call # NoCall /\ v.call.id \in {None, f.id}
        /\ x.call # NoCall /\ x.call.id = v.call.id /\ x.call.dir = v.call.dir /\ x.call.people = v.call.people
        /\ x.timer = v.timer /\ Within(x) /\ Range(x.jobs) = Range(v.jobs)
        /\ IsGroup /\ Dialling(v.call) => Dialling(x.call)
    BY <1>1, <1>3, <2>1, <2>2 DEF Within
  <2> HIDE DEF v, x
  <2>5. Inside(t, x, room, q, D, B)
    BY <1>1, <2>3, <2>4, TabNews
  <2>6. Inside(t, w.tab, room, q \o w.out, D, B)
    BY <1>1, <2>2, <2>5 DEF x
  <2> QED
    BY <2>6, ReadOn
<1> QED
  BY <1>2, <1>3 DEF onAnswered

LEMMA PartakingParts ==
    ASSUME NEW u \in Turns, NEW f \in Downs, NEW me, NEW w, w = onParticipant(u, f, me), w # u
    PROVE  /\ u.tab.call # NoCall /\ u.tab.call.id \in {None, f.id}
           /\ w.out = u.out /\ w.tab.call # NoCall /\ w.tab.call.id = u.tab.call.id
           /\ w.tab.call.dir = u.tab.call.dir /\ w.tab.call.people = u.tab.call.people /\ w.tab.jobs = u.tab.jobs
           /\ \/ w.tab.timer = u.tab.timer /\ w.tab.call.state = u.tab.call.state
              \/ /\ me \in f.owners /\ ~w.tab.timer
                 /\ \/ w.tab.call.state = u.tab.call.state
                    \/ w.tab.call.state = "connecting" /\ u.tab.call.state = "ringing"
<1> DEFINE c == u.tab.call
           sees == [c EXCEPT !.joined = f.owners]
           seen == Patch(u, sees)
           now == IF f.owners # {me} /\ sees.state = "ringing" THEN "connecting" ELSE sees.state
           told == [seen EXCEPT !.tab.timer = FALSE,
                                !.tab.call.state = IF f.owners # {me} /\ @ = "ringing" THEN "connecting" ELSE @]
<1>1. u.tab \in TabRecs /\ c \in CallRecs
  BY DEF Turns, TabRecs
<1>2. c # NoCall /\ c.id \in {None, f.id} /\ (w = seen \/ (me \in f.owners /\ w = told))
  BY DEF onParticipant
<1>3. c.state # "none"
  BY <1>1, <1>2 DEF CallRecs
<1>4. /\ sees.id = c.id /\ sees.dir = c.dir /\ sees.people = c.people /\ sees.state = c.state
      /\ sees \in [state : CallStates, dir : {"none", "outgoing", "incoming"}, id : Calls \cup {None},
            people : SUBSET Owners, joined : SUBSET Owners, offer : BOOLEAN]
  BY <1>1 DEF CallRecs, Downs, DownType
<1>5. seen = [u EXCEPT !.tab = [u.tab EXCEPT !.call = sees]]
  BY <1>1 DEF Patch, Turns, TabRecs
<1> HIDE DEF sees
<1>6. seen.out = u.out /\ seen.tab = [u.tab EXCEPT !.call = sees] /\ seen.tab.call = sees
  BY <1>1, <1>5 DEF Turns, TabRecs
<1>7. told = [u EXCEPT !.tab = [u.tab EXCEPT !.timer = FALSE, !.call = [sees EXCEPT !.state = now]]]
  BY ZenonT(60), <1>1, <1>5, <1>6 DEF Turns, TabRecs
<1> HIDE DEF told, seen
<1> DEFINE d == [sees EXCEPT !.state = now]
<1>8. d.id = c.id /\ d.dir = c.dir /\ d.people = c.people /\ d.state = now
  BY <1>4
<1>9. now = c.state \/ (now = "connecting" /\ c.state = "ringing")
  BY <1>4
<1> HIDE DEF d, now
<1>10. d # NoCall /\ sees # NoCall
  BY <1>3, <1>4, <1>8, <1>9, NoCallFits
<1>11. CASE w = seen
  <2>1. w.out = u.out /\ w.tab.call = sees /\ w.tab.timer = u.tab.timer /\ w.tab.jobs = u.tab.jobs
    BY <1>1, <1>6, <1>11 DEF TabRecs
  <2> QED
    BY <1>2, <1>4, <1>10, <2>1
<1>12. CASE me \in f.owners /\ w = told
  <2>1. told = [u EXCEPT !.tab = [u.tab EXCEPT !.timer = FALSE, !.call = d]]
    BY <1>7 DEF d
  <2>2. u = [u EXCEPT !.tab = u.tab] /\ w.out = u.out /\ w.tab = [u.tab EXCEPT !.timer = FALSE, !.call = d]
    BY <1>12, <2>1 DEF Turns
  <2>3. w.tab.call = d /\ ~w.tab.timer /\ w.tab.jobs = u.tab.jobs
    BY <1>1, <2>2 DEF TabRecs
  <2> QED
    BY <1>2, <1>8, <1>9, <1>10, <1>12, <2>2, <2>3
<1> QED
  BY <1>2, <1>11, <1>12

LEMMA ReadParticipant ==
    ASSUME NEW t, NEW u, NEW q, NEW D, NEW B, NEW f, Reads1(t, u, q, D, B, f), f.kind = "participant",
           NEW w \in Turns, w = onParticipant(u, f, OwnerOf[t]), IsGroup /\ Dialling(u.tab.call) => Dialling(w.tab.call)
    PROVE  Inside(t, w.tab, room, q \o w.out, Tail(D), B)
<1> DEFINE c == u.tab.call
           me == OwnerOf[t]
           v == u.tab
           x == w.tab
<1>1. /\ u \in Turns /\ u.tab \in TabRecs /\ c \in CallRecs /\ q \in Seq(Ups) /\ q \o u.out = q
      /\ D \in Seq(Downs) /\ B \in Seq(Downs) /\ D # <<>> /\ f \in Downs /\ f = Head(D) /\ Inside(t, u.tab, room, q, D, B)
      /\ FrameOK(t, room, f)
  BY HeadOK
<1>2. CASE w = u
  BY <1>2, ReadPast
<1>3. CASE w # u
  <2>1. /\ v.call # NoCall /\ v.call.id \in {None, f.id}
        /\ w.out = u.out /\ x.call # NoCall /\ x.call.id = v.call.id
        /\ x.call.dir = v.call.dir /\ x.call.people = v.call.people /\ x.jobs = v.jobs
        /\ \/ x.timer = v.timer /\ x.call.state = v.call.state
           \/ /\ me \in f.owners /\ ~x.timer
              /\ \/ x.call.state = v.call.state
                 \/ x.call.state = "connecting" /\ v.call.state = "ringing"
    BY <1>1, <1>3, PartakingParts
  <2>2. v \in TabRecs /\ Inside(t, v, room, q, D, B) /\ (IsGroup /\ Dialling(v.call) => Dialling(x.call)) /\ v.call.state # "none"
        /\ v.call.state \in CallStates
    BY <1>1, <2>1 DEF CallRecs
  <2>3. x = w.tab /\ q \o w.out = q
    BY <1>1, <2>1
  <2> HIDE DEF v, x
  <2>4. Inside(t, w.tab, room, q \o w.out, D, B)
    <3>1. CASE x.timer = v.timer /\ x.call.state = v.call.state
      <4>1. Fewer(x, v) /\ \A j \in Range(v.jobs) : j.why # "join" => \E k \in Range(x.jobs) : k.why = j.why /\ k.id = j.id
        BY <2>1 DEF Fewer
      <4>2. Inside(t, x, room, q, D, B)
        BY <2>1, <2>2, <3>1, <4>1, TabSame DEF Within
      <4> QED
        BY <2>3, <4>2
    <3>2. CASE /\ me \in f.owners /\ ~x.timer
               /\ \/ x.call.state = v.call.state
                  \/ x.call.state = "connecting" /\ v.call.state = "ringing"
      <4>1. OwnerOf[t] \in room[f.id].ever
        BY <1>1, <3>2 DEF FrameOK
      <4>2. (Within(v) => Within(x)) /\ ((x.call.state = "ringing" /\ v.call.state = "ringing") \/ Within(x))
        BY <2>2, <3>2 DEF Within
      <4>3. Inside(t, x, room, q, D, B)
        BY <1>1, <2>1, <2>2, <3>2, <4>1, <4>2, TabNews
      <4> QED
        BY <2>3, <4>3
    <3> QED
      BY <2>1, <3>1, <3>2
  <2>5. f.kind # "error"
    OBVIOUS
  <2> QED
    BY <1>1, <2>4, ReadOn
<1> QED
  BY <1>2, <1>3

LEMMA ReadEnded ==
    ASSUME NEW t, NEW u, NEW q, NEW D, NEW B, NEW f, Reads1(t, u, q, D, B, f), f.kind = "ended",
           NEW w \in Turns, w = onEnded(u, f)
    PROVE  Inside(t, w.tab, room, q \o w.out, Tail(D), B)
<1> DEFINE v == u.tab
           c == v.call
           elsewhere == f.reason = "answered_elsewhere"
<1>1. /\ u \in Turns /\ v \in TabRecs /\ c \in CallRecs /\ q \in Seq(Ups) /\ q \o u.out = q
      /\ D \in Seq(Downs) /\ B \in Seq(Downs) /\ D # <<>> /\ f \in Downs /\ f = Head(D) /\ Inside(t, v, room, q, D, B)
      /\ FrameOK(t, room, f) /\ f.id \in Calls
  BY HeadOK
<1>2. \/ w = u /\ (elsewhere \/ c = NoCall \/ c.id \notin {None, f.id})
      \/ w = finish(u) /\ c.id \in {None, f.id} /\ (elsewhere => v.timer \/ c.state = "ringing")
  BY DEF onEnded, abandonJoin
<1>3. CASE w = u /\ (elsewhere \/ c = NoCall \/ c.id \notin {None, f.id})
  BY <1>3, ReadPast
<1>4. CASE w = finish(u) /\ c.id \in {None, f.id} /\ (elsewhere => v.timer \/ c.state = "ringing")
  <2>1. ASSUME c.id \in Calls, Lives(room, c.id) PROVE Leaves(q, c.id)
    <3>1. c.id = f.id
      BY <1>4, <2>1, TabAssumption
    <3>2. elsewhere /\ ~IsGroup
      BY <1>1, <2>1, <3>1 DEF FrameOK, Lives
    <3>3. f \in Range(D) /\ Elsewhere(f, f.id)
      BY <1>1, <3>2, Heads DEF Elsewhere
    <3>4. Quit(t, room, q, c.id) \/ (Within(v) /\ ~v.timer)
      BY <1>1, <2>1, <3>1, <3>3 DEF Inside, Once
    <3>5. Quits(q, c.id)
      BY <1>4, <3>2, <3>4 DEF Quit, Within
    <3> QED
      BY <1>1, <3>2, <3>5, LeavingSays
  <2> QED
    BY <1>4, <2>1, ReadClosing
<1> QED
  BY <1>2, <1>3, <1>4

LEMMA ReadError ==
    ASSUME NEW t, NEW u, NEW q, NEW D, NEW B, NEW f, Reads1(t, u, q, D, B, f), f.kind = "error",
           ~(f.reason = "call_gone" /\ u.tab.timer /\ Live(u.tab.call.id)),
           NEW w \in Turns, w = onServerError(u, f)
    PROVE  Inside(t, w.tab, room, q \o w.out, Tail(D), B)
<1> DEFINE v == u.tab
           c == v.call
           code == f.reason
<1>1. /\ u \in Turns /\ v \in TabRecs /\ c \in CallRecs /\ q \in Seq(Ups) /\ q \o u.out = q
      /\ D \in Seq(Downs) /\ B \in Seq(Downs) /\ D # <<>> /\ f \in Downs /\ f = Head(D) /\ Inside(t, v, room, q, D, B)
      /\ FrameOK(t, room, f) /\ Born(room, f.id)
  BY HeadOK
<1>2. code \in Codes /\ (code = "call_exists" => f.id \in Calls) /\ (c = NoCall => ~v.timer)
  BY <1>1, NoCallFits DEF FrameOK, Downs, Inside, Habits
<1>3. \/ w = u /\ (IF code = "call_gone" THEN ~v.timer ELSE ~Dialling(c))
      \/ w = finish(u) /\ code = "call_gone" /\ v.timer
      \/ w = finish(u) /\ Dialling(c)
      \/ code = "call_exists" /\ Dialling(c) /\ w = joinOngoing(finish(u), f.id, c.people)
  BY <1>2, NoCallFits DEF onServerError, abandonJoin, Codes, Dialling
<1>4. CASE w = u /\ (IF code = "call_gone" THEN ~v.timer ELSE ~Dialling(c))
  BY <1>4, ReadPast
<1>5. CASE w = finish(u) /\ code = "call_gone" /\ v.timer
  <2>1. ~Lives(room, c.id)
    BY <1>5 DEF Live, Lives
  <2> QED
    BY <1>5, <2>1, ReadClosing
<1>6. CASE w = finish(u) /\ Dialling(c)
  <2>1. c.id \notin Calls
    BY <1>6, TabAssumption DEF Dialling
  <2> QED
    BY <1>6, <2>1, ReadClosing
<1>7. CASE code = "call_exists" /\ Dialling(c) /\ w = joinOngoing(finish(u), f.id, c.people)
  <2> DEFINE p == finish(u)
  <2>1. c.id \notin Calls /\ c.people \in SUBSET Owners
    BY <1>1, <1>7, TabAssumption DEF Dialling, CallRecs
  <2>2. Inside(t, p.tab, room, q \o p.out, D, B) /\ p \in Turns /\ p.tab.call = NoCall
    BY <2>1, ReadClosing
  <2>3. f.id \in Calls /\ w = joinOngoing(p, f.id, c.people)
    BY <1>2, <1>7
  <2> HIDE DEF p, c
  <2>4. Inside(t, w.tab, room, q \o w.out, D, B)
    BY <1>1, <2>1, <2>2, <2>3, Entering
  <2>5. w.tab.call.state = "connecting"
    BY <2>1, <2>2, <2>3, JoinParts
  <2>6. ~Dialling(w.tab.call) /\ code # "call_gone"
    BY <1>7, <2>5 DEF Dialling
  <2> QED
    BY <2>4, <2>6, ReadOn
<1> QED
  BY <1>3, <1>4, <1>5, <1>6, <1>7

LEMMA ReadOutside ==
    ASSUME NEW t, NEW u \in Turns, u.out = <<>>, NEW q \in Seq(Ups), NEW D \in Seq(Downs), D # <<>>, NEW B,
           Outside(t, u.tab, room, q, D, B),
           NEW f, f = Head(D), NEW w, w = onFrame(u, f, OwnerOf[t])
    PROVE  Outside(t, w.tab, room, q \o w.out, Tail(D), B)
<1>1. Range(D) = Range(Tail(D)) \cup {f} /\ q \o <<>> = q
  BY Heads, NothingSaid
<1>2. f = Error("forbidden", None)
  BY <1>1 DEF Outside
<1>3. f.kind = "error" /\ f.reason = "forbidden"
  BY <1>2 DEF Error, Down
<1>4. w = onServerError(u, f)
  BY <1>3 DEF onFrame
<1>5. w.tab.call = NoCall /\ w.out = u.out /\ ~w.tab.timer /\ Fewer(w.tab, u.tab)
  <2>1. CASE u.tab.call = NoCall
    BY <1>4, <2>1, SameFewer DEF onServerError, Outside
  <2>2. CASE u.tab.call # NoCall
    <3>1. Dialling(u.tab.call)
      BY <2>2 DEF Outside
    <3>2. w = finish(u)
      BY <1>3, <1>4, <2>2, <3>1 DEF onServerError
    <3> QED
      BY <3>2, FinishParts
  <2> QED
    BY <2>1, <2>2
<1>6. Outside(t, w.tab, room, q, Tail(D), B)
  BY <1>1, <1>5 DEF Outside, Fewer
<1> QED
  BY <1>1, <1>5, <1>6

LEMMA ReceiveTurn == ASSUME ClientInv, AgreeInv, NEW t \in Tabs, Receive(t) PROVE AgreeInv'
<1> DEFINE f == Head(net.down[t])
           u == Start(t)
           w == onFrame(u, f, OwnerOf[t])
           s == applyFrame(t, store[t], f)
           n == [net EXCEPT !.down[t] = Tail(@)]
           D == net.down[t]
           B == net.bus[t]
           q == net.up[t]
<1>1. /\ D # <<>> /\ Task(t, w, s, n) /\ UNCHANGED plan
      /\ misled' = IF Misleads(t, f) THEN misled \cup {t} ELSE misled
  BY DEF Receive
<1>2. /\ net \in Nets /\ D \in Seq(Downs) /\ B \in Seq(Downs) /\ q \in Seq(Ups) /\ OwnerOf[t] \in Owners
      /\ u \in Turns /\ u.tab = tab[t] /\ u.out = <<>>
  BY TabAssumption, Fresh DEF ClientInv, Setting, Nets, Start
<1>3. f \in Downs /\ Tail(D) \in Seq(Downs)
  BY <1>1, <1>2, Heads
<1>4. /\ n \in Nets /\ n.bus = net.bus /\ n.up = net.up /\ n.down[t] = Tail(D)
      /\ \A x \in Tabs \ {t} : n.down[x] = net.down[x]
  BY <1>2, <1>3 DEF Nets
<1>5. w \in Turns
  BY <1>2, <1>3, Hearing
<1>6. SamePlan
  BY <1>1 DEF SamePlan, ClientInv, Setting
<1>7. misled \subseteq misled' /\ (t \notin misled' => ~Misleads(t, f))
  BY <1>1
<1> HIDE DEF f, n, s
<1>8. ASSUME t \in Sound, ~Misleads(t, f) PROVE Fits(t, w.tab, room, q \o w.out, Tail(D), B)
  <2>1. Fits(t, u.tab, room, q, D, B)
    BY <1>2, <1>8, SoundTabs
  <2>2. CASE OwnerOf[t] \notin People
    <3>1. Outside(t, u.tab, room, q, D, B)
      BY <2>1, <2>2 DEF Fits
    <3>2. Outside(t, w.tab, room, q \o w.out, Tail(D), B)
      BY <1>1, <1>2, <3>1, ReadOutside DEF f
    <3> QED
      BY <2>2, <3>2 DEF Fits
  <2>3. CASE OwnerOf[t] \in People
    <3>1. Reads1(t, u, q, D, B, f)
      BY <1>1, <1>2, <1>3, <2>1, <2>3 DEF Fits, Reads1, f
    <3>2. /\ f.kind = "ringing" => Dialling(u.tab.call)
          /\ f.kind = "incoming" => f.id # u.tab.call.id
          /\ f.kind \in {"ringing", "incoming"} => ~Left(t, f.id)
          /\ ~(f.kind = "error" /\ f.reason = "call_gone" /\ u.tab.timer /\ Live(u.tab.call.id))
          /\ f.kind \in {"answered", "participant"} /\ IsGroup /\ Dialling(u.tab.call) => Dialling(w.tab.call)
      BY <1>2, <1>8 DEF Misleads
    <3>3. f.kind \in {"ringing", "incoming"} => ~(IsGroup /\ (OwnerOf[t] \in room[f.id].dismissed \/ Quits(q, f.id)))
      BY <3>2 DEF Left, Quits, Says, Range
    <3> HIDE DEF u, q, D, B
    <3>4. CASE f.kind = "ringing"
      <4>1. w = onRinging(u, f)
        BY <3>4 DEF onFrame
      <4> HIDE DEF w
      <4> QED
        BY <1>5, <2>3, <3>1, <3>2, <3>3, <3>4, <4>1, ReadRinging DEF Fits
    <3>5. CASE f.kind = "incoming"
      <4>1. w = onIncoming(u, f, OwnerOf[t])
        BY <3>5 DEF onFrame
      <4> HIDE DEF w
      <4> QED
        BY <1>5, <2>3, <3>1, <3>2, <3>3, <3>5, <4>1, ReadIncoming DEF Fits
    <3>6. CASE f.kind = "answered"
      <4>1. w = onAnswered(u, f)
        BY <3>6 DEF onFrame
      <4> HIDE DEF w
      <4> QED
        BY <1>5, <2>3, <3>1, <3>2, <3>6, <4>1, ReadAnswered DEF Fits
    <3>7. CASE f.kind = "participant"
      <4>1. w = onParticipant(u, f, OwnerOf[t])
        BY <3>7 DEF onFrame
      <4> HIDE DEF w
      <4> QED
        BY <1>5, <2>3, <3>1, <3>2, <3>7, <4>1, ReadParticipant DEF Fits
    <3>8. CASE f.kind = "ended"
      <4>1. w = onEnded(u, f)
        BY <3>8 DEF onFrame
      <4> HIDE DEF w
      <4> QED
        BY <1>5, <2>3, <3>1, <3>8, <4>1, ReadEnded DEF Fits
    <3>9. CASE f.kind = "error"
      <4>1. w = onServerError(u, f)
        BY <3>9 DEF onFrame
      <4> HIDE DEF w
      <4> QED
        BY <1>5, <2>3, <3>1, <3>2, <3>9, <4>1, ReadError DEF Fits
    <3>10. f.kind \in {"ringing", "incoming", "answered", "participant", "ended", "error"}
      BY <1>3 DEF Downs, DownType
    <3> QED
      BY <3>4, <3>5, <3>6, <3>7, <3>8, <3>9, <3>10
  <2> QED
    BY <2>2, <2>3
<1>9. t \in Sound \ misled' => Fits(t, w.tab, room, net.up[t] \o w.out, n.down[t], net.bus[t])
  BY <1>4, <1>7, <1>8
<1> HIDE DEF w
<1> QED
  BY <1>1, <1>4, <1>5, <1>6, <1>7, <1>9, Turned

(*-------------------------------------------------------------------------*)
(* The steps of the room, over w = [room, net]: the frames a tab has sent   *)
(* are those of before the step, `up` is what is left of them.              *)

Agreed(w, up) ==
    /\ w \in Worlds /\ w.net.up = up /\ Records(w.room)
    /\ \A t \in Sound : Fits(t, tab[t], w.room, net.up[t], w.net.down[t], w.net.bus[t])

LEMMA OnTheWay ==
    ASSUME ClientInv, AgreeInv, NEW w, NEW up, Agreed(w, up), NEW t \in Sound
    PROVE  /\ t \in Tabs /\ t \in conn /\ t \in plan.tabs /\ closing[t] = {} /\ OwnerOf[t] \in Owners
           /\ tab[t] \in TabRecs /\ net.up[t] \in Seq(Ups) /\ w.net.down[t] \in Seq(Downs) /\ w.net.bus[t] \in Seq(Downs)
           /\ Fits(t, tab[t], w.room, net.up[t], w.net.down[t], w.net.bus[t])
<1>1. t \in Tabs
  BY SoundTabs
<1> QED
  BY <1>1, SoundTabs, TabAssumption DEF Agreed, Worlds, Nets

LEMMA ToTabParts ==
    ASSUME NEW w \in Worlds, NEW t \in Tabs, NEW f \in Downs, NEW x, x = ToTab(w, t, f)
    PROVE  /\ x \in Worlds /\ x.room = w.room /\ x.net.up = w.net.up /\ x.net.bus = w.net.bus
           /\ x.net.down[t] = Append(w.net.down[t], f)
           /\ \A y \in Tabs : y # t => x.net.down[y] = w.net.down[y]
<1> DEFINE d == [w.net.down EXCEPT ![t] = Append(@, f)]
           n == [w.net EXCEPT !.down = d]
<1>1. w.net \in Nets /\ w.net.down \in [Tabs -> Seq(Downs)] /\ w.room \in Rooms
  BY DEF Worlds, Nets
<1>2. x = [w EXCEPT !.net = n]
  BY <1>1 DEF ToTab, Worlds, Nets
<1>3. d \in [Tabs -> Seq(Downs)] /\ d[t] = Append(w.net.down[t], f) /\ \A y \in Tabs : y # t => d[y] = w.net.down[y]
  BY <1>1, Queued
<1> HIDE DEF d
<1>4. n \in Nets /\ n.down = d /\ n.bus = w.net.bus /\ n.up = w.net.up
  BY <1>1, <1>3 DEF Nets
<1> HIDE DEF n
<1>5. x \in Worlds /\ x.room = w.room /\ x.net = n
  BY <1>1, <1>2, <1>4 DEF Worlds
<1> QED
  BY <1>3, <1>4, <1>5

LEMMA ToOwnersParts ==
    ASSUME NEW w \in Worlds, NEW owners, NEW f \in Downs, NEW x, x = ToOwners(w, owners, f)
    PROVE  /\ x \in Worlds /\ x.room = w.room /\ x.net.up = w.net.up /\ x.net.down = w.net.down
           /\ \A y \in Tabs : x.net.bus[y] = IF y \in conn /\ OwnerOf[y] \in owners THEN Append(w.net.bus[y], f)
                                             ELSE w.net.bus[y]
<1> DEFINE b == [y \in Tabs |-> IF y \in conn /\ OwnerOf[y] \in owners THEN Append(w.net.bus[y], f) ELSE w.net.bus[y]]
           n == [w.net EXCEPT !.bus = b]
<1>1. w.net \in Nets /\ w.net.bus \in [Tabs -> Seq(Downs)] /\ w.room \in Rooms
  BY DEF Worlds, Nets
<1>2. x = [w EXCEPT !.net = n]
  BY <1>1 DEF ToOwners, Worlds, Nets
<1>3. b \in [Tabs -> Seq(Downs)]
  BY <1>1, Queued
<1>4. \A y \in Tabs : b[y] = IF y \in conn /\ OwnerOf[y] \in owners THEN Append(w.net.bus[y], f) ELSE w.net.bus[y]
  OBVIOUS
<1> HIDE DEF b
<1>5. n \in Nets /\ n.bus = b /\ n.down = w.net.down /\ n.up = w.net.up
  BY <1>1, <1>3 DEF Nets
<1> HIDE DEF n
<1>6. x \in Worlds /\ x.room = w.room /\ x.net = n
  BY <1>1, <1>2, <1>5 DEF Worlds
<1> QED
  BY <1>4, <1>5, <1>6

Altered(w, c, r) == [w EXCEPT !.room = [w.room EXCEPT ![c] = r]]
LEMMA RoomParts ==
    ASSUME NEW w \in Worlds, NEW c \in Calls, NEW r \in RoomRecs, NEW x, x = Altered(w, c, r)
    PROVE  x \in Worlds /\ x.net = w.net /\ x.room[c] = r /\ \A d \in Calls : d # c => x.room[d] = w.room[d]
<1> DEFINE rm == [w.room EXCEPT ![c] = r]
<1>1. w.room \in Rooms /\ w.net \in Nets
  BY DEF Worlds
<1>2. rm \in Rooms /\ rm[c] = r /\ \A d \in Calls : d # c => rm[d] = w.room[d]
  BY <1>1 DEF Rooms
<1> HIDE DEF rm
<1>3. x \in Worlds /\ x.net = w.net /\ x.room = rm
  BY <1>1, <1>2 DEF Worlds, rm, Altered
<1> QED
  BY <1>2, <1>3

(* A refusal, to a tab.                                                     *)
LEMMA Refuses ==
    ASSUME ClientInv, AgreeInv, NEW w, NEW up, Agreed(w, up), NEW t \in Tabs, NEW f \in Downs,
           t \in Sound => /\ f.kind = "error" /\ f.reason \in Codes /\ Born(w.room, f.id)
                          /\ (OwnerOf[t] \notin People => f = Error("forbidden", None)),
           NEW x, x = ToTab(w, t, f)
    PROVE  Agreed(x, up) /\ x.room = w.room /\ f \in Range(x.net.down[t])
<1>1. /\ w \in Worlds /\ x \in Worlds /\ x.room = w.room /\ x.net.up = w.net.up /\ x.net.bus = w.net.bus
      /\ x.net.down[t] = Append(w.net.down[t], f)
      /\ \A y \in Tabs : y # t => x.net.down[y] = w.net.down[y]
  BY ToTabParts DEF Agreed
<1>2. w.net.down[t] \in Seq(Downs)
  BY <1>1 DEF Worlds, Nets
<1>3. f \in Range(x.net.down[t]) /\ Range(x.net.down[t]) = Range(w.net.down[t]) \cup {f}
  BY <1>1, <1>2, Queues
<1>4. ASSUME NEW y \in Sound
      PROVE  Fits(y, tab[y], x.room, net.up[y], x.net.down[y], x.net.bus[y])
  <2> DEFINE rm == w.room
             U == net.up[y]
             D == w.net.down[y]
             B == w.net.bus[y]
  <2>1. y \in Tabs /\ D \in Seq(Downs) /\ B \in Seq(Downs) /\ U \in Seq(Ups) /\ Fits(y, tab[y], rm, U, D, B)
    BY OnTheWay
  <2>2. CASE y # t
    BY <1>1, <2>1, <2>2
  <2>3. CASE y = t
    <3>1. /\ f.kind = "error" /\ f.reason \in Codes /\ Born(rm, f.id) /\ (OwnerOf[y] \notin People => f = Error("forbidden", None))
          /\ x.net.down[y] = Append(D, f) /\ x.net.bus[y] = B /\ x.room = rm
      BY <1>1, <1>4, <2>3
    <3> HIDE DEF U, D, B, rm
    <3>2. CASE OwnerOf[y] \notin People
      <4>1. Outside(y, tab[y], rm, U, D, B) /\ Range(Append(D, f)) = Range(D) \cup {f} /\ f = Error("forbidden", None)
        BY <2>1, <3>1, <3>2, Queues DEF Fits
      <4>2. Dials(tab[y], U, D) => Dials(tab[y], U, Append(D, f))
        BY <4>1 DEF Dials
      <4>3. Outside(y, tab[y], rm, U, Append(D, f), B)
        BY <4>1, <4>2 DEF Outside
      <4> QED
        BY <3>1, <3>2, <4>3 DEF Fits, U
    <3>3. CASE OwnerOf[y] \in People
      <4>1. Inside(y, tab[y], rm, U, D, B) /\ Range(Append(D, f)) = Range(D) \cup {f}
        BY <2>1, <3>3, Queues DEF Fits
      <4>2. FrameOK(y, rm, f) /\ (\A c : ~Elsewhere(f, c)) /\ f.kind \notin Tidings
        BY <3>1 DEF FrameOK, Elsewhere, Tidings
      <4>3. Order(rm, Append(D, f), B)
        BY <2>1, <3>1, <4>1, <4>2, InTimeLater, RingsLast DEF Inside, Order
      <4>4. \A g \in Range(B) : g.kind \in News
        BY <4>1 DEF Inside, Stream
      <4>5. Inside(y, tab[y], rm, U, Append(D, f), B)
        BY <3>1, <4>1, <4>2, <4>3, <4>4, Delivered
      <4> QED
        BY <3>1, <3>3, <4>5 DEF Fits, U
    <3> QED
      BY <3>2, <3>3
  <2> QED
    BY <2>2, <2>3
<1> QED
  BY <1>1, <1>3, <1>4 DEF Agreed

(* News, to people of the conversation.                                     *)
LEMMA Proclaims ==
    ASSUME ClientInv, AgreeInv, NEW w, NEW up, Agreed(w, up), NEW owners, NEW f \in Downs,
           f.kind \in News, f.kind \in Tidings => Lives(w.room, f.id), Born(w.room, f.id),
           \A t \in Sound : OwnerOf[t] \in owners =>
              /\ OwnerOf[t] \in People /\ FrameOK(t, w.room, f)
              /\ \A c \in Calls : Elsewhere(f, c) /\ Lives(w.room, c) =>
                    Quit(t, w.room, net.up[t], c) \/ (tab[t].call.id = c /\ Within(tab[t]) /\ ~tab[t].timer),
           NEW x, x = ToOwners(w, owners, f)
    PROVE  Agreed(x, up) /\ x.room = w.room /\ x.net.down = w.net.down
<1>1. /\ w \in Worlds /\ x \in Worlds /\ x.room = w.room /\ x.net.up = w.net.up /\ x.net.down = w.net.down
      /\ \A y \in Tabs : x.net.bus[y] = IF y \in conn /\ OwnerOf[y] \in owners THEN Append(w.net.bus[y], f)
                                        ELSE w.net.bus[y]
  BY ToOwnersParts DEF Agreed
<1>2. ASSUME NEW y \in Sound
      PROVE  Fits(y, tab[y], x.room, net.up[y], x.net.down[y], x.net.bus[y])
  <2> DEFINE rm == w.room
             U == net.up[y]
             D == w.net.down[y]
             B == w.net.bus[y]
  <2>1. y \in Tabs /\ y \in conn /\ D \in Seq(Downs) /\ B \in Seq(Downs) /\ U \in Seq(Ups) /\ Fits(y, tab[y], rm, U, D, B)
    BY OnTheWay
  <2>2. CASE OwnerOf[y] \notin owners
    BY <1>1, <2>1, <2>2
  <2>3. CASE OwnerOf[y] \in owners
    <3>1. /\ OwnerOf[y] \in People /\ FrameOK(y, rm, f)
          /\ \A c \in Calls : Elsewhere(f, c) /\ Lives(rm, c) =>
               Quit(y, rm, U, c) \/ (tab[y].call.id = c /\ Within(tab[y]) /\ ~tab[y].timer)
          /\ x.net.down[y] = D /\ x.net.bus[y] = Append(B, f) /\ x.room = rm
          /\ (f.kind \in Tidings => Lives(rm, f.id)) /\ Born(rm, f.id)
      BY <1>1, <1>2, <2>1, <2>3
    <3> HIDE DEF U, D, B, rm
    <3>2. Inside(y, tab[y], rm, U, D, B) /\ Range(Append(B, f)) = Range(B) \cup {f}
      BY <2>1, <3>1, Queues DEF Fits
    <3>3. InTime(rm, Append(B, f), <<>>)
      BY <2>1, <3>1, <3>2, InTimeLater DEF Inside, Order
    <3>4. InTime(rm, D, Append(B, f)) /\ RingsFirst(D)
      <4>1. InTime(rm, D, B) /\ RingsFirst(D) /\ \A c : Ended(B, c) => Ended(Append(B, f), c)
        BY <3>2 DEF Inside, Order, Ended
      <4> QED
        BY <4>1 DEF InTime
    <3>5. Order(rm, D, Append(B, f)) /\ \A g \in Range(Append(B, f)) : g.kind \in News
      BY <3>2, <3>3, <3>4 DEF Order, Inside, Stream
    <3>6. Inside(y, tab[y], rm, U, D, Append(B, f))
      BY <3>1, <3>2, <3>5, Delivered
    <3> QED
      BY <3>1, <3>6 DEF Fits, U
  <2> QED
    BY <2>2, <2>3
<1> QED
  BY <1>1, <1>2 DEF Agreed

(* A call ends.                                                             *)
LEMMA EndsFor ==
    ASSUME ClientInv, AgreeInv, NEW w, NEW up, Agreed(w, up), NEW c \in Calls, w.room[c].status # "unborn",
           NEW reason \in Endings, NEW from \in Owners \cup {None}, NEW x, x = endCall(w, c, reason, from)
    PROVE  /\ Agreed(x, up) /\ ~Lives(x.room, c) /\ x.net.down = w.net.down
           /\ \A d \in Calls : d # c => x.room[d] = w.room[d]
<1> DEFINE r == [w.room[c] EXCEPT !.status = "over", !.member = [o \in Owners |-> None], !.reason = reason]
           v == Altered(w, c, r)
           f == Down("ended", c, from, {}, FALSE, reason)
<1>1. w \in Worlds /\ w.net.up = up /\ Records(w.room)
  BY DEF Agreed
<1>2. w.room[c] \in RoomRecs
  BY <1>1 DEF Worlds, Rooms
<1>3. /\ r \in RoomRecs /\ r.status = "over" /\ r.member = [o \in Owners |-> None] /\ r.caller = w.room[c].caller
      /\ r.ever = w.room[c].ever /\ r.dismissed = w.room[c].dismissed
  <2>1. reason \in Reasons
    BY DEF Endings
  <2> QED
    BY <1>2, <2>1 DEF RoomRecs
<1>4. [w EXCEPT !.room[c].status = "over", !.room[c].member = [o \in Owners |-> None], !.room[c].reason = reason] = v
  BY <1>1, <1>2 DEF Worlds, Rooms, RoomRecs, Altered
<1>5. f \in Downs /\ Ends(f, c)
  <2>1. reason \in Reasons /\ reason # "answered_elsewhere"
    BY DEF Endings
  <2>2. f \in Downs
    BY <2>1, EndSaid
  <2> QED
    BY <2>1, <2>2 DEF Down, Ends
<1>6. x = ToOwners(v, People, f)
  BY <1>4 DEF endCall
<1>12. r \in RoomRecs /\ v = Altered(w, c, r)
  BY <1>3
<1> HIDE DEF r, v
<1>7. v \in Worlds /\ v.net = w.net /\ v.room[c] = r /\ \A d \in Calls : d # c => v.room[d] = w.room[d]
  BY <1>1, <1>12, RoomParts
<1> HIDE DEF f
<1>8. /\ x \in Worlds /\ x.room = v.room /\ x.net.up = w.net.up /\ x.net.down = w.net.down
      /\ \A y \in Tabs : x.net.bus[y] = IF y \in conn /\ OwnerOf[y] \in People THEN Append(w.net.bus[y], f)
                                        ELSE w.net.bus[y]
  BY <1>5, <1>6, <1>7, ToOwnersParts
<1>9. Records(x.room)
  <2>1. \A o \in Owners : r.member[o] = None
    BY <1>3
  <2> QED
    BY <1>1, <1>3, <1>7, <1>8, <2>1 DEF Records, Lives
<1>10. ASSUME NEW y \in Sound PROVE Fits(y, tab[y], x.room, net.up[y], x.net.down[y], x.net.bus[y])
  <2> DEFINE rm == w.room
             U == net.up[y]
             D == w.net.down[y]
             B == w.net.bus[y]
  <2>1. /\ y \in Tabs /\ y \in conn /\ OwnerOf[y] \in Owners /\ tab[y] \in TabRecs
        /\ D \in Seq(Downs) /\ B \in Seq(Downs) /\ U \in Seq(Ups) /\ Fits(y, tab[y], rm, U, D, B)
    BY OnTheWay
  <2>2. /\ x.net.down[y] = D /\ r.member[OwnerOf[y]] = None /\ rm[c].status # "unborn"
        /\ r.status = "over" /\ r.caller = rm[c].caller /\ r.ever = rm[c].ever /\ r.dismissed = rm[c].dismissed
        /\ x.room[c] = r /\ \A d \in Calls : d # c => x.room[d] = rm[d]
    BY <1>3, <1>7, <1>8, <2>1
  <2>5. /\ x.room[c].status = "over" /\ x.room[c].member[OwnerOf[y]] = None /\ x.room[c].caller = rm[c].caller
        /\ x.room[c].ever = rm[c].ever /\ x.room[c].dismissed = rm[c].dismissed
    BY <2>2
  <2>3. CASE OwnerOf[y] \in People
    <3>1. x.net.bus[y] = Append(B, f)
      BY <1>8, <2>1, <2>3
    <3> HIDE DEF U, D, B, rm
    <3>2. Inside(y, tab[y], rm, U, D, B)
      BY <2>1, <2>3 DEF Fits
    <3>3. Inside(y, tab[y], x.room, U, D, Append(B, f))
      BY <1>5, <2>1, <2>2, <2>5, <3>2, RoomEnds
    <3> QED
      BY <2>2, <2>3, <3>1, <3>3 DEF Fits, U
  <2>4. CASE OwnerOf[y] \notin People
    <3>1. x.net.bus[y] = B
      BY <1>8, <2>1, <2>4
    <3> HIDE DEF U, D, B, rm
    <3>2. Outside(y, tab[y], rm, U, D, B)
      BY <2>1, <2>4 DEF Fits
    <3>3. \A d \in Calls : ~Sits(y, x.room, d)
      BY ZenonT(60), <2>1, <2>2, <3>2, TabAssumption DEF Outside, Sits
    <3>4. Outside(y, tab[y], x.room, U, D, B)
      BY <3>2, <3>3 DEF Outside
    <3> QED
      BY <2>2, <2>4, <3>1, <3>4 DEF Fits, U
  <2> QED
    BY <2>3, <2>4
<1>11. ~Lives(x.room, c)
  BY <1>3, <1>7, <1>8 DEF Lives
<1> QED
  BY <1>1, <1>7, <1>8, <1>9, <1>10, <1>11 DEF Agreed

(* A person takes a place or leaves it, over one of their tabs.             *)
LEMMA OnePerson ==
    ASSUME ClientInv, AgreeInv, NEW w, NEW up, Agreed(w, up), NEW t \in plan.tabs, NEW c \in Calls, Lives(w.room, c),
           NEW r \in RoomRecs, r.status \in {"ringing", "active"}, r.caller = w.room[c].caller,
           w.room[c].ever \subseteq r.ever, w.room[c].dismissed \subseteq r.dismissed,
           r.member[OwnerOf[t]] # None => OwnerOf[t] \in r.ever,
           \A o \in Owners : o # OwnerOf[t] =>
              /\ r.member[o] = w.room[c].member[o] /\ (o \in r.ever => o \in w.room[c].ever)
              /\ (o \in r.dismissed => o \in w.room[c].dismissed),
           NEW x, x = Altered(w, c, r),
           t \in Sound =>
              /\ OwnerOf[t] \in People /\ r.member[OwnerOf[t]] \in {None, t}
              /\ OwnerOf[t] \in r.dismissed => OwnerOf[t] \in w.room[c].dismissed \/ (IsGroup /\ Quits(net.up[t], c))
              /\ r.member[OwnerOf[t]] = t \/ (IsGroup /\ OwnerOf[t] \in r.dismissed)
              /\ ~Leaves(net.up[t], c) => Enters(net.up[t], c)
              /\ \E f \in Range(net.up[t]) : f.id = c
    PROVE  Agreed(x, up) /\ x \in Worlds /\ x.net = w.net /\ x.room[c] = r /\ \A d \in Calls : d # c => x.room[d] = w.room[d]
<1>1. w \in Worlds /\ w.net.up = up /\ Records(w.room)
  BY DEF Agreed
<1>2. x \in Worlds /\ x.net = w.net /\ x.room[c] = r /\ \A d \in Calls : d # c => x.room[d] = w.room[d]
  BY <1>1, RoomParts
<1>3. Records(x.room)
  <2>1. \A o \in Owners : r.member[o] # None => o \in r.ever
    BY <1>1 DEF Records
  <2> QED
    BY <1>1, <1>2, <2>1 DEF Records, Lives
<1>4. ASSUME NEW y \in Sound PROVE Fits(y, tab[y], x.room, net.up[y], x.net.down[y], x.net.bus[y])
  <2> DEFINE rm == w.room
             U == net.up[y]
             D == w.net.down[y]
             B == w.net.bus[y]
             rm2 == x.room
  <2>1. /\ y \in Tabs /\ y \in plan.tabs /\ OwnerOf[y] \in Owners /\ tab[y] \in TabRecs
        /\ D \in Seq(Downs) /\ B \in Seq(Downs) /\ U \in Seq(Ups) /\ Fits(y, tab[y], rm, U, D, B)
    BY OnTheWay
  <2>2. x.net.down[y] = D /\ x.net.bus[y] = B /\ rm2[c] = r /\ Lives(rm, c) /\ Lives(rm2, c)
        /\ \A d \in Calls : d # c => rm2[d] = rm[d]
    BY <1>2 DEF Lives
  <2>3. CASE y # t
    <3>1. OwnerOf[y] # OwnerOf[t]
      BY <2>1, <2>3 DEF Sound, Alone
    <3>2. /\ rm2[c].member[OwnerOf[y]] = rm[c].member[OwnerOf[y]] /\ rm2[c].caller = rm[c].caller
          /\ OwnerOf[y] \in rm2[c].ever <=> OwnerOf[y] \in rm[c].ever
          /\ OwnerOf[y] \in rm2[c].dismissed <=> OwnerOf[y] \in rm[c].dismissed
      BY <1>2, <2>1, <3>1
    <3> HIDE DEF U, D, B, rm, rm2
    <3>3. Alike(y, rm, rm2) /\ \A d \in Calls : Sits(y, rm2, d) => Sits(y, rm, d)
      BY <2>2, <3>2 DEF Alike, Lives, Sits
    <3>4. OwnerOf[y] \in People => Inside(y, tab[y], rm2, U, D, B)
      BY <2>1, <3>3, RoomAlike DEF Fits
    <3>5. OwnerOf[y] \notin People => Outside(y, tab[y], rm2, U, D, B)
      BY <2>1, <3>3 DEF Fits, Outside
    <3>6. Fits(y, tab[y], rm2, U, D, B)
      BY <3>4, <3>5 DEF Fits
    <3> QED
      BY <2>2, <3>6 DEF U, rm2
  <2>4. CASE y = t
    <3>1. /\ OwnerOf[y] \in People /\ rm2[c].member[OwnerOf[y]] \in {None, y} /\ rm2[c].caller = rm[c].caller
          /\ OwnerOf[y] \in rm[c].ever => OwnerOf[y] \in rm2[c].ever
          /\ OwnerOf[y] \in rm[c].dismissed => OwnerOf[y] \in rm2[c].dismissed
          /\ OwnerOf[y] \in rm2[c].dismissed => OwnerOf[y] \in rm[c].dismissed \/ (IsGroup /\ Quits(U, c))
          /\ rm2[c].member[OwnerOf[y]] = y \/ (IsGroup /\ OwnerOf[y] \in rm2[c].dismissed)
          /\ ~Leaves(U, c) => Enters(U, c)
          /\ \E f \in Range(U) : f.id = c
      BY <1>2, <1>4, <2>4
    <3> HIDE DEF U, D, B, rm, rm2
    <3>2. Sits(y, rm2, c) \/ (IsGroup /\ OwnerOf[y] \in rm2[c].dismissed)
      BY <3>1 DEF Sits
    <3>3. Will(y, rm2, U, c) <=> Will(y, rm, U, c)
      BY <2>2, <3>1 DEF Will
    <3>4. Inside(y, tab[y], rm, U, D, B)
      BY <2>1, <3>1 DEF Fits
    <3>5. Inside(y, tab[y], rm2, U, D, B)
      BY SMTT(60), <2>1, <2>2, <3>1, <3>2, <3>3, <3>4, RoomMoves
    <3> QED
      BY <2>2, <3>1, <3>5 DEF Fits, U, rm2
  <2> QED
    BY <2>3, <2>4
<1> QED
  BY <1>1, <1>2, <1>3, <1>4 DEF Agreed

(* A call is placed, over one of the caller's tabs.                         *)
LEMMA Places ==
    ASSUME ClientInv, AgreeInv, NEW w, NEW up, Agreed(w, up), NEW t \in plan.tabs, OwnerOf[t] \in People,
           NEW c \in Calls, w.room[c].status = "unborn",
           NEW r \in RoomRecs, r.status = "ringing", r.caller = OwnerOf[t], r.member[OwnerOf[t]] = t,
           \A o \in Owners : (o \in r.ever <=> o = OwnerOf[t]) /\ (o # OwnerOf[t] => r.member[o] = None),
           NEW f \in Downs, f.kind = "ringing", f.id = c,
           NEW x, x = ToTab(Altered(w, c, r), t, f)
    PROVE  Agreed(x, up) /\ x.room[c] = r /\ f \in Range(x.net.down[t])
<1> DEFINE v == Altered(w, c, r)
<1>1. /\ w \in Worlds /\ w.net.up = up /\ Records(w.room) /\ t \in Tabs /\ OwnerOf[t] \in Owners
  BY TabAssumption DEF Agreed, ClientInv, Setting, PlanType
<1>2. v \in Worlds /\ v.net = w.net /\ v.room[c] = r /\ \A d \in Calls : d # c => v.room[d] = w.room[d]
  BY <1>1, RoomParts
<1> HIDE DEF v
<1>3. x = ToTab(v, t, f) /\ f \in Downs
  BY DEF v
<1>4. /\ x \in Worlds /\ x.room = v.room /\ x.net.up = w.net.up /\ x.net.bus = w.net.bus
      /\ x.net.down[t] = Append(w.net.down[t], f)
      /\ \A y \in Tabs : y # t => x.net.down[y] = w.net.down[y]
  <2>1. v \in Worlds /\ t \in Tabs
    BY <1>1, <1>2
  <2>2. /\ x \in Worlds /\ x.room = v.room /\ x.net.up = v.net.up /\ x.net.bus = v.net.bus
        /\ x.net.down[t] = Append(v.net.down[t], f)
        /\ \A y \in Tabs : y # t => x.net.down[y] = v.net.down[y]
    BY <1>3, <2>1, ToTabParts
  <2> QED
    BY <1>2, <2>2
<1>5. w.net.down[t] \in Seq(Downs)
  BY <1>1 DEF Worlds, Nets
<1>6. f \in Range(x.net.down[t])
  BY <1>4, <1>5, Queues
<1>8. Records(x.room)
  <2>1. \A o \in Owners : r.member[o] # None => o \in r.ever
    OBVIOUS
  <2> QED
    BY <1>1, <1>2, <1>4, <2>1 DEF Records, Lives
<1>9. ASSUME NEW y \in Sound PROVE Fits(y, tab[y], x.room, net.up[y], x.net.down[y], x.net.bus[y])
  <2> DEFINE rm == w.room
             U == net.up[y]
             D == w.net.down[y]
             B == w.net.bus[y]
             rm2 == x.room
  <2>1. /\ y \in Tabs /\ y \in plan.tabs /\ OwnerOf[y] \in Owners /\ tab[y] \in TabRecs
        /\ D \in Seq(Downs) /\ B \in Seq(Downs) /\ U \in Seq(Ups) /\ Fits(y, tab[y], rm, U, D, B)
    BY OnTheWay
  <2>2. x.net.bus[y] = B /\ rm2[c] = r /\ rm[c].status = "unborn" /\ Lives(rm2, c)
        /\ \A d \in Calls : d # c => rm2[d] = rm[d]
    BY <1>2, <1>4 DEF Lives
  <2>3. CASE y # t
    <3>1. OwnerOf[y] # OwnerOf[t]
      BY <2>1, <2>3 DEF Sound, Alone
    <3>2. rm2[c].member[OwnerOf[y]] = None /\ OwnerOf[y] \notin rm2[c].ever /\ x.net.down[y] = D
      BY <1>4, <2>1, <2>2, <2>3, <3>1
    <3> HIDE DEF U, D, B, rm, rm2
    <3>3. OwnerOf[y] \in People => Inside(y, tab[y], rm2, U, D, B)
      BY SMTT(60), <2>1, <2>2, <3>2, RoomPlaces DEF Fits
    <3>4. \A d \in Calls : Sits(y, rm2, d) => Sits(y, rm, d)
      BY <2>1, <2>2, <3>2, TabAssumption DEF Sits
    <3>5. OwnerOf[y] \notin People => Outside(y, tab[y], rm2, U, D, B)
      BY <2>1, <3>4 DEF Fits, Outside
    <3>6. Fits(y, tab[y], rm2, U, D, B)
      BY <3>3, <3>5 DEF Fits
    <3> QED
      BY <2>2, <3>2, <3>6 DEF U, rm2
  <2>4. CASE y = t
    <3> DEFINE D2 == Append(D, f)
    <3>1. /\ OwnerOf[y] \in People /\ rm2[c].member[OwnerOf[y]] = y /\ rm2[c].caller = OwnerOf[y]
          /\ x.net.down[y] = D2 /\ D2 \in Seq(Downs)
      BY <1>4, <2>1, <2>2, <2>4, Queues
    <3>3. Inside(y, tab[y], rm, U, D, B) /\ D2 = Gets(D, f) /\ f.kind = "ringing" /\ f.id = c
      BY <2>1, <3>1 DEF Fits, Gets
    <3> HIDE DEF U, D, B, rm, rm2, D2
    <3>2. Inside(y, tab[y], rm2, U, D2, B)
      <4>1. /\ y \in Tabs /\ tab[y] \in TabRecs /\ U \in Seq(Ups) /\ D \in Seq(Downs) /\ B \in Seq(Downs)
            /\ Inside(y, tab[y], rm, U, D, B) /\ rm[c].status = "unborn" /\ Lives(rm2, c)
            /\ (\A d \in Calls : d # c => rm2[d] = rm[d]) /\ D2 \in Seq(Downs)
            /\ D2 = Gets(D, f) /\ f.kind = "ringing" /\ f.id = c
            /\ rm2[c].caller = OwnerOf[y] /\ rm2[c].member[OwnerOf[y]] = y
        BY <2>1, <2>2, <3>1, <3>3
      <4> QED
        BY <4>1, RoomPlaces
    <3> QED
      BY <2>2, <3>1, <3>2 DEF Fits, U, rm2
  <2> QED
    BY <2>3, <2>4
<1> QED
  BY <1>1, <1>2, <1>4, <1>6, <1>8, <1>9 DEF Agreed

(* What the room says of a call while it lives.                             *)
LEMMA ErrorParts ==
    ASSUME NEW code, NEW id, NEW f, f = Error(code, id)
    PROVE  f.kind = "error" /\ f.reason = code /\ f.id = id
BY DEF Error, Down

LEMMA ParticipantsFor ==
    ASSUME ClientInv, AgreeInv, NEW w, NEW up, Agreed(w, up), NEW c \in Calls, Lives(w.room, c), NEW o \in Owners,
           NEW x, x = announceParticipant(w, c, o)
    PROVE  Agreed(x, up) /\ x.room = w.room /\ x.net.down = w.net.down
<1> DEFINE f == Down("participant", c, o, Joined(w.room[c]), FALSE, "")
<1>1. Joined(w.room[c]) \in SUBSET Owners /\ \A p \in Joined(w.room[c]) : p \in w.room[c].ever
  BY DEF Joined, Agreed, Records
<1>2. f \in Downs /\ f.kind = "participant" /\ f.id = c /\ f.owners = Joined(w.room[c])
  <2>1. f \in Downs
    BY <1>1, Sayings
  <2> QED
    BY <2>1 DEF Down
<1>3. x = ToOwners(w, People, f)
  BY DEF announceParticipant
<1> HIDE DEF f
<1>4. f.kind \in News /\ Born(w.room, f.id)
  BY <1>2 DEF News, Born, Lives
<1>5. \A t \in Sound : FrameOK(t, w.room, f) /\ \A d : ~Elsewhere(f, d)
  BY <1>1, <1>2 DEF FrameOK, Elsewhere
<1> QED
  BY <1>2, <1>3, <1>4, <1>5, Proclaims

LEMMA SpentFor ==
    ASSUME ClientInv, AgreeInv, NEW w, NEW up, Agreed(w, up), NEW c \in Calls, Lives(w.room, c), NEW reason \in Endings,
           NEW x, x = Spent(w, c, reason)
    PROVE  Agreed(x, up) /\ (x = w \/ ~Lives(x.room, c))
<1>1. w.room[c].status # "unborn" /\ "empty" \in Endings
  BY DEF Lives, Endings
<1>2. x = w \/ x = endCall(w, c, reason, None) \/ x = endCall(w, c, "empty", None)
  BY DEF Spent
<1> QED
  BY <1>1, <1>2, EndsFor

LEMMA SeatFor ==
    ASSUME ClientInv, AgreeInv, NEW w, NEW up, Agreed(w, up), NEW t \in plan.tabs, NEW c \in Calls, Lives(w.room, c),
           t \in Sound => OwnerOf[t] \in People /\ Enters(net.up[t], c),
           NEW x, x = Seated(w, t, c)
    PROVE  /\ Agreed(x, up) /\ Lives(x.room, c) /\ Sits(t, x.room, c) /\ x.net.down = w.net.down
           /\ x.room[c].caller = w.room[c].caller
<1> DEFINE r == [w.room[c] EXCEPT !.member[OwnerOf[t]] = t, !.status = "active", !.ever = @ \cup {OwnerOf[t]}]
<1>1. w \in Worlds /\ OwnerOf[t] \in Owners /\ t \in Tabs /\ Records(w.room)
  BY TabAssumption DEF Agreed, ClientInv, Setting, PlanType
<1>2. w.room[c] \in RoomRecs
  BY <1>1 DEF Worlds, Rooms
<1>3. /\ r \in RoomRecs /\ r.status = "active" /\ r.caller = w.room[c].caller /\ r.dismissed = w.room[c].dismissed
      /\ r.ever = w.room[c].ever \cup {OwnerOf[t]} /\ r.member[OwnerOf[t]] = t
      /\ \A o \in Owners : o # OwnerOf[t] => r.member[o] = w.room[c].member[o]
  BY <1>1, <1>2 DEF RoomRecs
<1>4. x = Altered(w, c, r)
  BY <1>1, <1>2 DEF Seated, Altered, Worlds, Rooms, RoomRecs
<1> HIDE DEF r
<1>5. t \in Sound => \E f \in Range(net.up[t]) : f.id = c
  BY DEF Enters, Says
<1>6. r.status \in {"ringing", "active"}
  BY <1>3
<1>7. /\ w.room[c].ever \subseteq r.ever /\ w.room[c].dismissed \subseteq r.dismissed
      /\ OwnerOf[t] \in r.ever
      /\ \A o \in Owners : o # OwnerOf[t] =>
              /\ r.member[o] = w.room[c].member[o] /\ (o \in r.ever => o \in w.room[c].ever)
              /\ (o \in r.dismissed => o \in w.room[c].dismissed)
  BY <1>3
<1>8. r \in RoomRecs /\ r.caller = w.room[c].caller /\ r.dismissed = w.room[c].dismissed /\ r.member[OwnerOf[t]] = t
  BY <1>3
<1>9. Agreed(x, up) /\ x.net = w.net /\ x.room[c] = r
  BY <1>4, <1>5, <1>6, <1>7, <1>8, OnePerson
<1> QED
  BY <1>6, <1>8, <1>9 DEF Lives, Sits

(* A person leaves: for good, if they said so.                              *)
LEMMA GoneFor ==
    ASSUME ClientInv, AgreeInv, NEW w, NEW up, Agreed(w, up), NEW t \in plan.tabs, NEW c \in Calls, Lives(w.room, c),
           NEW o, o = OwnerOf[t],
           NEW x, \/ x = Gone(w, c, o) /\ t \notin Sound
                  \/ /\ x = [Gone(w, c, o) EXCEPT !.room[c].dismissed = @ \cup {o}]
                     /\ t \in Sound => /\ OwnerOf[t] \in People /\ IsGroup /\ Quits(net.up[t], c)
                                       /\ ~Leaves(net.up[t], c) => Enters(net.up[t], c)
    PROVE  /\ Agreed(x, up) /\ Lives(x.room, c)
           /\ t \in Sound => ~Sits(t, x.room, c) /\ OwnerOf[t] \in x.room[c].dismissed
<1> DEFINE r1 == [w.room[c] EXCEPT !.member[o] = None]
           r2 == [r1 EXCEPT !.dismissed = @ \cup {o}]
<1>1. w \in Worlds /\ o \in Owners /\ t \in Tabs /\ Records(w.room) /\ t # None
  BY TabAssumption DEF Agreed, ClientInv, Setting, PlanType
<1>2. w.room[c] \in RoomRecs /\ w.room[c].status \in {"ringing", "active"}
  BY <1>1 DEF Worlds, Rooms, Lives
<1>3. /\ r1 \in RoomRecs /\ r1.status = w.room[c].status /\ r1.caller = w.room[c].caller /\ r1.dismissed = w.room[c].dismissed
      /\ r1.ever = w.room[c].ever /\ r1.member[o] = None
      /\ \A p \in Owners : p # o => r1.member[p] = w.room[c].member[p]
  BY <1>1, <1>2 DEF RoomRecs
<1>4. Gone(w, c, o) = Altered(w, c, r1)
  BY <1>1, <1>2 DEF Gone, Altered, Worlds, Rooms, RoomRecs
<1> HIDE DEF r1
<1>5. /\ r2 \in RoomRecs /\ r2.status = r1.status /\ r2.caller = r1.caller /\ r2.dismissed = r1.dismissed \cup {o}
      /\ r2.ever = r1.ever /\ r2.member = r1.member
  BY <1>1, <1>3 DEF RoomRecs
<1>6. [Altered(w, c, r1) EXCEPT !.room[c].dismissed = @ \cup {o}] = Altered(w, c, r2)
  BY ZenonT(60), <1>1, <1>2, <1>3 DEF Altered, Worlds, Rooms, RoomRecs
<1> HIDE DEF r2
<1>7. PICK r : /\ x = Altered(w, c, r) /\ r \in {r1, r2}
               /\ t \in Sound => r = r2 /\ OwnerOf[t] \in People /\ IsGroup /\ Quits(net.up[t], c)
                                /\ (~Leaves(net.up[t], c) => Enters(net.up[t], c))
  BY <1>4, <1>6
<1>8. /\ r \in RoomRecs /\ r.status \in {"ringing", "active"} /\ r.caller = w.room[c].caller
      /\ w.room[c].ever \subseteq r.ever /\ w.room[c].dismissed \subseteq r.dismissed
      /\ r.member[OwnerOf[t]] = None
      /\ \A p \in Owners : p # OwnerOf[t] =>
              /\ r.member[p] = w.room[c].member[p] /\ (p \in r.ever => p \in w.room[c].ever)
              /\ (p \in r.dismissed => p \in w.room[c].dismissed)
      /\ t \in Sound => OwnerOf[t] \in r.dismissed
  BY <1>2, <1>3, <1>5, <1>7
<1>9. t \in Sound => \E f \in Range(net.up[t]) : f.id = c
  BY <1>7 DEF Quits, Says
<1>10. Agreed(x, up) /\ x.room[c] = r
  BY <1>7, <1>8, <1>9, OnePerson
<1> QED
  BY <1>1, <1>8, <1>10 DEF Lives, Sits

(*-------------------------------------------------------------------------*)
(* The handlers of the room: what becomes of the frame of a sound tab.      *)

Heard(t, x, f) ==
    /\ f.kind = "invite" => \E g \in Range(x.net.down[t]) : Replies(g)
    /\ f.kind \in {"join", "answer"} => IF Lives(x.room, f.id) THEN Sits(t, x.room, f.id) ELSE Refused(x.net.down[t])
    /\ f.kind = "hangup" /\ f.id \in Calls /\ Lives(x.room, f.id) =>
         IsGroup /\ ~Sits(t, x.room, f.id) /\ OwnerOf[t] \in x.room[f.id].dismissed

LEMMA LiveLives == ASSUME NEW c PROVE Live(c) <=> Lives(room, c)
BY DEF Live, Lives

(* Who sends something else than an invite is in the conversation.          *)
LEMMA Sender ==
    ASSUME ClientInv, AgreeInv, NEW t \in Sound, net.up[t] # <<>>, NEW f, f = Head(net.up[t]), f.kind # "invite"
    PROVE  /\ OwnerOf[t] \in People /\ f \in Range(net.up[t]) /\ net.up[t] \in Seq(Ups)
           /\ Inside(t, tab[t], room, net.up[t], net.down[t], net.bus[t])
<1> DEFINE U == net.up[t]
<1>1. U \in Seq(Ups) /\ U # <<>> /\ Fits(t, tab[t], room, U, net.down[t], net.bus[t])
  BY SoundTabs
<1> HIDE DEF U
<1>2. f \in Range(U)
  <2>1. Range(U) = Range(Tail(U)) \cup {Head(U)}
    BY <1>1, Heads
  <2> QED
    BY <2>1 DEF U
<1>3. OwnerOf[t] \in People
  BY <1>1, <1>2 DEF Fits, Outside
<1> QED
  BY <1>1, <1>2, <1>3 DEF Fits, U

LEMMA Comeback ==
    ASSUME NEW U \in Seq(Ups), U # <<>>, NEW c \in Calls, Head(U).kind = "hangup", Head(U).id = c, ~Leaves(U, c),
           \A f \in Range(U) : f.kind = "invite" => f.id = None
    PROVE  Enters(U, c)
<1>1. 1 \in DOMAIN U /\ U[1] = Head(U)
  OBVIOUS
<1>2. PICK j \in DOMAIN U : U[j].id = c /\ U[j].kind # "hangup"
  BY <1>1 DEF Leaves
<1>3. U[j] \in Range(U) /\ U[j] \in Ups
  BY <1>2 DEF Range
<1>4. U[j].kind \in {"join", "answer"}
  BY <1>2, <1>3, TabAssumption DEF Ups, UpType
<1> QED
  BY <1>2, <1>3, <1>4 DEF Enters, Says

LEMMA InviteTurn ==
    ASSUME ClientInv, AgreeInv, NEW w, NEW up, Agreed(w, up), w.room = room, NEW t \in plan.tabs,
           NEW f \in Ups, f.kind = "invite", \E c \in Calls : room[c].status = "unborn",
           NEW x, x = handleInvite(w, t, f)
    PROVE  Agreed(x, up) /\ Heard(t, x, f)
<1> DEFINE o == OwnerOf[t]
           busy == {c \in Calls : Live(c)}
           c == CHOOSE y \in Calls : room[y].status = "unborn"
           r == [w.room[c] EXCEPT !.status = "ringing", !.caller = o, !.member[o] = t, !.ever = {o}]
           rings == Down("ringing", c, None, People, FALSE, "")
           comes == Down("incoming", c, o, People, f.sdp, "")
<1>1. /\ c \in Calls /\ room[c].status = "unborn" /\ o \in Owners /\ t \in Tabs /\ w \in Worlds /\ People \in SUBSET Owners
      /\ f.sdp \in BOOLEAN /\ Records(room) /\ w.room = room
  BY TabAssumption DEF Agreed, ClientInv, Setting, PlanType, People, Ups, UpType
<1> HIDE DEF c
<1>2. ASSUME NEW g \in Downs, g.kind = "error", g.reason \in Codes \ {"call_gone"}, Born(room, g.id),
             OwnerOf[t] \notin People => g = Error("forbidden", None), x = ToTab(w, t, g)
      PROVE  Agreed(x, up) /\ Heard(t, x, f)
  <2>1. Agreed(x, up) /\ g \in Range(x.net.down[t])
    BY <1>1, <1>2, Refuses
  <2> QED
    BY <1>2, <2>1 DEF Heard, Replies
<1>3. ASSUME NEW code \in {"forbidden", "not_supported", "bad_frame"}, x = ToTab(w, t, Error(code, None)),
             o \notin People => code = "forbidden"
      PROVE  Agreed(x, up) /\ Heard(t, x, f)
  <2> DEFINE g == Error(code, None)
  <2>1. g \in Downs /\ g.kind = "error" /\ g.reason = code /\ g.id = None
    BY Refusals, ErrorParts
  <2>2. o \notin People => g = Error("forbidden", None)
    BY <1>3
  <2>3. x = ToTab(w, t, g)
    BY <1>3
  <2> HIDE DEF g
  <2>4. Born(room, g.id) /\ g.reason \in Codes \ {"call_gone"}
    BY <2>1 DEF Born, Codes
  <2> QED
    BY <1>2, <2>1, <2>2, <2>3, <2>4
<1>4. ASSUME busy # {}, o \in People, x = ToTab(w, t, Error("call_exists", CHOOSE y \in busy : TRUE))
      PROVE  Agreed(x, up) /\ Heard(t, x, f)
  <2> DEFINE d == CHOOSE y \in busy : TRUE
             g == Error("call_exists", d)
  <2>1. d \in Calls /\ Live(d)
    BY <1>4
  <2> HIDE DEF d
  <2>2. g \in Downs /\ g.kind = "error" /\ g.reason = "call_exists" /\ g.id = d
    BY <2>1, Refusals, ErrorParts
  <2>3. x = ToTab(w, t, g)
    BY <1>4 DEF d
  <2> HIDE DEF g
  <2>4. Born(room, g.id) /\ g.reason \in Codes \ {"call_gone"}
    BY <2>1, <2>2 DEF Born, Codes, Live
  <2> QED
    BY <1>2, <1>4, <2>2, <2>3, <2>4
<1>5. ASSUME o \in People, x = ToOwners(ToTab(Altered(w, c, r), t, rings), People \ {o}, comes)
      PROVE  Agreed(x, up) /\ Heard(t, x, f)
  <2>1. w.room[c] = room[c] /\ room[c] \in RoomRecs
    BY <1>1 DEF Worlds, Rooms
  <2>2. room[c].dismissed = {} /\ \A p \in Owners : room[c].member[p] = None
    BY <1>1 DEF Records, Lives
  <2>3. /\ r \in RoomRecs /\ r.status = "ringing" /\ r.caller = o /\ r.member[o] = t /\ r.ever = {o} /\ r.dismissed = {}
        /\ \A p \in Owners : p # o => r.member[p] = room[c].member[p]
    BY <1>1, <2>1, <2>2 DEF RoomRecs
  <2>4. \A p \in Owners : (p \in r.ever <=> p = o) /\ (p # o => r.member[p] = None)
    BY <2>2, <2>3
  <2>5. rings \in Downs /\ comes \in Downs
    BY <1>1, Sayings
  <2>6. /\ rings.kind = "ringing" /\ rings.id = c
        /\ comes.kind = "incoming" /\ comes.id = c /\ comes.owners = People
    BY DEF Down
  <2> DEFINE v == ToTab(Altered(w, c, r), t, rings)
  <2> HIDE DEF r, rings, comes
  <2>7. v = ToTab(Altered(w, c, r), t, rings)
    OBVIOUS
  <2> HIDE DEF v
  <2>8. Agreed(v, up) /\ v.room[c] = r /\ rings \in Range(v.net.down[t])
    BY <1>1, <1>5, <2>3, <2>4, <2>5, <2>6, <2>7, Places
  <2>9. x = ToOwners(v, People \ {o}, comes)
    BY <1>5 DEF v
  <2>10. \A y \in Sound : OwnerOf[y] \in People \ {o} =>
            /\ OwnerOf[y] \in People /\ FrameOK(y, v.room, comes) /\ \A d \in Calls : ~Elsewhere(comes, d)
    BY <2>3, <2>6, <2>8 DEF FrameOK, Elsewhere
  <2>11. comes.kind \in News /\ Lives(v.room, comes.id) /\ Born(v.room, comes.id)
    BY <2>3, <2>6, <2>8 DEF News, Lives, Born
  <2>12. Agreed(x, up) /\ x.net.down = v.net.down
    BY <2>5, <2>8, <2>9, <2>10, <2>11, Proclaims
  <2>13. Replies(rings) /\ rings \in Range(x.net.down[t])
    BY <2>6, <2>8, <2>12 DEF Replies
  <2> QED
    BY <2>12, <2>13 DEF Heard
<1> DEFINE placed == [w EXCEPT !.room[c] = [@ EXCEPT !.status = "ringing", !.caller = o, !.member[o] = t, !.ever = {o}]]
           called == ToOwners(ToTab(placed, t, rings), People \ {o}, comes)
<1>6. placed = Altered(w, c, r)
  BY <1>1 DEF Worlds, Altered
<1>7. \/ o \notin People /\ x = ToTab(w, t, Error("forbidden", None))
      \/ o \in People /\ x = ToTab(w, t, Error("not_supported", None))
      \/ o \in People /\ x = ToTab(w, t, Error("bad_frame", None))
      \/ o \in People /\ busy # {} /\ x = ToTab(w, t, Error("call_exists", CHOOSE y \in busy : TRUE))
      \/ o \in People /\ x = called
  BY DEF handleInvite, c
<1> HIDE DEF placed
<1>12. called = ToOwners(ToTab(Altered(w, c, r), t, rings), People \ {o}, comes)
  BY <1>6
<1> HIDE DEF called
<1> HIDE DEF busy, r, rings, comes
<1>8. CASE o \notin People
  BY <1>3, <1>7, <1>8
<1>9. CASE o \in People /\ x \in {ToTab(w, t, Error("not_supported", None)), ToTab(w, t, Error("bad_frame", None))}
  BY <1>3, <1>9
<1>10. CASE o \in People /\ busy # {} /\ x = ToTab(w, t, Error("call_exists", CHOOSE y \in busy : TRUE))
  BY <1>4, <1>10 DEF busy
<1>11. CASE o \in People /\ x = called
  BY <1>5, <1>11, <1>12 DEF r, rings, comes
<1> QED
  BY <1>7, <1>8, <1>9, <1>10, <1>11

(* Refused because the call is gone.                                        *)
LEMMA GoneFrom ==
    ASSUME ClientInv, AgreeInv, NEW w, NEW up, Agreed(w, up), NEW t \in plan.tabs, NEW f \in Ups, f.kind # "invite",
           f.id \in Calls => ~Lives(w.room, f.id), t \in Sound => OwnerOf[t] \in People,
           NEW x, x = ToTab(w, t, Error("call_gone", None))
    PROVE  Agreed(x, up) /\ Heard(t, x, f)
<1> DEFINE g == Error("call_gone", None)
<1>1. g \in Downs /\ g.kind = "error" /\ g.reason = "call_gone" /\ g.id = None /\ t \in Tabs
  BY Refusals, ErrorParts DEF ClientInv, Setting, PlanType
<1>2. x = ToTab(w, t, g)
  OBVIOUS
<1> HIDE DEF g
<1>3. Born(w.room, g.id) /\ g.reason \in Codes
  BY <1>1 DEF Born, Codes
<1>4. Agreed(x, up) /\ x.room = w.room /\ g \in Range(x.net.down[t])
  BY <1>1, <1>2, <1>3, Refuses
<1>5. Refused(x.net.down[t])
  BY <1>1, <1>4 DEF Refused
<1>6. f.kind \in {"join", "answer"} => f.id \in Calls
  BY DEF Ups
<1> QED
  BY <1>4, <1>5, <1>6 DEF Heard

(* Whoever does not win a place has another tab there.                      *)
LEMMA LostFor ==
    ASSUME ClientInv, AgreeInv, NEW w, NEW up, Agreed(w, up), NEW t \in plan.tabs, t \notin Sound, NEW c \in Calls,
           NEW x, x = Lost(w, t, c)
    PROVE  Agreed(x, up)
<1> DEFINE g == Down("ended", c, None, {}, FALSE, "answered_elsewhere")
<1>1. g \in Downs /\ t \in Tabs
  BY EndSaid DEF ClientInv, Setting, PlanType
<1>2. x = ToTab(w, t, g)
  BY DEF Lost
<1> HIDE DEF g
<1> QED
  BY <1>1, <1>2, Refuses

LEMMA AnswerTurn ==
    ASSUME ClientInv, AgreeInv, NEW w, NEW up, Agreed(w, up), w.room = room, NEW t \in plan.tabs, net.up[t] # <<>>,
           NEW f \in Ups, f = Head(net.up[t]), f.kind = "answer", NEW x, x = handleAnswer(w, t, f)
    PROVE  Agreed(x, up) /\ (t \in Sound => Heard(t, x, f))
<1> DEFINE c == f.id
           o == OwnerOf[t]
           caller == room[c].caller
           takes == Down("answered", c, o, {}, TRUE, "")
           stops == Down("ended", c, None, {}, FALSE, "answered_elsewhere")
           seat == Seated(w, t, c)
           asker == {caller}
           self == {o}
           met == ToOwners(seat, asker, takes)
<1>1. c \in Calls /\ o \in Owners /\ t \in Tabs /\ Records(room) /\ w \in Worlds
  BY TabAssumption DEF ClientInv, Setting, PlanType, Ups, Agreed
<1>2. t \in Sound => /\ o \in People /\ f \in Range(net.up[t]) /\ Says(net.up[t], "answer", c)
                     /\ Enters(net.up[t], c) /\ ~IsGroup /\ Seats(t, room)
  BY Sender DEF Says, Enters, Inside, Habits
<1>3. CASE ~Live(c) /\ x = ToTab(w, t, Error("call_gone", None))
  BY <1>1, <1>2, <1>3, LiveLives, GoneFrom
<1>4. CASE Live(c) /\ o = caller /\ x = ToTab(w, t, Error("forbidden", None))
  <2> DEFINE g == Error("forbidden", None)
  <2>1. g \in Downs /\ g.kind = "error" /\ g.reason = "forbidden" /\ g.id = None
    BY Refusals, ErrorParts
  <2>2. x = ToTab(w, t, g)
    BY <1>4
  <2>3. t \in Sound => (OwnerOf[t] \notin People => g = Error("forbidden", None))
    OBVIOUS
  <2> HIDE DEF g
  <2>4. Born(w.room, g.id) /\ g.reason \in Codes
    BY <2>1 DEF Born, Codes
  <2>5. Agreed(x, up) /\ x.room = room
    BY <1>1, <2>1, <2>2, <2>3, <2>4, Refuses
  <2>6. t \in Sound => Sits(t, room, c)
    <3>1. o \in room[c].ever
      BY <1>1, <1>4, TabAssumption DEF Records
    <3> QED
      BY <1>1, <1>2, <1>4, <3>1, LiveLives DEF Seats
  <2> QED
    BY <1>4, <2>5, <2>6, LiveLives DEF Heard
<1>5. CASE Live(c) /\ ~Won(t, c) /\ x = Lost(w, t, c)
  <2>1. t \notin Sound
    BY <1>1, <1>2, <1>5 DEF Won, Seats
  <2> QED
    BY <1>1, <1>5, <2>1, LostFor
<1>6. CASE Live(c) /\ x = ToOwners(met, self, stops)
  <2>1. takes \in Downs /\ stops \in Downs
    BY <1>1, Sayings, EndSaid
  <2>2. takes.kind = "answered" /\ takes.id = c /\ stops.kind = "ended" /\ stops.id = c /\ stops.reason = "answered_elsewhere"
    BY DEF Down
  <2>3. seat = Seated(w, t, c) /\ met = ToOwners(seat, asker, takes) /\ x = ToOwners(met, self, stops)
        /\ Lives(w.room, c) /\ caller = w.room[c].caller
    BY <1>6, LiveLives
  <2>10. \A p : (p \in asker <=> p = caller) /\ (p \in self <=> p = o)
    OBVIOUS
  <2> HIDE DEF takes, stops, seat, met, asker, self
  <2>4. Agreed(seat, up) /\ Lives(seat.room, c) /\ Sits(t, seat.room, c) /\ seat.room[c].caller = caller
    BY <1>1, <1>2, <2>3, SeatFor
  <2>5. \A y \in Sound : OwnerOf[y] \in asker =>
           OwnerOf[y] \in People /\ FrameOK(y, seat.room, takes) /\ \A d \in Calls : ~Elsewhere(takes, d)
    <3> SUFFICES ASSUME NEW y \in Sound, OwnerOf[y] = caller
                 PROVE  OwnerOf[y] \in People /\ FrameOK(y, seat.room, takes) /\ \A d \in Calls : ~Elsewhere(takes, d)
      BY <2>10
    <3>1. OwnerOf[y] \in Owners /\ OwnerOf[y] # None /\ Records(seat.room)
      BY <2>4, OnTheWay, TabAssumption DEF Agreed
    <3>2. OwnerOf[y] \in People /\ OwnerOf[y] \in seat.room[c].ever
      BY <1>1, <2>4, <3>1 DEF Records
    <3> QED
      BY <2>2, <3>2 DEF FrameOK, Elsewhere
  <2>6. takes.kind \in News /\ Lives(seat.room, takes.id) /\ Born(seat.room, takes.id)
        /\ stops.kind \in News /\ stops.kind \notin Tidings /\ Born(seat.room, stops.id)
    BY <2>2, <2>4 DEF News, Lives, Born, Tidings
  <2>7. Agreed(met, up) /\ met.room = seat.room
    <3>1. \A y \in Sound : OwnerOf[y] \in asker =>
             /\ OwnerOf[y] \in People /\ FrameOK(y, seat.room, takes)
             /\ \A d \in Calls : Elsewhere(takes, d) /\ Lives(seat.room, d) =>
                   Quit(y, seat.room, net.up[y], d) \/ (tab[y].call.id = d /\ Within(tab[y]) /\ ~tab[y].timer)
      BY <2>5
    <3>2. met = ToOwners(seat, asker, takes) /\ takes \in Downs /\ Agreed(seat, up)
          /\ takes.kind \in News /\ Lives(seat.room, takes.id) /\ Born(seat.room, takes.id)
      BY <2>1, <2>3, <2>4, <2>6
    <3> QED
      BY <3>1, <3>2, Proclaims
  <2>8. \A y \in Sound : OwnerOf[y] \in self =>
           /\ OwnerOf[y] \in People /\ FrameOK(y, met.room, stops)
           /\ \A d \in Calls : Elsewhere(stops, d) /\ Lives(met.room, d) =>
                 Quit(y, met.room, net.up[y], d) \/ (tab[y].call.id = d /\ Within(tab[y]) /\ ~tab[y].timer)
    <3> SUFFICES ASSUME NEW y \in Sound, OwnerOf[y] = o
                 PROVE  /\ OwnerOf[y] \in People /\ FrameOK(y, met.room, stops)
                        /\ \A d \in Calls : Elsewhere(stops, d) /\ Lives(met.room, d) =>
                              Quit(y, met.room, net.up[y], d) \/ (tab[y].call.id = d /\ Within(tab[y]) /\ ~tab[y].timer)
      BY <2>10
    <3>1. y = t
      BY DEF Sound, Alone
    <3>2. OwnerOf[y] \in People /\ ~IsGroup /\ Says(net.up[y], "answer", c)
      BY <1>2, <3>1
    <3>3. FrameOK(y, met.room, stops)
      BY <2>2, <3>2 DEF FrameOK
    <3>4. Once(y, tab[y], met.room, net.up[y], met.net.down[y], met.net.bus[y])
      BY <2>7, <3>2 DEF Agreed, Fits, Inside
    <3>5. ASSUME NEW d \in Calls, Elsewhere(stops, d), Lives(met.room, d)
          PROVE  Quit(y, met.room, net.up[y], d) \/ (tab[y].call.id = d /\ Within(tab[y]) /\ ~tab[y].timer)
      BY <2>2, <3>2, <3>4, <3>5 DEF Once, Elsewhere
    <3> QED
      BY <3>2, <3>3, <3>5
  <2>9. Agreed(x, up) /\ x.room = seat.room
    BY <2>1, <2>3, <2>6, <2>7, <2>8, Proclaims
  <2> QED
    BY <2>4, <2>9 DEF Heard
<1>7. \/ ~Live(c) /\ x = ToTab(w, t, Error("call_gone", None))
      \/ Live(c) /\ o = caller /\ x = ToTab(w, t, Error("forbidden", None))
      \/ Live(c) /\ ~Won(t, c) /\ x = Lost(w, t, c)
      \/ Live(c) /\ x = ToOwners(met, self, stops)
  BY DEF handleAnswer
<1> HIDE DEF met, stops, self
<1> QED
  BY <1>3, <1>4, <1>5, <1>6, <1>7

LEMMA JoinTurned ==
    ASSUME ClientInv, AgreeInv, NEW w, NEW up, Agreed(w, up), w.room = room, NEW t \in plan.tabs, net.up[t] # <<>>,
           NEW f \in Ups, f = Head(net.up[t]), f.kind = "join", NEW x, x = handleJoin(w, t, f)
    PROVE  Agreed(x, up) /\ (t \in Sound => Heard(t, x, f))
<1> DEFINE c == f.id
           seat == Seated(w, t, c)
<1>1. c \in Calls /\ OwnerOf[t] \in Owners /\ t \in Tabs
  BY TabAssumption DEF ClientInv, Setting, PlanType, Ups
<1>2. t \in Sound => /\ OwnerOf[t] \in People /\ Enters(net.up[t], c) /\ Seats(t, room)
  BY Sender DEF Says, Enters, Inside
<1>3. CASE ~Live(c) /\ x = ToTab(w, t, Error("call_gone", None))
  BY <1>1, <1>2, <1>3, LiveLives, GoneFrom
<1>4. CASE Live(c) /\ ~Won(t, c) /\ x = Lost(w, t, c)
  <2>1. t \notin Sound
    BY <1>1, <1>2, <1>4 DEF Won, Seats
  <2> QED
    BY <1>1, <1>4, <2>1, LostFor
<1>5. CASE Live(c) /\ x = announceParticipant(seat, c, OwnerOf[t])
  <2>1. Lives(w.room, c) /\ seat = Seated(w, t, c)
    BY <1>5, LiveLives
  <2> HIDE DEF seat
  <2>2. Agreed(seat, up) /\ Lives(seat.room, c) /\ Sits(t, seat.room, c)
    BY <1>1, <1>2, <2>1, SeatFor
  <2>3. Agreed(x, up) /\ x.room = seat.room
    BY <1>1, <1>5, <2>2, ParticipantsFor
  <2> QED
    BY <2>2, <2>3 DEF Heard
<1>6. \/ ~Live(c) /\ x = ToTab(w, t, Error("call_gone", None))
      \/ Live(c) /\ ~Won(t, c) /\ x = Lost(w, t, c)
      \/ Live(c) /\ x = announceParticipant(seat, c, OwnerOf[t])
  BY DEF handleJoin
<1> HIDE DEF seat
<1> QED
  BY <1>3, <1>4, <1>5, <1>6

LEMMA HangupTurn ==
    ASSUME ClientInv, AgreeInv, NEW w, NEW up, Agreed(w, up), w.room = room, NEW t \in plan.tabs, net.up[t] # <<>>,
           NEW f \in Ups, f = Head(net.up[t]), f.kind = "hangup", NEW x, x = handleHangup(w, t, f)
    PROVE  Agreed(x, up) /\ (t \in Sound => Heard(t, x, f))
<1> DEFINE c == f.id
           o == OwnerOf[t]
           left == [Gone(w, c, o) EXCEPT !.room[c].dismissed = @ \cup {o}]
           said == announceParticipant(left, c, o)
<1>1. c \in Calls \cup {None} /\ o \in Owners /\ t \in Tabs /\ f.reason \in Endings
  BY TabAssumption DEF ClientInv, Setting, PlanType, Ups, UpType, Endings
<1>2. t \in Sound => /\ o \in People /\ Quits(net.up[t], c) /\ net.up[t] \in Seq(Ups)
                     /\ \A g \in Range(net.up[t]) : g.kind = "invite" => g.id = None
  BY Sender DEF Says, Quits, Inside, Habits
<1>3. CASE c = None /\ x = ToTab(w, t, Error("bad_frame", None))
  <2> DEFINE g == Error("bad_frame", None)
  <2>1. g \in Downs /\ g.kind = "error" /\ g.reason = "bad_frame" /\ g.id = None
    BY Refusals, ErrorParts
  <2>2. x = ToTab(w, t, g)
    BY <1>3
  <2> HIDE DEF g
  <2>3. Born(w.room, g.id) /\ g.reason \in Codes
    BY <2>1 DEF Born, Codes
  <2>4. Agreed(x, up)
    BY <1>1, <1>2, <2>1, <2>2, <2>3, Refuses
  <2> QED
    BY <1>3, <2>4, TabAssumption DEF Heard
<1>4. CASE c \in Calls /\ ~Live(c) /\ x = ToTab(w, t, Error("call_gone", None))
  BY <1>1, <1>2, <1>4, LiveLives, GoneFrom
<1>5. CASE c \in Calls /\ Live(c) /\ IsGroup /\ x = Spent(said, c, f.reason)
  <2>1. Lives(w.room, c) /\ said = announceParticipant(left, c, o)
    BY <1>5, LiveLives
  <2> HIDE DEF left, said
  <2>2. t \in Sound => (~Leaves(net.up[t], c) => Enters(net.up[t], c))
    <3> DEFINE U == net.up[t]
    <3>1. U # <<>> /\ Head(U).kind = "hangup" /\ Head(U).id = c /\ c \in Calls
      BY <1>5
    <3>2. t \in Sound => U \in Seq(Ups) /\ \A g \in Range(U) : g.kind = "invite" => g.id = None
      BY <1>2
    <3> HIDE DEF U
    <3>3. t \in Sound => (~Leaves(U, c) => Enters(U, c))
      BY <3>1, <3>2, Comeback
    <3> QED
      BY <3>3 DEF U
  <2>3. Agreed(left, up) /\ Lives(left.room, c) /\ (t \in Sound => ~Sits(t, left.room, c) /\ OwnerOf[t] \in left.room[c].dismissed)
    <3>1. left = [Gone(w, c, o) EXCEPT !.room[c].dismissed = @ \cup {o}]
      BY DEF left
    <3>2. t \in Sound => /\ OwnerOf[t] \in People /\ IsGroup /\ Quits(net.up[t], c)
                         /\ ~Leaves(net.up[t], c) => Enters(net.up[t], c)
      BY <1>2, <1>5, <2>2
    <3>3. c \in Calls /\ Lives(w.room, c) /\ o = OwnerOf[t]
      BY <1>5, <2>1
    <3> HIDE DEF o
    <3> QED
      BY ZenonT(60), <3>1, <3>2, <3>3, GoneFor
  <2>4. Agreed(said, up) /\ said.room = left.room
    BY <1>1, <1>5, <2>1, <2>3, ParticipantsFor
  <2>5. Agreed(x, up) /\ (x = said \/ ~Lives(x.room, c))
    BY <1>1, <1>5, <2>3, <2>4, SpentFor
  <2> QED
    BY <1>5, <2>3, <2>4, <2>5 DEF Heard
<1>6. CASE c \in Calls /\ Live(c) /\ x = endCall(w, c, f.reason, o)
  <2>1. w.room[c].status # "unborn"
    BY <1>6 DEF Live
  <2>2. Agreed(x, up) /\ ~Lives(x.room, c)
    BY <1>1, <1>6, <2>1, EndsFor
  <2> QED
    BY <2>2 DEF Heard
<1>7. \/ c = None /\ x = ToTab(w, t, Error("bad_frame", None))
      \/ c \in Calls /\ ~Live(c) /\ x = ToTab(w, t, Error("call_gone", None))
      \/ c \in Calls /\ Live(c) /\ IsGroup /\ x = Spent(said, c, f.reason)
      \/ c \in Calls /\ Live(c) /\ x = endCall(w, c, f.reason, o)
  BY <1>1 DEF handleHangup, leaveGroupCall
<1> HIDE DEF left, said
<1> QED
  BY <1>3, <1>4, <1>5, <1>6, <1>7

(*-------------------------------------------------------------------------*)
(* The steps of the room and of the sockets.                                *)

LEMMA RoomTurned ==
    ASSUME ClientInv, AgreeInv, NEW r, NEW up, Agreed(r, up), room' = r.room, net' = r.net,
           UNCHANGED <<plan, tab, conn, cut, misled>>, \A x \in Tabs : closing'[x] \subseteq closing[x],
           \A x \in Sound : up[x] = net.up[x] \/ Fits(x, tab[x], r.room, up[x], r.net.down[x], r.net.bus[x])
    PROVE  AgreeInv'
<1>1. Records(room') /\ net'.up = up
  BY DEF Agreed
<1>2. Open'
  BY DEF AgreeInv, Open, ClientInv, Setting, PlanType
<1>3. ASSUME NEW x \in Sound PROVE Fits(x, tab'[x], room', net'.up[x], net'.down[x], net'.bus[x])
  <2>1. Fits(x, tab[x], r.room, net.up[x], r.net.down[x], r.net.bus[x])
    BY DEF Agreed
  <2>2. Fits(x, tab[x], r.room, up[x], r.net.down[x], r.net.bus[x])
    <3>1. CASE up[x] = net.up[x]
      BY <2>1, <3>1
    <3>2. CASE up[x] # net.up[x]
      BY <3>2
    <3> QED
      BY <3>1, <3>2
  <2> QED
    BY <1>1, <2>2
<1> QED
  BY <1>1, <1>2, <1>3, Goings

(* The world of a step that takes no frame.                                 *)
LEMMA WorldNow ==
    ASSUME ClientInv, AgreeInv, NEW w, w = [room |-> room, net |-> net]
    PROVE  Agreed(w, net.up) /\ w.room = room
BY DEF Agreed, AgreeInv, ClientInv, Setting, Worlds

(* The room reads the first frame of a sound tab.                           *)
LEMMA Read ==
    ASSUME ClientInv, AgreeInv, NEW t \in Sound, net.up[t] # <<>>, NEW f, f = Head(net.up[t]), NEW x, NEW up, Agreed(x, up),
           Heard(t, x, f)
    PROVE  Fits(t, tab[t], x.room, Tail(net.up[t]), x.net.down[t], x.net.bus[t])
<1> DEFINE U == net.up[t]
           D == x.net.down[t]
           B == x.net.bus[t]
           rm == x.room
           v == tab[t]
<1>1. /\ t \in Tabs /\ v \in TabRecs /\ U \in Seq(Ups) /\ U # <<>> /\ D \in Seq(Downs) /\ B \in Seq(Downs) /\ f = Head(U)
      /\ Fits(t, v, rm, U, D, B)
  BY OnTheWay
<1>2. /\ f.kind = "invite" => \E g \in Range(D) : Replies(g)
      /\ f.kind \in {"join", "answer"} => IF Lives(rm, f.id) THEN Sits(t, rm, f.id) ELSE Refused(D)
      /\ f.kind = "hangup" /\ f.id \in Calls /\ Lives(rm, f.id) =>
           IsGroup /\ ~Sits(t, rm, f.id) /\ OwnerOf[t] \in rm[f.id].dismissed
  BY DEF Heard
<1> HIDE DEF U, D, B, rm, v
<1>3. Tail(U) \in Seq(Ups) /\ Range(U) = Range(Tail(U)) \cup {f} /\ f \in Ups
  BY <1>1, Heads
<1>4. CASE OwnerOf[t] \in People
  <2>1. Inside(t, v, rm, U, D, B)
    BY <1>1, <1>4 DEF Fits
  <2>2. Inside(t, v, rm, Tail(U), D, B)
    <3>1. /\ t \in Tabs /\ v \in TabRecs /\ U \in Seq(Ups) /\ U # <<>> /\ D \in Seq(Downs) /\ B \in Seq(Downs)
          /\ Inside(t, v, rm, U, D, B) /\ f \in Ups /\ f = Head(U)
      BY <1>1, <1>3, <2>1
    <3> QED
      BY <1>2, <3>1, RoomReads
  <2> QED
    BY <1>4, <2>2 DEF Fits, U, D, B, rm, v
<1>5. CASE OwnerOf[t] \notin People
  <2>1. Outside(t, v, rm, U, D, B)
    BY <1>1, <1>5 DEF Fits
  <2>2. f.kind = "invite"
    BY <1>3, <2>1 DEF Outside
  <2>3. Dials(v, Tail(U), D)
    BY <1>2, <2>2 DEF Dials
  <2>4. Outside(t, v, rm, Tail(U), D, B)
    BY <1>3, <2>1, <2>3 DEF Outside
  <2> QED
    BY <1>5, <2>4 DEF Fits, U, D, B, rm, v
<1> QED
  BY <1>4, <1>5

LEMMA ServeTurn == ASSUME ClientInv, AgreeInv, NEW t \in Tabs, Serve(t) PROVE AgreeInv'
<1> DEFINE f == Head(net.up[t])
           n == [net EXCEPT !.up[t] = Tail(@)]
           w == [room |-> room, net |-> n]
           r == CASE f.kind = "invite" -> handleInvite(w, t, f)
                  [] f.kind = "answer" -> handleAnswer(w, t, f)
                  [] f.kind = "join"   -> handleJoin(w, t, f)
                  [] f.kind = "hangup" -> handleHangup(w, t, f)
<1>1. /\ t \in conn /\ net.up[t] # <<>> /\ room' = r.room /\ net' = r.net
      /\ f.kind = "invite" => \E c \in Calls : room[c].status = "unborn"
      /\ UNCHANGED <<plan, tab, conn, cut, misled>>
  BY DEF Serve
<1>2. \A x \in Tabs : closing'[x] \subseteq closing[x]
  <2>1. closing' = [closing EXCEPT ![t] = {c \in @ : f.kind \notin {"join", "answer"} \/ f.id # c}]
    BY DEF Serve
  <2> QED
    BY <2>1 DEF ClientInv, Setting
<1>3. t \in plan.tabs /\ net \in Nets /\ net.up[t] \in Seq(Ups)
  BY <1>1 DEF AgreeInv, Open, ClientInv, Setting, Nets
<1>4. f \in Ups /\ Tail(net.up[t]) \in Seq(Ups) /\ f = Head(net.up[t])
  BY <1>1, <1>3, Heads
<1>5. f.kind \in {"invite", "answer", "join", "hangup"}
  BY <1>4 DEF Ups, UpType
<1>6. /\ n \in Nets /\ n.bus = net.bus /\ n.down = net.down /\ n.up[t] = Tail(net.up[t])
      /\ \A x \in Tabs : x # t => n.up[x] = net.up[x]
  BY <1>3, <1>4 DEF Nets
<1> DEFINE up == n.up
<1> HIDE DEF n
<1>7. w.room = room /\ w.net = n /\ w \in Worlds
  BY <1>6 DEF Worlds, ClientInv, Setting
<1>8. Agreed(w, up)
  BY <1>6, <1>7 DEF Agreed, AgreeInv
<1> HIDE DEF f, w
<1>9. Agreed(r, up) /\ (t \in Sound => Heard(t, r, f))
  <2>1. CASE f.kind = "invite"
    <3>1. r = handleInvite(w, t, f)
      BY <2>1
    <3> HIDE DEF r
    <3> QED
      BY <1>1, <1>3, <1>4, <1>7, <1>8, <2>1, <3>1, InviteTurn
  <2>2. CASE f.kind = "answer"
    <3>1. r = handleAnswer(w, t, f)
      BY <2>2
    <3> HIDE DEF r
    <3> QED
      BY <1>1, <1>3, <1>4, <1>7, <1>8, <2>2, <3>1, AnswerTurn
  <2>3. CASE f.kind = "join"
    <3>1. r = handleJoin(w, t, f)
      BY <2>3
    <3> HIDE DEF r
    <3> QED
      BY <1>1, <1>3, <1>4, <1>7, <1>8, <2>3, <3>1, JoinTurned
  <2>4. CASE f.kind = "hangup"
    <3>1. r = handleHangup(w, t, f)
      BY <2>4
    <3> HIDE DEF r
    <3> QED
      BY <1>1, <1>3, <1>4, <1>7, <1>8, <2>4, <3>1, HangupTurn
  <2> QED
    BY <1>5, <2>1, <2>2, <2>3, <2>4
<1> HIDE DEF r
<1>10. \A x \in Sound : up[x] = net.up[x] \/ Fits(x, tab[x], r.room, up[x], r.net.down[x], r.net.bus[x])
  <2>1. t \in Sound => Fits(t, tab[t], r.room, Tail(net.up[t]), r.net.down[t], r.net.bus[t])
    BY <1>1, <1>4, <1>9, Read
  <2>2. \A x \in Sound : x \in Tabs
    BY SoundTabs
  <2> QED
    BY <1>6, <2>1, <2>2
<1> HIDE DEF up
<1> QED
  BY <1>1, <1>2, <1>9, <1>10, RoomTurned

LEMMA MissedTurn == ASSUME ClientInv, AgreeInv, NEW c \in Calls, RingTimesOut(c) PROVE AgreeInv'
<1> DEFINE w == [room |-> room, net |-> net]
           r == endCall(w, c, "missed", None)
<1>1. Agreed(w, net.up) /\ w.room = room
  BY WorldNow
<1>2. /\ room[c].status = "ringing" /\ room' = r.room /\ net' = r.net
      /\ UNCHANGED <<plan, tab, conn, closing, cut, misled>>
  BY DEF RingTimesOut
<1> HIDE DEF w
<1>3. Agreed(r, net.up)
  <2>1. "missed" \in Endings /\ None \in Owners \cup {None} /\ w.room[c].status # "unborn"
    BY <1>1, <1>2 DEF Endings
  <2> QED
    BY <1>1, <2>1, EndsFor
<1> HIDE DEF r
<1> QED
  BY <1>2, <1>3, RoomTurned

LEMMA ReleaseTurn == ASSUME ClientInv, AgreeInv, NEW t \in Tabs, Release(t) PROVE AgreeInv'
<1>1. PICK c \in closing[t] :
        /\ closing' = [closing EXCEPT ![t] = @ \ {c}] /\ UNCHANGED <<plan, tab, conn, misled, cut>>
        /\ LET o == OwnerOf[t]
               w == [room |-> room, net |-> net]
               r == IF ~Live(c) \/ room[c].member[o] # t THEN w
                    ELSE IF ~IsGroup THEN endCall(w, c, "hangup", o)
                    ELSE Spent(announceParticipant(Gone(w, c, o), c, o), c, "hangup")
           IN room' = r.room /\ net' = r.net
  BY DEF Release
<1> DEFINE o == OwnerOf[t]
           w == [room |-> room, net |-> net]
           gone == Gone(w, c, o)
           said == announceParticipant(gone, c, o)
<1>2. /\ c \in Calls /\ o \in Owners /\ \A x \in Tabs : closing'[x] \subseteq closing[x]
      /\ t \in plan.tabs /\ t \notin Sound
  BY <1>1, SoundTabs, TabAssumption DEF ClientInv, Setting, AgreeInv, Open
<1>3. Agreed(w, net.up) /\ w.room = room
  BY WorldNow
<1>4. PICK r : /\ room' = r.room /\ net' = r.net
               /\ \/ r = w
                  \/ Live(c) /\ r = endCall(w, c, "hangup", o)
                  \/ Live(c) /\ r = Spent(said, c, "hangup")
  BY <1>1
<1>6. "hangup" \in Endings
  BY DEF Endings
<1> HIDE DEF w
<1>5. Agreed(r, net.up)
  <2>1. CASE r = w
    BY <1>3, <2>1
  <2>2. CASE Live(c) /\ r = endCall(w, c, "hangup", o)
    <3>1. w.room[c].status # "unborn"
      BY <1>3, <2>2 DEF Live
    <3> QED
      BY <1>2, <1>3, <1>6, <2>2, <3>1, EndsFor
  <2>3. CASE Live(c) /\ r = Spent(said, c, "hangup")
    <3>1. Lives(w.room, c) /\ gone = Gone(w, c, o) /\ said = announceParticipant(gone, c, o)
      BY <1>3, <2>3, LiveLives
    <3> HIDE DEF gone, said
    <3>2. Agreed(gone, net.up) /\ Lives(gone.room, c)
      BY <1>2, <1>3, <3>1, GoneFor
    <3>3. Agreed(said, net.up) /\ said.room = gone.room
      BY <1>2, <3>1, <3>2, ParticipantsFor
    <3> QED
      BY <1>2, <1>6, <2>3, <3>2, <3>3, SpentFor
  <2> QED
    BY <1>4, <2>1, <2>2, <2>3
<1> HIDE DEF said, gone
<1> QED
  BY <1>1, <1>2, <1>4, <1>5, RoomTurned

(* A frame goes from the bus to the connection.                             *)
LEMMA Relayed ==
    ASSUME NEW t, NEW v, NEW rm, NEW U, NEW D \in Seq(Downs), NEW B \in Seq(Downs), B # <<>>, Inside(t, v, rm, U, D, B),
           NEW D2, D2 = Append(D, Head(B))
    PROVE  Inside(t, v, rm, U, D2, Tail(B))
<1> DEFINE f == Head(B)
           W == Tail(B)
<1>1. W \in Seq(Downs) /\ f \in Downs /\ Range(B) = Range(W) \cup {f} /\ f = Head(B)
  BY Heads
<1>2. InTime(rm, B, <<>>) /\ InTime(rm, D, B) /\ RingsFirst(D) /\ Known(v, rm, U, D, B) /\ Stream(t, rm, D, B)
      /\ Once(t, v, rm, U, D, B)
  BY DEF Inside, Order
<1>3. InTime(rm, W, <<>>) /\ (f.kind \in Tidings => Lives(rm, f.id) \/ Ended(<<>>, f.id) \/ Ended(W, f.id))
  BY <1>1, <1>2, InTimeFirst
<1>4. \A c : ~Ended(<<>>, c)
  BY DEF Ended, Range
<1> HIDE DEF W, f
<1>5. D2 = Append(D, f) /\ D2 \in Seq(Downs) /\ Range(D2) = Range(D) \cup {f}
  <2>1. D2 = Append(D, f)
    BY DEF f
  <2> QED
    BY <1>1, <2>1, Queues
<1>6. \A c : Ended(B, c) => Ended(W, c) \/ Ends(f, c)
  BY <1>1 DEF Ended
<1>7. f.kind \in News /\ f \in Range(B) /\ f.kind # "ringing"
  BY <1>1, <1>2 DEF Stream, News
<1>8. InTime(rm, D2, W)
  <2>1. f.kind \in Tidings => Lives(rm, f.id) \/ Ended(W, f.id)
    BY <1>3, <1>4
  <2>2. InTime(rm, Append(D, f), W)
    BY <1>1, <1>2, <1>6, <2>1, InTimeLater
  <2> QED
    BY <1>5, <2>2
<1>9. RingsFirst(D2)
  BY <1>1, <1>2, <1>5, <1>7, RingsLast
<1>10. FrameOK(t, rm, f) /\ Born(rm, f.id) /\ \A g \in Range(W) : g.kind \in News
  BY <1>1, <1>2, <1>7 DEF Stream, Known
<1>11. \A c \in Calls : Elsewhere(f, c) /\ Lives(rm, c) => Quit(t, rm, U, c) \/ (v.call.id = c /\ Within(v) /\ ~v.timer)
  BY <1>2, <1>7 DEF Once
<1>12. Order(rm, D2, W)
  BY <1>3, <1>8, <1>9 DEF Order
<1>13. Range(D) \subseteq Range(D2) /\ Range(B) \subseteq Range(D2) \cup Range(W)
       /\ Range(D2) \cup Range(W) \subseteq Range(D) \cup Range(B) \cup {f}
  BY <1>1, <1>5
<1> HIDE DEF Inside
<1>14. Inside(t, v, rm, U, D2, W)
  BY <1>10, <1>11, <1>12, <1>13, Delivered
<1> QED
  BY <1>14 DEF W

LEMMA RelayTurn == ASSUME ClientInv, AgreeInv, NEW t \in Tabs, Relay(t) PROVE AgreeInv'
<1> DEFINE B == net.bus[t]
           D == net.down[t]
           D2 == Append(D, Head(B))
<1>1. /\ B # <<>> /\ net' = [net EXCEPT !.bus[t] = Tail(@), !.down[t] = Append(@, Head(net.bus[t]))]
      /\ UNCHANGED <<plan, tab, conn, closing, room, misled, cut>>
  BY DEF Relay
<1>2. net \in Nets
  BY DEF ClientInv, Setting
<1>3. /\ net'.up = net.up /\ net'.bus[t] = Tail(B) /\ net'.down[t] = D2
      /\ \A x \in Tabs : x # t => net'.bus[x] = net.bus[x] /\ net'.down[x] = net.down[x]
  BY <1>1, <1>2 DEF Nets
<1>4. ASSUME NEW x \in Sound PROVE Fits(x, tab'[x], room', net'.up[x], net'.down[x], net'.bus[x])
  <2>1. x \in Tabs /\ Fits(x, tab[x], room, net.up[x], net.down[x], net.bus[x])
        /\ net.down[x] \in Seq(Downs) /\ net.bus[x] \in Seq(Downs)
    BY SoundTabs
  <2>2. CASE x # t
    BY <1>1, <1>3, <2>1, <2>2
  <2>3. CASE x = t
    <3>1. B \in Seq(Downs) /\ D \in Seq(Downs) /\ B # <<>> /\ D2 = Append(D, Head(B))
          /\ Fits(t, tab[t], room, net.up[t], D, B)
      BY <1>1, <2>1, <2>3
    <3>2. net'.up[t] = net.up[t] /\ net'.bus[t] = Tail(B) /\ net'.down[t] = D2 /\ tab' = tab /\ room' = room
      BY <1>1, <1>3
    <3> HIDE DEF D, B, D2
    <3>3. OwnerOf[t] \in People
      <4>1. Head(B) \in Range(B)
        BY <3>1, Heads
      <4> QED
        BY <3>1, <4>1 DEF Fits, Outside
    <3>4. Inside(t, tab[t], room, net.up[t], D2, Tail(B))
      BY <3>1, <3>3, Relayed DEF Fits
    <3> QED
      BY <2>3, <3>2, <3>3, <3>4 DEF Fits
  <2> QED
    BY <2>2, <2>3
<1>5. Open' /\ Records(room')
  BY <1>1 DEF AgreeInv, Open
<1> QED
  BY <1>1, <1>4, <1>5, Goings

LEMMA DropTurn == ASSUME ClientInv, AgreeInv, NEW t \in Tabs, Drop(t) PROVE AgreeInv'
<1>1. /\ t \in conn /\ conn' = conn \ {t} /\ cut' = cut \cup {t} /\ Spend(t, "drops")
      /\ net' = [up |-> [net.up EXCEPT ![t] = <<>>], down |-> [net.down EXCEPT ![t] = <<>>],
                 bus |-> [net.bus EXCEPT ![t] = <<>>]]
      /\ closing' = [closing EXCEPT ![t] = @ \cup {c \in Calls : room[c].member[OwnerOf[t]] = t}]
      /\ UNCHANGED <<tab, room, misled>>
  BY DEF Drop
<1>2. plan'.tabs = plan.tabs /\ plan'.people = plan.people
  BY <1>1, Spends DEF ClientInv, Setting, Presses
<1>3. \A x \in Tabs \ {t} : /\ net'.up[x] = net.up[x] /\ net'.bus[x] = net.bus[x] /\ net'.down[x] = net.down[x]
                            /\ closing'[x] = closing[x]
  BY <1>1 DEF ClientInv, Setting, Nets
<1>4. Open'
  BY <1>1, <1>2, <1>3 DEF AgreeInv, Open, ClientInv, Setting, PlanType
<1>5. ASSUME NEW x \in Sound, x \notin cut' \cup misled'
      PROVE  Fits(x, tab'[x], room', net'.up[x], net'.down[x], net'.bus[x])
  <2>1. x \in Tabs \ {t} /\ Fits(x, tab[x], room, net.up[x], net.down[x], net.bus[x])
    BY <1>1, <1>5, SoundTabs
  <2> QED
    BY <1>1, <1>3, <2>1
<1>6. Records(room')
  BY <1>1 DEF AgreeInv
<1> QED
  BY <1>1, <1>2, <1>4, <1>5, <1>6, Goings

LEMMA ReconnectTurn == ASSUME ClientInv, AgreeInv, NEW t \in Tabs, Reconnect(t) PROVE AgreeInv'
<1>1. /\ t \in plan.tabs \ conn /\ conn' = conn \cup {t} /\ net' = [net EXCEPT !.down[t] = ringPending(t)]
      /\ UNCHANGED <<plan, tab, closing, room, misled, cut>>
  BY DEF Reconnect
<1>2. /\ net'.up = net.up /\ net'.bus = net.bus /\ \A x \in Tabs \ {t} : net'.down[x] = net.down[x]
  BY <1>1 DEF ClientInv, Setting, Nets
<1>3. Open' /\ Records(room')
  BY <1>1 DEF AgreeInv, Open
<1>4. ASSUME NEW x \in Sound PROVE Fits(x, tab'[x], room', net'.up[x], net'.down[x], net'.bus[x])
  <2>1. x \in Tabs /\ x \in conn /\ Fits(x, tab[x], room, net.up[x], net.down[x], net.bus[x])
    BY SoundTabs
  <2> QED
    BY <1>1, <1>2, <2>1
<1> QED
  BY <1>1, <1>3, <1>4, Goings

(* What touches neither a dock nor the room.                                *)
LEMMA ElsewhereTurn ==
    ASSUME ClientInv, AgreeInv, plan'.tabs = plan.tabs, plan'.people = plan.people,
           UNCHANGED <<tab, conn, net, closing, room, misled, cut>>
    PROVE  AgreeInv'
<1>1. Open' /\ Records(room')
  BY DEF AgreeInv, Open
<1>2. \A x \in Sound : Fits(x, tab'[x], room', net'.up[x], net'.down[x], net'.bus[x])
  BY DEF AgreeInv
<1> QED
  BY <1>1, <1>2, Goings

LEMMA HistoryTurn ==
    ASSUME ClientInv, AgreeInv, NEW t \in Tabs, OpenThread(t) \/ Fetch(t) \/ Land(t)
    PROVE  AgreeInv'
<1>1. plan'.tabs = plan.tabs /\ plan'.people = plan.people
  <2>1. CASE OpenThread(t)
    <3>1. Spend(t, "opens")
      BY <2>1 DEF OpenThread
    <3> QED
      BY <3>1, Spends DEF ClientInv, Setting, Presses
  <2>2. CASE Fetch(t) \/ Land(t)
    BY <2>2 DEF Fetch, Land
  <2> QED
    BY <2>1, <2>2
<1>2. UNCHANGED <<tab, conn, net, closing, room, misled, cut>>
  BY DEF OpenThread, Fetch, Land
<1> QED
  BY <1>1, <1>2, ElsewhereTurn

(*-------------------------------------------------------------------------*)
(* The beginning, and what it comes to when every frame has arrived.        *)

LEMMA NothingSent ==
    /\ Range(<<>>) = {} /\ DOMAIN <<>> = {} /\ <<>> \in Seq(Ups) /\ <<>> \in Seq(Downs)
    /\ \A c : ~Leaves(<<>>, c) /\ ~Enters(<<>>, c) /\ ~Quits(<<>>, c) /\ ~Ended(<<>>, c) /\ ~Refused(<<>>)
    /\ \A k, c : ~Says(<<>>, k, c)
<1>1. Range(<<>>) = {} /\ DOMAIN <<>> = {} /\ <<>> \in Seq(Ups) /\ <<>> \in Seq(Downs)
  BY DEF Range
<1> QED
  BY <1>1 DEF Leaves, Enters, Quits, Says, Ended, Refused

(* Nothing is on its way: the tab is idle, or talks in the call it sits in. *)
LEMMA FitsAtRest ==
    ASSUME NEW t \in Tabs, NEW v, NEW rm, v.jobs = <<>>, v.timer = FALSE, Seats(t, rm),
           \/ v.call = NoCall /\ \A d \in Calls : ~Sits(t, rm, d)
           \/ /\ v.call # NoCall /\ v.call.id \in Calls /\ v.call.dir = "outgoing" /\ Lives(rm, v.call.id) /\ Sits(t, rm, v.call.id)
              /\ \A d \in Calls : Sits(t, rm, d) => d = v.call.id
    PROVE  Inside(t, v, rm, <<>>, <<>>, <<>>)
<1> DEFINE q == <<>>
<1>1. Range(q) = {} /\ DOMAIN q = {} /\ (\A c : ~Leaves(q, c) /\ ~Enters(q, c)) /\ (\A k, c : ~Says(q, k, c)) /\ v.jobs = q
  BY NothingSent
<1> HIDE DEF q
<1>2. v.call = NoCall => v.call.id = None /\ v.call.dir = "none" /\ v.call.state = "none"
  BY DEF NoCall
<1>3. v.call.id \in Calls => v.call.id # None
  BY TabAssumption
<1>4. Known(v, rm, q, q, q) /\ Stream(t, rm, q, q) /\ Habits(v, q)
  BY <1>1, <1>2 DEF Known, Stream, Habits, Born, Lives
<1>5. Order(rm, q, q)
  BY <1>1 DEF Order, InTime, RingsFirst
<1>6. Once(t, v, rm, q, q, q)
  BY <1>1 DEF Once, Accepts
<1>7. Placed(t, v, rm, q, q)
  BY <1>1 DEF Placed, Will
<1>8. Unnamed(v, rm, q, q, q) /\ Asked(t, v, rm, q, q, q)
  BY <1>2, <1>3 DEF Unnamed, Asked
<1>9. Named(t, v, rm, q, q, q)
  BY <1>1, <1>2 DEF Named, Fate, Will, Within
<1>10. Inside(t, v, rm, q, q, q)
  BY <1>4, <1>5, <1>6, <1>7, <1>8, <1>9 DEF Inside
<1> QED
  BY <1>10 DEF q

LEMMA AgreesFirst == Init => AgreeInv
<1> SUFFICES ASSUME Init PROVE AgreeInv
  OBVIOUS
<1> DEFINE talk == plan.talking
           who == OwnersOf(talk)
<1>1. /\ plan \in Plans /\ plan.tabs \subseteq Tabs /\ talk \subseteq plan.tabs /\ who \subseteq People /\ First \in Calls
      /\ People \subseteq Owners
  BY PlansAssumption, CallsAssumption, TalkersAssumption DEF Init, PlanType, First, People
<1>2. \A c \in Calls : room[c] = IF c = First /\ talk # {} THEN Underway(plan) ELSE Unborn
  BY DEF Init
<1>3. \A t \in Tabs : /\ tab[t] = IF t \in talk THEN Talking(plan, t) ELSE Idle
                      /\ net.up[t] = <<>> /\ net.down[t] = <<>> /\ net.bus[t] = <<>> /\ closing[t] = {}
  BY DEF Init
<1>4. /\ Unborn.status = "unborn" /\ Unborn.caller = None /\ Unborn.ever = {} /\ Unborn.dismissed = {}
      /\ \A o \in Owners : Unborn.member[o] = None
  BY DEF Unborn
<1>5. /\ Underway(plan).status = "active" /\ Underway(plan).ever = who
      /\ Underway(plan).caller = (CHOOSE o \in who : TRUE)
      /\ Underway(plan).dismissed = People \ who
      /\ \A o \in Owners : Underway(plan).member[o] = IF o \in who THEN CHOOSE t \in talk : OwnerOf[t] = o ELSE None
  BY DEF Underway, Unborn, People
<1>6. talk # {} => Underway(plan).caller \in who
  BY <1>5 DEF OwnersOf
<1>7. \A t \in talk : OwnerOf[t] \in who
  BY DEF OwnersOf
<1>8. \A o \in who : (CHOOSE t \in talk : OwnerOf[t] = o) \in talk /\ OwnerOf[CHOOSE t \in talk : OwnerOf[t] = o] = o
  BY DEF OwnersOf
<1>15. /\ \A t : /\ Talking(plan, t).timer = FALSE /\ Talking(plan, t).jobs = <<>> /\ Talking(plan, t).call # NoCall
                 /\ Talking(plan, t).call.id = First /\ Talking(plan, t).call.dir = "outgoing"
       /\ Idle.timer = FALSE /\ Idle.jobs = <<>> /\ Idle.call = NoCall
  BY DEF Talking, Idle, NoCall
<1> DEFINE taken == Underway(plan)
<1>9. Open
  BY <1>1, <1>3 DEF Init, Open
<1> HIDE DEF who, talk, taken
<1>10. Records(room)
  <2> SUFFICES ASSUME NEW c \in Calls
               PROVE  /\ room[c].status = "unborn" => room[c].caller = None /\ room[c].ever = {} /\ room[c].dismissed = {}
                      /\ ~Lives(room, c) => \A o \in Owners : room[c].member[o] = None
                      /\ room[c].caller \in People \cup {None} /\ (room[c].caller # None => room[c].caller \in room[c].ever)
                      /\ \A o \in Owners : room[c].member[o] # None => o \in room[c].ever
    BY DEF Records
  <2>1. CASE room[c] = Unborn
    BY <1>4, <2>1 DEF Lives
  <2>2. CASE room[c] = taken /\ talk # {}
    BY <1>1, <1>5, <1>6, <2>2 DEF Lives, taken
  <2> QED
    BY <1>2, <2>1, <2>2 DEF taken
<1>11. ASSUME NEW t \in Sound
       PROVE  Fits(t, tab[t], room, net.up[t], net.down[t], net.bus[t])
  <2>1. /\ t \in plan.tabs /\ t \in Tabs /\ OwnerOf[t] \in Owners /\ t # None
        /\ \A x \in plan.tabs : x # t => OwnerOf[x] # OwnerOf[t]
    BY <1>1, TabAssumption DEF Sound, Alone
  <2>2. OwnerOf[t] \in who => t \in talk /\ taken.member[OwnerOf[t]] = t
    BY <1>1, <1>5, <1>8, <2>1 DEF taken
  <2>3. OwnerOf[t] \notin who => taken.member[OwnerOf[t]] = None /\ t \notin talk
    BY <1>5, <1>7, <2>1 DEF taken
  <2>4. \A c \in Calls : Sits(t, room, c) => c = First /\ OwnerOf[t] \in who /\ talk # {}
    BY <1>2, <1>4, <2>1, <2>3 DEF Sits, taken
  <2>5. Seats(t, room)
    <3> SUFFICES ASSUME NEW c \in Calls
                 PROVE  /\ room[c].member[OwnerOf[t]] \in {None, t}
                        /\ Lives(room, c) /\ OwnerOf[t] \in room[c].ever => Sits(t, room, c)
      BY DEF Seats
    <3>1. CASE room[c] = Unborn
      BY <1>4, <2>1, <3>1 DEF Lives
    <3>2. CASE room[c] = taken
      BY <1>5, <2>2, <2>3, <3>2 DEF Sits, taken
    <3> QED
      BY <1>2, <3>1, <3>2 DEF taken
  <2>6. tab[t].jobs = <<>> /\ tab[t].timer = FALSE
    BY <1>3, <1>15, <2>1
  <2>7. CASE t \in talk
    <3>1. /\ tab[t].call # NoCall /\ tab[t].call.id = First /\ tab[t].call.dir = "outgoing" /\ OwnerOf[t] \in who
          /\ OwnerOf[t] \in People /\ room[First] = taken
      BY <1>1, <1>2, <1>3, <1>7, <1>15, <2>1, <2>7 DEF taken
    <3>2. Lives(room, First) /\ Sits(t, room, First)
      BY <1>5, <2>2, <3>1 DEF Lives, Sits, taken
    <3>3. Inside(t, tab[t], room, <<>>, <<>>, <<>>)
      <4>1. /\ tab[t].call.id \in Calls /\ Lives(room, tab[t].call.id) /\ Sits(t, room, tab[t].call.id)
            /\ \A d \in Calls : Sits(t, room, d) => d = tab[t].call.id
        BY <1>1, <2>4, <3>1, <3>2
      <4> QED
        BY <2>1, <2>5, <2>6, <3>1, <4>1, FitsAtRest
    <3> QED
      BY <1>3, <2>1, <3>1, <3>3 DEF Fits
  <2>8. CASE t \notin talk
    <3>1. tab[t].call = NoCall /\ \A d \in Calls : ~Sits(t, room, d)
      BY <1>3, <1>15, <2>1, <2>2, <2>4, <2>8
    <3>2. Inside(t, tab[t], room, <<>>, <<>>, <<>>)
      BY <2>1, <2>5, <2>6, <3>1, FitsAtRest
    <3>3. Outside(t, tab[t], room, <<>>, <<>>, <<>>)
      BY <2>6, <3>1, NothingSent DEF Outside
    <3> QED
      BY <1>3, <2>1, <3>2, <3>3 DEF Fits
  <2> QED
    BY <2>7, <2>8
<1> QED
  BY <1>9, <1>10, <1>11 DEF AgreeInv

LEMMA AgreesNext == ASSUME ClientInv, AgreeInv, [Next]_vars PROVE AgreeInv'
<1>1. CASE UNCHANGED vars
  BY <1>1, ElsewhereTurn DEF vars
<1>2. ASSUME NEW t \in Tabs,
             \/ Serve(t) \/ Drop(t) \/ Release(t) \/ Reconnect(t) \/ Relay(t) \/ Receive(t)
             \/ Dial(t) \/ Accept(t) \/ HangUp(t) \/ Join(t) \/ JoinTimesOut(t)
             \/ CaptureResolves(t) \/ DescriptionReady(t) \/ JobFails(t)
             \/ MediaConnects(t) \/ MediaFails(t)
             \/ OpenThread(t) \/ Fetch(t) \/ Land(t)
      PROVE  AgreeInv'
  BY <1>2, ServeTurn, DropTurn, ReleaseTurn, ReconnectTurn, RelayTurn, ReceiveTurn, DialTurn, AcceptTurn, HangUpTurn,
     JoinTurn, GivesUp, CaptureTurn, DescriptionTurn, JobTurn, MediaTurn, HistoryTurn
<1>3. ASSUME NEW c \in Calls, RingTimesOut(c) PROVE AgreeInv'
  BY <1>3, MissedTurn
<1>4. ASSUME NEW c \in Calls, Project(c) PROVE AgreeInv'
  BY <1>4, ElsewhereTurn DEF Project
<1> QED
  BY <1>1, <1>2, <1>3, <1>4 DEF Next

LEMMA AtRest == ASSUME ClientInv, AgreeInv PROVE RoomsAgree
<1> SUFFICES ASSUME Rest, NEW t \in plan.tabs \ (cut \cup misled), Alone(t)
             PROVE  LET o == OwnerOf[t]
                        call == tab[t].call
                    IN /\ call.dir = "outgoing" \/ InCall(t) =>
                             call.id # None /\ Live(call.id) /\ room[call.id].member[o] = t
                       /\ call.dir = "incoming" /\ call.state = "ringing" =>
                             Live(call.id) /\ o \notin room[call.id].ever \cup room[call.id].dismissed
                       /\ \A c \in Calls : room[c].member[o] = t => call.id = c
  BY DEF RoomsAgree
<1> DEFINE v == tab[t]
           q == <<>>
<1>1. t \in Sound
  BY DEF Sound
<1>2. /\ t \in Tabs /\ v \in TabRecs /\ OwnerOf[t] \in Owners /\ t # None /\ v.jobs = q
      /\ Fits(t, v, room, q, q, q)
  <2>1. t \in Tabs
    BY <1>1, SoundTabs
  <2>2. net.up[t] = q /\ net.down[t] = q /\ net.bus[t] = q /\ v.jobs = q
    BY <2>1 DEF Rest
  <2>3. v \in TabRecs /\ Fits(t, v, room, net.up[t], net.down[t], net.bus[t])
    BY <1>1, SoundTabs
  <2> QED
    BY <2>1, <2>2, <2>3, TabAssumption
<1>3. /\ Range(q) = {} /\ \A c : ~Leaves(q, c) /\ ~Enters(q, c) /\ ~Quits(q, c) /\ ~Ended(q, c) /\ ~Refused(q)
      /\ \A k, c : ~Says(q, k, c)
  BY NothingSent
<1> HIDE DEF q
<1>4. /\ v.call.id \in Ids /\ (v.call.dir = "incoming" => v.call.id \in Calls)
      /\ v.call = NoCall => v.call.dir = "none" /\ v.call.state = "none" /\ v.call.id = None
  BY <1>2, NamesTab, NoCallFits
<1>5. ~Dials(v, q, q) /\ (\A c : ~Over(room, q, q, q, c)) /\ (\A c : ~Accepts(v, c))
  BY <1>2, <1>3 DEF Dials, Over, Learns, Doomed, Accepts
<1>6. InCall(t) <=> Within(v)
  BY DEF InCall, Within
<1> HIDE DEF v
<1>7. CASE OwnerOf[t] \notin People
  <2>1. v.call = NoCall /\ \A c \in Calls : ~Sits(t, room, c)
    BY <1>2, <1>5, <1>7 DEF Fits, Outside
  <2>2. ~InCall(t) /\ v.call.dir = "none"
    BY <1>4, <1>6, <2>1 DEF Within
  <2> QED
    BY <2>1, <2>2 DEF Sits, v
<1>8. CASE OwnerOf[t] \in People
  <2>1. /\ Records(room) /\ Placed(t, v, room, q, q) /\ Unnamed(v, room, q, q, q) /\ Named(t, v, room, q, q, q)
        /\ Asked(t, v, room, q, q, q)
    BY <1>2, <1>8 DEF Fits, Inside, AgreeInv
  <2>2. ASSUME v.call.dir = "outgoing" \/ InCall(t)
        PROVE  v.call.id # None /\ Live(v.call.id) /\ room[v.call.id].member[OwnerOf[t]] = t
    <3>1. v.call # NoCall
      BY <1>4, <1>6, <2>2 DEF Within
    <3>2. v.call.id # None
      BY <1>5, <2>1, <3>1 DEF Unnamed
    <3>3. Will(t, room, q, v.call.id)
      BY <1>3, <1>5, <1>6, <2>1, <2>2, <3>2 DEF Named, Fate
    <3> QED
      BY <1>3, <3>2, <3>3, LiveLives DEF Will, Sits
  <2>3. ASSUME v.call.dir = "incoming", v.call.state = "ringing"
        PROVE  Live(v.call.id) /\ OwnerOf[t] \notin room[v.call.id].ever \cup room[v.call.id].dismissed
    BY <1>5, <2>1, <2>3, LiveLives DEF Asked, Undecided
  <2>4. ASSUME NEW c \in Calls, room[c].member[OwnerOf[t]] = t PROVE v.call.id = c
    <3>1. Lives(room, c)
      BY <1>2, <2>1, <2>4 DEF Records
    <3>2. Will(t, room, q, c)
      BY <1>3, <2>4, <3>1 DEF Will, Sits
    <3> QED
      BY <1>3, <2>1, <3>2 DEF Placed
  <2> QED
    BY <2>2, <2>3, <2>4 DEF v
<1> QED
  BY <1>7, <1>8

(* When every frame has arrived, no continuation is pending and no place is *)
(* held over a closed connection, the dock of a sound tab and the room tell *)
(* the same story, for any number of people, tabs and calls: a call on      *)
(* screen is live and the person's place in it is held by this tab, a call  *)
(* that rings is live and undecided, and no place is held without its call  *)
(* on screen (the handlers of CallService and of realtime-service).         *)
THEOREM RoomsTell == Spec => []RoomsAgree
<1>1. ClientInv /\ AgreeInv /\ [Next]_vars => AgreeInv'
  BY AgreesNext
<1>2. ClientInv /\ AgreeInv => RoomsAgree
  BY AtRest
<1> QED
  BY <1>1, <1>2, Client, AgreesFirst, PTL DEF Spec
==============================================================================
