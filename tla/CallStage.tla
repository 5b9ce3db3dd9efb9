------------------------------ MODULE CallStage ------------------------------
(***************************************************************************)
(* What one tab captures for a call and what its dock puts on the stage    *)
(* (webrtc-call.service.ts, call-dock.component.ts): the camera, the       *)
(* shared screen and the microphone's warning on one side, the peers'      *)
(* tiles, the pin and the size of the panel on the other.  How the call    *)
(* comes and goes is CallClient's, how tracks reach one peer CallLink's:   *)
(* here a call begins and ends, and peers come with a finished link.       *)
(*                                                                         *)
(* The browser opens a device while the handler awaits it; the call, the   *)
(* peers and the buttons go on meanwhile (asks).                           *)
(***************************************************************************)
EXTENDS Naturals, FiniteSets

CONSTANTS
  Peers,      \* the other people, numbered in the order of their owner ids
  Cams,       \* camera tracks this tab may open, one per capture
  Screens,    \* screens this tab may capture
  Shown,      \* screens the peers may share
  Plans,      \* how often each thing happens, and the media of the calls
  Me, None

Moves == {"call", "come", "share", "switch", "promote", "flip", "mute", "sample", "shown", "view"}

VARIABLES
  plan,      \* what may still happen
  call,      \* callState; n = 0: no call
  local,     \* localMedia (open, its cameras, those enabled), the shared screen, silentSamples
  running,   \* captures the device is giving: tracks nobody stopped
  links,     \* per linked peer, the tracks its connection sends; None: no link
  asks,      \* handlers that await a device, or a replaceTrack
  tiles,     \* remoteState: per peer whether its camera shows, and its screen
  dock       \* pinnedSource, previousScreenCount, minimised

vars == <<plan, call, local, running, links, asks, tiles, dock>>
(* Mutants that change a handler leave the rest alone.                     *)
tabVars == <<call, local, running, links, asks>>
viewVars == <<tiles, dock>>

SILENT_SAMPLES == 4

NoCall == [n |-> 0, media |-> "audio", sendingVideo |-> FALSE, cameraOff |-> FALSE,
           micMuted |-> FALSE, micSilent |-> FALSE, sharingScreen |-> FALSE]
NoMedia == [open |-> FALSE, cams |-> {}, enabled |-> {}, screen |-> None, silentSamples |-> 0]
NoTile == [stream |-> FALSE, screen |-> None]
(* What a handler that awaits will come back with; of a camera exchange     *)
(* also the cameras it takes away, the links it has been to, and the sender *)
(* it waits for: whose, and which track that sends.                        *)
Share(t) == [why |-> "share", gets |-> t, off |-> FALSE, olds |-> {}, at |-> None, old |-> None, done |-> {}]
Promote(t) == [Share(t) EXCEPT !.why = "promote"]
Switch(t, off) == [Share(t) EXCEPT !.why = "switch", !.off = off]
Stats == [Share(None) EXCEPT !.why = "stats"]

Unpinned == <<None, "none">>
People == <<None, "people">>
Pins == {Unpinned, People} \cup {<<o, k>> : o \in Peers \cup {Me}, k \in {"camera", "screen"}}

(* What the proofs ask of the constants: a track is a camera's or a        *)
(* screen's, and None is no peer, no track and no set of tracks.           *)
TracksDiffer ==
    /\ Cams \cap Screens = {} /\ None \notin Cams \cup Screens \cup Peers
    /\ \A sent \in SUBSET (Cams \cup Screens) : sent # None

TypeOK ==
    /\ plan \in [left : [Moves -> Nat], media : SUBSET {"audio", "video"}]
    /\ call \in [n : Nat, media : {"audio", "video"}, sendingVideo : BOOLEAN, cameraOff : BOOLEAN,
                 micMuted : BOOLEAN, micSilent : BOOLEAN, sharingScreen : BOOLEAN]
    /\ local \in [open : BOOLEAN, cams : SUBSET Cams, enabled : SUBSET Cams,
                  screen : Screens \cup {None}, silentSamples : Nat]
    /\ running \subseteq Cams \cup Screens
    /\ \A p \in Peers : links[p] = None \/ links[p] \subseteq Cams \cup Screens
    /\ asks \subseteq [why : {"share", "promote", "switch", "swap", "stats"}, gets : Cams \cup Screens \cup {None},
                       off : BOOLEAN, olds : SUBSET Cams, at : Peers \cup {None},
                       old : Cams \cup {None}, done : SUBSET Peers]
    /\ tiles \in [Peers -> [stream : BOOLEAN, screen : Shown \cup {None}]]
    /\ dock \in [pin : Pins, before : Nat, minimised : BOOLEAN]

Init ==
    /\ plan \in Plans
    /\ call = NoCall /\ local = NoMedia /\ running = {} /\ asks = {}
    /\ links = [p \in Peers |-> None]
    /\ tiles = [p \in Peers |-> NoTile]
    /\ dock = [pin |-> Unpinned, before |-> 0, minimised |-> FALSE]

Linked == {p \in Peers : links[p] # None}
May(move) == plan.left[move] > 0 /\ plan' = [plan EXCEPT !.left[move] = @ - 1]
(* A track the browser has not handed out yet.                             *)
Used == running \cup local.cams \cup {local.screen} \cup (UNION {links[p] : p \in Linked})
            \cup {a.gets : a \in asks} \cup (UNION {a.olds : a \in asks})
Fresh(kind) == CHOOSE t \in kind : t \notin Used
CanOpen(kind) == kind \ Used # {}

-----------------------------------------------------------------------------
(* The dock.                                                               *)

peers == Linked
(* Everyone's screen that is up, one's own included.                       *)
screens == {p \in peers : tiles[p].screen # None} \cup (IF local.screen # None THEN {Me} ELSE {})
screenCount == Cardinality(screens)
FirstScreen == IF screens = {Me} THEN Me
               ELSE CHOOSE p \in screens \ {Me} : \A q \in screens \ {Me} : p <= q

hasVideo ==
    /\ call.n # 0
    /\ \/ call.media = "video" \/ call.sendingVideo \/ call.sharingScreen
       \/ \E p \in peers : tiles[p].stream \/ tiles[p].screen # None

expanded == hasVideo /\ ~dock.minimised

Alive(pin) == IF pin[2] = "screen" THEN pin[1] \in screens ELSE pin[1] \in peers \cup {Me}

(* The source the stage gives its room to, or None.                        *)
focus ==
    CASE dock.pin = People -> None
      [] dock.pin \notin {Unpinned, People} /\ Alive(dock.pin) -> dock.pin
      [] screens = {} -> None
      [] OTHER -> <<FirstScreen, "screen">>

asideScreens == {o \in screens : focus # <<o, "screen">>}

(* The effect on the number of screens has seen the last change.           *)
Settled == dock.before = screenCount

(* A new share takes the stage back from a viewer who chose the people.    *)
ScreensCounted ==
    /\ ~Settled
    /\ dock' = [dock EXCEPT !.before = screenCount,
                            !.pin = IF screenCount > dock.before /\ @ = People THEN Unpinned ELSE @]
    /\ UNCHANGED <<plan, tabVars, tiles>>

togglePin ==
    \E o \in peers \cup {Me}, k \in {"camera", "screen"} :
        /\ Settled /\ hasVideo /\ May("view")
        /\ k = "screen" => o \in screens
        /\ dock' = [dock EXCEPT !.pin = IF @ = <<o, k>> THEN Unpinned ELSE <<o, k>>]
        /\ UNCHANGED <<tabVars, tiles>>

showPeople ==
    /\ Settled /\ hasVideo /\ May("view")
    /\ focus # None /\ focus[2] = "screen"
    /\ dock' = [dock EXCEPT !.pin = People]
    /\ UNCHANGED <<tabVars, tiles>>

toggleExpanded ==
    /\ Settled /\ hasVideo /\ May("view")
    /\ dock' = [dock EXCEPT !.minimised = ~@]
    /\ UNCHANGED <<tabVars, tiles>>

-----------------------------------------------------------------------------
(* Calls and peers.                                                        *)

(* A call with capture opened: a video call's camera is on.                *)
CallBegins ==
    \E media \in plan.media, camera \in BOOLEAN :
        LET with == camera /\ media = "video" /\ CanOpen(Cams)
            cam == IF with THEN {Fresh(Cams)} ELSE {}
        IN /\ Settled /\ call.n = 0 /\ May("call")
           /\ call' = [NoCall EXCEPT !.n = 3 - plan.left["call"], !.media = media, !.sendingVideo = with]
           /\ local' = [local EXCEPT !.open = TRUE, !.cams = cam, !.enabled = cam]
           /\ running' = running \cup cam
           /\ UNCHANGED <<links, asks, viewVars>>

(* Mutant of LocalTracks: a joiner gets the camera and no screen.          *)
CameraOnly == local.cams

(* What a new connection sends: the camera, and the screen if one is       *)
(* shared.                                                                 *)
LocalTracks == local.cams \cup (IF local.screen # None THEN {local.screen} ELSE {})

(* The end of buildLink.                                                   *)
PeerComes ==
    \E p \in Peers \ Linked :
        /\ Settled /\ call.n # 0 /\ May("come")
        /\ links' = [links EXCEPT ![p] = LocalTracks]
        /\ UNCHANGED <<call, local, running, asks, viewVars>>

(* The connection closes: a replaceTrack on it never settles.              *)
Hung(gone) == {a \in asks : a.why = "swap" /\ a.at \in gone}

dropLink(p) ==
    /\ links' = [links EXCEPT ![p] = None]
    /\ tiles' = [tiles EXCEPT ![p] = NoTile]
    /\ asks' = {[a EXCEPT !.done = @ \ {p}] : a \in asks \ Hung({p})}

PeerGoes ==
    \E p \in Linked :
        /\ Settled /\ May("come")
        /\ dropLink(p)
        /\ UNCHANGED <<call, local, running, dock>>

(* finish: everything the tab knows it holds is stopped.                   *)
teardown ==
    /\ Settled /\ call.n # 0
    /\ call' = NoCall
    /\ running' = running \ (local.cams \cup {local.screen})
    /\ local' = NoMedia
    /\ links' = [p \in Peers |-> None]
    /\ tiles' = [p \in Peers |-> NoTile]
    /\ asks' = asks \ Hung(Peers)
    /\ UNCHANGED <<plan, dock>>

(* ontrack and syncRemoteVideo: a camera or a screen appears or goes, or   *)
(* one exchange takes a screen away and brings the next.                   *)
PeerShows ==
    \E p \in Linked, tile \in [stream : BOOLEAN, screen : Shown \cup {None}] :
        /\ Settled /\ May("shown")
        /\ tile # tiles[p]
        /\ tiles' = [tiles EXCEPT ![p] = tile]
        /\ UNCHANGED <<tabVars, dock>>

-----------------------------------------------------------------------------
(* The microphone and the camera's switch.                                 *)

toggleMute ==
    /\ Settled /\ call.n # 0 /\ local.open /\ May("mute")
    /\ call' = [call EXCEPT !.micMuted = ~@]
    /\ UNCHANGED <<local, running, links, asks, viewVars>>

toggleCamera ==
    /\ Settled /\ call.n # 0 /\ local.open /\ call.sendingVideo /\ May("flip")
    /\ call' = [call EXCEPT !.cameraOff = ~@]
    /\ local' = [local EXCEPT !.enabled = IF call.cameraOff THEN local.cams ELSE {}]
    /\ UNCHANGED <<running, links, asks, viewVars>>

(* The sampling of one's own microphone, up to its await.                  *)
watchOutgoingAudio ==
    /\ Settled /\ call.n # 0 /\ Linked # {} /\ Stats \notin asks /\ May("sample")
    /\ IF call.micMuted
       THEN local' = [local EXCEPT !.silentSamples = 0] /\ UNCHANGED asks
       ELSE asks' = asks \cup {Stats} /\ UNCHANGED local
    /\ UNCHANGED <<call, running, links, viewVars>>

StatsArrive ==
    \E silent \in BOOLEAN :
        LET n == IF silent THEN local.silentSamples + 1 ELSE 0
        IN /\ Settled /\ Stats \in asks
           /\ asks' = asks \ {Stats}
           /\ local' = [local EXCEPT !.silentSamples = n]
           /\ call' = IF call.n = 0 THEN call ELSE [call EXCEPT !.micSilent = n >= SILENT_SAMPLES]
           /\ UNCHANGED <<plan, running, links, viewVars>>

-----------------------------------------------------------------------------
(* The shared screen.                                                      *)

(* Every connection stops sending screenTrack; the track stops.            *)
stopScreenShare ==
    /\ links' = [p \in Peers |-> IF p \in Linked THEN links[p] \ {local.screen} ELSE None]
    /\ local' = [local EXCEPT !.screen = None]
    /\ call' = [call EXCEPT !.sharingScreen = FALSE]

toggleScreenShare ==
    /\ Settled /\ call.n # 0 /\ Linked # {} /\ May("share")
    /\ IF call.sharingScreen
       THEN stopScreenShare /\ running' = running \ {local.screen} /\ UNCHANGED asks
       ELSE /\ CanOpen(Screens)
            /\ asks' = asks \cup {Share(Fresh(Screens))}
            /\ UNCHANGED <<links, local, call, running>>
    /\ UNCHANGED viewVars

(* The picker resolves: whatever the tab's call is now, its connections    *)
(* send the screen.                                                        *)
ScreenPicked ==
    \E a \in asks :
        /\ Settled /\ a.why = "share"
        /\ asks' = asks \ {a}
        /\ running' = running \cup {a.gets}
        /\ links' = [p \in Peers |-> IF p \in Linked THEN links[p] \cup {a.gets} ELSE None]
        /\ local' = [local EXCEPT !.screen = a.gets]
        /\ call' = IF call.n = 0 THEN call ELSE [call EXCEPT !.sharingScreen = TRUE]
        /\ UNCHANGED <<plan, viewVars>>

(* The picker is cancelled, the device cannot be opened, the report has no *)
(* level.                                                                  *)
NothingOpened ==
    \E a \in asks :
        /\ Settled /\ a.why # "swap"
        /\ asks' = asks \ {a}
        /\ UNCHANGED <<plan, call, local, running, links, viewVars>>

(* The browser's own button: the track has ended.                          *)
ScreenEnds ==
    \E s \in Screens \cap running :
        /\ Settled
        /\ stopScreenShare
        /\ running' = running \ {s, local.screen}
        /\ UNCHANGED <<plan, asks, viewVars>>

-----------------------------------------------------------------------------
(* The camera.                                                             *)

promoteToVideo ==
    /\ Settled /\ call.n # 0 /\ ~call.sendingVideo /\ Linked # {} /\ local.open
    /\ CanOpen(Cams) /\ May("promote")
    /\ asks' = asks \cup {Promote(Fresh(Cams))}
    /\ UNCHANGED <<call, local, running, links, viewVars>>

(* Without a call there is no localMedia: the handler throws with the      *)
(* camera on.                                                              *)
CameraOpened ==
    \E a \in asks :
        /\ Settled /\ a.why = "promote"
        /\ asks' = asks \ {a}
        /\ running' = running \cup {a.gets}
        /\ IF local.open
           THEN /\ links' = [p \in Peers |-> IF p \in Linked THEN links[p] \cup {a.gets} ELSE None]
                /\ local' = [local EXCEPT !.cams = @ \cup {a.gets}, !.enabled = @ \cup {a.gets}]
                /\ call' = [call EXCEPT !.media = "video", !.cameraOff = FALSE, !.sendingVideo = TRUE]
           ELSE UNCHANGED <<links, local, call>>
        /\ UNCHANGED <<plan, viewVars>>

useCamera ==
    /\ Settled /\ call.n # 0 /\ call.sendingVideo /\ local.open
    /\ CanOpen(Cams) /\ May("switch")
    /\ asks' = asks \cup {Switch(Fresh(Cams), call.cameraOff)}
    /\ UNCHANGED <<call, local, running, links, viewVars>>

(* Mutant of Due: only the links of the moment the camera opened.          *)
DueAtOnce(a) == {p \in Linked \ a.done : a.done = {} /\ links[p] \cap a.olds # {}}

(* The links the loop over this.links has still to visit: also those that  *)
(* came meanwhile.                                                         *)
Due(a) == {p \in Linked \ a.done : links[p] \cap a.olds # {}}

(* The exchange goes on to a link that is due.  It takes one of the senders *)
(* of a camera there, the first it finds: of two cameras the other stays.   *)
Replacing(a) == UNION {{[a EXCEPT !.at = p, !.old = c] : c \in links[p] \cap a.olds} : p \in Due(a)}

(* The other camera is open: the first replaceTrack, if a peer was sent    *)
(* the old one.                                                            *)
OtherCameraOpened ==
    \E a \in asks :
        LET swap == [a EXCEPT !.why = "swap", !.olds = local.cams]
            rest == asks \ {a}
        IN /\ Settled /\ a.why = "switch"
           /\ IF ~local.open
              THEN asks' = rest /\ running' = running \cup {a.gets}     \* throws, camera on
              ELSE IF Replacing(swap) = {}
              THEN asks' = rest /\ UNCHANGED running                    \* stopped again
              ELSE /\ \E next \in Replacing(swap) : asks' = rest \cup {next}
                   /\ running' = running \cup {a.gets}
           /\ UNCHANGED <<plan, call, local, links, viewVars>>

(* Another exchange may have waited for the same sender, which now sends    *)
(* the new camera.                                                         *)
SameSender(a, b) == b.why = "swap" /\ b.at = a.at /\ b.old = a.old
Others(a) == {IF SameSender(a, b) THEN [b EXCEPT !.old = a.gets] ELSE b : b \in asks \ {a}}

(* replaceTrack settles: on to the next link, or the new camera takes the  *)
(* place of the old, all of which stop.  It is lit by what the call said   *)
(* when the button was pressed.                                            *)
CameraReplaced ==
    \E a \in asks :
        LET swap == [a EXCEPT !.done = @ \cup {a.at}]
        IN /\ Settled /\ a.why = "swap"
           /\ links' = [links EXCEPT ![a.at] = (@ \ {a.old}) \cup {a.gets}]
           /\ IF Replacing(swap) # {}
              THEN /\ \E next \in Replacing(swap) : asks' = Others(a) \cup {next}
                   /\ UNCHANGED <<local, running>>
              ELSE /\ asks' = Others(a)
                   /\ running' = running \ a.olds
                   /\ local' = [local EXCEPT !.cams = (@ \ a.olds) \cup {a.gets},
                                             !.enabled = (@ \ a.olds) \cup (IF a.off THEN {} ELSE {a.gets})]
           /\ UNCHANGED <<plan, call, viewVars>>

-----------------------------------------------------------------------------
View == ScreensCounted \/ togglePin \/ showPeople \/ toggleExpanded \/ PeerShows
Device == StatsArrive \/ ScreenPicked \/ NothingOpened \/ ScreenEnds
              \/ CameraOpened \/ OtherCameraOpened \/ CameraReplaced
Buttons == toggleMute \/ toggleCamera \/ watchOutgoingAudio
              \/ toggleScreenShare \/ promoteToVideo \/ useCamera

Next == CallBegins \/ PeerComes \/ PeerGoes \/ teardown \/ View \/ Device \/ Buttons

Spec == Init /\ [][Next]_vars

-----------------------------------------------------------------------------
(* While the call says that a screen is shared, everybody in it is sent    *)
(* that screen, whoever came when and whatever share was stopped, picked   *)
(* twice or picked for an earlier call (toggleScreenShare, buildLink).     *)
PresenterReachesEveryone ==
    call.sharingScreen =>
        /\ local.screen \in running
        /\ \A p \in Linked : local.screen \in links[p]

(* Whoever is sent a camera is sent one that runs: useCamera stops the old *)
(* ones only when every connection that sent one sends the new one, though *)
(* peers come and go, cameras are added and other exchanges run between    *)
(* its awaits.                                                             *)
CameraReachesEveryone ==
    \A p \in Linked : links[p] \cap Cams # {} => links[p] \cap Cams \cap running # {}

(* Not so: "one track feeds every link", so that the camera an exchange    *)
(* stops is sent to nobody.  A camera added while a call is set up again,  *)
(* or added twice, is a second one; useCamera replaces one of the two on   *)
(* each link, and stops both.                                              *)
SentCamerasRun == \A p \in Linked : links[p] \cap Cams \subseteq running

(* Not so: the camera that is off sends nothing (toggleCamera).  useCamera *)
(* lights the new camera by what the call said before it awaited.          *)
CameraOffIsOff == call.cameraOff => local.enabled = {}

(* Not so: without a call, and with no device being asked for, nothing is  *)
(* captured (teardown).  A device handed over after the call ended stays   *)
(* on.                                                                     *)
CaptureEndsWithCall == call.n = 0 /\ asks = {} => running = {}

(* Not so: the warning of a dead microphone is not for one that is muted   *)
(* (watchOutgoingAudio).  Muting leaves the warning that is there.         *)
MutedIsNotWarned == ~(call.micMuted /\ call.micSilent)

(* Not so: a share that starts while the people hold the stage is counted  *)
(* as one more, which gives the stage back.  One exchange may replace a    *)
(* screen by the next.                                                     *)
NewShareTakesStage ==
    [][\A p \in Peers : /\ dock.pin = People
                        /\ tiles'[p].screen \notin {None, tiles[p].screen}
                        => ~Settled']_vars

(* Not so: a video call opens expanded.  The panel keeps the size the last *)
(* call left it in.                                                        *)
VideoOpensExpanded == [][call.n = 0 /\ call'.n # 0 /\ call'.media = "video" => expanded']_vars
=============================================================================
