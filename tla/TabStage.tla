------------------------------ MODULE TabStage -------------------------------
(***************************************************************************)
(* CallStage beside the other modules of a call: one tab's tracks, with     *)
(* constants and variables of their own.                                   *)
(***************************************************************************)
CONSTANTS Peers, Cams, Captured, Shown, StagePlans, Me, NoTrack

VARIABLES tabPlan, tabCall, local, running, links, asks, tiles, dock

tabVars == <<tabPlan, tabCall, local, running, links, asks, tiles, dock>>

S == INSTANCE CallStage WITH Screens <- Captured, Plans <- StagePlans, None <- NoTrack,
                             plan <- tabPlan, call <- tabCall

ASSUME StageTracks == S!TracksDiffer

(* While the call says that a screen is shared, everybody in it is sent    *)
(* that screen, whoever came when and whatever share was stopped, picked   *)
(* twice or picked for an earlier call (toggleScreenShare, buildLink).     *)
PresenterReachesEveryone == S!PresenterReachesEveryone

(* Whoever is sent a camera is sent one that runs: useCamera stops the old *)
(* ones only when every connection that sent one sends the new one, though *)
(* peers come and go, cameras are added and other exchanges run between    *)
(* its awaits.                                                             *)
CameraReachesEveryone == S!CameraReachesEveryone

(* Not so: "one track feeds every link", so that the camera an exchange    *)
(* stops is sent to nobody.  useCamera replaces one track on each link, and *)
(* stops every camera the call had.                                        *)
SentCamerasRun == S!SentCamerasRun
=============================================================================
