------------------------- MODULE CallServerEndings --------------------------
(* The handlers, timers and reapers of CallServer implement CallEnding.      *)
EXTENDS CallServer

(* The state of CallEnding that a state of the service stands for: a record  *)
(* that is there is a life that goes on, a process between consuming the     *)
(* record and announcing holds the life it consumed.                         *)
OpenLives == {<<d, life[d]>> : d \in {c \in Calls : Live(c)}}
TakenLives == {EndingOf(p) : p \in {q \in Procs : Ending(q)}}

Abstract == INSTANCE CallEnding WITH
    born <- life, open <- OpenLives, taken <- TakenLives, told <- told

(* endCall: a call is announced as ended by whoever consumed its record, at  *)
(* most once per life, and nothing is announced that was not consumed.       *)
EndingsAreClaimed == Abstract!Spec
=============================================================================
