------------------------------ MODULE MCMedia -------------------------------
(***************************************************************************)
(* The two halves of a call's media: the link of a pair of tabs (CallLink) *)
(* and what one tab captures and shows (CallStage).  They share no state   *)
(* here, so a behaviour looks at one of them.                              *)
(***************************************************************************)
EXTENDS MCLink, TabStage, Naturals, TLC

VARIABLE looksAt

Count0 == [m \in {"call", "come", "share", "switch", "promote", "flip", "mute", "sample", "shown", "view"} |-> 0]
TabPlan(some, kinds) == [left |-> some @@ Count0, media |-> kinds]

MCStagePlans == {
    \* screens shared across two calls while peers come and go
    TabPlan([call |-> 2, come |-> 3, share |-> 3], {"audio"}),
    \* a camera added, switched off, exchanged for another
    TabPlan([call |-> 2, come |-> 3, promote |-> 1, switch |-> 1, flip |-> 2], {"audio", "video"}),
    \* two cameras added, and two exchanged, at once
    TabPlan([call |-> 1, come |-> 3, promote |-> 2, switch |-> 2], {"audio", "video"}),
    \* what the viewer looks at
    TabPlan([call |-> 2, come |-> 2, shown |-> 3, view |-> 2, share |-> 1], {"video"}),
    \* the microphone's warning
    TabPlan([call |-> 2, come |-> 1, mute |-> 2, sample |-> 5], {"audio"})}

MediaInit ==
    /\ looksAt \in {"link", "stage"}
    /\ Init /\ (looksAt = "stage" => plan = CHOOSE p \in Plans : TRUE)
    /\ S!Init /\ (looksAt = "link" => tabPlan = CHOOSE q \in StagePlans : TRUE)

LinkSystem(s) == looksAt = "link" /\ System(s) /\ UNCHANGED <<looksAt, tabVars>>
LinkPeople(s) == looksAt = "link" /\ People(s) /\ UNCHANGED <<looksAt, tabVars>>
Stage == looksAt = "stage" /\ S!Next /\ UNCHANGED <<looksAt, vars>>

MediaNext == Stage \/ \E s \in Sides : LinkSystem(s) \/ LinkPeople(s)

MediaSpec == MediaInit /\ [][MediaNext]_<<looksAt, vars, tabVars>> /\ \A s \in Sides : WF_vars(LinkSystem(s))

(* CallLink's PairOpens, of the behaviours that look at a link: two people *)
(* whose tabs build links to one another end up hearing one another        *)
(* (onnegotiationneeded, ensureLink, onRenegotiate).                       *)
LinkOpens == looksAt = "link" => PairOpens
=============================================================================
