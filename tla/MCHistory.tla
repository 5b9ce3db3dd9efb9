----------------------------- MODULE MCHistory ------------------------------
(* Instances of CallHistory for TLC.  Each cfg picks the messages.           *)
EXTENDS CallHistoryReplay

CONSTANT Topics    \* what to explore: messages, how many transactions fail, whether rows age or go
VARIABLE topic

CONSTANTS caller, callee,             \* people
          answer, hangup, emptied,    \* a call answered and hung up, or left by all but one
          noise,                      \* an event of something else
          d1, chat

Say(k, at, ans, why, len, who) ==
    [kind |-> k, call |-> d1, at |-> at, answered |-> ans, reason |-> why, talk |-> len, joined |-> who]

(* The call starts at 1; its events are what the handlers of CallServer      *)
(* publish.                                                                  *)
MCEventOf == [m \in Msgs |->
    CASE m = answer -> Say("started", 2, 2, "none", 0, {callee})
      [] m = hangup -> Say("ended", 4, 2, "hangup", 2, {caller, callee})
      [] m = emptied -> Say("ended", 5, 2, "empty", 3, {})
      [] m = noise -> [kind |-> "unusable"]]

MCStartOf == [d \in Calls |-> 1]
MCConvOf == [d \in Calls |-> chat]
MCInvitedTo == [d \in Calls |-> Owners]

(* The stream of one behaviour carries the messages of one topic.            *)
Topic(some, n, kept) == [msgs |-> some, faults |-> n, kept |-> kept]
Within ==
    /\ Published' \subseteq topic.msgs /\ faults' <= topic.faults
    /\ topic.kept => exists' = exists /\ old' = old
PlannedInit == Init /\ topic \in Topics
PlannedNext == Next /\ Within /\ UNCHANGED topic
Planned == PlannedInit /\ [][PlannedNext]_<<vars, topic>> /\ Fairness

OneCall == {Topic({answer, hangup}, 1, FALSE), Topic({answer, hangup}, 2, TRUE), Topic({noise}, 0, TRUE)}
=============================================================================
