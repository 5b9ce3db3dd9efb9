------------------------------ MODULE MCCalls -------------------------------
(* Instances of CallServer for TLC: who the people are and where their tabs  *)
(* live.  Each cfg picks the people, the conversation and the bounds.        *)
EXTENDS CallServerEndings, TLC

CONSTANTS a, b, e,               \* people
          a1, a2, b1, b2, e1,    \* connections, named after their owner
          i1, i2,                \* instances
          chat, pair,            \* conversations, of everyone and of a and b
          d1, d2                 \* calls

MCOwnerOf == [c \in Conns |-> CASE c \in {a1, a2} -> a [] c \in {b1, b2} -> b [] c = e1 -> e]

(* Every tab has a session of its own ...                                    *)
OwnSessions == [c \in Conns |-> c]
(* ... except that b2 is tab b1 reloaded.                                    *)
Reloaded == [c \in Conns |-> IF c = b2 THEN b1 ELSE c]

OneInstance == [c \in Conns |-> i1]
(* The caller's tabs are on i1, everybody else's on i2.                      *)
TwoInstances == [c \in Conns |-> IF c \in {a1, a2} THEN i1 ELSE i2]

Everyone == [w \in Conversations |-> IF w = pair THEN {a, b} ELSE Owners]

(* One run asks several small questions: a plan, picked at the start, narrows *)
(* what the clients and the machines do and leaves the service alone.        *)
CONSTANT Plans
VARIABLE plan

Plan(cs, ds, ws, who, f, c, x, t, sweeps) ==
    [conns |-> cs, calls |-> ds, convs |-> ws, dialers |-> who, frames |-> f, closes |-> c,
     crashes |-> x, faults |-> t, sweeps |-> sweeps]

Within ==
    /\ spent'.frames <= plan.frames /\ spent'.closes <= plan.closes
    /\ spent'.crashes <= plan.crashes /\ spent'.faults <= plan.faults
    /\ \A d \in Calls : info'[d] # info[d] =>
           d \in plan.calls /\ info'[d].conv \in plan.convs /\ info'[d].host \in plan.dialers
    /\ \A c \in Conns \ plan.conns : sock'[c] = sock[c] /\ loc'[c] = loc[c]
    /\ ~plan.sweeps => \A i \in Instances : loc'[i] = loc[i]

PlannedInit == Init /\ plan \in Plans
PlannedNext == Next /\ Within /\ UNCHANGED plan

(* The fairness of CallServer, but for the sweeps a plan leaves out.         *)
PlannedFairness ==
    /\ \A c \in Conns : WF_vars(Handle(c))
    /\ \A d \in Calls : WF_vars(Time(d)) /\ WF_vars(RingingExpires(d))
    /\ \A i \in Instances : WF_vars(plan.sweeps /\ Reap(i)) /\ WF_vars(HeartbeatLapses(i))

Planned == PlannedInit /\ [][PlannedNext]_<<vars, plan>>
PlannedFairly == Planned /\ PlannedFairness

(* sweep, reapOrphan: a call stranded by a process that died is ended by the *)
(* reaper of another, in the plans that run one (StrandedCallEnds).          *)
StrandedCallIsReaped == plan.sweeps => StrandedCallEnds

(* Two people: tabs that reload, close and join late; two tabs that answer.  *)
(* Three people: a group.                                                    *)
PairAndGroup ==
    {Plan({a1, b1, b2}, Calls, {pair}, {a1}, 3, 1, 0, 0, FALSE),
     Plan({a1, a2, b1}, Calls, {pair}, {b1}, 3, 0, 0, 0, FALSE),
     Plan({a1, b1, e1}, Calls, {chat}, {a1}, 3, 0, 0, 0, FALSE)}

(* A process that dies; a Redis command that fails, with a second call after. *)
DeathsAndFaults ==
    {Plan({a1, b1}, {d1}, {pair}, {a1}, 2, 0, 1, 0, TRUE),
     Plan({a1, b1}, {d1}, {pair}, {b1}, 1, 0, 1, 0, TRUE),
     Plan({a1, b1}, {d1, d2}, {pair}, {a1}, 2, 1, 0, 1, FALSE)}
(* Two people dial each other.                                               *)
TwoDialers == {Plan({a1, b1}, {d1, d2}, {pair}, {a1, b1}, 2, 0, 0, 0, FALSE)}
=============================================================================
