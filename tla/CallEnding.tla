----------------------------- MODULE CallEnding -----------------------------
(***************************************************************************)
(* What endCall promises about the end of a call, whatever ends it: every  *)
(* life of a call record is taken by at most one finisher, who tells about *)
(* it at most once.  A life may also be lost: its record expires, or its   *)
(* finisher dies before it could tell.                                     *)
(***************************************************************************)
EXTENDS Naturals

CONSTANT Calls

VARIABLES
    born,    \* how many lives each call has had
    open,    \* lives that go on
    taken,   \* lives somebody is about to announce as ended
    told     \* lives announced as ended

vars == <<born, open, taken, told>>

Init ==
    /\ born = [d \in Calls |-> 0]
    /\ open = {}
    /\ taken = {}
    /\ told = {}

Begin(d) ==
    /\ \A x \in open : x[1] # d
    /\ born' = [born EXCEPT ![d] = @ + 1]
    /\ open' = open \cup {<<d, born[d] + 1>>}
    /\ UNCHANGED <<taken, told>>

Take(x) ==
    /\ x \in open
    /\ open' = open \ {x}
    /\ taken' = taken \cup {x}
    /\ UNCHANGED <<born, told>>

Tell(x) ==
    /\ x \in taken
    /\ taken' = taken \ {x}
    /\ told' = told \cup {x}
    /\ UNCHANGED <<born, open>>

Expire(x) ==
    /\ x \in open
    /\ open' = open \ {x}
    /\ UNCHANGED <<born, taken, told>>

(* Finishers die and take what they had in hand with them.                   *)
Lose ==
    /\ \E lost \in SUBSET taken : taken' = taken \ lost
    /\ UNCHANGED <<born, open, told>>

Next ==
    \/ \E d \in Calls : Begin(d)
    \/ \E x \in open : Take(x) \/ Expire(x)
    \/ \E x \in taken : Tell(x)
    \/ Lose

Spec == Init /\ [][Next]_vars
=============================================================================
