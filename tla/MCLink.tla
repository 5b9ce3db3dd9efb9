------------------------------- MODULE MCLink -------------------------------
EXTENDS CallLink

Call(mode, caller, walkedIn, refused, presenting, news, moves) ==
    [mode |-> mode, caller |-> caller, walkedIn |-> walkedIn, refused |-> refused,
     presenting |-> presenting, news |-> news, moves |-> moves]

(* A group's pair: both accepted, one walked in, or one was presenting.    *)
MeshPlans ==
    {Call("mesh", "lo", {}, {}, {}, 0, 2), Call("mesh", "lo", {}, {}, {}, 2, 0)}
        \cup {Call("mesh", "lo", {s}, r, p, 0, 1) :
                 s \in Sides, r \in {{}, {"hi"}}, p \in SUBSET Sides}
(* A 1:1 call, placed by either side.                                      *)
PairPlans == {Call("answer", s, {}, {}, {}, 0, 2) : s \in Sides}
(* The callee has no socket while the call is placed.                      *)
LatePlans == {Call("join", s, {}, {}, {}, 0, 0) : s \in Sides}

MCPlans == MeshPlans \cup PairPlans \cup LatePlans
=============================================================================
