------------------------------ MODULE MCFiles -------------------------------
(* Small instances of ChatFiles: one per question, checked in one run.     *)
EXTENDS ChatFiles, TLC

CONSTANTS f1, f2, f3, c1, c2

Budget == [act \in Acts |-> 0]
Plan(left, picks, kept, aged, convs, names) ==
    [left |-> left @@ Budget, picks |-> picks, kept |-> kept, old |-> aged, convs |-> convs,
     refs |-> names @@ [c \in Convs |-> {}]]

(* Two files are picked, removed, sent; the thread changes; a request fails. *)
Composes ==
    {Plan(("remove" :> 2) @@ ("send" :> 1) @@ ("lose" :> 1), {<<f1, f2>>}, {}, {}, {c1}, <<>>),
     Plan(("remove" :> 1) @@ ("send" :> 1) @@ ("switch" :> 1), {<<f1>>, <<f2>>}, {}, {}, {}, <<>>),
     Plan(("send" :> 1) @@ ("age" :> 1) @@ ("lose" :> 1), {<<f1>>}, {}, {}, {c1}, <<>>),
     Plan(("send" :> 1) @@ ("drop" :> 1) @@ ("age" :> 1), {<<f1>>}, {f2}, {}, {c1}, c1 :> {f2})}

(* A conversation with files goes; its event, its cleanup or the job fails. *)
Shared == (c1 :> {f1, f2}) @@ (c2 :> {f2})
Drops ==
    {Plan(("drop" :> 2) @@ x, {}, {f1, f2}, {}, {c1, c2}, Shared)
        : x \in {("fail" :> 2) @@ ("slow" :> 1), ("nats" :> 1) @@ ("fail" :> 1)}}
    \cup {Plan(("drop" :> 2) @@ ("die" :> 1), {}, {f1, f2}, {f1, f2}, {c1, c2}, Shared)}

(* Rows nobody refers to, more than a page of them, and one that is used.  *)
Leftovers == {Plan("fail" :> 1, {}, Files, Files, {c1}, c1 :> {f2})}

MCPlans == Composes \cup Drops \cup Leftovers
=============================================================================
