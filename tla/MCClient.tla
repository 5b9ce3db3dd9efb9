------------------------------ MODULE MCClient ------------------------------
(* Small instances of CallClient: one per question, checked in one run.    *)
EXTENDS CallClient

CONSTANTS a, b, e, a1, a2, b1, e1

MCRank == (a :> 1) @@ (b :> 2) @@ (e :> 3)
MCOwnerOf == (a1 :> a) @@ (a2 :> a) @@ (b1 :> b) @@ (e1 :> e)

Nobody == [t \in Tabs |-> 0]
May(tabs) == [t \in Tabs |-> IF t \in tabs THEN 1 ELSE 0]
Nothing == [p \in Presses |-> Nobody]

(* Who may press what: a dials and b answers unless said otherwise.        *)
Pair(left) == [tabs |-> {a1, b1}, talking |-> {}, people |-> {a, b}, believed |-> {a, b}, watchers |-> {}, fetches |-> 0,
               left |-> left]
Mesh(left) == [Pair(left) EXCEPT !.tabs = {a1, b1, e1}, !.people = {a, b, e}, !.believed = {a, b, e}]
Answered == [Nothing EXCEPT !["dials"] = May({a1}), !["accepts"] = May({b1})]

Watched(left) == [Mesh(left) EXCEPT !.talking = {a1, e1}, !.watchers = {b1}, !.fetches = 1]

(* Two people dial each other, and one of them thinks better of it.        *)
Glares == {Pair([Answered EXCEPT !["dials"] = May({a1, b1}), !["accepts"] = May({a1}), !["hangups"] = May(x)])
            : x \in {{a1}}}

(* Microphones, descriptions, media fail; a socket drops under a call.     *)
Faults == {Pair([Answered EXCEPT !["faults"] = May(x), !["hangups"] = May({a1, b1})]) : x \in {{a1}, {b1}}}
Drops == {Pair([Answered EXCEPT !["drops"] = May(x), !["hangups"] = May({a1, b1})]) : x \in {{a1}, {b1}}}

(* A client that is wrong about who is in the conversation.                *)
Wrong == {[Pair(Answered) EXCEPT !.people = x] : x \in {{a}, {b}, {a, b, e}}}
         \cup {[Pair(Answered) EXCEPT !.believed = {a, b, e}]}

(* Two tabs of one person answer.                                          *)
Siblings == {[Pair([Answered EXCEPT !["dials"] = May({b1}), !["accepts"] = May({a1, a2})])
                EXCEPT !.tabs = {a1, a2, b1}]}

(* Three people, who come and go.                                          *)
Group == {Mesh([Answered EXCEPT !["accepts"] = May({b1, e1}), !["hangups"] = May({b1})])}

(* The banner: b joins two people who talk and may leave.                  *)
Banner == {Watched([Nothing EXCEPT !["opens"] = May({b1}), !["joins"] = May({b1}),
                                   !["hangups"] = May({a1})])}
(* The frame of a Join is lost.                                            *)
LostJoin == {Watched([Nothing EXCEPT !["opens"] = May({b1}), !["joins"] = May({b1}), !["drops"] = May({b1})])}
(* Two refreshes of one thread pass each other while a call ends.          *)
Stale == {[Pair([Answered EXCEPT !["hangups"] = May({a1}), !["opens"] = May({b1}), !["joins"] = May({b1})])
              EXCEPT !.watchers = {b1}, !.fetches = 2]}

MCPlans == Glares \cup Faults \cup Drops \cup Wrong \cup Siblings \cup Group \cup Banner \cup LostJoin \cup Stale

(* a gives a dial up and dials again before the microphone is there.       *)
MCCaptures == {Pair([Answered EXCEPT !["dials"] = [Nobody EXCEPT ![a1] = 2],
                                     !["hangups"] = [Nobody EXCEPT ![a1] = 2]])}

(* b hangs up on a call that is over and joins the next one before the     *)
(* refusal of the hangup is there.                                         *)
MCGone == {[Mesh([Nothing EXCEPT !["dials"] = May({a1}), !["accepts"] = May({e1}), !["hangups"] = May({a1, b1}),
                                 !["joins"] = May({b1})])
               EXCEPT !.talking = {a1, b1}, !.watchers = {b1}, !.fetches = 1]}
(* b leaves a call and dials before the news of who joined it is there.    *)
MCRedial == {[Mesh([Nothing EXCEPT !["dials"] = May({b1}), !["hangups"] = May({b1}), !["opens"] = May({e1}),
                                   !["joins"] = May({e1})])
                 EXCEPT !.talking = {a1, b1}, !.watchers = {e1}, !.fetches = 1]}
=============================================================================
