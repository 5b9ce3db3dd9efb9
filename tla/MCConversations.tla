-------------------------- MODULE MCConversations --------------------------
(* Instances of Conversations for TLC: three people, of whom Me stands       *)
(* between the two others in the order of the ids.                           *)
EXTENDS Conversations

Direct(p, q) == [row |-> [kind |-> "direct", key |-> directKeyFor(<<p, q>>), admin |-> q],
                 who |-> {p, q}]
Group(p, others) == [row |-> [kind |-> "group", key |-> <<>>, admin |-> p],
                     who |-> {p} \cup others]

Plan(r, o, m, f, t, x) == [rows |-> r, ops |-> o, moves |-> m, flows |-> f, others |-> t, faults |-> x]

Drafts == {Plan(<<>>, {"first"}, 3, 2, 0, 0), Plan(<<>>, {"first"}, 2, 1, 1, 1),
           Plan(<<Direct(2, 3)>>, {"first"}, 3, 1, 1, 0)}
Members == {Plan(<<Group(2, {1})>>, {"add", "leave", "rename"}, 3, 2, 0, 0),
            Plan(<<Group(2, {1})>>, {"add", "leave"}, 2, 1, 1, 1),
            Plan(<<>>, {"first", "group"}, 2, 2, 0, 0)}
Everything == Drafts \cup Members
=============================================================================
