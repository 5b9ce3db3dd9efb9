------------------------- MODULE ConversationProofs -------------------------
(***************************************************************************)
(* Where first messages go and what the chats page shows, for any people,  *)
(* conversations, limits and plans; and what a thread shows, for any       *)
(* conversations, messages, files, windows and budgets: each message once, *)
(* and none that it showed disappears.                                     *)
(***************************************************************************)
EXTENDS Conversations, ChatStore, FiniteSetTheorems, WellFoundedInduction, TLAPS

Others == People \ {Me}
Kinds == {"direct", "group"}
RowSet == [kind : Kinds, key : {<<>>} \cup (People \X People), admin : People]
Ops == {"first", "group", "add", "leave", "rename"}

-----------------------------------------------------------------------------
Less == {ss \in Nat \X Nat : ss[1] < ss[2]}

LEMMA LeastOf == ASSUME NEW S \in SUBSET Nat, S # {} PROVE Min(S) \in S
<1>1. IsWellFoundedOn(Less, Nat)
  BY NatLessThanWellFounded DEF OpToRel, Less
<1>2. PICK x \in S : \A y \in S : ~(<<y, x>> \in Less)
  BY <1>1, WFMin
<1>3. \A y \in S : x <= y
  <2>1. ASSUME NEW y \in S, y < x
        PROVE  FALSE
    <3>1. <<y, x>> \in Less
      BY <2>1 DEF Less
    <3> QED BY <1>2, <3>1
  <2> QED BY <2>1
<1> QED BY <1>3 DEF Min

LEMMA OnlyOf == ASSUME NEW x \in Nat PROVE Min({x}) = x
BY LeastOf

LEMMA KeyOf ==
    ASSUME NEW o \in People, NEW p \in People, o # p
    PROVE  \E a, b \in People : a < b /\ directKeyFor(<<o, p>>) = <<a, b>> /\ {a, b} = {o, p}
BY PeopleAreOrdered DEF directKeyFor

-----------------------------------------------------------------------------
(* The tables: a pair has one direct row, which keeps its two people.       *)

Direct(c) == rows[c].kind = "direct"

Tables ==
    /\ rows \in Seq(RowSet) /\ here \in Seq(SUBSET People) /\ Len(here) = Len(rows)
    /\ \A c \in Made : Direct(c) => \E p, q \in People : p < q /\ rows[c].key = <<p, q>> /\ here[c] = {p, q}
    /\ \A c, d \in Made : Direct(c) /\ Direct(d) /\ rows[c].key = rows[d].key => c = d

(* What no step undoes.                                                     *)
Kept == \A c \in Made : c \in Made' /\ rows'[c] = rows[c] /\ (Direct(c) => here'[c] = here[c])

LEMMA TablesStand == ASSUME Tables, UNCHANGED server PROVE Tables' /\ Kept
BY DEF server, Tables, Kept, Direct, Made

LEMMA TableTypes ==
    ASSUME Tables
    PROVE  /\ Len(rows) \in Nat /\ Made \subseteq Nat /\ DOMAIN rows = Made /\ DOMAIN here = Made
           /\ \A c \in Made : c # 0 /\ rows[c] \in RowSet /\ here[c] \in SUBSET People
BY DEF Tables, Made

(* A row at the end of the tables, and its people.                           *)
LEMMA RowAdded ==
    ASSUME Tables, NEW r \in RowSet, NEW who \in SUBSET People,
           rows' = Append(rows, r), here' = Append(here, who)
    PROVE  /\ Len(rows') = Len(rows) + 1 /\ Made' = Made \cup {Len(rows) + 1} /\ Len(rows) + 1 \notin Made
           /\ rows'[Len(rows) + 1] = r /\ here'[Len(rows) + 1] = who
           /\ \A c \in Made : rows'[c] = rows[c] /\ here'[c] = here[c]
           /\ rows' \in Seq(RowSet) /\ here' \in Seq(SUBSET People) /\ Len(here') = Len(rows')
<1>1. rows \in Seq(RowSet) /\ here \in Seq(SUBSET People) /\ Len(here) = Len(rows) /\ Len(rows) \in Nat
  BY DEF Tables
<1>2. rows' \in Seq(RowSet) /\ here' \in Seq(SUBSET People) /\ Len(rows') = Len(rows) + 1 /\ Len(here') = Len(rows) + 1
  BY <1>1
<1>3. rows'[Len(rows) + 1] = r /\ here'[Len(rows) + 1] = who
  BY <1>1
<1>4. \A c \in 1 .. Len(rows) : rows'[c] = rows[c] /\ here'[c] = here[c]
  BY <1>1
<1>5. 1 .. Len(rows) + 1 = 1 .. Len(rows) \cup {Len(rows) + 1} /\ Len(rows) + 1 \notin 1 .. Len(rows)
  BY <1>1
<1> QED BY <1>2, <1>3, <1>4, <1>5 DEF Made

LEMMA GroupAdded ==
    ASSUME Tables, NEW o \in People, NEW who \in SUBSET People, createGroup(o, who)
    PROVE  Tables' /\ Kept /\ Len(rows') \in Made'
<1> DEFINE r == [kind |-> "group", key |-> <<>>, admin |-> o]
<1>1. r \in RowSet /\ {o} \cup who \in SUBSET People /\ r.kind = "group"
  BY DEF RowSet, Kinds
<1>2. rows' = Append(rows, r) /\ here' = Append(here, {o} \cup who)
  BY DEF createGroup
<1> HIDE DEF r
<1>3. /\ Len(rows') = Len(rows) + 1 /\ Made' = Made \cup {Len(rows) + 1} /\ Len(rows) + 1 \notin Made
      /\ rows'[Len(rows) + 1] = r
      /\ \A c \in Made : rows'[c] = rows[c] /\ here'[c] = here[c]
      /\ rows' \in Seq(RowSet) /\ here' \in Seq(SUBSET People) /\ Len(here') = Len(rows')
  BY <1>1, <1>2, RowAdded
<1>4. \A c \in Made' : Direct(c)' => c \in Made /\ Direct(c)
  BY <1>1, <1>3 DEF Direct
<1> QED BY <1>3, <1>4 DEF Tables, Kept, Direct

(* createConversation for two: the one row of the pair, found or made.       *)
LEMMA DirectAdded ==
    ASSUME Tables, NEW o \in People, NEW p \in People, o # p, createDirect(o, p)
    PROVE  /\ Tables' /\ Kept
           /\ DirectOf(o, p) \in Made' /\ rows'[DirectOf(o, p)].kind = "direct"
           /\ here'[DirectOf(o, p)] = {o, p}
<1> DEFINE key == directKeyFor(<<o, p>>)
<1>1. PICK a \in People, b \in People : a < b /\ key = <<a, b>> /\ {a, b} = {o, p}
  BY KeyOf
<1>2. \A c \in Made : Direct(c) /\ rows[c].key = key => here[c] = {o, p}
  <2>1. ASSUME NEW c \in Made, Direct(c), rows[c].key = key
        PROVE  here[c] = {o, p}
    <3>1. PICK u \in People, v \in People : rows[c].key = <<u, v>> /\ here[c] = {u, v}
      BY <2>1 DEF Tables
    <3>2. u = a /\ v = b
      BY <1>1, <2>1, <3>1
    <3> QED BY <1>1, <3>1, <3>2
  <2> QED BY <2>1
<1>3. DirectOf(o, p) = Min({c \in Made' : rows'[c].kind = "direct" /\ rows'[c].key = key})
  BY DEF DirectOf, Made
<1> HIDE DEF key
<1>4. CASE Existing(key) = {}
  <2> DEFINE r == [kind |-> "direct", key |-> key, admin |-> o]
             n == Len(rows) + 1
  <2>1. rows' = Append(rows, r) /\ here' = Append(here, {o, p})
    BY <1>4 DEF createDirect, key
  <2>2. r \in RowSet /\ {o, p} \in SUBSET People /\ r.kind = "direct" /\ r.key = key
    BY <1>1 DEF RowSet, Kinds
  <2> HIDE DEF r
  <2>3. /\ Made' = Made \cup {n} /\ n \notin Made /\ rows'[n] = r /\ here'[n] = {o, p}
        /\ \A c \in Made : rows'[c] = rows[c] /\ here'[c] = here[c]
        /\ rows' \in Seq(RowSet) /\ here' \in Seq(SUBSET People) /\ Len(here') = Len(rows')
    BY <2>1, <2>2, RowAdded
  <2>4. n \in Nat
    BY TableTypes
  <2> HIDE DEF n
  <2>5. \A c \in Made : ~(rows[c].kind = "direct" /\ rows[c].key = key)
    BY <1>4 DEF Existing
  <2>6. {c \in Made' : rows'[c].kind = "direct" /\ rows'[c].key = key} = {n}
    BY <2>2, <2>3, <2>5
  <2>7. DirectOf(o, p) = n
    BY <1>3, <2>4, <2>6, OnlyOf
  <2>8. \A c \in Made' : Direct(c)' => \E u, v \in People : u < v /\ rows'[c].key = <<u, v>> /\ here'[c] = {u, v}
    <3>1. ASSUME NEW c \in Made, Direct(c)'
          PROVE  \E u, v \in People : u < v /\ rows'[c].key = <<u, v>> /\ here'[c] = {u, v}
      <4>1. rows'[c] = rows[c] /\ here'[c] = here[c] /\ Direct(c)
        BY <2>3, <3>1 DEF Direct
      <4> QED BY <4>1 DEF Tables
    <3>2. rows'[n].key = <<a, b>> /\ here'[n] = {a, b}
      BY <1>1, <2>2, <2>3
    <3> QED BY <1>1, <2>3, <3>1, <3>2
  <2>9. \A c, d \in Made' : Direct(c)' /\ Direct(d)' /\ rows'[c].key = rows'[d].key => c = d
    <3>1. \A c \in Made : Direct(c)' => rows'[c].key # key /\ rows'[c].key = rows[c].key /\ Direct(c)
      BY <2>3, <2>5 DEF Direct
    <3>2. rows'[n].key = key
      BY <2>2, <2>3
    <3>3. \A c, d \in Made : Direct(c) /\ Direct(d) /\ rows[c].key = rows[d].key => c = d
      BY DEF Tables
    <3> QED BY <2>3, <3>1, <3>2, <3>3
  <2>10. Tables'
    BY <2>3, <2>8, <2>9 DEF Tables
  <2> QED BY <2>2, <2>3, <2>7, <2>10 DEF Kept
<1>5. CASE Existing(key) # {}
  <2>1. PICK c \in Made : Direct(c) /\ rows[c].key = key
    BY <1>5 DEF Existing, Direct
  <2>2. Existing(key) = {c}
    BY <2>1 DEF Existing, Tables, Direct
  <2>3. Min(Existing(key)) = c
    BY <2>2, OnlyOf, TableTypes
  <2>4. rows' = rows /\ here' = [here EXCEPT ![c] = @ \cup {o, p}]
    BY <1>5, <2>3 DEF createDirect, key, Upserted
  <2>5. here' = here
    <3>1. here[c] \cup {o, p} = here[c]
      BY <1>2, <2>1
    <3>2. here = [d \in Made |-> here[d]]
      BY DEF Tables, Made
    <3> QED BY <2>4, <3>1, <3>2
  <2>6. Made' = Made /\ DirectOf(o, p) = c
    BY <1>3, <2>2, <2>3, <2>4 DEF Existing, Made
  <2>7. Tables' /\ Kept
    BY <2>4, <2>5, TablesStand DEF server
  <2> QED BY <1>2, <2>1, <2>4, <2>5, <2>6, <2>7 DEF Direct
<1> QED BY <1>4, <1>5

(* Who is seated in a group, or leaves one.                                  *)
LEMMA GroupChanged ==
    ASSUME Tables, NEW c \in Groups, NEW who \in SUBSET People,
           here' = [here EXCEPT ![c] = who], rows' = rows
    PROVE  Tables' /\ Kept
<1>1. c \in Made /\ ~Direct(c)
  BY DEF Groups, Direct
<1>2. Made' = Made /\ \A d \in Made : Direct(d)' <=> Direct(d)
  BY DEF Made, Direct
<1>3. \A d \in Made : d # c => here'[d] = here[d]
  BY TableTypes
<1>4. here' \in Seq(SUBSET People) /\ Len(here') = Len(here)
  BY <1>1, TableTypes DEF Tables
<1> QED BY <1>1, <1>2, <1>3, <1>4 DEF Tables, Kept

-----------------------------------------------------------------------------
(* The flows under way and what they have in hand.                           *)

HomeAt(p, c) == c \in Made /\ Direct(c) /\ here[c] = {Me, p}

FlowOK(f) == /\ f = [op |-> f.op, stage |-> f.stage, row |-> f.row, who |-> f.who,
                     got |-> f.got, mine |-> f.mine, n |-> f.n]
             /\ f.who \in SUBSET People

FlightOK(f) ==
    /\ FlowOK(f)
    /\ f.op = "first" => \E p \in Others : f.who = {p} /\ (f.stage # "sent" => HomeAt(p, f.row))
    /\ f.op = "group" /\ f.stage # "sent" => f.row \in Made
    /\ f.op \in {"add", "leave"} => f.row \in Groups

Flights == \A f \in flows : FlightOK(f)
Mail == \A m \in posted : HomeAt(m.peer, m.row)

(* The page: what it shows is there, and it holds what it shows.             *)
TargetOK(u) == /\ u = [at |-> u.at, id |-> u.id] /\ u.at \in {"thread", "draft", "list", "away"}
               /\ u.at = "thread" => u.id \in Made
               /\ u.at = "draft" => u.id \in Others
Screen ==
    /\ active \in {0} \cup Made /\ draftPeer \in {0} \cup Others
    /\ held = {active} \ {0} /\ TargetOK(url)

LEMMA HomeStays == ASSUME Kept, NEW p, NEW c, HomeAt(p, c) PROVE HomeAt(p, c)'
BY DEF Kept, HomeAt, Direct

LEMMA FlightStays == ASSUME Kept, NEW f, FlightOK(f) PROVE FlightOK(f)'
<1>1. f.row \in Made => f.row \in Made'
  BY DEF Kept
<1>2. f.row \in Groups => f.row \in Groups'
  BY DEF Kept, Groups
<1> QED BY <1>1, <1>2, HomeStays DEF FlightOK, FlowOK

(* A flow that goes on with the row it has.                                  *)
LEMMA FlightGoesOn ==
    ASSUME NEW f, FlightOK(f), NEW g, FlowOK(g), g.op = f.op, g.who = f.who, g.row = f.row,
           g.stage # "sent" /\ f.op \in {"first", "group"} => f.stage # "sent"
    PROVE  FlightOK(g)
BY DEF FlightOK

(* What a change of a flow leaves of it.                                     *)
LEMMA Staged ==
    ASSUME NEW f, FlowOK(f), NEW st, NEW g, g = [f EXCEPT !.stage = st]
    PROVE  FlowOK(g) /\ g.op = f.op /\ g.who = f.who /\ g.row = f.row /\ g.stage = st
<1>1. g = [op |-> f.op, stage |-> st, row |-> f.row, who |-> f.who, got |-> f.got, mine |-> f.mine, n |-> f.n]
  BY DEF FlowOK
<1>2. /\ g.op = f.op /\ g.who = f.who /\ g.row = f.row /\ g.stage = st
      /\ g.got = f.got /\ g.mine = f.mine /\ g.n = f.n
  BY <1>1
<1> QED BY <1>1, <1>2 DEF FlowOK

LEMMA Orphaned ==
    ASSUME NEW f, FlowOK(f), NEW g, g = [f EXCEPT !.mine = FALSE]
    PROVE  FlowOK(g) /\ g.op = f.op /\ g.who = f.who /\ g.row = f.row /\ g.stage = f.stage
<1>1. g = [op |-> f.op, stage |-> f.stage, row |-> f.row, who |-> f.who, got |-> f.got, mine |-> FALSE, n |-> f.n]
  BY DEF FlowOK
<1>2. /\ g.op = f.op /\ g.who = f.who /\ g.row = f.row /\ g.stage = f.stage
      /\ g.got = f.got /\ g.mine = FALSE /\ g.n = f.n
  BY <1>1
<1> QED BY <1>1, <1>2 DEF FlowOK

LEMMA PeerIs == ASSUME NEW f, NEW p, f.who = {p} PROVE PeerOf(f) = p
BY DEF PeerOf

(* Navigation drops nothing but a page's busy flags.                         *)
LEMMA GoFlights ==
    ASSUME NEW to, NEW others, Go(to, others), \A f \in others : FlightOK(f)
    PROVE  \A g \in flows' : FlightOK(g)
<1>1. flows' = others \/ flows' = {[f EXCEPT !.mine = FALSE] : f \in others}
  BY DEF Go
<1>2. \A f \in others : FlightOK([f EXCEPT !.mine = FALSE])
  <2>1. TAKE f \in others
  <2>2. FlightOK(f) /\ FlowOK(f)
    BY DEF FlightOK
  <2> DEFINE g == [f EXCEPT !.mine = FALSE]
  <2>3. FlowOK(g) /\ g.op = f.op /\ g.who = f.who /\ g.row = f.row /\ g.stage = f.stage
    BY <2>2, Orphaned
  <2> HIDE DEF g
  <2>4. FlightOK(g)
    BY <2>2, <2>3, FlightGoesOn
  <2> QED BY <2>4 DEF g
<1> QED BY <1>1, <1>2

LEMMA StepsFlights ==
    ASSUME Flights, NEW f \in flows, NEW st, Steps(f, st),
           f.op \in {"first", "group"} => f.stage # "sent"
    PROVE  \A g \in flows' : FlightOK(g)
<1> DEFINE h == [f EXCEPT !.stage = st]
<1>1. FlightOK(f) /\ FlowOK(f)
  BY DEF Flights, FlightOK
<1>2. FlowOK(h) /\ h.op = f.op /\ h.who = f.who /\ h.row = f.row /\ h.stage = st
  BY <1>1, Staged
<1>3. flows' = (flows \ {f}) \cup {h}
  BY DEF Steps
<1> HIDE DEF h
<1>4. FlightOK(h)
  BY <1>1, <1>2, FlightGoesOn
<1> QED BY <1>3, <1>4 DEF Flights

LEMMA AnsweredFlights ==
    ASSUME Flights, NEW f \in flows, NEW c, NEW got, Answered(f, "made", c, got),
           f.op \in {"first", "group"} \/ c = f.row
    PROVE  \A g \in flows' : \/ FlightOK(g)
                             \/ /\ FlowOK(g) /\ g.op = f.op /\ g.who = f.who /\ g.row = c
                                /\ g.op \in {"first", "group"}
<1> DEFINE s == [f EXCEPT !.stage = "made"]
           t == [s EXCEPT !.row = c]
           h == [t EXCEPT !.got = got]
<1>1. FlightOK(f) /\ FlowOK(f)
  BY DEF Flights, FlightOK
<1>2. flows' = (flows \ {f}) \cup {h}
  BY Zenon DEF Answered
<1> HIDE DEF h
<1>3. FlowOK(h) /\ h.op = f.op /\ h.who = f.who /\ h.row = c
  <2>1. s = [op |-> f.op, stage |-> "made", row |-> f.row, who |-> f.who, got |-> f.got, mine |-> f.mine, n |-> f.n]
    BY <1>1 DEF FlowOK
  <2> HIDE DEF s
  <2>2. t = [op |-> f.op, stage |-> "made", row |-> c, who |-> f.who, got |-> f.got, mine |-> f.mine, n |-> f.n]
    BY <2>1
  <2> HIDE DEF t
  <2>3. h = [op |-> f.op, stage |-> "made", row |-> c, who |-> f.who, got |-> got, mine |-> f.mine, n |-> f.n]
    BY <2>2 DEF h
  <2>4. /\ h.op = f.op /\ h.who = f.who /\ h.row = c /\ h.stage = "made"
        /\ h.got = got /\ h.mine = f.mine /\ h.n = f.n
    BY <2>3
  <2> QED BY <1>1, <2>3, <2>4 DEF FlowOK
<1>4. f.op \notin {"first", "group"} => FlightOK(h)
  BY <1>1, <1>3, FlightGoesOn
<1> QED BY <1>1, <1>2, <1>3, <1>4 DEF Flights

LEMMA StartsFlight ==
    ASSUME Tables, Flights, Screen, Calls
    PROVE  \A g \in flows' : FlightOK(g)
<1>1. ASSUME NEW op, NEW c, NEW who \in SUBSET People, Starts(op, c, who),
             op = "first" => \E p \in Others : who = {p},
             op \in {"add", "leave"} => c \in Groups
      PROVE  \A g \in flows' : FlightOK(g)
  <2> DEFINE h == Flow(op, c, who)
  <2>1. flows' = flows \cup {h}
    BY <1>1 DEF Starts
  <2>2. FlowOK(h) /\ h.op = op /\ h.row = c /\ h.who = who /\ h.stage = "sent"
    BY DEF Flow, FlowOK
  <2> HIDE DEF h
  <2>3. FlightOK(h)
    BY <1>1, <2>2 DEF FlightOK
  <2> QED BY <2>1, <2>3 DEF Flights
<1>2. CASE draftPeer # 0 /\ Starts("first", 0, {draftPeer})
  <2>1. draftPeer \in Others /\ {draftPeer} \in SUBSET People
    BY <1>2 DEF Screen, Others
  <2> QED BY <1>1, <1>2, <2>1
<1>3. CASE \E who \in SUBSET (People \ {Me}) : Starts("group", 0, who)
  BY <1>1, <1>3
<1>4. CASE active \in Groups /\ \E who \in SUBSET (People \ Known(active)) : Starts("add", active, who)
  BY <1>1, <1>4
<1>5. CASE Starts("rename", active, {})
  BY <1>1, <1>5
<1>6. CASE active \in Groups /\ Starts("leave", active, {})
  BY <1>1, <1>6
<1> QED BY <1>2, <1>3, <1>4, <1>5, <1>6 DEF Calls, DetailsOpen

-----------------------------------------------------------------------------
(* Navigation and the page.                                                  *)

LEMMA RedirectedOK == ASSUME Tables, NEW u, TargetOK(u) PROVE TargetOK(Redirected(u))
<1>1. CASE u.at = "draft" /\ directConversationWith(u.id) # {}
  <2>1. directConversationWith(u.id) \subseteq Made
    BY DEF directConversationWith
  <2>2. Min(directConversationWith(u.id)) \in Made
    BY <1>1, <2>1, TableTypes, LeastOf
  <2> QED BY <1>1, <2>2 DEF Redirected, At, TargetOK
<1>2. CASE ~(u.at = "draft" /\ directConversationWith(u.id) # {})
  BY <1>2 DEF Redirected
<1> QED BY <1>1, <1>2

LEMMA OpenScreen ==
    ASSUME Tables, Screen, NEW c \in Made, openConversation(c)
    PROVE  active' = c /\ held' = {c} /\ c # 0
BY TableTypes DEF openConversation, Screen

LEMMA RouteScreen ==
    ASSUME Tables, Screen, NEW u, TargetOK(u), applyRoute(u)
    PROVE  /\ active' \in {0} \cup Made /\ draftPeer' \in {0} \cup Others /\ held' = {active'} \ {0}
           /\ u.at = "thread" => active' = u.id
           /\ u.at = "draft" => active' = 0 /\ draftPeer' = u.id
           /\ u.at = "list" => active' = 0 /\ draftPeer' = 0
<1>1. CASE u.at = "draft"
  BY <1>1 DEF applyRoute, openDraft, Screen, TargetOK
<1>2. CASE u.at = "thread" /\ active # u.id
  BY <1>2, OpenScreen DEF applyRoute, Screen, TargetOK
<1>3. CASE u.at = "list"
  BY <1>3 DEF applyRoute, closeActiveConversation, Screen
<1>4. CASE u.at = "away" \/ (u.at = "thread" /\ active = u.id)
  BY <1>4 DEF applyRoute, Screen
<1> QED BY <1>1, <1>2, <1>3, <1>4 DEF TargetOK

LEMMA GoScreen ==
    ASSUME Tables, Screen, NEW to, NEW others, TargetOK(to), Go(to, others), UNCHANGED rows
    PROVE  /\ Screen'
           /\ \/ url' = url /\ Redirected(to) = url /\ UNCHANGED <<active, draftPeer>>
              \/ /\ url' = Redirected(to)
                 /\ url'.at = "thread" => active' = url'.id
                 /\ url'.at = "draft" => active' = 0 /\ draftPeer' = url'.id
                 /\ url'.at = "list" => active' = 0 /\ draftPeer' = 0
<1> DEFINE u == Redirected(to)
<1>0. Made' = Made
  BY DEF Made
<1>1. TargetOK(u)
  BY RedirectedOK
<1>2. CASE u = url
  <2>1. UNCHANGED <<url, active, draftPeer, held>>
    BY <1>2 DEF Go
  <2> QED BY <1>0, <1>2, <2>1 DEF Screen, TargetOK
<1>3. CASE u # url
  <2>1. url' = u /\ applyRoute(u)
    BY <1>3 DEF Go
  <2> HIDE DEF u
  <2>2. /\ active' \in {0} \cup Made /\ draftPeer' \in {0} \cup Others /\ held' = {active'} \ {0}
        /\ u.at = "thread" => active' = u.id
        /\ u.at = "draft" => active' = 0 /\ draftPeer' = u.id
        /\ u.at = "list" => active' = 0 /\ draftPeer' = 0
    BY <1>1, <2>1, RouteScreen
  <2>3. TargetOK(url)'
    BY <1>0, <1>1, <2>1 DEF TargetOK
  <2> QED BY <1>0, <2>1, <2>2, <2>3 DEF Screen, u
<1> QED BY <1>2, <1>3

-----------------------------------------------------------------------------
(* A step of a flow.                                                         *)

Seated == Tables /\ Flights /\ Mail /\ Screen

LEMMA FlightsStay ==
    ASSUME Kept, \A g \in flows' : FlightOK(g)
    PROVE  Flights'
BY FlightStays DEF Flights

LEMMA MailStays == ASSUME Kept, Mail, posted' = posted PROVE Mail'
BY HomeStays DEF Mail

LEMMA ScreenStays == ASSUME Kept, Screen, UNCHANGED screen PROVE Screen'
<1>1. Made \subseteq Made'
  BY DEF Kept
<1> QED BY <1>1 DEF screen, Screen, TargetOK

LEMMA EndsFlights == ASSUME Flights, NEW f \in flows, Ends(f) PROVE \A g \in flows' : FlightOK(g)
BY DEF Flights, Ends

(* The requests that change the tables.                                      *)
LEMMA RequestRuns ==
    ASSUME Seated, NEW f \in flows,
           CreatesDirect(f) \/ CreatesGroup(f) \/ Adds(f) \/ LeavesGroup(f)
    PROVE  Seated' /\ Kept
<1>0. FlightOK(f) /\ FlowOK(f) /\ f.who \in SUBSET People /\ Flights /\ Tables
  BY DEF Seated, Flights, FlightOK, FlowOK
<1>1. ASSUME Tables', Kept, \A g \in flows' : FlightOK(g)', UNCHANGED <<screen, posted>>
      PROVE  Seated'
  <2>1. Flights' /\ Mail' /\ Screen'
    BY <1>1, MailStays, ScreenStays DEF Seated, Flights
  <2> QED BY <1>1, <2>1 DEF Seated
<1>2. CASE CreatesDirect(f)
  <2>1. PICK p \in Others : f.who = {p}
    BY <1>0, <1>2 DEF FlightOK, CreatesDirect
  <2>2. PeerOf(f) = p /\ p \in People /\ Me \in People /\ Me # p
    BY <2>1, PeerIs, PeopleAreOrdered DEF Others
  <2>0. PICK c : c = DirectOf(Me, p)
    OBVIOUS
  <2>3. createDirect(Me, p) /\ Answered(f, "made", c, here'[c]) /\ UNCHANGED <<screen, posted>>
    BY <1>2, <2>0, <2>2 DEF CreatesDirect
  <2>4. /\ Tables' /\ Kept /\ c \in Made' /\ rows'[c].kind = "direct" /\ here'[c] = {Me, p}
    BY <1>0, <2>0, <2>2, <2>3, DirectAdded
  <2>5. HomeAt(p, c)'
    BY <2>4 DEF HomeAt, Direct
  <2>6. \A g \in flows' : \/ FlightOK(g)
                          \/ FlowOK(g) /\ g.op = f.op /\ g.who = f.who /\ g.row = c
    BY <1>0, <1>2, <2>3, AnsweredFlights DEF CreatesDirect
  <2>7. \A g \in flows' : FlightOK(g)'
    <3>1. TAKE g \in flows'
    <3>2. CASE FlightOK(g)
      BY <2>4, <3>2, FlightStays
    <3>3. CASE FlowOK(g) /\ g.op = f.op /\ g.who = f.who /\ g.row = c
      <4>1. g.op = "first"
        BY <1>2, <3>3 DEF CreatesDirect
      <4>2. \A q : q = p => HomeAt(q, g.row)'
        BY <2>5, <3>3
      <4> QED BY <2>1, <2>5, <3>3, <4>1 DEF FlightOK, FlowOK
    <3> QED BY <2>6, <3>2, <3>3
  <2> QED BY <1>1, <2>3, <2>4, <2>7
<1>3. CASE CreatesGroup(f)
  <2>1. createGroup(Me, f.who) /\ UNCHANGED <<screen, posted>>
    BY <1>3 DEF CreatesGroup
  <2>2. Tables' /\ Kept /\ Len(rows') \in Made'
    BY <1>0, <2>1, PeopleAreOrdered, GroupAdded
  <2>0. PICK c : c = Len(rows')
    OBVIOUS
  <2>3. Answered(f, "made", c, here'[c])
    BY <1>3, <2>0 DEF CreatesGroup
  <2>4. c \in Made'
    BY <2>0, <2>2
  <2>5. \A g \in flows' : \/ FlightOK(g)
                          \/ FlowOK(g) /\ g.op = f.op /\ g.row = c
    BY <1>0, <1>3, <2>3, AnsweredFlights DEF CreatesGroup
  <2>6. \A g \in flows' : FlightOK(g)'
    <3>1. TAKE g \in flows'
    <3>2. CASE FlightOK(g)
      BY <2>2, <3>2, FlightStays
    <3>3. CASE FlowOK(g) /\ g.op = f.op /\ g.row = c
      <4>1. g.op = "group" /\ g.row \in Made'
        BY <1>3, <3>3, <2>4 DEF CreatesGroup
      <4> QED BY <3>3, <4>1 DEF FlightOK, FlowOK
    <3> QED BY <2>5, <3>2, <3>3
  <2> QED BY <1>1, <2>1, <2>2, <2>6
<1>4. CASE Adds(f)
  <2>1. /\ here' = [here EXCEPT ![f.row] = @ \cup f.who] /\ rows' = rows /\ UNCHANGED <<screen, posted>>
        /\ f.op = "add" /\ f.row \in Groups /\ Answered(f, "made", f.row, RowsWritten(f.row, f.who))
    BY <1>0, <1>4 DEF Adds, Upserted, FlightOK
  <2>2. here[f.row] \cup f.who \in SUBSET People
    BY <1>0, <2>1, TableTypes DEF Groups
  <2>3. Tables' /\ Kept
    <3> DEFINE who == here[f.row] \cup f.who
    <3>1. here' = [here EXCEPT ![f.row] = who]
      BY <2>1
    <3> HIDE DEF who
    <3> QED BY <1>0, <2>1, <2>2, <3>1, GroupChanged DEF who
  <2>4. \A g \in flows' : FlightOK(g)
    BY <1>0, <2>1, AnsweredFlights
  <2> QED BY <1>1, <2>1, <2>3, <2>4, FlightStays
<1>5. CASE LeavesGroup(f)
  <2>1. /\ here' = [here EXCEPT ![f.row] = @ \ {Me}] /\ rows' = rows /\ UNCHANGED <<screen, posted>>
        /\ f.op = "leave" /\ f.row \in Groups /\ Answered(f, "made", f.row, {})
    BY <1>0, <1>5 DEF LeavesGroup, FlightOK
  <2>2. here[f.row] \ {Me} \in SUBSET People
    BY <1>0, <2>1, TableTypes DEF Groups
  <2>3. Tables' /\ Kept
    <3> DEFINE who == here[f.row] \ {Me}
    <3>1. here' = [here EXCEPT ![f.row] = who]
      BY <2>1
    <3> HIDE DEF who
    <3> QED BY <1>0, <2>1, <2>2, <3>1, GroupChanged DEF who
  <2>4. \A g \in flows' : FlightOK(g)
    BY <1>0, <2>1, AnsweredFlights
  <2> QED BY <1>1, <2>1, <2>3, <2>4, FlightStays
<1> QED BY <1>2, <1>3, <1>4, <1>5

(* The steps that change neither the tables nor the page.                    *)
LEMMA AnswerRuns ==
    ASSUME Seated, NEW f \in flows,
           ChecksAdd(f) \/ Renames(f) \/ Fails(f) \/ TakesRow(f) \/ TakesAdded(f) \/ TakesRenamed(f)
    PROVE  Seated' /\ Kept
<1>1. UNCHANGED <<server, screen, posted>>
  BY DEF ChecksAdd, Renames, Fails, TakesRow, TakesAdded, TakesRenamed
<1>2. Tables' /\ Kept
  BY <1>1, TablesStand DEF Seated
<1>3. Mail' /\ Screen'
  BY <1>1, <1>2, MailStays, ScreenStays DEF Seated
<1>4. \A g \in flows' : FlightOK(g)
  <2>1. CASE ChecksAdd(f)
    BY <2>1, StepsFlights DEF ChecksAdd, Seated
  <2>2. CASE Renames(f)
    BY <2>2, AnsweredFlights DEF Renames, Seated
  <2>3. CASE Fails(f) \/ TakesAdded(f) \/ TakesRenamed(f)
    BY <2>3, EndsFlights DEF Fails, TakesAdded, TakesRenamed, Seated
  <2>4. CASE TakesRow(f)
    BY <2>4, StepsFlights DEF TakesRow, Seated
  <2> QED BY <2>1, <2>2, <2>3, <2>4
<1> QED BY <1>2, <1>3, <1>4, FlightsStay DEF Seated

(* The steps that bring a thread on screen.                                  *)
LEMMA PageRuns ==
    ASSUME Seated, NEW f \in flows,
           OpensRow(f) \/ Posts(f) \/ Stored(f) \/ ShowsGroup(f) \/ DropsRow(f)
    PROVE  Seated' /\ Kept
<1>1. UNCHANGED server
  BY DEF OpensRow, Posts, Stored, ShowsGroup, DropsRow
<1>2. Tables' /\ Kept /\ UNCHANGED rows /\ Made' = Made
  BY <1>1, TablesStand DEF Seated, server, Made
<1>3. Flights /\ Screen /\ Mail /\ Tables /\ FlightOK(f)
  BY DEF Seated, Flights
<1>4. f.op \in {"first", "group"} /\ f.stage # "sent" => f.row \in Made
  BY <1>3 DEF FlightOK, HomeAt
<1>5. \A g \in flows \ {f} : FlightOK(g)
  BY <1>3 DEF Flights
<1>6. CASE OpensRow(f)
  <2>1. f.op \in {"first", "group"} /\ f.stage = "named" /\ openConversation(f.row) /\ Steps(f, "opened")
        /\ UNCHANGED <<draftPeer, url, posted>>
    BY <1>6 DEF OpensRow
  <2>2. active' = f.row /\ held' = {f.row} /\ f.row # 0 /\ f.row \in Made
    BY <1>3, <1>4, <2>1, OpenScreen
  <2>3. Screen'
    BY <1>2, <1>3, <2>1, <2>2 DEF Screen, TargetOK
  <2>4. \A g \in flows' : FlightOK(g)
    BY <1>3, <2>1, StepsFlights
  <2> QED BY <1>2, <1>3, <2>1, <2>3, <2>4, FlightsStay, MailStays DEF Seated
<1>7. CASE Posts(f)
  <2>1. /\ f.stage = "opened" /\ draftPeer' = 0 /\ Steps(f, "posting") /\ UNCHANGED <<active, held, url, posted>>
    BY <1>7 DEF Posts
  <2>2. Screen'
    BY <1>2, <1>3, <2>1 DEF Screen, TargetOK
  <2>3. \A g \in flows' : FlightOK(g)
    BY <1>3, <2>1, StepsFlights
  <2> QED BY <1>2, <1>3, <2>1, <2>2, <2>3, FlightsStay, MailStays DEF Seated
<1>8. ASSUME NEW to, TargetOK(to), Go(to, flows \ {f})
      PROVE  Screen' /\ Flights'
  <2>1. Screen'
    BY <1>2, <1>3, <1>8, GoScreen
  <2>2. \A g \in flows' : FlightOK(g)
    BY <1>5, <1>8, GoFlights
  <2> QED BY <1>2, <2>1, <2>2, FlightsStay
<1>9. TargetOK(At("list", 0)) /\ (f.row \in Made => TargetOK(At("thread", f.row)))
  BY DEF TargetOK, At
<1>10. CASE Stored(f)
  <2>1. PICK p \in Others : f.who = {p} /\ HomeAt(p, f.row)
    BY <1>3, <1>10 DEF FlightOK, Stored
  <2>2. posted' = posted \/ posted' = posted \cup {[peer |-> p, row |-> f.row]}
    BY <1>10, <2>1, PeerIs DEF Stored, Target
  <2>3. Mail'
    BY <1>2, <1>3, <2>1, <2>2, HomeStays DEF Mail
  <2>4. Go(At("thread", f.row), flows \ {f}) /\ f.row \in Made
    BY <1>10, <2>1 DEF Stored, HomeAt
  <2> QED BY <1>2, <1>8, <1>9, <2>3, <2>4 DEF Seated
<1>11. CASE ShowsGroup(f)
  BY <1>2, <1>3, <1>4, <1>8, <1>9, <1>11, MailStays DEF ShowsGroup, Seated
<1>12. CASE DropsRow(f)
  <2>1. posted' = posted
    BY <1>12 DEF DropsRow
  <2>2. CASE Go(At("list", 0), flows \ {f})
    BY <1>2, <1>3, <1>8, <1>9, <2>1, <2>2, MailStays DEF Seated
  <2>3. CASE closeActiveConversation /\ Ends(f) /\ UNCHANGED url
    <3>1. Screen'
      BY <1>2, <1>3, <2>3 DEF closeActiveConversation, Screen, TargetOK
    <3>2. \A g \in flows' : FlightOK(g)
      BY <1>3, <2>3, EndsFlights
    <3> QED BY <1>2, <1>3, <2>1, <3>1, <3>2, FlightsStay, MailStays DEF Seated
  <2> QED BY <1>12, <2>2, <2>3 DEF DropsRow
<1> QED BY <1>6, <1>7, <1>10, <1>11, <1>12

LEMMA SeatedNext == ASSUME Seated, [Next]_vars PROVE Seated' /\ Kept
<1>0. Tables /\ Flights /\ Mail /\ Screen
  BY DEF Seated
<1>1. ASSUME UNCHANGED <<server, screen, posted>>, \A g \in flows' : FlightOK(g)
      PROVE  Seated' /\ Kept
  <2>1. Tables' /\ Kept
    BY <1>0, <1>1, TablesStand
  <2> QED BY <1>0, <1>1, <2>1, MailStays, ScreenStays, FlightsStay DEF Seated
<1>2. CASE UNCHANGED vars \/ ListRead \/ ListArrives \/ DetailArrives
  <2>1. UNCHANGED <<server, screen, posted, flows>>
    BY <1>2 DEF vars, server, screen, ListRead, ListArrives, DetailArrives
  <2> QED BY <1>0, <1>1, <2>1 DEF Flights
<1>3. CASE Calls
  <2>1. UNCHANGED <<server, screen, posted>>
    BY <1>3 DEF Calls, Starts
  <2> QED BY <1>0, <1>1, <1>3, <2>1, StartsFlight
<1>4. CASE Moves
  <2>1. PICK u : TargetOK(u) /\ Visits(u)
    BY <1>4 DEF Moves, At, TargetOK, Others
  <2>2. Go(u, flows) /\ UNCHANGED <<server, posted>>
    BY <2>1 DEF Visits
  <2>3. Tables' /\ Kept /\ UNCHANGED rows
    BY <1>0, <2>2, TablesStand DEF server
  <2>4. Screen'
    BY <1>0, <2>1, <2>2, <2>3, GoScreen
  <2>5. \A g \in flows' : FlightOK(g)
    BY <1>0, <2>2, GoFlights DEF Flights
  <2> QED BY <1>0, <2>2, <2>3, <2>4, <2>5, MailStays, FlightsStay DEF Seated
<1>5. CASE Runs
  BY <1>5, RequestRuns, AnswerRuns, PageRuns DEF Runs
<1>6. CASE OthersCreate
  <2>1. UNCHANGED <<screen, flows>>
    BY <1>6 DEF OthersCreate
  <2>2. CASE \E p \in People \ {Me} : createGroup(p, People \ {p}) /\ UNCHANGED posted
    <3>1. PICK p \in People \ {Me} : createGroup(p, People \ {p}) /\ UNCHANGED posted
      BY <2>2
    <3>2. Tables' /\ Kept
      BY <1>0, <3>1, GroupAdded
    <3> QED BY <1>0, <2>1, <3>1, <3>2, MailStays, ScreenStays, FlightsStay DEF Seated, Flights
  <2>3. CASE \E p \in People \ {Me} : createDirect(p, Me) /\ posted' = posted \cup {[peer |-> p, row |-> DirectOf(p, Me)]}
    <3>1. PICK p \in People \ {Me} : createDirect(p, Me) /\ posted' = posted \cup {[peer |-> p, row |-> DirectOf(p, Me)]}
      BY <2>3
    <3>0. PICK c : c = DirectOf(p, Me)
      OBVIOUS
    <3>2. /\ Tables' /\ Kept /\ c \in Made' /\ rows'[c].kind = "direct" /\ here'[c] = {p, Me}
      BY <1>0, <3>0, <3>1, DirectAdded, PeopleAreOrdered
    <3>3. HomeAt(p, c)'
      BY <3>2 DEF HomeAt, Direct
    <3>4. posted' = posted \cup {[peer |-> p, row |-> c]}
      BY <3>0, <3>1
    <3>5. Mail'
      <4>1. \A m \in posted : HomeAt(m.peer, m.row)'
        BY <1>0, <3>2, HomeStays DEF Mail
      <4>2. \A m : m = [peer |-> p, row |-> c] => m.peer = p /\ m.row = c
        OBVIOUS
      <4> QED BY <3>3, <3>4, <4>1, <4>2 DEF Mail
    <3> QED BY <1>0, <2>1, <3>2, <3>5, ScreenStays, FlightsStay DEF Seated, Flights
  <2> QED BY <1>6, <2>2, <2>3 DEF OthersCreate
<1>7. CASE OthersLeave
  <2>1. PICK c \in Groups : \E p \in here[c] \ {Me} : here' = [here EXCEPT ![c] = @ \ {p}]
    BY <1>7 DEF OthersLeave
  <2>2. PICK p \in here[c] : here' = [here EXCEPT ![c] = here[c] \ {p}]
    BY <2>1
  <2>3. rows' = rows /\ UNCHANGED <<screen, flows, posted>>
    BY <1>7 DEF OthersLeave
  <2> DEFINE who == here[c] \ {p}
  <2>4. who \in SUBSET People
    BY <1>0, TableTypes DEF Groups
  <2>5. here' = [here EXCEPT ![c] = who]
    BY <2>2
  <2> HIDE DEF who
  <2>6. Tables' /\ Kept
    BY <1>0, <2>3, <2>4, <2>5, GroupChanged
  <2> QED BY <1>0, <2>3, <2>6, MailStays, ScreenStays, FlightsStay DEF Seated, Flights
<1> QED BY <1>2, <1>3, <1>4, <1>5, <1>6, <1>7 DEF Next

LEMMA SeatedInit == ASSUME Init PROVE Seated
<1>1. PICK plan \in Plans :
        /\ rows = [c \in 1 .. Len(plan.rows) |-> plan.rows[c].row]
        /\ here = [c \in 1 .. Len(plan.rows) |-> plan.rows[c].who]
  BY DEF Init
<1> DEFINE R == [row : RowSet, who : SUBSET People]
           P == plan.rows
<1>2. /\ P \in Seq(R)
      /\ \A c \in DOMAIN P : P[c].row.kind = "direct" =>
           \E p, q \in People : p < q /\ P[c].row.key = <<p, q>> /\ P[c].who = {p, q}
      /\ \A c, d \in DOMAIN P : P[c].row.kind = "direct" /\ P[d].row.kind = "direct" /\ P[c].row.key = P[d].row.key => c = d
  BY PlansAreSound DEF PairsOf, RowSet, Kinds
<1> HIDE DEF P, R
<1>3. Len(P) \in Nat /\ DOMAIN P = 1 .. Len(P) /\ \A c \in 1 .. Len(P) : P[c] \in R
  BY <1>2
<1>4. rows = [c \in 1 .. Len(P) |-> P[c].row] /\ here = [c \in 1 .. Len(P) |-> P[c].who]
  BY <1>1 DEF P
<1>5. \A c \in 1 .. Len(P) : P[c].row \in RowSet /\ P[c].who \in SUBSET People
  BY <1>3 DEF R
<1>6. rows \in Seq(RowSet) /\ Len(rows) = Len(P)
  BY <1>3, <1>4, <1>5
<1>7. here \in Seq(SUBSET People) /\ Len(here) = Len(P)
  BY <1>3, <1>4, <1>5
<1>8. Tables
  <2>1. Made = DOMAIN P /\ \A c \in Made : rows[c] = P[c].row /\ here[c] = P[c].who
    BY <1>3, <1>4, <1>6 DEF Made
  <2> QED BY <1>2, <1>6, <1>7, <2>1 DEF Tables, Direct
<1>9. Flights /\ Mail /\ Screen
  BY DEF Init, Flights, Mail, Screen, TargetOK, At
<1> QED BY <1>8, <1>9 DEF Seated

LEMMA SeatedAlways == Spec => []Seated
<1>1. Seated /\ [Next]_vars => Seated'
  BY SeatedNext
<1> QED BY SeatedInit, <1>1, PTL DEF Spec

LEMMA MailHasOneHome == ASSUME Seated PROVE FirstMessageHasOneHome
<1>1. Tables /\ Mail
  BY DEF Seated
<1>2. ASSUME NEW m \in posted, NEW n \in posted, m.peer = n.peer
      PROVE  m.row = n.row
  <2>1. /\ m.row \in Made /\ Direct(m.row) /\ here[m.row] = {Me, m.peer}
        /\ n.row \in Made /\ Direct(n.row) /\ here[n.row] = {Me, m.peer}
    BY <1>1, <1>2 DEF Mail, HomeAt
  <2>2. PICK p, q \in People : p < q /\ rows[m.row].key = <<p, q>> /\ here[m.row] = {p, q}
    BY <1>1, <2>1 DEF Tables
  <2>3. PICK u, v \in People : u < v /\ rows[n.row].key = <<u, v>> /\ here[n.row] = {u, v}
    BY <1>1, <2>1 DEF Tables
  <2>4. p = u /\ q = v
    BY <2>1, <2>2, <2>3, PeopleAreOrdered
  <2> QED BY <1>1, <2>1, <2>2, <2>3, <2>4 DEF Tables
<1> QED BY <1>1, <1>2 DEF FirstMessageHasOneHome, Mail, HomeAt, Direct

(* A first message is in the one direct conversation of the two people      *)
(* there is, whoever created it at once, and from whatever thread the        *)
(* sender had moved to (createConversation, sendFirstMessage).               *)
THEOREM FirstMessages == Spec => []FirstMessageHasOneHome
BY SeatedAlways, MailHasOneHome, PTL

-----------------------------------------------------------------------------
(* The open thread follows the URL, except while a thread that was just made *)
(* is open ahead of it; the flow that opened it brings the URL along.        *)

Opening(f) == f.op \in {"first", "group"} /\ f.stage \in {"opened", "posting"}
OpenRows == {f.row : f \in {g \in flows : Opening(g)}}

Follows ==
    /\ url.at = "thread" => active = url.id \/ active \in OpenRows
    /\ url.at = "draft" /\ OpenRows = {} => active = 0 /\ draftPeer = url.id
    /\ url.at = "list" /\ OpenRows = {} => active = 0 /\ draftPeer = 0

LEMMA FollowsStays ==
    ASSUME Follows, UNCHANGED <<url, active, draftPeer>>, OpenRows' = OpenRows
    PROVE  Follows'
BY DEF Follows

LEMMA SameOpenRows ==
    ASSUME \A f \in flows : Opening(f) => \E g \in flows' : Opening(g) /\ g.row = f.row,
           \A g \in flows' : Opening(g) => \E f \in flows : Opening(f) /\ f.row = g.row
    PROVE  OpenRows' = OpenRows
BY DEF OpenRows, Opening

LEMMA ReplacedOpenRows ==
    ASSUME NEW f \in flows, NEW h, flows' = (flows \ {f}) \cup {h},
           Opening(f) <=> Opening(h), Opening(f) => h.row = f.row
    PROVE  OpenRows' = OpenRows
<1>1. \A k \in flows : Opening(k) => \E g \in flows' : Opening(g) /\ g.row = k.row
  OBVIOUS
<1>2. \A g \in flows' : Opening(g) => \E k \in flows : Opening(k) /\ k.row = g.row
  OBVIOUS
<1> QED BY <1>1, <1>2, SameOpenRows

LEMMA StepsOpenRows ==
    ASSUME Flights, NEW f \in flows, NEW st, Steps(f, st),
           Opening(f) <=> f.op \in {"first", "group"} /\ st \in {"opened", "posting"}
    PROVE  OpenRows' = OpenRows
<1> DEFINE h == [f EXCEPT !.stage = st]
<1>1. FlowOK(f)
  BY DEF Flights, FlightOK
<1>2. h.op = f.op /\ h.row = f.row /\ h.stage = st
  BY <1>1, Staged
<1>3. flows' = (flows \ {f}) \cup {h}
  BY DEF Steps
<1> HIDE DEF h
<1>4. Opening(f) <=> Opening(h)
  BY <1>2 DEF Opening
<1> QED BY <1>2, <1>3, <1>4, ReplacedOpenRows

LEMMA AnsweredOpenRows ==
    ASSUME Flights, NEW f \in flows, NEW c, NEW got, Answered(f, "made", c, got), ~Opening(f)
    PROVE  OpenRows' = OpenRows
<1> DEFINE s == [f EXCEPT !.stage = "made"]
           t == [s EXCEPT !.row = c]
           h == [t EXCEPT !.got = got]
<1>1. FlowOK(f)
  BY DEF Flights, FlightOK
<1>2. flows' = (flows \ {f}) \cup {h}
  BY Zenon DEF Answered
<1>3. h.stage = "made"
  <2>1. s = [op |-> f.op, stage |-> "made", row |-> f.row, who |-> f.who, got |-> f.got, mine |-> f.mine, n |-> f.n]
    BY <1>1 DEF FlowOK
  <2> HIDE DEF s
  <2>2. t = [op |-> f.op, stage |-> "made", row |-> c, who |-> f.who, got |-> f.got, mine |-> f.mine, n |-> f.n]
    BY <2>1
  <2> HIDE DEF t
  <2> QED BY <2>2
<1> HIDE DEF h
<1>4. ~Opening(h)
  BY <1>3 DEF Opening
<1> QED BY <1>2, <1>4, ReplacedOpenRows

LEMMA EndsOpenRows ==
    ASSUME NEW f \in flows, Ends(f), ~Opening(f)
    PROVE  OpenRows' = OpenRows
BY DEF Ends, OpenRows, Opening

(* Navigation leaves the threads being opened as they are.                   *)
LEMMA GoOpenRows ==
    ASSUME Flights, NEW to, NEW others \in SUBSET flows, Go(to, others)
    PROVE  OpenRows' = {f.row : f \in {g \in others : Opening(g)}}
<1>1. CASE flows' = others
  BY <1>1 DEF OpenRows, Opening
<1>2. CASE flows' = {[f EXCEPT !.mine = FALSE] : f \in others}
  <2>1. ASSUME NEW f \in others
        PROVE  LET g == [f EXCEPT !.mine = FALSE] IN g.row = f.row /\ (Opening(g) <=> Opening(f))
    <3> DEFINE g == [f EXCEPT !.mine = FALSE]
    <3>1. FlowOK(f)
      BY DEF Flights, FlightOK
    <3>2. g.op = f.op /\ g.row = f.row /\ g.stage = f.stage
      BY <3>1, Orphaned
    <3> QED BY <3>2 DEF Opening
  <2> DEFINE orphan(f) == [f EXCEPT !.mine = FALSE]
  <2>2. flows' = {orphan(f) : f \in others} /\ \A f \in others : orphan(f).row = f.row /\ (Opening(orphan(f)) <=> Opening(f))
    BY <1>2, <2>1
  <2> HIDE DEF orphan
  <2>3. OpenRows' = {g.row : g \in {k \in flows' : Opening(k)}}
    BY DEF OpenRows, Opening
  <2> QED BY <2>2, <2>3
<1> QED BY <1>1, <1>2 DEF Go

(* The threads of the flows that end are the URL's by then.                  *)
LEMMA GoFollows ==
    ASSUME Seated, Follows, NEW to, TargetOK(to), NEW others \in SUBSET flows, Go(to, others),
           UNCHANGED rows, \A f \in flows \ others : Opening(f) => to = At("thread", f.row)
    PROVE  Follows'
<1>1. Tables /\ Flights /\ Screen
  BY DEF Seated
<1>2. OpenRows' = {f.row : f \in {g \in others : Opening(g)}}
  BY <1>1, GoOpenRows
<1>3. CASE url' = url /\ Redirected(to) = url /\ UNCHANGED <<active, draftPeer>>
  <2>1. CASE \A f \in flows \ others : ~Opening(f)
    <3>1. OpenRows' = OpenRows
      BY <1>2, <2>1 DEF OpenRows
    <3> QED BY <1>3, <3>1, FollowsStays
  <2>2. CASE \E f \in flows \ others : Opening(f)
    <3>1. PICK f \in flows \ others : Opening(f)
      BY <2>2
    <3>2. to = At("thread", f.row) /\ url = At("thread", f.row)
      BY <1>3, <3>1 DEF Redirected, At
    <3>3. url.at = "thread" /\ url.id = f.row
      BY <3>2 DEF At
    <3>4. active = url.id \/ \E g \in flows : Opening(g) /\ active = g.row
      BY <3>3 DEF Follows, OpenRows
    <3>5. ASSUME NEW g \in flows, Opening(g), active = g.row
          PROVE  active = url.id \/ active \in OpenRows'
      <4>1. CASE g \in others
        BY <1>2, <3>5, <4>1
      <4>2. CASE g \notin others
        BY <3>2, <3>3, <3>5, <4>2 DEF At
      <4> QED BY <4>1, <4>2
    <3> QED BY <1>3, <3>3, <3>4, <3>5 DEF Follows
  <2> QED BY <2>1, <2>2
<1>4. CASE /\ url'.at = "thread" => active' = url'.id
           /\ url'.at = "draft" => active' = 0 /\ draftPeer' = url'.id
           /\ url'.at = "list" => active' = 0 /\ draftPeer' = 0
  BY <1>4 DEF Follows
<1> QED BY <1>1, <1>3, <1>4, GoScreen

LEMMA FollowsNext == ASSUME Seated, Follows, [Next]_vars PROVE Follows'
<1>0. Tables /\ Flights /\ Screen
  BY DEF Seated
<1>1. CASE UNCHANGED vars \/ ListRead \/ ListArrives \/ DetailArrives \/ OthersCreate \/ OthersLeave
  <2>1. UNCHANGED <<screen, flows>>
    BY <1>1 DEF vars, screen, ListRead, ListArrives, DetailArrives, OthersCreate, OthersLeave
  <2>2. OpenRows' = OpenRows
    BY <2>1 DEF OpenRows, Opening
  <2> QED BY <2>1, <2>2, FollowsStays DEF screen
<1>2. CASE Calls
  <2>1. ASSUME NEW op, NEW c, NEW who, Starts(op, c, who)
        PROVE  OpenRows' = OpenRows /\ UNCHANGED screen
    <3>1. flows' = flows \cup {Flow(op, c, who)} /\ UNCHANGED screen
      BY <2>1 DEF Starts
    <3>2. ~Opening(Flow(op, c, who))
      BY DEF Opening, Flow
    <3> QED BY <3>1, <3>2 DEF OpenRows, Opening
  <2>2. OpenRows' = OpenRows /\ UNCHANGED screen
    BY <1>2, <2>1 DEF Calls
  <2> QED BY <2>2, FollowsStays DEF screen
<1>3. CASE Moves
  <2>1. PICK u : TargetOK(u) /\ Visits(u)
    BY <1>3 DEF Moves, At, TargetOK, Others
  <2>2. Go(u, flows) /\ UNCHANGED rows
    BY <2>1 DEF Visits, server
  <2> QED BY <2>1, <2>2, GoFollows
<1>4. CASE Runs
  <2>1. PICK f \in flows :
          \/ CreatesDirect(f) \/ CreatesGroup(f) \/ ChecksAdd(f) \/ Adds(f) \/ Renames(f)
          \/ LeavesGroup(f) \/ Fails(f) \/ TakesRow(f) \/ OpensRow(f) \/ Posts(f) \/ Stored(f)
          \/ ShowsGroup(f) \/ TakesAdded(f) \/ TakesRenamed(f) \/ DropsRow(f)
    BY <1>4 DEF Runs
  <2>2. FlightOK(f)
    BY <1>0 DEF Flights
  <2>3. CASE CreatesDirect(f) \/ CreatesGroup(f) \/ Adds(f) \/ Renames(f) \/ LeavesGroup(f)
    <3>1. ~Opening(f) /\ UNCHANGED screen /\ \E c, got : Answered(f, "made", c, got)
      BY <2>3 DEF CreatesDirect, CreatesGroup, Adds, Renames, LeavesGroup, Opening
    <3> QED BY <1>0, <3>1, AnsweredOpenRows, FollowsStays DEF screen
  <2>4. CASE ChecksAdd(f) \/ TakesRow(f)
    <3>1. UNCHANGED screen /\ ~Opening(f) /\ \E st : st \notin {"opened", "posting"} /\ Steps(f, st)
      BY <2>4 DEF ChecksAdd, TakesRow, Opening
    <3> QED BY <1>0, <3>1, StepsOpenRows, FollowsStays DEF screen
  <2>5. CASE Fails(f) \/ TakesAdded(f) \/ TakesRenamed(f)
    <3>1. UNCHANGED screen /\ ~Opening(f) /\ Ends(f)
      BY <2>5 DEF Fails, TakesAdded, TakesRenamed, Opening
    <3> QED BY <3>1, EndsOpenRows, FollowsStays DEF screen
  <2>6. CASE OpensRow(f)
    <3>1. /\ f.op \in {"first", "group"} /\ openConversation(f.row) /\ Steps(f, "opened")
          /\ url' = url
      BY <2>6 DEF OpensRow
    <3> DEFINE h == [f EXCEPT !.stage = "opened"]
    <3>2. h.op = f.op /\ h.row = f.row /\ h.stage = "opened"
      BY <2>2, Staged DEF FlightOK
    <3>3. h \in flows'
      BY <3>1 DEF Steps
    <3> HIDE DEF h
    <3>4. f.row \in OpenRows'
      BY <3>1, <3>2, <3>3 DEF OpenRows, Opening
    <3>5. active' = f.row
      BY <3>1 DEF openConversation
    <3> QED BY <3>1, <3>4, <3>5 DEF Follows
  <2>7. CASE Posts(f)
    <3>1. Steps(f, "posting") /\ Opening(f) /\ UNCHANGED <<active, url>> /\ f.op \in {"first", "group"}
      BY <2>7 DEF Posts, Opening
    <3>2. OpenRows' = OpenRows
      BY <1>0, <3>1, StepsOpenRows
    <3>3. f.row \in OpenRows
      BY <3>1 DEF OpenRows
    <3> QED BY <3>1, <3>2, <3>3 DEF Follows
  <2>8. CASE Stored(f) \/ ShowsGroup(f)
    <3>1. Go(At("thread", f.row), flows \ {f}) /\ UNCHANGED rows
      BY <2>8 DEF Stored, ShowsGroup, server
    <3>2. f.row \in Made
      BY <2>2, <2>8 DEF FlightOK, Stored, ShowsGroup, HomeAt
    <3>3. TargetOK(At("thread", f.row))
      BY <3>2 DEF TargetOK, At
    <3> QED BY <3>1, <3>3, GoFollows
  <2>9. CASE DropsRow(f)
    <3>1. ~Opening(f) /\ UNCHANGED rows
      BY <2>9 DEF DropsRow, Opening, server
    <3>2. CASE Go(At("list", 0), flows \ {f})
      <4>1. TargetOK(At("list", 0))
        BY DEF TargetOK, At
      <4> QED BY <3>1, <3>2, <4>1, GoFollows
    <3>3. CASE closeActiveConversation /\ Ends(f) /\ url = At("list", 0) /\ UNCHANGED url
      BY <3>1, <3>3, EndsOpenRows DEF closeActiveConversation, Follows, At
    <3> QED BY <2>9, <3>2, <3>3 DEF DropsRow
  <2> QED BY <2>1, <2>3, <2>4, <2>5, <2>6, <2>7, <2>8, <2>9
<1> QED BY <1>1, <1>2, <1>3, <1>4 DEF Next

LEMMA SettledFollows == ASSUME Screen, Follows PROVE ThreadFollowsUrl
<1>1. AtRest => OpenRows = {}
  BY DEF AtRest, OpenRows
<1>2. url.at = "thread" => url.id # 0
  BY DEF Screen, TargetOK, Made
<1> QED BY <1>1, <1>2 DEF ThreadFollowsUrl, Follows, Screen, TargetOK

(* With no flow under way, the thread, the subscription and the draft are   *)
(* those of the URL, whatever came back late and moved the page meanwhile   *)
(* (applyRoute, onSend, onCreateGroup).                                      *)
THEOREM ThreadsFollow == Spec => []ThreadFollowsUrl
<1>1. Init => Follows
  BY DEF Init, Follows, At, OpenRows
<1>2. Seated /\ Follows /\ [Next]_vars => Follows'
  BY FollowsNext
<1>3. Seated /\ Follows => ThreadFollowsUrl
  BY SettledFollows DEF Seated
<1> QED BY SeatedAlways, <1>1, <1>2, <1>3, PTL DEF Spec

-----------------------------------------------------------------------------
(* The threads.  Lists in an order.                                         *)

TotalOn(R, S) ==
    /\ \A x \in S : <<x, x>> \in R
    /\ \A x, y \in S : <<x, y>> \in R \/ <<y, x>> \in R
    /\ \A x, y \in S : <<x, y>> \in R /\ <<y, x>> \in R => x = y
    /\ \A x, y, z \in S : <<x, y>> \in R /\ <<y, z>> \in R => <<x, z>> \in R

(* The place of a member is its rank; no rank is empty or held by two.       *)
LEMMA OrderedLists ==
    ASSUME NEW S, IsFiniteSet(S), NEW R, TotalOn(R, S)
    PROVE  LET n == Cardinality(S)
               s == Ordered(S, R)
           IN  /\ n \in Nat /\ s \in [1 .. n -> S]
               /\ \A k, l \in 1 .. n : s[k] = s[l] => k = l
               /\ \A x \in S : \E k \in 1 .. n : s[k] = x
<1> DEFINE n == Cardinality(S)
           low(x) == {y \in S : <<y, x>> \in R}
           rank == [x \in S |-> Cardinality(low(x))]
           s == Ordered(S, R)
<1>1. n \in Nat
  BY FS_CardinalityType
<1>2. \A x \in S : IsFiniteSet(low(x)) /\ Cardinality(low(x)) \in 1 .. n
  <2>1. ASSUME NEW x \in S
        PROVE  IsFiniteSet(low(x)) /\ Cardinality(low(x)) \in 1 .. n
    <3>1. low(x) \in SUBSET S /\ x \in low(x)
      BY DEF TotalOn
    <3> HIDE DEF low
    <3>2. IsFiniteSet(low(x)) /\ Cardinality(low(x)) <= n /\ Cardinality(low(x)) \in Nat
      BY <3>1, FS_Subset, FS_CardinalityType
    <3>3. Cardinality(low(x)) # 0
      BY <3>1, <3>2, FS_EmptySet
    <3> QED BY <1>1, <3>2, <3>3
  <2> QED BY <2>1
<1>3. ASSUME NEW x \in S, NEW y \in S, <<x, y>> \in R, x # y
      PROVE  rank[x] # rank[y]
  <2>1. low(x) \in SUBSET low(y) /\ y \notin low(x) /\ y \in low(y)
    BY <1>3 DEF TotalOn
  <2>2. IsFiniteSet(low(y))
    BY <1>2
  <2> HIDE DEF low
  <2>3. Cardinality(low(x)) # Cardinality(low(y))
    BY <2>1, <2>2, FS_Subset
  <2> QED BY <2>3
<1>4. rank \in Injection(S, 1 .. n)
  <2>1. rank \in [S -> 1 .. n]
    BY <1>2
  <2>2. \A x, y \in S : x # y => rank[x] # rank[y]
    BY <1>3 DEF TotalOn
  <2> HIDE DEF rank
  <2> QED BY <2>1, <2>2 DEF Injection, IsInjective
<1>5. rank \in Surjection(S, 1 .. n)
  <2>1. IsFiniteSet(1 .. n) /\ Cardinality(1 .. n) = n
    BY <1>1, FS_Interval
  <2> HIDE DEF rank
  <2> QED BY <1>4, <2>1, FS_Injection
<1>6. \A k \in 1 .. n : s[k] \in S /\ rank[s[k]] = k
  <2>1. ASSUME NEW k \in 1 .. n
        PROVE  s[k] \in S /\ rank[s[k]] = k
    <3>1. \E x \in S : rank[x] = k
      BY <1>5 DEF Surjection
    <3>2. s[k] = CHOOSE x \in S : Cardinality(low(x)) = k
      BY DEF Ordered
    <3> QED BY <3>1, <3>2
  <2> QED BY <2>1
<1>7. s \in [1 .. n -> S]
  BY <1>6 DEF Ordered
<1>8. \A x \in S : s[rank[x]] = x /\ rank[x] \in 1 .. n
  <2>1. ASSUME NEW x \in S
        PROVE  s[rank[x]] = x /\ rank[x] \in 1 .. n
    <3> HIDE DEF rank, s
    <3>1. rank[x] \in 1 .. n
      BY <1>4 DEF Injection
    <3>2. s[rank[x]] \in S /\ rank[s[rank[x]]] = rank[x]
      BY <1>6, <3>1
    <3> QED BY <1>4, <3>1, <3>2 DEF Injection, IsInjective
  <2> QED BY <2>1
<1> HIDE DEF rank, s
<1>9. (\A k, l \in 1 .. n : s[k] = s[l] => k = l) /\ \A x \in S : \E k \in 1 .. n : s[k] = x
  BY <1>6, <1>8
<1> QED BY <1>1, <1>7, <1>9 DEF s

-----------------------------------------------------------------------------
(* Rows of a thread.                                                        *)

RowT == [msg : Msgs, st : {"pending", "saved", "failed"}]
Once(ms) == \A i, j \in DOMAIN ms : ms[i].msg = ms[j].msg => i = j
MsgsOf(ms) == {ms[i].msg : i \in DOMAIN ms}

(* What a thread may become in a step.                                       *)
Grows(old, new) == new \in Seq(RowT) /\ Once(new) /\ MsgsOf(old) \subseteq MsgsOf(new)

LEMMA MarkGrows ==
    ASSUME NEW ms \in Seq(RowT), Once(ms), NEW m \in Msgs, NEW st \in {"pending", "saved", "failed"}
    PROVE  Grows(ms, Mark(ms, m, st))
<1> DEFINE x(i) == IF ms[i].msg = m THEN Row(m, st) ELSE ms[i]
           n == Len(ms)
<1>1. n \in Nat /\ DOMAIN ms = 1 .. n /\ Mark(ms, m, st) = [i \in 1 .. n |-> x(i)]
  BY DEF Mark
<1>2. \A i \in 1 .. n : x(i) \in RowT /\ x(i).msg = ms[i].msg
  <2>1. ASSUME NEW i \in 1 .. n
        PROVE  x(i) \in RowT /\ x(i).msg = ms[i].msg
    <3>1. ms[i] \in RowT
      BY <1>1
    <3> QED BY <3>1 DEF Row, RowT
  <2> QED BY <2>1
<1> HIDE DEF x, n
<1>3. [i \in 1 .. n |-> x(i)] \in Seq(RowT)
  BY <1>1, <1>2
<1> QED BY <1>1, <1>2, <1>3 DEF Grows, Once, MsgsOf

LEMMA AppendGrows ==
    ASSUME NEW ms \in Seq(RowT), Once(ms), NEW m \in Msgs, NEW st \in {"pending", "saved", "failed"},
           m \notin MsgsOf(ms)
    PROVE  Grows(ms, Append(ms, Row(m, st)))
<1> DEFINE r == Row(m, st)
           new == Append(ms, r)
           n == Len(ms)
<1>1. r \in RowT /\ r.msg = m
  BY DEF Row, RowT
<1> HIDE DEF r
<1>2. new \in Seq(RowT) /\ n \in Nat /\ DOMAIN ms = 1 .. n /\ DOMAIN new = 1 .. n + 1
      /\ (\A i \in 1 .. n : new[i] = ms[i]) /\ new[n + 1] = r
  BY <1>1
<1> HIDE DEF new
<1>3. \A i \in 1 .. n : ms[i].msg # m
  BY <1>2 DEF MsgsOf
<1>4. Once(new)
  <2>1. ASSUME NEW i \in 1 .. n + 1, NEW j \in 1 .. n + 1, new[i].msg = new[j].msg
        PROVE  i = j
    <3>1. (i \in 1 .. n \/ i = n + 1) /\ (j \in 1 .. n \/ j = n + 1)
      BY <1>2
    <3> QED BY <1>1, <1>2, <1>3, <2>1, <3>1 DEF Once
  <2> QED BY <1>2, <2>1 DEF Once
<1>5. MsgsOf(ms) \subseteq MsgsOf(new)
  <2>1. 1 .. n \subseteq 1 .. n + 1
    BY <1>2
  <2> QED BY <1>2, <2>1 DEF MsgsOf
<1> QED BY <1>2, <1>4, <1>5 DEF Grows, new, r

(* Rows that are installed over others, in the order of their times.         *)
LEMMA InstallGrows ==
    ASSUME NEW ms \in Seq(RowT), Once(ms), NEW old \in Seq(RowT), Once(old),
           at \in [Msgs -> Nat], Clock \in Nat
    PROVE  Grows(old, Install(ms, old))
<1> DEFINE all == ms \o old
           keep == {i \in DOMAIN all : i \in DOMAIN ms \/ \A j \in DOMAIN ms : ms[j].msg # all[i].msg}
           R == {p \in keep \X keep : Before(all, p[1], p[2])}
           order == Ordered(keep, R)
           k == Len(ms)
           n == Len(ms) + Len(old)
<1>1. /\ k \in Nat /\ n \in Nat /\ DOMAIN ms = 1 .. k /\ DOMAIN all = 1 .. n /\ 1 .. k \subseteq 1 .. n
      /\ \A i \in 1 .. n : all[i] = IF i <= k THEN ms[i] ELSE old[i - k]
      /\ \A i \in 1 .. n : ~(i <= k) => i - k \in DOMAIN old
      /\ \A j \in DOMAIN old : j + k \in 1 .. n /\ ~(j + k <= k) /\ (j + k) - k = j
  OBVIOUS
<1>2. \A i \in 1 .. n : all[i] \in RowT
  BY <1>1
<1> HIDE DEF all, k, n
<1>3. \A i, j \in keep : all[i].msg = all[j].msg => i = j
  <2>1. ASSUME NEW i \in keep, NEW j \in keep, all[i].msg = all[j].msg
        PROVE  i = j
    <3>1. i \in 1 .. n /\ j \in 1 .. n
      BY <1>1
    <3>2. CASE i <= k /\ j <= k
      <4>1. i \in DOMAIN ms /\ j \in DOMAIN ms
        BY <1>1, <3>1, <3>2
      <4> QED BY <1>1, <2>1, <3>1, <3>2, <4>1 DEF Once
    <3>3. CASE ~(i <= k) /\ ~(j <= k)
      <4>1. i - k \in DOMAIN old /\ j - k \in DOMAIN old /\ old[i - k].msg = old[j - k].msg
        BY <1>1, <2>1, <3>1, <3>3
      <4>2. i - k = j - k
        BY <4>1 DEF Once
      <4> QED BY <1>1, <3>1, <4>2
    <3>4. ASSUME NEW a \in keep, NEW b \in keep, a <= k, ~(b <= k)
          PROVE  all[a].msg # all[b].msg
      <4>1. a \in 1 .. n /\ b \in 1 .. n
        BY <1>1
      <4>2. a \in DOMAIN ms /\ b \notin DOMAIN ms /\ all[a] = ms[a]
        BY <1>1, <3>4, <4>1
      <4> QED BY <4>2
    <3> QED BY <2>1, <3>2, <3>3, <3>4
  <2> QED BY <2>1
<1>4. \A j \in DOMAIN old : \E i \in keep : all[i].msg = old[j].msg
  <2>1. ASSUME NEW j \in DOMAIN old
        PROVE  \E i \in keep : all[i].msg = old[j].msg
    <3>1. j + k \in 1 .. n /\ all[j + k] = old[j]
      BY <1>1
    <3>2. CASE \A i \in DOMAIN ms : ms[i].msg # old[j].msg
      <4>1. j + k \in keep
        BY <1>1, <3>1, <3>2
      <4> QED BY <3>1, <4>1
    <3>3. CASE \E i \in DOMAIN ms : ms[i].msg = old[j].msg
      <4>1. PICK i \in DOMAIN ms : ms[i].msg = old[j].msg
        BY <3>3
      <4>2. i \in keep /\ all[i] = ms[i]
        BY <1>1
      <4> QED BY <4>1, <4>2
    <3> QED BY <3>2, <3>3
  <2> QED BY <2>1
<1>5. keep \in SUBSET (1 .. n) /\ IsFiniteSet(keep)
  <2>1. keep \in SUBSET (1 .. n) /\ IsFiniteSet(1 .. n)
    BY <1>1, FS_Interval
  <2> HIDE DEF keep
  <2> QED BY <2>1, FS_Subset
<1>6. \A i \in keep : SortKey(all[i]) \in Nat /\ i \in Nat
  <2>1. ASSUME NEW i \in keep
        PROVE  SortKey(all[i]) \in Nat /\ i \in Nat
    <3>1. i \in 1 .. n
      BY <1>5
    <3>2. all[i].msg \in Msgs
      BY <1>2, <3>1 DEF RowT
    <3> QED BY <1>1, <3>1, <3>2 DEF SortKey
  <2> QED BY <2>1
<1>7. CASE keep = DOMAIN ms
  <2>1. Install(ms, old) = ms
    BY <1>7 DEF Install, all
  <2>2. MsgsOf(old) \subseteq MsgsOf(ms)
    <3>1. \A i \in DOMAIN ms : all[i] = ms[i]
      BY SMTT(60), <1>1
    <3> QED BY <1>4, <1>7, <3>1 DEF MsgsOf
  <2> QED BY <2>1, <2>2 DEF Grows
<1>8. CASE keep # DOMAIN ms
  <2>0. Install(ms, old) = [x \in DOMAIN order |-> all[order[x]]]
    BY <1>8 DEF Install, all
  <2> HIDE DEF keep
  <2>1. \A i, j \in keep : <<i, j>> \in R <=> Before(all, i, j)
    OBVIOUS
  <2>2. TotalOn(R, keep)
    BY <1>6, <2>1 DEF TotalOn, Before
  <2> HIDE DEF R
  <2> DEFINE c == Cardinality(keep)
  <2>3. /\ c \in Nat /\ order \in [1 .. c -> keep]
        /\ \A x, y \in 1 .. c : order[x] = order[y] => x = y
        /\ \A i \in keep : \E x \in 1 .. c : order[x] = i
    BY <1>5, <2>2, OrderedLists
  <2> DEFINE new == [x \in 1 .. c |-> all[order[x]]]
  <2>4. Install(ms, old) = new
    BY <2>0, <2>3
  <2> HIDE DEF order, c
  <2>5. \A x \in 1 .. c : order[x] \in keep /\ all[order[x]] \in RowT
    BY <1>2, <1>5, <2>3
  <2>6. new \in Seq(RowT) /\ DOMAIN new = 1 .. c /\ \A x \in 1 .. c : new[x] = all[order[x]]
    BY <2>3, <2>5
  <2> HIDE DEF new
  <2>7. Once(new)
    BY <1>3, <2>3, <2>5, <2>6 DEF Once
  <2>8. MsgsOf(old) \subseteq MsgsOf(new)
    <3>1. ASSUME NEW j \in DOMAIN old
          PROVE  \E x \in DOMAIN new : new[x].msg = old[j].msg
      <4>1. PICK i \in keep : all[i].msg = old[j].msg
        BY <1>4
      <4>2. PICK x \in 1 .. c : order[x] = i
        BY <2>3
      <4> QED BY <2>6, <4>1, <4>2
    <3> QED BY <3>1 DEF MsgsOf
  <2> QED BY <2>4, <2>6, <2>7, <2>8 DEF Grows
<1> QED BY <1>7, <1>8

-----------------------------------------------------------------------------
(* What holds in every state.                                               *)

Stamped == {m \in Msgs : at[m] > 0}
TimesOK ==
    /\ at \in [Msgs -> Nat] /\ IsFiniteSet(Stamped)
    /\ \A m \in Msgs : at[m] <= Cardinality(Stamped)
    /\ \A m, n \in Stamped : at[m] = at[n] => m = n

(* A message nobody has sent yet is not stored.                              *)
UnsentOK == DOMAIN req = Msgs /\ \A m \in Msgs : req[m] = "no" => at[m] = 0

FrameT == [t : {"message.new"}, of : Msgs] \cup [t : {"unread.added", "unread.cleared"}, of : Convs]
FramesOK == wire \in Seq(FrameT)

PageOK(p) == p \in Seq(Msgs) /\ \A i, j \in DOMAIN p : p[i] = p[j] => i = j
PagesOK ==
    /\ DOMAIN threadLoads = Convs
    /\ \A c \in Convs : \A l \in threadLoads[c] : l.step = "gotPage" => PageOK(l.page)

ThreadsOK == thread \in [Convs -> Seq(RowT)] /\ \A c \in Convs : Once(thread[c])

Safe == TimesOK /\ UnsentOK /\ FramesOK /\ PagesOK /\ ThreadsOK

LEMMA ClockIsLate == ASSUME TimesOK PROVE Clock \in Nat /\ \A m \in Msgs : at[m] < Clock
<1>1. Clock = Cardinality(Stamped) + 1
  BY DEF Clock, Stamped
<1>2. Cardinality(Stamped) \in Nat
  BY FS_CardinalityType DEF TimesOK
<1> QED BY <1>1, <1>2 DEF TimesOK

(* A page is a list of distinct messages.                                    *)
LEMMA PageLists == ASSUME TimesOK, NEW c PROVE PageOK(ByTime(StoredIn(c)))
<1> DEFINE S == StoredIn(c)
           R == {p \in S \X S : at[p[1]] <= at[p[2]]}
           s == Ordered(S, R)
           n == Cardinality(S)
<1>1. S \in SUBSET Stamped /\ S \subseteq Msgs
  BY DEF StoredIn, Stamped
<1>2. IsFiniteSet(S)
  BY <1>1, FS_Subset DEF TimesOK
<1>3. \A x \in S : at[x] \in Nat
  BY <1>1 DEF TimesOK
<1>4. \A x, y \in S : at[x] = at[y] => x = y
  BY <1>1 DEF TimesOK
<1> HIDE DEF S
<1>5. \A x, y \in S : <<x, y>> \in R <=> at[x] <= at[y]
  OBVIOUS
<1> HIDE DEF R
<1>6. TotalOn(R, S)
  BY <1>3, <1>4, <1>5 DEF TotalOn
<1>7. n \in Nat /\ s \in [1 .. n -> S] /\ \A k, l \in 1 .. n : s[k] = s[l] => k = l
  BY <1>2, <1>6, OrderedLists
<1>8. ByTime(StoredIn(c)) = s
  BY DEF ByTime, S, R
<1> HIDE DEF s, n
<1>9. s \in Seq(Msgs) /\ DOMAIN s = 1 .. n
  BY <1>1, <1>7
<1> QED BY <1>7, <1>8, <1>9 DEF PageOK

(* Which steps touch what. *)
LEMMA WhoStamps == ChatNext => UNCHANGED at \/ \E m \in Msgs : Post(m) \/ TheirPost(m)
<1> USE DEF tables
<1>1. Service => UNCHANGED at \/ \E m \in Msgs : Post(m)
  BY DEF Service, Announce, PostMark, AnswerLoad, AnswerList, AnswerUnread
<1>2. Answers => UNCHANGED at
  BY DEF Answers, Upload, SendDone, SendFailed, TakeDetail, TakePage, TakeList, TakeUnread, TakeFrame
<1>3. Person => UNCHANGED at
  BY DEF Person, Send, Retry, OpenPage, Dock, Undock, ReadThread, ClosePage, LoadList, Focus, Blur
<1>4. Faults => UNCHANGED at
  BY DEF Faults, HandlerDies, SendFault, LoadFault, MarkFault, ListFault, UnreadFault, Disconnect
<1>5. Connect => UNCHANGED at
  BY DEF Connect
<1> QED BY <1>1, <1>2, <1>3, <1>4, <1>5 DEF ChatNext, Msgs

LEMMA UnsentStays == ASSUME Safe, ChatNext PROVE UnsentOK'
<1>0. UnsentOK /\ at \in [Msgs -> Nat]
  BY DEF Safe, TimesOK
<1> SUFFICES DOMAIN req' = Msgs /\ \A n \in Msgs : req'[n] = "no" => req[n] = "no" /\ at'[n] = at[n]
  BY <1>0 DEF UnsentOK
<1> USE <1>0 DEF UnsentOK, tables, requests
<1>1. CASE UNCHANGED <<at, req>>
  BY <1>1
<1>2. ASSUME NEW m \in Msgs, Post(m) \/ TheirPost(m) \/ Announce(m) \/ HandlerDies(m) \/ SendFault(m) \/ Upload(m)
                             \/ SendDone(m) \/ SendFailed(m) \/ Send(m) \/ Retry(m)
      PROVE  DOMAIN req' = Msgs /\ \A n \in Msgs : req'[n] = "no" => req[n] = "no" /\ at'[n] = at[n]
  <2>1. PICK st : req' = [req EXCEPT ![m] = st] /\ st # "no"
    BY <1>2 DEF Post, TheirPost, Announce, HandlerDies, SendFault, Upload, SendDone, SendFailed, Send, Retry
  <2>2. \A n \in Msgs : n # m => at'[n] = at[n]
    BY <1>2 DEF Post, TheirPost, Announce, HandlerDies, SendFault, Upload, SendDone, SendFailed, Send, Retry
  <2> QED BY <2>1, <2>2
<1>3. Service => UNCHANGED <<at, req>> \/ \E m \in Msgs : Post(m) \/ Announce(m)
  BY DEF Service, PostMark, AnswerLoad, AnswerList, AnswerUnread
<1>4. Answers => UNCHANGED <<at, req>> \/ \E m \in Msgs : Upload(m) \/ SendDone(m) \/ SendFailed(m)
  BY DEF Answers, TakeDetail, TakePage, TakeList, TakeUnread, TakeFrame, Msgs
<1>5. Person => UNCHANGED <<at, req>> \/ \E m \in Msgs : Send(m) \/ Retry(m)
  BY DEF Person, OpenPage, Dock, Undock, ReadThread, ClosePage, LoadList, Focus, Blur, Msgs
<1>6. Faults => UNCHANGED <<at, req>> \/ \E m \in Msgs : HandlerDies(m) \/ SendFault(m)
  BY DEF Faults, LoadFault, MarkFault, ListFault, UnreadFault, Disconnect
<1>7. Connect => UNCHANGED <<at, req>>
  BY DEF Connect
<1>8. CASE \E m \in Theirs : TheirPost(m)
  BY <1>2, <1>8 DEF Msgs
<1> QED BY <1>1, <1>2, <1>3, <1>4, <1>5, <1>6, <1>7, <1>8 DEF ChatNext

LEMMA TimesStay == ASSUME Safe, ChatNext PROVE TimesOK'
<1>0. TimesOK /\ UnsentOK
  BY DEF Safe
<1>1. CASE UNCHANGED at
  BY <1>0, <1>1 DEF TimesOK, Stamped
<1>2. ASSUME NEW m \in Msgs, at[m] = 0, at' = [at EXCEPT ![m] = Clock]
      PROVE  TimesOK'
  <2>1. Clock \in Nat /\ Clock = Cardinality(Stamped) + 1 /\ \A n \in Msgs : at[n] < Clock
    BY <1>0, ClockIsLate DEF Clock, Stamped
  <2>2. at' \in [Msgs -> Nat] /\ at'[m] = Clock /\ \A n \in Msgs : n # m => at'[n] = at[n]
    BY <1>0, <1>2, <2>1 DEF TimesOK
  <2>3. Stamped' = Stamped \cup {m}
    BY <1>0, <2>1, <2>2 DEF Stamped, TimesOK
  <2>4. IsFiniteSet(Stamped) /\ Cardinality(Stamped) \in Nat
    BY <1>0, FS_CardinalityType DEF TimesOK
  <2>5. IsFiniteSet(Stamped')
    BY <2>3, <2>4, FS_AddElement
  <2>6. Cardinality(Stamped') = Cardinality(Stamped) + 1
    <3>1. m \notin Stamped
      BY <1>2 DEF Stamped
    <3> QED BY <2>3, <2>4, <3>1, FS_AddElement
  <2>7. \A n \in Msgs : at'[n] <= Cardinality(Stamped')
    BY <1>0, <2>1, <2>2, <2>4, <2>6 DEF TimesOK
  <2>8. \A a, b \in Stamped' : at'[a] = at'[b] => a = b
    BY <1>0, <2>1, <2>2, <2>3 DEF TimesOK, Stamped
  <2> QED BY <2>2, <2>5, <2>7, <2>8 DEF TimesOK
<1>3. CASE \E m \in Msgs : Post(m) \/ TheirPost(m)
  BY <1>0, <1>1, <1>2, <1>3 DEF Post, TheirPost, UnsentOK
<1> QED BY <1>1, <1>3, WhoStamps

-----------------------------------------------------------------------------
(* Frames on their way.                                                      *)

LEMMA FramesStay == ASSUME Safe, ChatNext PROVE FramesOK'
<1>0. FramesOK
  BY DEF Safe
<1> USE <1>0 DEF FramesOK
<1> USE DEF live
<1>1. ASSUME NEW new \in Seq(FrameT), Push(new) PROVE wire' \in Seq(FrameT)
  BY <1>1 DEF Push
<1>2. CASE \E m \in Msgs : Announce(m)
  <2>1. PICK m \in Msgs : Announce(m)
    BY <1>2
  <2> DEFINE a == Frame("message.new", m)
             b == Frame("unread.added", Home[m])
             more == IF m \in Theirs THEN <<b>> ELSE <<>>
             none == <<>>
  <2>2. a \in FrameT /\ b \in FrameT
    BY ChatAssumption DEF Frame, FrameT
  <2>3. none \in Seq(FrameT)
    OBVIOUS
  <2>4. more = <<b>> \/ more = none
    OBVIOUS
  <2>5. Push(<<a>> \o more)
    BY <2>1 DEF Announce
  <2> HIDE DEF a, b, none
  <2>6. <<a>> \in Seq(FrameT) /\ <<b>> \in Seq(FrameT)
    BY <2>2
  <2>7. more \in Seq(FrameT)
    BY <2>3, <2>4, <2>6
  <2> HIDE DEF more
  <2>8. <<a>> \o more \in Seq(FrameT)
    BY <2>6, <2>7
  <2> QED BY <1>1, <2>5, <2>8
<1>3. CASE \E c \in Convs, m \in Msgs : PostMark(c, m)
  <2>1. PICK c \in Convs, m \in Msgs : PostMark(c, m)
    BY <1>3
  <2> DEFINE b == Frame("unread.cleared", c)
  <2>2. b \in FrameT
    BY DEF Frame, FrameT
  <2>3. wire' = wire \/ Push(<<b>>)
    BY <2>1 DEF PostMark
  <2> HIDE DEF b
  <2>4. <<b>> \in Seq(FrameT)
    BY <2>2
  <2> QED BY <1>1, <2>3, <2>4
<1>4. CASE TakeFrame
  <2>1. wire # <<>> /\ wire' = Tail(wire)
    BY <1>4 DEF TakeFrame
  <2> QED BY <2>1
<1>5. CASE Disconnect
  <2> DEFINE none == <<>>
  <2>1. none \in Seq(FrameT)
    OBVIOUS
  <2>2. wire' = none
    BY <1>5 DEF Disconnect
  <2> HIDE DEF none
  <2> QED BY <2>1, <2>2
<1>6. CASE UNCHANGED wire
  BY <1>6
<1>7. Service => UNCHANGED wire \/ (\E m \in Msgs : Announce(m)) \/ \E c \in Convs, m \in Msgs : PostMark(c, m)
  BY DEF Service, Post, AnswerLoad, AnswerList, AnswerUnread
<1>8. Answers => UNCHANGED wire \/ TakeFrame
  BY DEF Answers, Upload, SendDone, SendFailed, TakeDetail, TakePage, TakeList, TakeUnread
<1>9. Person => UNCHANGED wire
  BY DEF Person, Send, Retry, OpenPage, Dock, Undock, ReadThread, ClosePage, LoadList, Focus, Blur
<1>10. Faults => UNCHANGED wire \/ Disconnect
  BY DEF Faults, HandlerDies, SendFault, LoadFault, MarkFault, ListFault, UnreadFault
<1>11. Connect \/ (\E m \in Theirs : TheirPost(m)) => UNCHANGED wire
  BY DEF Connect, TheirPost
<1> QED BY <1>2, <1>3, <1>4, <1>5, <1>6, <1>7, <1>8, <1>9, <1>10, <1>11 DEF ChatNext

-----------------------------------------------------------------------------
(* Thread loads.                                                             *)

LEMMA PagesStay == ASSUME Safe, ChatNext PROVE PagesOK'
<1>0. PagesOK /\ TimesOK
  BY DEF Safe
<1> USE <1>0 DEF PagesOK
<1>1. ASSUME NEW c \in Convs, NEW more,
             threadLoads' = [threadLoads EXCEPT ![c] = more],
             \A l \in more : l \in threadLoads[c] \/ (l.step = "gotPage" => PageOK(l.page))
      PROVE  PagesOK'
  <2>1. DOMAIN threadLoads' = Convs /\ \A d \in Convs : threadLoads'[d] = IF d = c THEN more ELSE threadLoads[d]
    BY <1>1
  <2>2. ASSUME NEW d \in Convs, NEW l \in threadLoads'[d], l.step = "gotPage" PROVE PageOK(l.page)
    <3>1. CASE d = c /\ l \notin threadLoads[c]
      BY <1>1, <2>1, <2>2, <3>1
    <3>2. CASE d # c \/ l \in threadLoads[c]
      <4>1. l \in threadLoads[d]
        BY <2>1, <2>2, <3>2
      <4> QED BY <2>2, <4>1
    <3> QED BY <3>1, <3>2
  <2> QED BY <2>1, <2>2 DEF PageOK
<1>2. ASSUME NEW c \in Convs, NEW h, Load(c, h) PROVE PagesOK'
  <2> DEFINE load == [step |-> IF listRow[c] = "absent" THEN "detail" ELSE "page", by |-> h,
                      fresh |-> c \notin loaded]
  <2>1. UNCHANGED threadLoads \/ threadLoads' = [threadLoads EXCEPT ![c] = @ \cup {load}]
    BY <1>2 DEF Load
  <2>2. CASE UNCHANGED threadLoads
    BY <2>2 DEF PageOK
  <2>3. CASE threadLoads' = [threadLoads EXCEPT ![c] = @ \cup {load}]
    <3>1. load.step # "gotPage"
      OBVIOUS
    <3> HIDE DEF load
    <3>2. threadLoads' = [threadLoads EXCEPT ![c] = threadLoads[c] \cup {load}]
      BY <2>3
    <3> QED BY <1>1, <3>1, <3>2
  <2> QED BY <2>1, <2>2, <2>3
<1>3. ASSUME NEW c \in Convs, NEW l \in threadLoads[c], AnswerLoad(c, l) PROVE PagesOK'
  <2> DEFINE page == ByTime(StoredIn(c))
             a == [step |-> "gotDetail", by |-> l.by, fresh |-> l.fresh, row |-> ListRow(c)]
             b == [step |-> "gotPage", by |-> l.by, fresh |-> l.fresh, page |-> page]
             x == IF l.step = "detail" THEN a ELSE b
  <2>1. PageOK(page)
    BY PageLists
  <2> HIDE DEF page
  <2>2. a.step = "gotDetail" /\ b.page = page
    OBVIOUS
  <2>3. threadLoads' = [threadLoads EXCEPT ![c] = (threadLoads[c] \ {l}) \cup {x}]
    BY <1>3 DEF AnswerLoad, page
  <2>4. x.step = "gotPage" => PageOK(x.page)
    BY <2>1, <2>2
  <2> HIDE DEF x
  <2> QED BY <1>1, <2>3, <2>4
<1>4. ASSUME NEW c \in Convs, NEW l \in threadLoads[c], TakeDetail(c, l) \/ TakePage(c, l) \/ LoadFault(c, l) PROVE PagesOK'
  <2> DEFINE x == [step |-> "page", by |-> l.by, fresh |-> TRUE]
  <2>1. \/ threadLoads' = [threadLoads EXCEPT ![c] = (threadLoads[c] \ {l}) \cup {x}]
        \/ threadLoads' = [threadLoads EXCEPT ![c] = threadLoads[c] \ {l}]
    BY <1>4 DEF TakeDetail, TakePage, LoadFault
  <2>2. x.step # "gotPage"
    OBVIOUS
  <2> HIDE DEF x
  <2> QED BY <1>1, <2>1, <2>2
<1>5. CASE UNCHANGED threadLoads
  BY <1>5 DEF PageOK
<1> USE DEF requests
<1>6. Service => UNCHANGED threadLoads \/ \E c \in Convs : \E l \in threadLoads[c] : AnswerLoad(c, l)
  BY DEF Service, Post, Announce, PostMark, AnswerList, AnswerUnread
<1>7. Answers => UNCHANGED threadLoads \/ \E c \in Convs : \E l \in threadLoads[c] : TakeDetail(c, l) \/ TakePage(c, l)
  BY DEF Answers, Upload, SendDone, SendFailed, TakeList, TakeUnread, TakeFrame
<1>8. Person => UNCHANGED threadLoads \/ \E c \in Convs : Load(c, "page") \/ Load(c, "dock")
  BY DEF Person, Send, Retry, OpenPage, Dock, Undock, ReadThread, ClosePage, LoadList, Focus, Blur
<1>9. Faults => UNCHANGED threadLoads \/ \E c \in Convs : \E l \in threadLoads[c] : LoadFault(c, l)
  BY DEF Faults, HandlerDies, SendFault, MarkFault, ListFault, UnreadFault, Disconnect
<1>10. Connect \/ (\E m \in Theirs : TheirPost(m)) => UNCHANGED threadLoads
  BY DEF Connect, TheirPost
<1> QED BY <1>2, <1>3, <1>4, <1>5, <1>6, <1>7, <1>8, <1>9, <1>10 DEF ChatNext

-----------------------------------------------------------------------------
(* Threads.                                                                  *)

ThreadsThrive == thread' \in [Convs -> Seq(RowT)] /\ \A c \in Convs : Grows(thread[c], thread'[c])

(* Every thread keeps what it shows, and shows it once.                      *)
LEMMA ThreadsGrow == ASSUME Safe, ChatNext PROVE ThreadsThrive
<1>0. /\ thread \in [Convs -> Seq(RowT)] /\ \A c \in Convs : Once(thread[c])
      /\ TimesOK /\ FramesOK /\ PagesOK
      /\ \A m \in Msgs : Home[m] \in Convs
  BY ChatAssumption DEF Safe, ThreadsOK
<1>1. \A c \in Convs : Grows(thread[c], thread[c])
  BY <1>0 DEF Grows
<1>2. CASE UNCHANGED thread
  BY <1>0, <1>1, <1>2 DEF ThreadsThrive
<1>3. ASSUME NEW c \in Convs, NEW new, Grows(thread[c], new), thread' = [thread EXCEPT ![c] = new]
      PROVE  ThreadsThrive
  <2>0. new \in Seq(RowT)
    BY <1>3 DEF Grows
  <2>1. /\ thread' \in [Convs -> Seq(RowT)]
        /\ \A d \in Convs : thread'[d] = IF d = c THEN new ELSE thread[d]
    BY <1>0, <1>3, <2>0
  <2>2. ASSUME NEW d \in Convs PROVE Grows(thread[d], thread'[d])
    <3>1. CASE d = c
      BY <1>3, <2>1, <3>1
    <3>2. CASE d # c
      <4>1. thread'[d] = thread[d]
        BY <2>1, <3>2
      <4> QED BY <1>1, <4>1
    <3> QED BY <3>1, <3>2
  <2> QED BY <2>1, <2>2 DEF ThreadsThrive
<1>4. ASSUME NEW m \in Msgs, NEW st \in {"pending", "saved", "failed"},
             thread' = [thread EXCEPT ![Home[m]] = Mark(@, m, st)]
      PROVE  ThreadsThrive
  <2>1. Home[m] \in Convs /\ Grows(thread[Home[m]], Mark(thread[Home[m]], m, st))
    BY <1>0, MarkGrows
  <2> QED BY <1>3, <1>4, <2>1
<1>5. ASSUME NEW m \in Msgs, NEW st \in {"pending", "saved", "failed"}, NEW local, Append1(Home[m], m, st, local)
      PROVE  ThreadsThrive
  <2> DEFINE c == Home[m]
             ms == thread[c]
             new == IF m \in Shown(c) THEN Mark(ms, m, st) ELSE Append(ms, Row(m, st))
  <2>1. UNCHANGED thread \/ thread' = [thread EXCEPT ![c] = new]
    BY <1>5 DEF Append1
  <2>2. c \in Convs /\ ms \in Seq(RowT) /\ Once(ms)
    BY <1>0
  <2>3. Shown(c) = MsgsOf(ms)
    BY DEF Shown, MsgsOf
  <2> HIDE DEF ms
  <2>4. Grows(ms, new)
    BY <2>2, <2>3, MarkGrows, AppendGrows
  <2> HIDE DEF new, c
  <2> QED BY <1>2, <1>3, <2>1, <2>2, <2>4 DEF ms
<1>6. ASSUME NEW c \in Convs, NEW l \in threadLoads[c], TakePage(c, l) PROVE ThreadsThrive
  <2> DEFINE p == l.page
             ms == [i \in DOMAIN p |-> Row(p[i], "saved")]
             old == thread[c]
  <2>1. PageOK(p)
    BY <1>0, <1>6 DEF TakePage, PagesOK
  <2>2. thread' = [thread EXCEPT ![c] = Install(ms, old)]
    BY <1>6 DEF TakePage
  <2>3. old \in Seq(RowT) /\ Once(old)
    BY <1>0
  <2> HIDE DEF p, old
  <2>4. \A i \in DOMAIN p : p[i] \in Msgs
    BY <2>1 DEF PageOK
  <2>5. DOMAIN p = 1 .. Len(p) /\ Len(p) \in Nat
    BY <2>1 DEF PageOK
  <2>6. \A i \in DOMAIN p : Row(p[i], "saved") \in RowT /\ Row(p[i], "saved").msg = p[i]
    BY <2>4 DEF Row, RowT
  <2>7. ms \in Seq(RowT) /\ DOMAIN ms = DOMAIN p /\ \A i \in DOMAIN p : ms[i].msg = p[i]
    BY <2>5, <2>6
  <2> HIDE DEF ms
  <2>8. Once(ms)
    BY <2>1, <2>7 DEF Once, PageOK
  <2>9. at \in [Msgs -> Nat] /\ Clock \in Nat
    BY <1>0, ClockIsLate DEF TimesOK
  <2>10. Grows(old, Install(ms, old))
    BY <2>3, <2>7, <2>8, <2>9, InstallGrows
  <2> QED BY <1>3, <2>2, <2>10 DEF old
<1>7. CASE TakeFrame
  <2> DEFINE f == Head(wire)
  <2>1. f \in FrameT
    BY <1>0, <1>7 DEF TakeFrame, FramesOK
  <2>2. UNCHANGED thread \/ (f.t = "message.new" /\ TakeMessage(f.of))
    BY <1>7 DEF TakeFrame
  <2> HIDE DEF f
  <2>3. f.t = "message.new" => f.of \in Msgs
    BY <2>1 DEF FrameT
  <2>4. ASSUME NEW m \in Msgs, TakeMessage(m) PROVE ThreadsThrive
    <3>1. Append1(Home[m], m, "saved", FALSE)
      BY <2>4 DEF TakeMessage
    <3> QED BY <1>5, <3>1
  <2> QED BY <1>2, <2>2, <2>3, <2>4
<1>8. ASSUME NEW m \in Msgs, Send(m) \/ SendDone(m) \/ SendFailed(m) \/ Retry(m) PROVE ThreadsThrive
  <2>1. CASE Send(m)
    <3>1. Append1(Home[m], m, "pending", TRUE)
      BY <2>1 DEF Send
    <3> QED BY <1>5, <3>1
  <2>2. CASE SendDone(m)
    BY <1>4, <2>2 DEF SendDone
  <2>3. CASE SendFailed(m)
    BY <1>4, <2>3 DEF SendFailed
  <2>4. CASE Retry(m)
    BY <1>4, <2>4 DEF Retry
  <2> QED BY <1>8, <2>1, <2>2, <2>3, <2>4
<1> USE DEF chats
<1>9. Service => UNCHANGED thread
  BY DEF Service, Post, Announce, PostMark, AnswerLoad, AnswerList, AnswerUnread
<1>10. Answers => \/ UNCHANGED thread \/ TakeFrame \/ \E m \in Msgs : SendDone(m) \/ SendFailed(m)
                  \/ \E c \in Convs : \E l \in threadLoads[c] : TakePage(c, l)
  BY DEF Answers, Upload, TakeDetail, TakeList, TakeUnread, Msgs
<1>11. Person => UNCHANGED thread \/ \E m \in Msgs : Send(m) \/ Retry(m)
  BY DEF Person, OpenPage, Dock, Undock, ReadThread, ClosePage, LoadList, Focus, Blur, Msgs
<1>12. Faults => UNCHANGED thread
  BY DEF Faults, HandlerDies, SendFault, LoadFault, MarkFault, ListFault, UnreadFault, Disconnect
<1>13. Connect \/ (\E m \in Theirs : TheirPost(m)) => UNCHANGED thread
  BY DEF Connect, TheirPost
<1> QED BY <1>2, <1>6, <1>7, <1>8, <1>9, <1>10, <1>11, <1>12, <1>13 DEF ChatNext

LEMMA ThreadsStay == ASSUME ThreadsThrive PROVE ThreadsOK'
<1>1. thread' \in [Convs -> Seq(RowT)] /\ \A c \in Convs : Once(thread'[c])
  BY DEF ThreadsThrive, Grows
<1> QED BY <1>1 DEF ThreadsOK, Once

-----------------------------------------------------------------------------
(* The invariant, and what follows from it.                                  *)

LEMMA SafeStarts == ChatInit => Safe
<1> SUFFICES ASSUME ChatInit PROVE Safe
  OBVIOUS
<1> DEFINE none == <<>>
<1>1. none \in Seq(FrameT) /\ none \in Seq(RowT) /\ DOMAIN none = {}
  OBVIOUS
<1>2. wire = none /\ thread = [c \in Convs |-> none]
  BY DEF ChatInit
<1> HIDE DEF none
<1>3. FramesOK
  BY <1>1, <1>2 DEF FramesOK
<1>4. ThreadsOK
  BY <1>1, <1>2 DEF ThreadsOK, Once
<1>5. at = [m \in Msgs |-> 0] /\ req = [m \in Msgs |-> "no"] /\ threadLoads = [c \in Convs |-> {}]
  BY DEF ChatInit
<1>6. Stamped = {} /\ IsFiniteSet(Stamped) /\ Cardinality(Stamped) = 0
  <2>1. Stamped = {}
    BY <1>5 DEF Stamped
  <2> QED BY <2>1, FS_EmptySet
<1>7. TimesOK
  BY <1>5, <1>6 DEF TimesOK
<1>8. UnsentOK /\ PagesOK
  BY <1>5 DEF UnsentOK, PagesOK
<1> QED BY <1>3, <1>4, <1>7, <1>8 DEF Safe

LEMMA SafeStays == Safe /\ [ChatNext]_chatVars => Safe'
<1> SUFFICES ASSUME Safe, [ChatNext]_chatVars PROVE Safe'
  OBVIOUS
<1>1. CASE ChatNext
  BY <1>1, TimesStay, UnsentStays, FramesStay, PagesStay, ThreadsGrow, ThreadsStay DEF Safe
<1>2. CASE UNCHANGED chatVars
  <2>1. UNCHANGED <<at, req, wire, threadLoads, thread>>
    BY <1>2 DEF chatVars, tables, requests, chats, live
  <2>2. TimesOK' /\ UnsentOK'
    BY <2>1 DEF Safe, TimesOK, Stamped, UnsentOK
  <2>3. FramesOK' /\ PagesOK'
    BY <2>1 DEF Safe, FramesOK, PagesOK, PageOK
  <2>4. ThreadsOK'
    BY <2>1 DEF Safe, ThreadsOK, Once
  <2> QED BY <2>2, <2>3, <2>4 DEF Safe
<1> QED BY <1>1, <1>2

LEMMA AlwaysSafe == ChatSpec => []Safe
BY SafeStarts, SafeStays, PTL DEF ChatSpec

(* A list of ms, each of a message of its own, has as many messages as ms. *)
LEMMA OnceCounts == ASSUME NEW ms \in Seq(RowT), Once(ms) PROVE Cardinality(MsgsOf(ms)) = Len(ms)
<1> DEFINE n == Len(ms)
           S == MsgsOf(ms)
           f == [i \in 1 .. n |-> ms[i].msg]
<1>1. n \in Nat /\ DOMAIN ms = 1 .. n
  OBVIOUS
<1>2. \A i \in 1 .. n : f[i] = ms[i].msg /\ f[i] \in S
  BY <1>1 DEF MsgsOf
<1>3. \A x \in S : \E i \in 1 .. n : f[i] = x
  BY <1>1, <1>2 DEF MsgsOf
<1>4. f \in [1 .. n -> S]
  BY <1>2
<1> HIDE DEF f, S
<1>5. f \in Bijection(1 .. n, S)
  <2>1. \A i, j \in 1 .. n : f[i] = f[j] => i = j
    BY <1>1, <1>2 DEF Once
  <2> QED BY <1>3, <1>4, <2>1 DEF Bijection, Injection, Surjection, IsInjective
<1>6. IsFiniteSet(1 .. n) /\ Cardinality(1 .. n) = n
  BY <1>1, FS_Interval
<1>7. ExistsBijection(1 .. n, S)
  BY <1>5 DEF ExistsBijection
<1>8. Cardinality(S) = n
  BY <1>6, <1>7, FS_Bijection
<1> QED BY <1>8 DEF S, n

(* A thread shows a message once, whichever of the optimistic row, the echo, *)
(* the answer, a page and a retry bring it, and in whatever order.           *)
THEOREM ThreadsShowOnce == ChatSpec => []NoDoubles
<1>1. Safe => NoDoubles
  <2> SUFFICES ASSUME Safe, NEW c \in Convs PROVE Cardinality(Shown(c)) = Len(thread[c])
    BY DEF NoDoubles
  <2>1. thread[c] \in Seq(RowT) /\ Once(thread[c])
    BY DEF Safe, ThreadsOK
  <2>2. Shown(c) = MsgsOf(thread[c])
    BY DEF Shown, MsgsOf
  <2> QED BY <2>1, <2>2, OnceCounts
<1> QED BY <1>1, AlwaysSafe, PTL

(* No step of the tab, the service or the network takes a message off a      *)
(* thread that has shown it: not a page asked for before the message         *)
(* existed, not its echo, not the failure of its request.                    *)
THEOREM ThreadsKeep == ChatSpec => NothingVanishes
<1>1. Safe /\ [ChatNext]_chatVars => [\A c \in Convs : Shown(c) \subseteq Shown(c)']_chatVars
  <2> SUFFICES ASSUME Safe, ChatNext, NEW c \in Convs PROVE Shown(c) \subseteq Shown(c)'
    BY Zenon
  <2>1. Grows(thread[c], thread'[c])
    BY ThreadsGrow DEF ThreadsThrive
  <2>2. Shown(c) = MsgsOf(thread[c]) /\ Shown(c)' = MsgsOf(thread'[c])
    BY DEF Shown, MsgsOf
  <2> QED BY <2>1, <2>2 DEF Grows
<1> QED BY <1>1, AlwaysSafe, PTL DEF ChatSpec, NothingVanishes
=============================================================================
