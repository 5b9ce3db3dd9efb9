-------------------------- MODULE CallServerProofs --------------------------
(***************************************************************************)
(* Theorems about CallServer, for any people, connections, calls,          *)
(* instances and bounds: the state is always well typed; one life of a     *)
(* call record has at most one announcer; who may empty a place in a call  *)
(* and whom a sweep may condemn; that whoever sits in a call is recorded   *)
(* and whoever is rung for is rung; and CallServer implements CallEnding.  *)
(***************************************************************************)
EXTENDS CallServerEndings, TLAPS

(* A call's host and conversation are set together.                          *)
InfoOK == \A d \in Calls : info[d].host = None <=> info[d].conv = None

(* Between calls: the heads of the loops, which have no call in hand.        *)
Unheld == {"idle", "pending", "pget", "release", "scan", "look", "reap"}
Telling == {"cleanup", "unindex", "announce"}

(* Outside the loops a process has a call in hand, which an inviter minted;  *)
(* an inviter that found the claim taken knows the call that holds it; and   *)
(* an ending is held from the consume to the announcement, and only there.   *)
Handy(l) ==
    /\ l.pc \notin Unheld => l.call \in Calls
    /\ l.pc = "claim" => Minted(l.call)
    /\ l.pc = "holder" => l.other \in Calls
    /\ l.mine # 0 => l.pc \in Telling
    /\ l.pc = "announce" => l.mine # 0

HandOK == \A p \in Procs : Handy(loc[p])

(* Lives are numbered upwards: what is or will be announced has begun.       *)
EndingsArePast ==
    /\ \A x \in told : x[2] <= life[x[1]]
    /\ \A p \in Procs : Ending(p) => loc[p].mine <= life[loc[p].call]

Inv ==
    /\ TypeOK
    /\ InfoOK
    /\ HandOK
    /\ EndingsArePast
    /\ OneAnnouncerPerLife

(* The conjuncts of TypeOK that concern neither Redis nor the processes.     *)
RestOK ==
    /\ up \in SUBSET Instances
    /\ sock \in [Conns -> {"off", "open", "closing", "gone"}]
    /\ tracked \in [Conns -> SUBSET Calls]
    /\ armed \in SUBSET Calls
    /\ heard \in [Conns -> SUBSET Calls]
    /\ rang \in SUBSET Calls
    /\ started \in [Calls -> Nat]
    /\ missed \in [Calls -> SUBSET Owners]
    /\ told \in SUBSET (Calls \X Nat)
    /\ spent \in Bounds

-----------------------------------------------------------------------------
(* Initially. *)

LEMMA BlankIsLocal == Blank \in Local /\ Handy(Blank) /\ Blank.mine = 0
BY NoneIsNobody DEF Blank, Local, Labels, Status, Reasons, Handy, Unheld

LEMMA InitInv == Init => Inv
<1> SUFFICES ASSUME Init PROVE Inv
  OBVIOUS
<1>1. TypeOK
  BY BlankIsLocal, BoundsAreNumbers
     DEF Init, RegistryInit, TypeOK, RegistryTypeOK, NoInfo, Status, Bounds
<1>2. InfoOK /\ HandOK
  BY BlankIsLocal DEF Init, RegistryInit, NoInfo, InfoOK, HandOK
<1>3. \A p \in Procs : ~Ending(p)
  BY BlankIsLocal DEF Init, Ending
<1>4. told = {} /\ \A d \in Calls : ~Live(d)
  BY DEF Init, RegistryInit, Live
<1>5. EndingsArePast /\ OneAnnouncerPerLife
  BY <1>3, <1>4 DEF EndingsArePast, OneAnnouncerPerLife
<1> QED
  BY <1>1, <1>2, <1>5 DEF Inv

-----------------------------------------------------------------------------
(* The Redis commands.  All but Save are quiet: no record comes to exist.    *)

Quiet == life' = life /\ \A d \in Calls : Live(d)' => Live(d)

LEMMA NoCommand ==
    ASSUME RegistryTypeOK, UNCHANGED <<info, registry, alive>>
    PROVE  RegistryTypeOK' /\ Quiet
BY DEF RegistryTypeOK, registry, Quiet, Live

LEMMA SaveTyped ==
    ASSUME RegistryTypeOK, UNCHANGED <<info, alive>>,
           NEW d \in Calls, NEW s \in Status, Save(d, s)
    PROVE  RegistryTypeOK'
BY DEF RegistryTypeOK, Save, Status

LEMMA ClaimTyped ==
    ASSUME RegistryTypeOK, UNCHANGED <<info, alive>>,
           NEW w, NEW d \in Calls \cup {None}, Claim(w, d)
    PROVE  RegistryTypeOK' /\ Quiet
BY DEF RegistryTypeOK, Claim, Quiet, Live

LEMMA IndexTyped ==
    ASSUME RegistryTypeOK, UNCHANGED <<info, alive>>,
           NEW o, NEW d \in Calls, AddToIndex(o, d) \/ RemoveFromIndex(o, d)
    PROVE  RegistryTypeOK' /\ Quiet
<1>1. index' \in [Owners -> SUBSET Calls]
  <2>1. CASE AddToIndex(o, d)
    BY <2>1 DEF RegistryTypeOK, AddToIndex
  <2>2. CASE RemoveFromIndex(o, d)
    BY <2>2 DEF RegistryTypeOK, RemoveFromIndex
  <2> QED
    BY <2>1, <2>2
<1> QED
  BY <1>1 DEF RegistryTypeOK, AddToIndex, RemoveFromIndex, Quiet, Live

LEMMA SetMemberTyped ==
    ASSUME RegistryTypeOK, UNCHANGED <<info, alive>>,
           NEW d \in Calls, NEW o, NEW c \in Conns \cup {None}, SetMember(d, o, c)
    PROVE  RegistryTypeOK' /\ Quiet
BY DEF RegistryTypeOK, SetMember, Quiet, Live

LEMMA RecordJoinTyped ==
    ASSUME RegistryTypeOK, UNCHANGED <<info, alive>>,
           NEW d \in Calls, NEW o \in Owners, RecordJoin(d, o)
    PROVE  RegistryTypeOK' /\ Quiet
BY DEF RegistryTypeOK, RecordJoin, Quiet, Live

LEMMA DismissTyped ==
    ASSUME RegistryTypeOK, UNCHANGED <<info, alive>>,
           NEW d \in Calls, NEW o \in Owners, Dismiss(d, o)
    PROVE  RegistryTypeOK' /\ Quiet
BY DEF RegistryTypeOK, Dismiss, Quiet, Live

LEMMA ConsumeTyped ==
    ASSUME RegistryTypeOK, UNCHANGED <<info, alive>>, NEW d \in Calls, Consume(d)
    PROVE  RegistryTypeOK' /\ Quiet /\ ~Live(d)'
BY DEF RegistryTypeOK, Consume, Quiet, Live, Status

LEMMA CleanUpTyped ==
    ASSUME RegistryTypeOK, UNCHANGED <<info, alive>>, NEW d \in Calls, CleanUp(d)
    PROVE  RegistryTypeOK' /\ Quiet
BY DEF RegistryTypeOK, CleanUp, Quiet, Live

LEMMA LapseTyped ==
    ASSUME RegistryTypeOK, UNCHANGED <<info, alive>>, NEW d \in Calls, Lapse(d)
    PROVE  RegistryTypeOK' /\ Quiet
BY DEF RegistryTypeOK, Lapse, Quiet, Live, Status

-----------------------------------------------------------------------------
(* Steps that neither begin a life nor take or tell an ending.               *)

LEMMA QuietMove ==
    ASSUME Inv, TypeOK', InfoOK', HandOK', Quiet, UNCHANGED told,
           \A q \in Procs : loc'[q].mine # 0 =>
               loc'[q].mine = loc[q].mine /\ loc'[q].call = loc[q].call
    PROVE  Inv'
<1>1. \A q \in Procs : Ending(q)' => Ending(q) /\ EndingOf(q)' = EndingOf(q)
  BY DEF Ending, EndingOf
<1>2. EndingsArePast'
  BY <1>1 DEF Inv, EndingsArePast, Quiet, Ending
<1>3. OneAnnouncerPerLife'
  <2>1. \A p \in Procs : Ending(p)' => (EndingOf(p) \notin told)'
    BY <1>1 DEF Inv, OneAnnouncerPerLife
  <2>2. \A p, q \in Procs :
           Ending(p)' /\ Ending(q)' /\ p # q => EndingOf(p)' # EndingOf(q)'
    BY <1>1 DEF Inv, OneAnnouncerPerLife
  <2>3. ASSUME NEW d \in Calls, Live(d)'
        PROVE  /\ <<d, life'[d]>> \notin told'
               /\ \A p \in Procs : Ending(p)' => EndingOf(p)' # <<d, life'[d]>>
    BY <1>1, <2>3 DEF Inv, OneAnnouncerPerLife, Quiet
  <2> QED
    BY <2>1, <2>2, <2>3 DEF OneAnnouncerPerLife
<1> QED
  BY <1>2, <1>3 DEF Inv

(* What remains to show of a handler's quiet step: the moved process.        *)
LEMMA QuietStep ==
    ASSUME Inv, NEW p \in Procs, NEW l \in Local, Become(p, l), Handy(l),
           l.mine # 0 => l.mine = loc[p].mine /\ l.call = loc[p].call,
           UNCHANGED info, UNCHANGED told, RegistryTypeOK', Quiet, RestOK'
    PROVE  Inv'
<1>1. loc' \in [Procs -> Local] /\ loc'[p] = l /\ \A q \in Procs \ {p} : loc'[q] = loc[q]
  BY DEF Inv, TypeOK, Become
<1>2. TypeOK'
  BY <1>1 DEF TypeOK, RestOK
<1>3. HandOK'
  BY <1>1 DEF Inv, HandOK, Handy, Minted
<1>4. InfoOK'
  BY DEF Inv, InfoOK
<1> QED
  BY <1>1, <1>2, <1>3, <1>4, QuietMove

(* What every step starts from. *)
LEMMA InHandOK ==
    ASSUME Inv, NEW p \in Procs
    PROVE  /\ RegistryTypeOK /\ RestOK
           /\ loc[p] \in Local /\ Handy(loc[p])
           /\ loc[p].pc \notin Unheld => InHand(p) \in Calls
           /\ loc[p].pc \notin Telling => loc[p].mine = 0
BY DEF Inv, TypeOK, RestOK, HandOK, Handy, InHand, Local

LEMMA GotoTyped ==
    ASSUME NEW l \in Local, NEW k \in Labels
    PROVE  /\ [l EXCEPT !.pc = k] \in Local
           /\ [l EXCEPT !.pc = k].pc = k
           /\ [l EXCEPT !.pc = k].call = l.call
           /\ [l EXCEPT !.pc = k].mine = l.mine
BY DEF Local

(* Most steps only move a process that holds no ending to another place.     *)
LEMMA GotoStep ==
    ASSUME Inv, NEW p \in Procs, NEW k \in Labels, Goto(p, k),
           loc[p].pc \notin Unheld \cup Telling,
           k \notin {"claim", "holder", "announce"},
           UNCHANGED info, UNCHANGED told, RegistryTypeOK', Quiet, RestOK'
    PROVE  Inv'
<1> DEFINE l == [loc[p] EXCEPT !.pc = k]
<1>1. l \in Local /\ l.pc = k /\ l.call = loc[p].call /\ l.mine = 0
  BY InHandOK, GotoTyped
<1>2. Become(p, l)
  BY DEF Goto
<1> HIDE DEF l
<1>3. Handy(l)
  BY <1>1, InHandOK DEF Handy, InHand
<1> QED
  BY <1>1, <1>2, <1>3, QuietStep

LEMMA HomeTyped ==
    ASSUME Inv, NEW p \in Procs
    PROVE  Home(p) \in Local /\ Handy(Home(p)) /\ Home(p).mine = 0
<1>1. LoopHead(p) \in {"reap", "release", "idle"}
  BY DEF LoopHead
<1>2. CASE LoopHead(p) = "idle"
  BY <1>2, BlankIsLocal DEF Home
<1>3. CASE LoopHead(p) # "idle"
  <2> DEFINE k == LoopHead(p)
             l == [Blank EXCEPT !.pc = k, !.calls = loc[p].calls,
                                !.live = loc[p].live, !.fresh = loc[p].fresh]
  <2>1. k \in Labels
    BY <1>1 DEF Labels
  <2>2. loc[p] \in Local
    BY InHandOK
  <2>3. Home(p) = l
    BY <1>3 DEF Home
  <2>4. l.pc = k /\ l.mine = 0
    BY DEF Blank
  <2>5. Handy(l)
    BY <1>1, <2>4 DEF Handy, Unheld
  <2> HIDE DEF k
  <2>6. l \in Local
    BY <2>1, <2>2, BlankIsLocal DEF Local
  <2> QED
    BY <2>3, <2>4, <2>5, <2>6
<1> QED
  BY <1>2, <1>3

LEMMA FinishStep ==
    ASSUME Inv, NEW p \in Procs, Finish(p),
           UNCHANGED info, UNCHANGED told, RegistryTypeOK', Quiet, RestOK'
    PROVE  Inv'
BY HomeTyped, QuietStep DEF Finish

-----------------------------------------------------------------------------
(* Connecting. *)

LEMMA ConnectStep == ASSUME Inv, NEW c \in Conns, Connect(c) PROVE Inv'
<1> DEFINE l == [Blank EXCEPT !.pc = "pending"]
<1>1. c \in Procs
  BY DEF Procs
<1>2. RegistryTypeOK' /\ Quiet
  BY <1>1, InHandOK, NoCommand DEF Connect
<1>3. RestOK'
  BY <1>1, InHandOK DEF Connect, RestOK, events
<1>4. "pending" \in Labels
  BY DEF Labels
<1>5. l \in Local /\ l.pc = "pending" /\ l.mine = 0
  BY <1>4, BlankIsLocal, GotoTyped
<1>6. Handy(l)
  BY <1>5 DEF Handy, Unheld
<1> QED
  BY <1>1, <1>2, <1>3, <1>5, <1>6, QuietStep DEF Connect, events

LEMMA ConnectingStep == ASSUME Inv, NEW c \in Conns, Connecting(c) PROVE Inv'
<1>1. c \in Procs
  BY DEF Procs
<1>2. loc[c] \in Local /\ Handy(loc[c]) /\ RegistryTypeOK /\ RestOK
  BY <1>1, InHandOK
<1>3. /\ UNCHANGED <<info, told>>
      /\ RegistryTypeOK' /\ Quiet
  BY <1>2, NoCommand DEF Connecting, PendingIndex, PendingGet, PendingJoined,
     PendingDismissed, RingPending, events
<1>4. CASE PendingIndex(c)
  <2> DEFINE l == [loc[c] EXCEPT !.pc = "pget", !.calls = index[OwnerOf[c]]]
  <2>1. RestOK'
    BY <1>2, <1>4 DEF PendingIndex, RestOK, events
  <2>2. index[OwnerOf[c]] \in SUBSET Calls
    BY <1>2, ConnsAreServed DEF RegistryTypeOK
  <2>3. l \in Local /\ l.pc = "pget" /\ l.mine = loc[c].mine /\ l.call = loc[c].call
    BY ZenonT(60), <1>2, <2>2 DEF Local, Labels
  <2> QED
    BY <1>1, <1>2, <1>3, <1>4, <2>1, <2>3, QuietStep DEF PendingIndex, Handy, Unheld, Telling, At
<1>5. CASE PendingGet(c)
  <2>1. PICK d \in loc[c].calls :
           Become(c, [loc[c] EXCEPT !.pc = IF Live(d) THEN "pjoined" ELSE "pget",
                                    !.call = d, !.calls = @ \ {d}])
    BY <1>5 DEF PendingGet
  <2> DEFINE k == IF Live(d) THEN "pjoined" ELSE "pget"
             l == [loc[c] EXCEPT !.pc = k, !.call = d, !.calls = @ \ {d}]
  <2>2. d \in Calls /\ loc[c].mine = 0
    BY <1>2, <1>5 DEF Local, PendingGet, At, Handy, Telling
  <2>3. k \in Labels /\ k \in {"pjoined", "pget"}
    BY DEF Labels
  <2> HIDE DEF k
  <2>4. l \in Local /\ l.pc = k /\ l.mine = 0 /\ l.call = d
    BY <1>2, <2>2, <2>3 DEF Local
  <2>5. RestOK'
    BY <1>2, <1>5 DEF PendingGet, RestOK, events
  <2>6. Handy(l)
    BY <2>2, <2>3, <2>4 DEF Handy
  <2> QED
    BY <1>1, <1>3, <2>1, <2>4, <2>5, <2>6, QuietStep DEF k
<1>6. CASE PendingJoined(c)
  <2> DEFINE k == IF OwnerOf[c] \in joined[InHand(c)] THEN "pget" ELSE "pdismissed"
  <2>1. k \in Labels /\ k \in {"pget", "pdismissed"}
    BY DEF Labels
  <2>2. RestOK'
    BY <1>2, <1>6 DEF PendingJoined, RestOK, events
  <2>3. Goto(c, k) /\ At(c, "pjoined")
    BY <1>6 DEF PendingJoined
  <2> QED
    BY <1>1, <1>3, <2>1, <2>2, <2>3, GotoStep DEF At, Unheld, Telling
<1>7. CASE PendingDismissed(c)
  <2> DEFINE more == IF OwnerOf[c] \in dismissed[InHand(c)] THEN loc[c].found
                     ELSE loc[c].found \cup {InHand(c)}
             l == [loc[c] EXCEPT !.pc = "pget", !.found = more]
  <2>1. Become(c, l) /\ At(c, "pdismissed")
    BY <1>2, <1>7 DEF PendingDismissed, Local
  <2>2. more \in SUBSET Calls
    BY <1>1, <1>2, <2>1, InHandOK DEF Local, At, Unheld
  <2>3. l \in Local /\ l.pc = "pget" /\ l.mine = loc[c].mine
    BY ZenonT(60), <1>2, <2>2 DEF Local, Labels
  <2>4. Handy(l) /\ l.mine = 0
    BY <1>2, <2>1, <2>3 DEF Handy, At, Unheld, Telling
  <2>5. RestOK'
    BY <1>2, <1>7 DEF PendingDismissed, RestOK, events
  <2> QED
    BY <1>1, <1>3, <2>1, <2>3, <2>4, <2>5, QuietStep
<1>8. CASE RingPending(c)
  <2>1. loc[c].found \in SUBSET Calls
    BY <1>2 DEF Local
  <2>2. RestOK'
    BY <1>2, <1>8, <2>1 DEF RingPending, RestOK
  <2> QED
    BY <1>1, <1>3, <1>8, <2>2, BlankIsLocal, QuietStep DEF RingPending
<1> QED
  BY <1>4, <1>5, <1>6, <1>7, <1>8 DEF Connecting

-----------------------------------------------------------------------------
(* Writing a record: if that begins a life, nobody holds or told its ending. *)

LEMMA SaveStep ==
    ASSUME Inv, NEW p \in Procs, NEW l \in Local, Become(p, l), Handy(l), l.mine = 0,
           NEW d \in Calls, NEW s \in Status, Save(d, s),
           UNCHANGED <<info, alive, told>>, RestOK'
    PROVE  Inv'
<1>1. loc' \in [Procs -> Local] /\ loc'[p] = l /\ \A q \in Procs \ {p} : loc'[q] = loc[q]
  BY DEF Inv, TypeOK, Become
<1>2. TypeOK' /\ InfoOK' /\ HandOK'
  <2>1. TypeOK'
    BY <1>1, SaveTyped, InHandOK DEF TypeOK, RestOK
  <2>2. HandOK'
    BY <1>1 DEF Inv, HandOK, Handy, Minted
  <2> QED
    BY <2>1, <2>2 DEF Inv, InfoOK
<1>3. /\ life \in [Calls -> Nat]
      /\ \A e \in Calls \ {d} : life'[e] = life[e] /\ (Live(e)' <=> Live(e))
      /\ life'[d] = IF Live(d) THEN life[d] ELSE life[d] + 1
  BY DEF Inv, TypeOK, RegistryTypeOK, Save, Live
<1>4. \A q \in Procs : Ending(q)' => Ending(q) /\ EndingOf(q)' = EndingOf(q)
  BY <1>1 DEF Ending, EndingOf
<1>5. \A q \in Procs : Ending(q) => loc[q].call \in Calls /\ loc[q].mine \in Nat
  BY DEF Inv, HandOK, Handy, Unheld, Telling, Ending, TypeOK, Local
<1>6. \A e \in Calls : life[e] <= life'[e] /\ life'[e] \in Nat
  BY <1>3
<1>7. EndingsArePast'
  <2>1. \A x \in told : x[1] \in Calls /\ x[2] \in Nat
    BY DEF Inv, TypeOK
  <2>2. \A x \in told : x[2] <= life'[x[1]]
    BY <1>3, <1>6, <2>1 DEF Inv, EndingsArePast
  <2>3. ASSUME NEW q \in Procs, Ending(q)' PROVE loc'[q].mine <= life'[loc'[q].call]
    BY <1>1, <1>3, <1>4, <1>5, <1>6, <2>3 DEF Inv, EndingsArePast, Ending
  <2> QED
    BY <2>2, <2>3 DEF EndingsArePast
<1>8. ASSUME NEW e \in Calls, Live(e)'
      PROVE  /\ <<e, life'[e]>> \notin told
             /\ \A q \in Procs : Ending(q)' => EndingOf(q)' # <<e, life'[e]>>
  <2>1. CASE Live(e)
    <3>1. life'[e] = life[e]
      BY <1>3, <2>1
    <3> QED
      BY <1>4, <2>1, <3>1 DEF Inv, OneAnnouncerPerLife
  <2>2. CASE ~Live(e)
    <3>1. life'[e] = life[e] + 1
      BY <1>3, <1>8, <2>2
    <3>2. <<e, life'[e]>> \notin told
      BY <1>3, <3>1 DEF Inv, EndingsArePast
    <3>3. ASSUME NEW q \in Procs, Ending(q) PROVE EndingOf(q) # <<e, life'[e]>>
      BY <1>3, <1>5, <3>1, <3>3 DEF Inv, EndingsArePast, EndingOf
    <3> QED
      BY <1>4, <3>2, <3>3
  <2> QED
    BY <2>1, <2>2
<1>9. OneAnnouncerPerLife'
  BY <1>4, <1>8 DEF Inv, OneAnnouncerPerLife
<1> QED
  BY <1>2, <1>7, <1>9 DEF Inv

-----------------------------------------------------------------------------
(* Inviting. *)

LEMMA InviteStep ==
    ASSUME Inv, NEW c \in Conns, NEW w \in Conversations, NEW d \in Calls, Invite(c, w, d)
    PROVE  Inv'
<1> DEFINE l == [Blank EXCEPT !.pc = "claim", !.op = "invite", !.call = d, !.seen = "ringing"]
<1>1. c \in Procs
  BY DEF Procs
<1>2. l \in Local /\ l.pc = "claim" /\ l.call = d /\ l.mine = 0
  <2>1. "claim" \in Labels
    BY DEF Labels
  <2>2. "ringing" \in Status
    BY DEF Status
  <2>3. l \in Local
    BY <2>1, <2>2, BlankIsLocal DEF Local
  <2> QED
    BY <2>3 DEF Blank
<1>3. loc' \in [Procs -> Local] /\ loc'[c] = l /\ \A q \in Procs \ {c} : loc'[q] = loc[q]
  BY <1>1, <1>2 DEF Inv, TypeOK, Become, Invite
<1>4. RegistryTypeOK' /\ Quiet
  BY <1>1, InHandOK DEF Invite, RegistryTypeOK, registry, Quiet, Live
<1>5. RestOK'
  BY <1>1, InHandOK DEF Invite, Receive, RestOK, events, Bounds
<1>6. TypeOK'
  BY <1>3, <1>4, <1>5 DEF TypeOK, RestOK
<1>7. InfoOK' /\ Minted(d)' /\ \A e \in Calls : Minted(e) => Minted(e)'
  BY <1>1, InHandOK, NoneIsNobody DEF Inv, InfoOK, Invite, Minted, RegistryTypeOK
<1>8. HandOK'
  <2>1. Handy(l)'
    BY <1>2, <1>7 DEF Handy, Minted
  <2>2. ASSUME NEW q \in Procs, q # c PROVE Handy(loc[q])'
    BY <1>3, <1>7, <2>2, InHandOK DEF Handy, Unheld, Minted
  <2> QED
    BY <1>3, <2>1, <2>2 DEF HandOK, Handy, Minted
<1> QED
  BY <1>2, <1>3, <1>4, <1>6, <1>7, <1>8, QuietMove DEF Invite, events

LEMMA ParticipantsTyped ==
    ASSUME Inv, NEW d \in Calls PROVE Participants(d) \in SUBSET Owners
BY ConnsAreServed, NoneIsNobody DEF Inv, TypeOK, RegistryTypeOK, InfoOK, Participants, Minted

LEMMA InvitingStep == ASSUME Inv, NEW c \in Conns, Inviting(c) PROVE Inv'
<1>1. c \in Procs
  BY DEF Procs
<1>2. /\ loc[c] \in Local /\ Handy(loc[c]) /\ RegistryTypeOK /\ RestOK
      /\ loc[c].pc \notin Unheld => InHand(c) \in Calls
  BY <1>1, InHandOK
<1>3. /\ UNCHANGED <<info, alive, told>>
      /\ loc[c].pc \notin Unheld \cup Telling /\ loc[c].mine = 0 /\ InHand(c) \in Calls
  <2>1. UNCHANGED <<info, alive, told>>
    BY DEF Inviting, ClaimConversation, CheckHolder, StealClaim, SaveRinging,
       UndoClaim, IndexOwner, Ring, ArmRingTimeout, events
  <2>2. loc[c].pc \notin Unheld \cup Telling
    BY DEF Inviting, ClaimConversation, CheckHolder, StealClaim, SaveRinging, UndoClaim,
       IndexOwner, Ring, ArmRingTimeout, At, Unheld, Telling
  <2> QED
    BY <1>2, <2>1, <2>2 DEF Handy
<1> USE <1>1, <1>2, <1>3
<1>4. CASE ClaimConversation(c)
  <2> DEFINE d == InHand(c)
             w == info[d].conv
             k == "save"
             l == [loc[c] EXCEPT !.pc = "holder", !.other = claim[w]]
  <2>1. RestOK'
    BY <1>4 DEF ClaimConversation, RestOK, events
  <2>2. w \in Conversations
    BY <1>4, NoneIsNobody
       DEF ClaimConversation, Handy, At, Minted, InHand, Inv, InfoOK, RegistryTypeOK
  <2>3. CASE claim[w] = None
    <3>1. RegistryTypeOK' /\ Quiet
      BY <1>4, <2>3, ClaimTyped DEF ClaimConversation
    <3>2. "save" \in Labels
      BY DEF Labels
    <3> QED
      BY <1>4, <2>1, <2>3, <3>1, <3>2, GotoStep DEF ClaimConversation
  <2>4. CASE claim[w] # None
    <3>1. RegistryTypeOK' /\ Quiet
      BY <1>4, <2>4, NoCommand DEF ClaimConversation
    <3>2. claim[w] \in Calls
      BY <2>2, <2>4 DEF RegistryTypeOK
    <3>3. l \in Local /\ l.pc = "holder" /\ l.mine = 0 /\ l.call = loc[c].call /\ l.other = claim[w]
      BY ZenonT(60), <3>2 DEF Local, Labels
    <3>4. Handy(l)
      BY <3>2, <3>3 DEF Handy, InHand
    <3> QED
      BY <1>4, <2>1, <2>4, <3>1, <3>3, <3>4, QuietStep DEF ClaimConversation
  <2> QED
    BY <2>3, <2>4
<1>5. CASE CheckHolder(c)
  <2>1. RegistryTypeOK' /\ Quiet
    BY <1>5, NoCommand DEF CheckHolder
  <2>2. loc[c].other \in Calls
    BY <1>5 DEF CheckHolder, Handy, At
  <2>3. RestOK'
    BY <1>5, <2>2 DEF CheckHolder, RestOK
  <2>4. "steal" \in Labels
    BY DEF Labels
  <2> QED
    BY <1>5, <2>1, <2>3, <2>4, FinishStep, GotoStep DEF CheckHolder
<1>6. CASE StealClaim(c)
  <2>1. RegistryTypeOK' /\ Quiet
    BY <1>6, ClaimTyped DEF StealClaim
  <2>2. RestOK'
    BY <1>6 DEF StealClaim, RestOK, events
  <2>3. "save" \in Labels
    BY DEF Labels
  <2> QED
    BY <1>6, <2>1, <2>2, <2>3, GotoStep DEF StealClaim
<1>7. CASE SaveRinging(c)
  <2> DEFINE l == [loc[c] EXCEPT !.pc = "index", !.owners = Participants(InHand(c))]
  <2>1. RestOK'
    BY <1>7 DEF SaveRinging, RestOK, events
  <2>2. "index" \in Labels /\ "ringing" \in Status
    BY DEF Labels, Status
  <2>3. l \in Local /\ l.pc = "index" /\ l.mine = 0 /\ l.call = loc[c].call
    BY <2>2, ParticipantsTyped DEF Local
  <2>4. Handy(l)
    BY <2>3 DEF Handy, InHand
  <2> QED
    BY <1>7, <2>1, <2>2, <2>3, <2>4, SaveStep DEF SaveRinging
<1>8. CASE UndoClaim(c)
  <2>1. RegistryTypeOK' /\ Quiet
    BY <1>8, ClaimTyped DEF UndoClaim
  <2>2. RestOK'
    BY <1>8 DEF UndoClaim, RestOK, events
  <2> QED
    BY <1>8, <2>1, <2>2, FinishStep DEF UndoClaim
<1>9. CASE IndexOwner(c)
  <2> DEFINE o == First(loc[c].owners)
             k == IF loc[c].owners = {o} THEN "hjoin" ELSE "index"
             l == [loc[c] EXCEPT !.pc = k, !.owners = @ \ {o}]
  <2>1. RegistryTypeOK' /\ Quiet
    BY <1>9, IndexTyped DEF IndexOwner
  <2>2. RestOK'
    BY <1>9 DEF IndexOwner, RestOK, events
  <2>3. k \in Labels /\ k \in {"hjoin", "index"}
    BY DEF Labels
  <2>4. Become(c, l)
    BY <1>9 DEF IndexOwner
  <2> HIDE DEF k, o
  <2>5. l \in Local /\ l.pc = k /\ l.mine = 0 /\ l.call = loc[c].call
    BY <2>3 DEF Local
  <2>6. Handy(l)
    BY <2>3, <2>5 DEF Handy, InHand
  <2> QED
    BY <2>1, <2>2, <2>4, <2>5, <2>6, QuietStep
<1>10. CASE Ring(c)
  <2>1. RegistryTypeOK' /\ Quiet
    BY <1>10, NoCommand DEF Ring
  <2>2. heard' \in [Conns -> SUBSET Calls]
    BY <1>10 DEF Ring, RestOK
  <2>3. tracked' \in [Conns -> SUBSET Calls] /\ rang' \in SUBSET Calls
    BY <1>10 DEF Ring, RestOK
  <2>4. RestOK'
    BY <1>10, <2>2, <2>3 DEF Ring, RestOK
  <2>5. "arm" \in Labels
    BY DEF Labels
  <2> QED
    BY <1>10, <2>1, <2>4, <2>5, GotoStep DEF Ring
<1>11. CASE ArmRingTimeout(c)
  <2>1. RegistryTypeOK' /\ Quiet
    BY <1>11, NoCommand DEF ArmRingTimeout
  <2>2. RestOK'
    BY <1>11 DEF ArmRingTimeout, RestOK, events
  <2> QED
    BY <1>11, <2>1, <2>2, FinishStep DEF ArmRingTimeout
<1> QED
  BY <1>4, <1>5, <1>6, <1>7, <1>8, <1>9, <1>10, <1>11 DEF Inviting

-----------------------------------------------------------------------------
(* Joining. *)

LEMMA JoinStep == ASSUME Inv, NEW c \in Conns, NEW d \in Calls, Join(c, d) PROVE Inv'
<1> DEFINE k == IF OwnerOf[c] = Caller(d) THEN "hjoin" ELSE "room"
           l == [Blank EXCEPT !.pc = k, !.op = "join", !.call = d, !.seen = rec[d]]
<1>1. c \in Procs
  BY DEF Procs
<1>2. RegistryTypeOK' /\ Quiet
  BY <1>1, InHandOK, NoCommand DEF Join
<1>3. RestOK'
  BY <1>1, InHandOK DEF Join, Receive, RestOK, events, Bounds
<1>4. k \in Labels /\ k \in {"hjoin", "room"}
  BY DEF Labels
<1>5. rec[d] \in Status
  BY <1>1, InHandOK DEF RegistryTypeOK
<1>6. Become(c, l)
  BY DEF Join
<1> HIDE DEF k
<1>7. l \in Local
  BY <1>4, <1>5, BlankIsLocal DEF Local
<1>8. l.pc = k /\ l.call = d /\ l.mine = 0
  BY DEF Blank
<1>9. Handy(l)
  BY <1>4, <1>8 DEF Handy
<1> QED
  BY <1>1, <1>2, <1>3, <1>6, <1>7, <1>8, <1>9, QuietStep DEF Join, events

LEMMA HJoinStep == ASSUME Inv, NEW c \in Conns, HJoin(c) PROVE Inv'
<1>1. c \in Procs /\ OwnerOf[c] \in Owners
  BY ConnsAreServed DEF Procs
<1>2. /\ loc[c] \in Local /\ Handy(loc[c]) /\ RegistryTypeOK /\ RestOK
      /\ InHand(c) \in Calls /\ loc[c].mine = 0 /\ loc[c].pc \notin Unheld \cup Telling
  BY <1>1, InHandOK DEF HJoin, At, Unheld, Telling
<1>3. RestOK'
  BY <1>2 DEF HJoin, RestOK, events
<1>4. CASE JoinWins(InHand(c), c)
  <2> DEFINE d == InHand(c)
  <2>1. RegistryTypeOK' /\ Quiet
    BY <1>2, <1>4, SetMemberTyped DEF HJoin
  <2>2. /\ loc' = [p \in Procs |->
                IF p = c THEN [loc[c] EXCEPT !.pc = "sadd"]
                ELSE IF p \in Instances /\ loc[p].pc # "idle"
                THEN [loc[p] EXCEPT !.fresh = @ \cup {<<d, c>>}]
                ELSE loc[p]]
        /\ UNCHANGED <<info, told>>
    BY <1>4 DEF HJoin, events
  <2>3. "sadd" \in Labels
    BY DEF Labels
  <2>4. ASSUME NEW p \in Procs
        PROVE  /\ loc'[p] \in Local /\ Handy(loc'[p])
               /\ loc'[p].mine = loc[p].mine /\ loc'[p].call = loc[p].call
    <3>1. loc[p] \in Local /\ Handy(loc[p])
      BY InHandOK
    <3>2. CASE p = c
      <4>1. loc'[p] = [loc[c] EXCEPT !.pc = "sadd"]
        BY <2>2, <3>2
      <4> QED
        BY <4>1, <3>2, <1>2, <2>3, GotoTyped DEF Handy, InHand
    <3>3. CASE p # c /\ p \in Instances /\ loc[p].pc # "idle"
      <4>1. loc'[p] = [loc[p] EXCEPT !.fresh = @ \cup {<<d, c>>}]
        BY <2>2, <3>3
      <4>2. loc'[p] \in Local /\ loc'[p].pc = loc[p].pc /\ loc'[p].mine = loc[p].mine
            /\ loc'[p].call = loc[p].call /\ loc'[p].other = loc[p].other
        BY <4>1, <3>1, <1>2 DEF Local
      <4> QED
        BY <4>2, <3>1 DEF Handy
    <3>4. CASE p # c /\ ~(p \in Instances /\ loc[p].pc # "idle")
      BY <2>2, <3>1, <3>4
    <3> QED
      BY <3>2, <3>3, <3>4
  <2>5. loc' \in [Procs -> Local]
    BY <2>2, <2>4
  <2>6. TypeOK'
    BY <1>3, <2>1, <2>5 DEF TypeOK, RestOK
  <2>7. InfoOK' /\ HandOK'
    BY <2>2, <2>4 DEF Inv, InfoOK, HandOK, Handy, Minted
  <2> QED
    BY <2>1, <2>2, <2>4, <2>6, <2>7, QuietMove
<1>5. CASE ~JoinWins(InHand(c), c)
  <2>1. RegistryTypeOK' /\ Quiet
    BY <1>2, <1>5, NoCommand DEF HJoin
  <2>2. "ring" \in Labels
    BY DEF Labels
  <2> QED
    BY <1>1, <1>2, <1>3, <1>5, <2>1, <2>2, GotoStep, FinishStep DEF HJoin, events
<1> QED
  BY <1>4, <1>5

LEMMA CancelTimerTyped ==
    ASSUME RestOK, NEW p, NEW d, CancelTimer(p, d) PROVE armed' \in SUBSET Calls
BY DEF CancelTimer, RestOK

LEMMA JoiningStep == ASSUME Inv, NEW c \in Conns, Joining(c) PROVE Inv'
<1>1. c \in Procs /\ OwnerOf[c] \in Owners
  BY ConnsAreServed DEF Procs
<1>2. CASE HJoin(c)
  BY <1>2, HJoinStep
<1>3. ASSUME ~HJoin(c) PROVE Inv'
  <2>1. /\ loc[c] \in Local /\ Handy(loc[c]) /\ RegistryTypeOK /\ RestOK
    BY <1>1, InHandOK
  <2>2. UNCHANGED <<info, alive, told>>
    BY <1>3 DEF Joining, CheckRoom, SAddJoined, Activate, ExtendClaim, PublishStarted, events
  <2>3. loc[c].pc \notin Unheld \cup Telling
    BY <1>3 DEF Joining, CheckRoom, SAddJoined, Activate, ExtendClaim, PublishStarted,
       At, Unheld, Telling
  <2>4. InHand(c) \in Calls /\ loc[c].mine = 0
    BY <1>1, <2>3, InHandOK
  <2> USE <1>1, <2>1, <2>2, <2>3, <2>4
  <2>5. CASE CheckRoom(c)
    <3>1. RegistryTypeOK' /\ Quiet
      BY <2>5, NoCommand DEF CheckRoom
    <3>2. RestOK'
      BY <2>5 DEF CheckRoom, RestOK, events
    <3>3. "hjoin" \in Labels
      BY DEF Labels
    <3> QED
      BY <2>5, <3>1, <3>2, <3>3, GotoStep, FinishStep DEF CheckRoom
  <2>6. CASE SAddJoined(c)
    <3>1. RegistryTypeOK' /\ Quiet
      BY <2>6, RecordJoinTyped DEF SAddJoined
    <3>2. tracked' \in [Conns -> SUBSET Calls] /\ armed' \in SUBSET Calls
      BY <2>6, CancelTimerTyped DEF SAddJoined, RestOK
    <3>3. RestOK'
      BY <2>6, <3>2 DEF SAddJoined, RestOK, events
    <3>4. {"ring", "activate"} \subseteq Labels
      BY DEF Labels
    <3> QED
      BY <2>6, <3>1, <3>3, <3>4, GotoStep, FinishStep DEF SAddJoined
  <2>7. CASE Activate(c)
    <3> DEFINE l == [loc[c] EXCEPT !.pc = "reclaim"]
    <3>1. "reclaim" \in Labels /\ "active" \in Status
      BY DEF Labels, Status
    <3>2. l \in Local /\ l.pc = "reclaim" /\ l.call = loc[c].call /\ l.mine = 0
      BY <3>1, GotoTyped
    <3>3. Handy(l)
      BY <3>2 DEF Handy, InHand
    <3>4. RestOK'
      BY <2>7 DEF Activate, RestOK, events
    <3> QED
      BY <2>7, <3>1, <3>2, <3>3, <3>4, SaveStep DEF Activate, Goto
  <2>8. CASE ExtendClaim(c)
    <3>1. RegistryTypeOK' /\ Quiet
      BY <2>8, ClaimTyped DEF ExtendClaim
    <3>2. armed' \in SUBSET Calls
      BY <2>8, CancelTimerTyped DEF ExtendClaim
    <3>3. RestOK'
      BY <2>8, <3>2 DEF ExtendClaim, RestOK, events
    <3>4. "started" \in Labels
      BY DEF Labels
    <3> QED
      BY <2>8, <3>1, <3>3, <3>4, GotoStep DEF ExtendClaim
  <2>9. CASE PublishStarted(c)
    <3>1. RegistryTypeOK' /\ Quiet
      BY <2>9, NoCommand DEF PublishStarted
    <3>2. RestOK'
      BY <2>9 DEF PublishStarted, RestOK
    <3> QED
      BY <2>9, <3>1, <3>2, FinishStep DEF PublishStarted
  <2> QED
    BY <1>3, <2>5, <2>6, <2>7, <2>8, <2>9 DEF Joining
<1> QED
  BY <1>2, <1>3

-----------------------------------------------------------------------------
(* Hanging up and closing. *)

LEMMA HangupStep == ASSUME Inv, NEW c \in Conns, NEW d \in Calls, Hangup(c, d) PROVE Inv'
<1> DEFINE k == IF IsGroup(d) THEN "leave" ELSE "end"
           y == IF rec[d] = "ringing" /\ OwnerOf[c] # Caller(d) THEN "declined" ELSE "hangup"
           l == [Blank EXCEPT !.pc = k, !.call = d, !.seen = rec[d], !.why = y]
<1>1. c \in Procs
  BY DEF Procs
<1>2. RegistryTypeOK' /\ Quiet
  BY <1>1, InHandOK, NoCommand DEF Hangup
<1>3. RestOK'
  BY <1>1, InHandOK DEF Hangup, Receive, RestOK, events, Bounds
<1>4. k \in Labels /\ k \in {"leave", "end"} /\ y \in Reasons
  BY DEF Labels, Reasons
<1>5. rec[d] \in Status
  BY <1>1, InHandOK DEF RegistryTypeOK
<1>6. Become(c, l)
  BY DEF Hangup
<1> HIDE DEF k, y
<1>7. l \in Local
  BY <1>4, <1>5, BlankIsLocal DEF Local
<1>8. l.pc = k /\ l.call = d /\ l.mine = 0
  BY DEF Blank
<1>9. Handy(l)
  BY <1>4, <1>8 DEF Handy
<1> QED
  BY <1>1, <1>2, <1>3, <1>6, <1>7, <1>8, <1>9, QuietStep DEF Hangup, events

LEMMA CloseStep == ASSUME Inv, NEW c \in Conns, Close(c) PROVE Inv'
<1> DEFINE l == [Blank EXCEPT !.pc = "release", !.calls = tracked[c]]
<1>1. c \in Procs
  BY DEF Procs
<1>2. RegistryTypeOK' /\ Quiet
  BY <1>1, InHandOK, NoCommand DEF Close
<1>3. RestOK'
  BY <1>1, InHandOK DEF Close, RestOK, events, Bounds
<1>4. "release" \in Labels /\ tracked[c] \in SUBSET Calls
  BY <1>1, InHandOK DEF Labels, RestOK
<1>5. l \in Local /\ l.pc = "release" /\ l.mine = 0
  BY <1>4, BlankIsLocal DEF Local
<1>6. Handy(l)
  BY <1>5 DEF Handy, Unheld
<1> QED
  BY <1>1, <1>2, <1>3, <1>5, <1>6, QuietStep DEF Close, events

LEMMA LeavingStep == ASSUME Inv, NEW c \in Conns, Leaving(c) PROVE Inv'
<1>1. c \in Procs /\ OwnerOf[c] \in Owners
  BY ConnsAreServed DEF Procs
<1>2. /\ loc[c] \in Local /\ Handy(loc[c]) /\ RegistryTypeOK /\ RestOK
  BY <1>1, InHandOK
<1>3. UNCHANGED <<info, alive, told>>
  BY DEF Leaving, Leave, DismissLeaver, CountMembers, ReleaseNext, LeaveIfHeldBy, Closed, events
<1>4. loc[c].pc \notin Telling /\ loc[c].mine = 0
  <2>1. loc[c].pc \notin Telling
    BY DEF Leaving, Leave, DismissLeaver, CountMembers, ReleaseNext, LeaveIfHeldBy, Closed,
       At, Telling
  <2> QED
    BY <2>1, <1>2 DEF Handy
<1> USE <1>1, <1>2, <1>3, <1>4
<1>5. CASE Leave(c)
  <2>1. At(c, "leave") /\ InHand(c) \in Calls
    BY <1>5, InHandOK DEF Leave, At, Unheld
  <2>2. RegistryTypeOK' /\ Quiet
    BY <1>5, <2>1, SetMemberTyped DEF Leave
  <2>3. RestOK'
    BY <1>5 DEF Leave, RestOK, events
  <2>4. "dismiss" \in Labels
    BY DEF Labels
  <2> QED
    BY <1>5, <2>1, <2>2, <2>3, <2>4, GotoStep DEF Leave, At, Unheld
<1>6. CASE DismissLeaver(c)
  <2>1. At(c, "dismiss") /\ InHand(c) \in Calls
    BY <1>6, InHandOK DEF DismissLeaver, At, Unheld
  <2>2. RegistryTypeOK' /\ Quiet
    BY <1>6, <2>1, DismissTyped DEF DismissLeaver
  <2>3. RestOK'
    BY <1>6 DEF DismissLeaver, RestOK, events
  <2>4. "count" \in Labels
    BY DEF Labels
  <2> QED
    BY <1>6, <2>1, <2>2, <2>3, <2>4, GotoStep DEF DismissLeaver, At, Unheld
<1>7. CASE CountMembers(c)
  <2> DEFINE l == [loc[c] EXCEPT !.pc = "end", !.why = "empty"]
  <2>1. At(c, "count") /\ InHand(c) \in Calls
    BY <1>7, InHandOK DEF CountMembers, At, Unheld
  <2>2. RegistryTypeOK' /\ Quiet
    BY <1>7, NoCommand DEF CountMembers
  <2>3. RestOK'
    BY <1>7 DEF CountMembers, RestOK, events
  <2>4. "end" \in Labels /\ "empty" \in Reasons
    BY DEF Labels, Reasons
  <2>5. l \in Local /\ l.pc = "end" /\ l.call = loc[c].call /\ l.mine = 0
    BY <2>4 DEF Local
  <2>6. Handy(l)
    BY <2>1, <2>5 DEF Handy, InHand
  <2>7. Goto(c, "end") \/ Become(c, l) \/ Finish(c)
    BY <1>7 DEF CountMembers
  <2>8. CASE Goto(c, "end")
    BY <2>1, <2>2, <2>3, <2>4, <2>8, GotoStep DEF At, Unheld
  <2>9. CASE Become(c, l)
    BY <2>2, <2>3, <2>5, <2>6, <2>9, QuietStep
  <2>10. CASE Finish(c)
    BY <2>2, <2>3, <2>10, FinishStep
  <2> QED
    BY <2>7, <2>8, <2>9, <2>10
<1>8. CASE ReleaseNext(c)
  <2>1. PICK d \in loc[c].calls :
           Become(c, [loc[c] EXCEPT !.pc = IF Live(d) THEN "relleave" ELSE "release",
                                    !.call = d, !.seen = rec[d], !.calls = @ \ {d}])
    BY <1>8 DEF ReleaseNext
  <2> DEFINE k == IF Live(d) THEN "relleave" ELSE "release"
             l == [loc[c] EXCEPT !.pc = k, !.call = d, !.seen = rec[d], !.calls = @ \ {d}]
  <2>2. d \in Calls /\ rec[d] \in Status
    BY DEF Local, RegistryTypeOK
  <2>3. k \in Labels /\ k \in {"relleave", "release"}
    BY DEF Labels
  <2>4. RegistryTypeOK' /\ Quiet
    BY <1>8, NoCommand DEF ReleaseNext
  <2>5. RestOK'
    BY <1>8 DEF ReleaseNext, RestOK, events
  <2> HIDE DEF k
  <2>6. l \in Local /\ l.pc = k /\ l.mine = 0 /\ l.call = d
    BY <2>2, <2>3 DEF Local
  <2>7. Handy(l)
    BY <2>2, <2>3, <2>6 DEF Handy
  <2> QED
    BY <2>1, <2>4, <2>5, <2>6, <2>7, QuietStep DEF k
<1>9. CASE LeaveIfHeldBy(c)
  <2>1. At(c, "relleave") /\ InHand(c) \in Calls
    BY <1>9, InHandOK DEF LeaveIfHeldBy, At, Unheld
  <2>2. RestOK'
    BY <1>9 DEF LeaveIfHeldBy, RestOK, events
  <2>3. {"count", "end"} \subseteq Labels
    BY DEF Labels
  <2>4. CASE HeldBy(InHand(c), c)
    <3>1. RegistryTypeOK' /\ Quiet
      BY <1>9, <2>1, <2>4, SetMemberTyped DEF LeaveIfHeldBy
    <3> QED
      BY <1>9, <2>1, <2>2, <2>3, <2>4, <3>1, GotoStep DEF LeaveIfHeldBy, At, Unheld
  <2>5. CASE ~HeldBy(InHand(c), c)
    <3>1. RegistryTypeOK' /\ Quiet
      BY <1>9, <2>5, NoCommand DEF LeaveIfHeldBy
    <3> QED
      BY <1>9, <2>2, <2>5, <3>1, FinishStep DEF LeaveIfHeldBy
  <2> QED
    BY <2>4, <2>5
<1>10. CASE Closed(c)
  <2>1. RegistryTypeOK' /\ Quiet
    BY <1>10, NoCommand DEF Closed
  <2>2. RestOK'
    BY <1>10 DEF Closed, RestOK, events
  <2> QED
    BY <1>10, <2>1, <2>2, BlankIsLocal, QuietStep DEF Closed
<1> QED
  BY <1>5, <1>6, <1>7, <1>8, <1>9, <1>10 DEF Leaving

-----------------------------------------------------------------------------
(* Ending a call. *)

LEMMA ClaimEndingStep == ASSUME Inv, NEW p \in Procs, ClaimEnding(p) PROVE Inv'
<1>1. PICK d \in Calls : d = InHand(p)
  BY InHandOK DEF ClaimEnding, At, Unheld
<1> DEFINE m == IF Live(d) THEN life[d] ELSE 0
           l == [loc[p] EXCEPT !.pc = "cleanup", !.mine = m]
<1>0. /\ loc[p] \in Local /\ RegistryTypeOK /\ RestOK
      /\ UNCHANGED <<info, told, alive>>
  BY InHandOK DEF ClaimEnding, events
<1>2. RegistryTypeOK' /\ Quiet /\ ~Live(d)'
  BY <1>0, <1>1, ConsumeTyped DEF ClaimEnding
<1>3. m \in Nat /\ "cleanup" \in Labels
  BY <1>0, <1>1 DEF RegistryTypeOK, Labels
<1>4. l \in Local /\ l.pc = "cleanup" /\ l.call = d /\ l.mine = m
  <2> HIDE DEF m
  <2> QED
    BY <1>0, <1>1, <1>3 DEF Local, InHand
<1>5. loc' \in [Procs -> Local] /\ loc'[p] = l /\ \A q \in Procs \ {p} : loc'[q] = loc[q]
  <2>1. Become(p, l)
    BY <1>1 DEF ClaimEnding
  <2> HIDE DEF l
  <2> QED
    BY <1>4, <2>1 DEF Inv, TypeOK, Become
<1> HIDE DEF l
<1>6. TypeOK' /\ InfoOK' /\ HandOK'
  <2>1. RestOK'
    BY <1>0, <1>1 DEF ClaimEnding, RestOK, events
  <2>2. TypeOK'
    BY <1>2, <1>5, <2>1 DEF TypeOK, RestOK
  <2>3. Handy(l)
    BY <1>0, <1>1, <1>4 DEF Handy, Telling
  <2>4. HandOK'
    BY <1>0, <1>1, <1>5, <2>3 DEF Inv, HandOK, Handy, Minted
  <2> QED
    BY <1>0, <1>1, <2>2, <2>4 DEF Inv, InfoOK
<1>7. \A q \in Procs \ {p} : (Ending(q)' <=> Ending(q)) /\ EndingOf(q)' = EndingOf(q)
  BY <1>5 DEF Ending, EndingOf
<1>8. Ending(p)' => Live(d) /\ EndingOf(p)' = <<d, life[d]>>
  BY <1>4, <1>5 DEF Ending, EndingOf
<1>9. EndingsArePast'
  <2>1. \A x \in told' : x[2] <= life'[x[1]]
    BY <1>0, <1>1, <1>2 DEF Inv, EndingsArePast, Quiet
  <2>2. ASSUME NEW q \in Procs, Ending(q)' PROVE loc'[q].mine <= life'[loc'[q].call]
    <3>1. CASE q = p
      BY <1>0, <1>1, <1>2, <1>4, <1>5, <3>1, <2>2 DEF Ending, Quiet, RegistryTypeOK
    <3>2. CASE q # p
      BY <1>2, <1>5, <2>2, <3>2 DEF Inv, EndingsArePast, Ending, Quiet
    <3> QED
      BY <3>1, <3>2
  <2> QED
    BY <2>1, <2>2 DEF EndingsArePast
<1>10. OneAnnouncerPerLife'
  <2>1. ASSUME NEW q \in Procs, Ending(q)' PROVE (EndingOf(q) \notin told)'
    BY <1>0, <1>1, <1>7, <1>8, <2>1 DEF Inv, OneAnnouncerPerLife
  <2>2. ASSUME NEW q \in Procs, NEW r \in Procs, Ending(q)', Ending(r)', q # r
        PROVE  EndingOf(q)' # EndingOf(r)'
    <3>1. CASE q = p
      BY <1>0, <1>1, <1>7, <1>8, <2>2, <3>1 DEF Inv, OneAnnouncerPerLife
    <3>2. CASE r = p
      BY <1>0, <1>1, <1>7, <1>8, <2>2, <3>2 DEF Inv, OneAnnouncerPerLife
    <3>3. CASE q # p /\ r # p
      BY <1>7, <2>2, <3>3 DEF Inv, OneAnnouncerPerLife
    <3> QED
      BY <3>1, <3>2, <3>3
  <2>3. ASSUME NEW e \in Calls, Live(e)'
        PROVE  /\ <<e, life'[e]>> \notin told'
               /\ \A q \in Procs : Ending(q)' => EndingOf(q)' # <<e, life'[e]>>
    <3>1. e # d /\ Live(e) /\ life' = life
      BY <1>2, <2>3 DEF Quiet
    <3> QED
      BY <1>0, <1>1, <1>7, <1>8, <3>1 DEF Inv, OneAnnouncerPerLife
  <2> QED
    BY <2>1, <2>2, <2>3 DEF OneAnnouncerPerLife
<1> QED
  BY <1>6, <1>9, <1>10 DEF Inv

LEMMA AnnounceEndingStep == ASSUME Inv, NEW p \in Procs, AnnounceEnding(p) PROVE Inv'
<1> DEFINE d == InHand(p)
<1>1. /\ loc[p] \in Local /\ Handy(loc[p]) /\ RegistryTypeOK /\ RestOK
      /\ d \in Calls /\ Ending(p) /\ EndingOf(p) = <<d, loc[p].mine>>
      /\ UNCHANGED <<info, registry, alive>> /\ Finish(p)
  BY InHandOK DEF AnnounceEnding, At, Unheld, Handy, Ending, EndingOf, InHand
<1>2. RegistryTypeOK' /\ Quiet
  BY <1>1, NoCommand
<1>3. told' = told \cup {EndingOf(p)}
  BY <1>1 DEF AnnounceEnding
<1>4. loc' \in [Procs -> Local] /\ loc'[p] = Home(p) /\ \A q \in Procs \ {p} : loc'[q] = loc[q]
  BY <1>1, HomeTyped DEF Inv, TypeOK, Become, Finish
<1>5. TypeOK' /\ InfoOK' /\ HandOK'
  <2>1. missed' \in [Calls -> SUBSET Owners]
    BY <1>1, ParticipantsTyped DEF AnnounceEnding, RestOK, NeverJoined
  <2>2. told' \in SUBSET (Calls \X Nat)
    BY <1>1, <1>3 DEF RestOK, Local
  <2>3. RestOK'
    BY <1>1, <2>1, <2>2 DEF AnnounceEnding, RestOK
  <2>4. TypeOK'
    BY <1>2, <1>4, <2>3 DEF TypeOK, RestOK
  <2>5. HandOK'
    BY <1>1, <1>4, HomeTyped DEF Inv, HandOK, Handy, Minted
  <2> QED
    BY <1>1, <2>4, <2>5 DEF Inv, InfoOK
<1>6. \A q \in Procs : Ending(q)' => q # p /\ Ending(q) /\ EndingOf(q)' = EndingOf(q)
  BY <1>4, HomeTyped DEF Ending, EndingOf
<1>7. EndingsArePast'
  <2>1. \A x \in told' : x[2] <= life'[x[1]]
    BY <1>1, <1>2, <1>3 DEF Inv, EndingsArePast, Quiet, InHand
  <2>2. ASSUME NEW q \in Procs, Ending(q)' PROVE loc'[q].mine <= life'[loc'[q].call]
    BY <1>2, <1>4, <1>6, <2>2 DEF Inv, EndingsArePast, Quiet
  <2> QED
    BY <2>1, <2>2 DEF EndingsArePast
<1>8. OneAnnouncerPerLife'
  <2>1. ASSUME NEW q \in Procs, Ending(q)' PROVE (EndingOf(q) \notin told)'
    BY <1>1, <1>3, <1>6, <2>1 DEF Inv, OneAnnouncerPerLife
  <2>2. ASSUME NEW q \in Procs, NEW r \in Procs, Ending(q)', Ending(r)', q # r
        PROVE  EndingOf(q)' # EndingOf(r)'
    BY <1>6, <2>2 DEF Inv, OneAnnouncerPerLife
  <2>3. ASSUME NEW e \in Calls, Live(e)'
        PROVE  /\ <<e, life'[e]>> \notin told'
               /\ \A q \in Procs : Ending(q)' => EndingOf(q)' # <<e, life'[e]>>
    <3>1. Live(e) /\ life' = life
      BY <1>2, <2>3 DEF Quiet
    <3> QED
      BY <1>1, <1>3, <1>6, <3>1 DEF Inv, OneAnnouncerPerLife
  <2> QED
    BY <2>1, <2>2, <2>3 DEF OneAnnouncerPerLife
<1> QED
  BY <1>5, <1>7, <1>8 DEF Inv

LEMMA EndCallStep == ASSUME Inv, NEW p \in Procs, EndCall(p) PROVE Inv'
<1>1. /\ loc[p] \in Local /\ Handy(loc[p]) /\ RegistryTypeOK /\ RestOK
      /\ InHand(p) \in Calls
  BY InHandOK DEF EndCall, EndCancelTimer, ClaimEnding, DeleteKeys, Unindex, AnnounceEnding,
     At, Unheld
<1>2. CASE EndCancelTimer(p)
  <2>1. RegistryTypeOK' /\ Quiet
    BY <1>1, <1>2, NoCommand DEF EndCancelTimer
  <2>2. armed' \in SUBSET Calls
    BY <1>1, <1>2, CancelTimerTyped DEF EndCancelTimer
  <2>3. RestOK'
    BY <1>1, <1>2, <2>2 DEF EndCancelTimer, RestOK, events
  <2>4. "consume" \in Labels
    BY DEF Labels
  <2> QED
    BY <1>2, <2>1, <2>3, <2>4, GotoStep DEF EndCancelTimer, At, Unheld, Telling, events
<1>3. CASE DeleteKeys(p)
  <2> DEFINE l == [loc[p] EXCEPT !.pc = "unindex", !.owners = Participants(InHand(p))]
  <2>1. RegistryTypeOK' /\ Quiet
    BY <1>1, <1>3, CleanUpTyped DEF DeleteKeys
  <2>2. RestOK'
    BY <1>1, <1>3 DEF DeleteKeys, RestOK, events
  <2>3. "unindex" \in Labels
    BY DEF Labels
  <2>4. l \in Local /\ l.pc = "unindex" /\ l.call = loc[p].call /\ l.mine = loc[p].mine
    BY <1>1, <2>3, ParticipantsTyped DEF Local
  <2>5. Handy(l)
    BY <1>1, <2>4 DEF Handy, InHand, Telling
  <2> QED
    BY <1>3, <2>1, <2>2, <2>4, <2>5, QuietStep DEF DeleteKeys, events
<1>4. CASE Unindex(p)
  <2> DEFINE o == First(loc[p].owners)
             l1 == [loc[p] EXCEPT !.owners = @ \ {o}]
             l2 == [loc[p] EXCEPT !.pc = "announce", !.owners = {}]
  <2>1. RegistryTypeOK' /\ Quiet
    BY <1>1, <1>4, IndexTyped DEF Unindex
  <2>2. RestOK' /\ UNCHANGED <<info, told>>
    BY <1>1, <1>4 DEF Unindex, RestOK, events
  <2>3. \/ Become(p, l1)
        \/ Finish(p)
        \/ loc[p].mine # 0 /\ Become(p, l2)
    BY <1>4 DEF Unindex
  <2> HIDE DEF o
  <2>4. CASE Become(p, l1)
    <3>1. l1 \in Local /\ l1.pc = loc[p].pc /\ l1.call = loc[p].call
          /\ l1.mine = loc[p].mine /\ l1.other = loc[p].other
      BY <1>1 DEF Local
    <3>2. Handy(l1)
      BY <1>1, <3>1 DEF Handy
    <3> QED
      BY <2>1, <2>2, <2>4, <3>1, <3>2, QuietStep
  <2>5. CASE Finish(p)
    BY <2>1, <2>2, <2>5, FinishStep
  <2>6. CASE loc[p].mine # 0 /\ Become(p, l2)
    <3>1. "announce" \in Labels
      BY DEF Labels
    <3>2. l2 \in Local /\ l2.pc = "announce" /\ l2.call = loc[p].call /\ l2.mine = loc[p].mine
      BY <1>1, <3>1 DEF Local
    <3>3. Handy(l2)
      BY <1>1, <2>6, <3>2 DEF Handy, InHand, Telling
    <3> QED
      BY <2>1, <2>2, <2>6, <3>2, <3>3, QuietStep
  <2> QED
    BY <2>3, <2>4, <2>5, <2>6
<1> QED
  BY <1>2, <1>3, <1>4, ClaimEndingStep, AnnounceEndingStep DEF EndCall

-----------------------------------------------------------------------------
(* Timers and sweeps. *)

LEMMA TimerStep ==
    ASSUME Inv, NEW d \in Calls, RingTimeout(d) \/ RingTimeoutFired(d) PROVE Inv'
<1>1. d \in Procs
  BY DEF Procs
<1>2. loc[d] \in Local /\ Handy(loc[d]) /\ RegistryTypeOK /\ RestOK
  BY <1>1, InHandOK
<1>3. RegistryTypeOK' /\ Quiet /\ UNCHANGED <<info, told>>
  BY <1>2, NoCommand DEF RingTimeout, RingTimeoutFired, events
<1>4. RestOK'
  BY <1>2 DEF RingTimeout, RingTimeoutFired, RestOK, events
<1>5. CASE RingTimeout(d)
  <2> DEFINE l == [Blank EXCEPT !.pc = "tget", !.call = d]
  <2>1. "tget" \in Labels
    BY DEF Labels
  <2>2. l \in Local /\ l.pc = "tget" /\ l.call = d /\ l.mine = 0
    BY <2>1, BlankIsLocal DEF Local
  <2>3. Handy(l)
    BY <2>2 DEF Handy
  <2> QED
    BY <1>1, <1>3, <1>4, <1>5, <2>2, <2>3, QuietStep DEF RingTimeout
<1>6. CASE RingTimeoutFired(d)
  <2> DEFINE l == [loc[d] EXCEPT !.pc = "end", !.seen = "ringing", !.why = "missed"]
  <2>1. "end" \in Labels /\ "ringing" \in Status /\ "missed" \in Reasons
    BY DEF Labels, Status, Reasons
  <2>2. loc[d].mine = 0 /\ loc[d].call \in Calls
    BY <1>2, <1>6 DEF RingTimeoutFired, At, Handy, Unheld, Telling
  <2>3. l \in Local /\ l.pc = "end" /\ l.call = loc[d].call /\ l.mine = 0
    BY <1>2, <2>1, <2>2 DEF Local
  <2>4. Handy(l)
    BY <2>2, <2>3 DEF Handy
  <2>5. Become(d, l) \/ Become(d, Blank)
    BY <1>6 DEF RingTimeoutFired
  <2> QED
    BY <1>1, <1>3, <1>4, <2>3, <2>4, <2>5, BlankIsLocal, QuietStep
<1> QED
  BY <1>5, <1>6

LEMMA SweepingStep == ASSUME Inv, NEW i \in Instances, Sweeping(i) PROVE Inv'
<1>1. i \in Procs
  BY DEF Procs
<1>2. /\ loc[i] \in Local /\ Handy(loc[i]) /\ RegistryTypeOK /\ RestOK
      /\ loc[i].mine = 0
  BY <1>1, InHandOK DEF Sweeping, SweepHeartbeats, SweepScan, SweepGet, SweepMembers,
     SweepFound, ReapOrphan, SweepDone, At, Telling
<1>3. UNCHANGED <<info, registry, alive, up, sock, tracked, armed, events, spent>>
  BY DEF Sweeping, SweepHeartbeats, SweepScan, SweepGet, SweepMembers,
     SweepFound, ReapOrphan, SweepDone
<1>4. RegistryTypeOK' /\ Quiet /\ RestOK' /\ UNCHANGED <<info, told>>
  BY <1>2, <1>3, NoCommand DEF RestOK, events
<1> SUFFICES \E l \in Local : Become(i, l) /\ Handy(l) /\ l.mine = 0
  BY <1>1, <1>4, QuietStep
<1>5. CASE SweepHeartbeats(i)
  <2> DEFINE l == [Blank EXCEPT !.pc = "scan", !.live = alive]
  <2>1. "scan" \in Labels /\ alive \in SUBSET Instances
    BY <1>2 DEF Labels, RegistryTypeOK
  <2>2. l \in Local /\ l.pc = "scan" /\ l.mine = 0
    BY <2>1, BlankIsLocal DEF Local
  <2>3. Handy(l)
    BY <2>2 DEF Handy, Unheld
  <2> QED
    BY <1>5, <2>2, <2>3 DEF SweepHeartbeats
<1>6. CASE SweepScan(i)
  <2> DEFINE l == [loc[i] EXCEPT !.pc = "look", !.calls = {d \in Calls : Live(d)}]
  <2>1. "look" \in Labels
    BY DEF Labels
  <2>2. l \in Local /\ l.pc = "look" /\ l.mine = 0
    BY <1>2, <2>1 DEF Local
  <2>3. Handy(l)
    BY <2>2 DEF Handy, Unheld
  <2> QED
    BY <1>6, <2>2, <2>3 DEF SweepScan
<1>7. CASE SweepGet(i)
  <2>1. PICK d \in loc[i].calls :
           Become(i, [loc[i] EXCEPT !.pc = IF Live(d) THEN "members" ELSE "look",
                                    !.call = d, !.calls = @ \ {d}])
    BY <1>7 DEF SweepGet
  <2> DEFINE k == IF Live(d) THEN "members" ELSE "look"
             l == [loc[i] EXCEPT !.pc = k, !.call = d, !.calls = @ \ {d}]
  <2>2. d \in Calls /\ k \in Labels /\ k \in {"members", "look"}
    BY <1>2 DEF Labels, Local
  <2> HIDE DEF k
  <2>3. l \in Local /\ l.pc = k /\ l.mine = 0 /\ l.call = d
    BY <1>2, <2>2 DEF Local
  <2>4. Handy(l)
    BY <2>2, <2>3 DEF Handy
  <2> QED
    BY <2>1, <2>3, <2>4 DEF k
<1>8. CASE SweepMembers(i)
  <2> DEFINE f == IF Orphaned(InHand(i), loc[i].live)
                  THEN loc[i].found \cup {InHand(i)} ELSE loc[i].found
             l == [loc[i] EXCEPT !.pc = "look", !.found = f]
  <2>1. "look" \in Labels /\ f \in SUBSET Calls
    BY <1>1, <1>2, <1>8, InHandOK DEF Labels, Local, SweepMembers, At, Unheld
  <2>2. Become(i, l)
    BY <1>2, <1>8 DEF SweepMembers, Local
  <2> HIDE DEF f
  <2>3. l \in Local /\ l.pc = "look" /\ l.mine = 0
    BY <1>2, <2>1 DEF Local
  <2>4. Handy(l)
    BY <2>3 DEF Handy, Unheld
  <2> QED
    BY <2>2, <2>3, <2>4
<1>9. CASE SweepFound(i)
  <2> DEFINE l == [loc[i] EXCEPT !.pc = "reap", !.call = None,
                                 !.calls = loc[i].found, !.found = {}]
  <2>1. "reap" \in Labels
    BY DEF Labels
  <2>2. l \in Local /\ l.pc = "reap" /\ l.mine = 0
    BY <1>2, <2>1 DEF Local
  <2>3. Handy(l)
    BY <2>2 DEF Handy, Unheld
  <2> QED
    BY <1>9, <2>2, <2>3 DEF SweepFound
<1>10. CASE ReapOrphan(i)
  <2>1. PICK d \in loc[i].calls :
           Become(i, [loc[i] EXCEPT !.pc = "end", !.call = d, !.calls = @ \ {d}])
    BY <1>10 DEF ReapOrphan
  <2> DEFINE l == [loc[i] EXCEPT !.pc = "end", !.call = d, !.calls = @ \ {d}]
  <2>2. d \in Calls /\ "end" \in Labels
    BY <1>2 DEF Labels, Local
  <2>3. l \in Local /\ l.pc = "end" /\ l.mine = 0 /\ l.call = d
    BY <1>2, <2>2 DEF Local
  <2>4. Handy(l)
    BY <2>2, <2>3 DEF Handy
  <2> QED
    BY <2>1, <2>3, <2>4
<1>11. CASE SweepDone(i)
  BY <1>11, BlankIsLocal DEF SweepDone
<1> QED
  BY <1>5, <1>6, <1>7, <1>8, <1>9, <1>10, <1>11 DEF Sweeping

-----------------------------------------------------------------------------
(* Failures and time. *)

LEMMA AfterFaultTyped ==
    ASSUME Inv, NEW p \in Procs
    PROVE  /\ AfterFault(p) \in Local /\ Handy(AfterFault(p))
           /\ AfterFault(p).mine # 0 =>
                AfterFault(p).mine = loc[p].mine /\ AfterFault(p).call = loc[p].call
<1>1. loc[p] \in Local /\ Handy(loc[p])
  BY InHandOK
<1>2. CASE loc[p].pc \in {"save", "dismiss", "end"}
  <2> DEFINE k == IF At(p, "save") THEN "unclaim"
                  ELSE IF At(p, "dismiss") THEN "count" ELSE "consume"
             l == [loc[p] EXCEPT !.pc = k]
  <2>1. AfterFault(p) = l
    BY <1>2 DEF AfterFault, At
  <2>2. k \in Labels /\ k \in {"unclaim", "count", "consume"}
    BY DEF Labels
  <2> HIDE DEF k
  <2>3. l \in Local /\ l.pc = k /\ l.call = loc[p].call /\ l.mine = loc[p].mine
    BY <1>1, <2>2, GotoTyped
  <2>4. Handy(l)
    BY <1>1, <1>2, <2>2, <2>3 DEF Handy, Unheld, Telling
  <2> QED
    BY <2>1, <2>3, <2>4
<1>3. CASE loc[p].pc \in {"cleanup", "unindex"} /\ loc[p].mine # 0
  <2> DEFINE l == [loc[p] EXCEPT !.pc = "announce", !.owners = {}]
  <2>1. AfterFault(p) = l
    BY <1>3 DEF AfterFault, At
  <2>2. "announce" \in Labels
    BY DEF Labels
  <2>3. l \in Local /\ l.pc = "announce" /\ l.call = loc[p].call /\ l.mine = loc[p].mine
    BY <1>1, <2>2 DEF Local
  <2>4. Handy(l)
    BY <1>1, <1>3, <2>3 DEF Handy, Unheld, Telling
  <2> QED
    BY <2>1, <2>3, <2>4
<1>4. CASE /\ loc[p].pc \notin {"save", "dismiss", "end"}
           /\ ~(loc[p].pc \in {"cleanup", "unindex"} /\ loc[p].mine # 0)
  <2>1. AfterFault(p) = Home(p)
    BY <1>4 DEF AfterFault, At
  <2> QED
    BY <2>1, HomeTyped
<1> QED
  BY <1>2, <1>3, <1>4

LEMMA FaultStep == ASSUME Inv, NEW p \in Procs, Fault(p) PROVE Inv'
<1>1. RegistryTypeOK' /\ Quiet /\ UNCHANGED <<info, told>>
  BY InHandOK, NoCommand DEF Fault, events
<1>2. RestOK'
  BY InHandOK DEF Fault, RestOK, events, Bounds
<1> QED
  BY <1>1, <1>2, AfterFaultTyped, QuietStep DEF Fault

LEMMA CrashStep == ASSUME Inv, NEW i \in Instances, Crash(i) PROVE Inv'
<1>1. RegistryTypeOK /\ RestOK /\ loc \in [Procs -> Local]
  BY DEF Inv, TypeOK, RestOK
<1>2. RegistryTypeOK' /\ Quiet /\ UNCHANGED <<info, told>>
  BY <1>1, NoCommand DEF Crash, events
<1>3. RestOK'
  <2>1. up' \in SUBSET Instances /\ armed' \in SUBSET Calls /\ spent' \in Bounds
    BY <1>1 DEF Crash, RestOK, Bounds
  <2>2. sock' \in [Conns -> {"off", "open", "closing", "gone"}]
    BY <1>1 DEF Crash, RestOK
  <2>3. tracked' \in [Conns -> SUBSET Calls]
    BY <1>1 DEF Crash, RestOK
  <2> QED
    BY <1>1, <2>1, <2>2, <2>3 DEF Crash, RestOK, events
<1>4. \A q \in Procs : loc'[q] = Blank \/ loc'[q] = loc[q]
  BY DEF Crash
<1>5. loc' \in [Procs -> Local]
  BY <1>1, BlankIsLocal DEF Crash
<1>6. TypeOK'
  BY <1>2, <1>3, <1>5 DEF TypeOK, RestOK
<1>7. InfoOK' /\ HandOK'
  BY <1>2, <1>4, BlankIsLocal DEF Inv, InfoOK, HandOK, Handy, Minted
<1> QED
  BY <1>2, <1>4, <1>6, <1>7, BlankIsLocal, QuietMove

(* The environment and the TTLs leave every process where it is.             *)
LEMMA StillStep ==
    ASSUME Inv, UNCHANGED <<info, proc, events>>, RegistryTypeOK', Quiet,
           up' \in SUBSET Instances, spent' \in Bounds
    PROVE  Inv'
<1>1. TypeOK'
  BY DEF Inv, TypeOK, proc, events
<1>2. InfoOK' /\ HandOK'
  BY DEF Inv, InfoOK, HandOK, Handy, Minted, proc
<1> QED
  BY <1>1, <1>2, QuietMove DEF proc, events

LEMMA WorldStep ==
    ASSUME Inv, \/ \E i \in Instances : Restart(i) \/ HeartbeatLapses(i)
                \/ \E d \in Calls : RingingExpires(d)
    PROVE  Inv'
<1>1. RegistryTypeOK /\ up \in SUBSET Instances /\ spent \in Bounds
  BY DEF Inv, TypeOK
<1>2. ASSUME NEW i \in Instances, Restart(i) PROVE Inv'
  <2>1. RegistryTypeOK' /\ Quiet
    BY <1>1, <1>2 DEF Restart, RegistryTypeOK, registry, Quiet, Live
  <2>2. up' \in SUBSET Instances /\ spent' \in Bounds
    BY <1>1, <1>2 DEF Restart, Bounds
  <2> QED
    BY <1>2, <2>1, <2>2, StillStep DEF Restart
<1>3. ASSUME NEW i \in Instances, HeartbeatLapses(i) PROVE Inv'
  <2>1. RegistryTypeOK' /\ Quiet
    BY <1>1, <1>3 DEF HeartbeatLapses, RegistryTypeOK, registry, Quiet, Live
  <2> QED
    BY <1>1, <1>3, <2>1, StillStep DEF HeartbeatLapses
<1>4. ASSUME NEW d \in Calls, RingingExpires(d) PROVE Inv'
  BY <1>1, <1>4, LapseTyped, StillStep DEF RingingExpires
<1> QED
  BY <1>2, <1>3, <1>4

-----------------------------------------------------------------------------
LEMMA NextInv == Inv /\ [Next]_vars => Inv'
<1> SUFFICES ASSUME Inv, [Next]_vars PROVE Inv'
  OBVIOUS
<1>1. ASSUME NEW c \in Conns, Client(c) PROVE Inv'
  BY <1>1, ConnectStep, InviteStep, JoinStep, HangupStep, CloseStep DEF Client
<1>2. ASSUME NEW c \in Conns, Handle(c) PROVE Inv'
  BY <1>2, ConnectingStep, InvitingStep, JoiningStep, LeavingStep, EndCallStep
     DEF Handle, Procs
<1>3. ASSUME NEW d \in Calls, Time(d) PROVE Inv'
  BY <1>3, TimerStep, EndCallStep DEF Time, Procs
<1>4. ASSUME NEW i \in Instances, Reap(i) PROVE Inv'
  BY <1>4, SweepingStep, EndCallStep DEF Reap, Procs
<1>5. CASE UNCHANGED vars
  BY <1>5, StillStep DEF vars, Inv, TypeOK, RegistryTypeOK, registry, Quiet, Live
<1> QED
  BY <1>1, <1>2, <1>3, <1>4, <1>5, FaultStep, CrashStep, WorldStep DEF Next

LEMMA Invariance == Spec => []Inv
<1>1. Init => Inv
  BY InitInv
<1>2. Inv /\ [Next]_vars => Inv'
  BY NextInv
<1> QED
  BY <1>1, <1>2, PTL DEF Spec

(* The state of the service stays what the handlers take it to be: no step   *)
(* writes a record, a member, an index or an event of the wrong kind.        *)
THEOREM TypeCorrect == Spec => []TypeOK
<1>1. Inv => TypeOK
  BY DEF Inv
<1> QED
  BY <1>1, Invariance, PTL

(* endCall's consume is the right to announce: at most one process ever      *)
(* holds the ending of one life of a call record, none holds one that was    *)
(* announced, and no record that is there was announced as ended, for any    *)
(* number of tabs, timers, reapers, crashes and failed commands.             *)
THEOREM OneAnnouncer == Spec => []OneAnnouncerPerLife
<1>1. Inv => OneAnnouncerPerLife
  BY DEF Inv
<1> QED
  BY <1>1, Invariance, PTL


-----------------------------------------------------------------------------
(* What the steps do to the processes. *)

(* What a step of p leaves as it was: the other processes; the kind of work, *)
(* the ending in hand and what a sweep noted.                                *)
Alone(p) == \A q \in Procs \ {p} : loc'[q] = loc[q]
Same(p) ==
    /\ loc'[p].op = loc[p].op /\ loc'[p].mine = loc[p].mine
    /\ loc'[p].live = loc[p].live /\ loc'[p].fresh = loc[p].fresh

(* Where it takes p and what it puts in its hands.                           *)
Holds(p, k, d) == loc'[p].pc = k /\ loc'[p].call = d
Lists(p, cs, fs, os) == loc'[p].calls = cs /\ loc'[p].found = fs /\ loc'[p].owners = os
Anew(p, o, k, d, cs) ==
    /\ loc'[p].op = o /\ loc'[p].mine = 0 /\ loc'[p].fresh = {}
    /\ Holds(p, k, d) /\ Lists(p, cs, {}, {})

LEMMA MovedOne ==
    ASSUME Inv, NEW p \in Procs, NEW l, Become(p, l)
    PROVE  loc'[p] = l /\ Alone(p)
BY DEF Inv, TypeOK, Become, Alone

LEMMA GotoEffect ==
    ASSUME Inv, NEW p \in Procs, NEW k, Goto(p, k)
    PROVE  /\ Alone(p) /\ Same(p) /\ Holds(p, k, InHand(p))
           /\ Lists(p, loc[p].calls, loc[p].found, loc[p].owners)
<1>1. loc[p] \in Local
  BY InHandOK
<1>2. loc'[p] = [loc[p] EXCEPT !.pc = k] /\ Alone(p)
  BY MovedOne DEF Goto
<1> QED
  BY <1>1, <1>2 DEF Local, Same, Holds, Lists, InHand

LEMMA BlankEffect ==
    ASSUME Inv, NEW p \in Procs, Become(p, Blank)
    PROVE  Alone(p) /\ Anew(p, "none", "idle", None, {}) /\ loc'[p].live = {}
BY MovedOne DEF Blank, Anew, Holds, Lists

LEMMA HomeEffect ==
    ASSUME Inv, NEW p \in Procs, Finish(p)
    PROVE  /\ Alone(p) /\ Holds(p, LoopHead(p), None)
           /\ loc'[p].op = "none" /\ loc'[p].mine = 0
           /\ \/ LoopHead(p) = "idle" /\ Lists(p, {}, {}, {})
              \/ /\ LoopHead(p) # "idle" /\ Lists(p, loc[p].calls, {}, {})
                 /\ loc'[p].live = loc[p].live /\ loc'[p].fresh = loc[p].fresh
<1>1. loc'[p] = Home(p) /\ Alone(p)
  BY MovedOne DEF Finish
<1>2. CASE LoopHead(p) = "idle"
  BY <1>1, <1>2 DEF Home, Blank, Holds, Lists
<1>3. CASE LoopHead(p) # "idle"
  <2> DEFINE k == LoopHead(p)
  <2>1. loc'[p] = [Blank EXCEPT !.pc = k, !.calls = loc[p].calls,
                                !.live = loc[p].live, !.fresh = loc[p].fresh]
    BY <1>1, <1>3 DEF Home
  <2> HIDE DEF k
  <2>2. /\ loc'[p].pc = k /\ loc'[p].call = None /\ loc'[p].op = "none" /\ loc'[p].mine = 0
        /\ Lists(p, loc[p].calls, {}, {})
        /\ loc'[p].live = loc[p].live /\ loc'[p].fresh = loc[p].fresh
    BY <2>1 DEF Blank, Lists
  <2> QED
    BY <1>1, <1>3, <2>2 DEF k, Holds
<1> QED
  BY <1>2, <1>3

(* A frame, a socket, a timer or a sweep begins.                             *)

LEMMA ConnectEffect ==
    ASSUME Inv, NEW c \in Conns, Connect(c)
    PROVE  Alone(c) /\ Anew(c, "none", "pending", None, {})
<1>1. loc'[c] = [Blank EXCEPT !.pc = "pending"] /\ Alone(c)
  BY MovedOne DEF Connect, Procs
<1>2. Anew(c, "none", "pending", None, {})
  BY <1>1 DEF Blank, Anew, Holds, Lists
<1> QED
  BY <1>1, <1>2

LEMMA InviteEffect ==
    ASSUME Inv, NEW c \in Conns, NEW w, NEW d, Invite(c, w, d)
    PROVE  Alone(c) /\ Anew(c, "invite", "claim", d, {})
<1>1. loc'[c] = [Blank EXCEPT !.pc = "claim", !.op = "invite", !.call = d, !.seen = "ringing"] /\ Alone(c)
  BY MovedOne DEF Invite, Procs
<1>2. Anew(c, "invite", "claim", d, {})
  BY <1>1 DEF Blank, Anew, Holds, Lists
<1> QED
  BY <1>1, <1>2

LEMMA JoinEffect ==
    ASSUME Inv, NEW c \in Conns, NEW d, Join(c, d)
    PROVE  Alone(c) /\ Anew(c, "join", IF OwnerOf[c] = Caller(d) THEN "hjoin" ELSE "room", d, {})
<1> DEFINE k == IF OwnerOf[c] = Caller(d) THEN "hjoin" ELSE "room"
<1>1. loc'[c] = [Blank EXCEPT !.pc = k, !.op = "join", !.call = d,
                               !.seen = rec[d]] /\ Alone(c)
  BY MovedOne DEF Join, Procs
<1> HIDE DEF k
<1>2. Anew(c, "join", k, d, {})
  BY <1>1 DEF Blank, Anew, Holds, Lists
<1> QED
  BY <1>1, <1>2 DEF k

LEMMA HangupEffect ==
    ASSUME Inv, NEW c \in Conns, NEW d, Hangup(c, d)
    PROVE  Alone(c) /\ Anew(c, "none", IF IsGroup(d) THEN "leave" ELSE "end", d, {})
<1> DEFINE k == IF IsGroup(d) THEN "leave" ELSE "end"
           y == IF rec[d] = "ringing" /\ OwnerOf[c] # Caller(d) THEN "declined" ELSE "hangup"
<1>1. loc'[c] = [Blank EXCEPT !.pc = k, !.call = d, !.seen = rec[d], !.why = y] /\ Alone(c)
  BY MovedOne DEF Hangup, Procs
<1> HIDE DEF k, y
<1>2. Anew(c, "none", k, d, {})
  BY <1>1 DEF Blank, Anew, Holds, Lists
<1> QED
  BY <1>1, <1>2 DEF k

LEMMA CloseEffect ==
    ASSUME Inv, NEW c \in Conns, Close(c)
    PROVE  Alone(c) /\ Anew(c, "none", "release", None, tracked[c])
<1>1. loc'[c] = [Blank EXCEPT !.pc = "release", !.calls = tracked[c]] /\ Alone(c)
  BY MovedOne DEF Close, Procs
<1>2. Anew(c, "none", "release", None, tracked[c])
  BY <1>1 DEF Blank, Anew, Holds, Lists
<1> QED
  BY <1>1, <1>2

LEMMA RingTimeoutEffect ==
    ASSUME Inv, NEW d \in Calls, RingTimeout(d)
    PROVE  Alone(d) /\ Anew(d, "none", "tget", d, {})
<1>1. loc'[d] = [Blank EXCEPT !.pc = "tget", !.call = d] /\ Alone(d)
  BY MovedOne DEF RingTimeout, Procs
<1>2. Anew(d, "none", "tget", d, {})
  BY <1>1 DEF Blank, Anew, Holds, Lists
<1> QED
  BY <1>1, <1>2

LEMMA SweepHeartbeatsEffect ==
    ASSUME Inv, NEW i \in Instances, SweepHeartbeats(i)
    PROVE  Alone(i) /\ Anew(i, "none", "scan", None, {})
<1>1. loc'[i] = [Blank EXCEPT !.pc = "scan", !.live = alive] /\ Alone(i)
  BY MovedOne DEF SweepHeartbeats, Procs
<1>2. Anew(i, "none", "scan", None, {})
  BY <1>1 DEF Blank, Anew, Holds, Lists
<1> QED
  BY <1>1, <1>2

(* The steps that change more than the place in the handler.                 *)

LEMMA PendingIndexEffect ==
    ASSUME Inv, NEW c \in Conns, PendingIndex(c)
    PROVE  /\ Alone(c) /\ Same(c)
           /\ Holds(c, "pget", InHand(c))
           /\ Lists(c, index[OwnerOf[c]], loc[c].found, loc[c].owners)
<1>1. c \in Procs /\ loc[c] \in Local
  BY InHandOK DEF Procs
<1>3. loc'[c] = [loc[c] EXCEPT !.pc = "pget", !.calls = index[OwnerOf[c]]] /\ Alone(c)
  BY <1>1, MovedOne DEF PendingIndex
<1>4. Holds(c, "pget", InHand(c)) /\ Lists(c, index[OwnerOf[c]], loc[c].found, loc[c].owners) /\ Same(c)
  BY <1>1, <1>3 DEF Local, Same, Holds, Lists, InHand
<1> QED
  BY <1>3, <1>4

LEMMA PendingGetEffect ==
    ASSUME Inv, NEW c \in Conns, PendingGet(c)
    PROVE  /\ Alone(c) /\ Same(c)
           /\ \E d \in loc[c].calls :
                 /\ Holds(c, IF Live(d) THEN "pjoined" ELSE "pget", d)
                 /\ Lists(c, loc[c].calls \ {d}, loc[c].found, loc[c].owners)
<1>1. c \in Procs /\ loc[c] \in Local
  BY InHandOK DEF Procs
<1>2. PICK d \in loc[c].calls : Become(c, [loc[c] EXCEPT !.pc = IF Live(d) THEN "pjoined" ELSE "pget", !.call = d, !.calls = @ \ {d}])
  BY DEF PendingGet
<1> DEFINE k == IF Live(d) THEN "pjoined" ELSE "pget"
<1>3. loc'[c] = [loc[c] EXCEPT !.pc = k, !.call = d, !.calls = @ \ {d}] /\ Alone(c)
  BY <1>1, <1>2, MovedOne
<1> HIDE DEF k
<1>4. Holds(c, k, d) /\ Lists(c, loc[c].calls \ {d}, loc[c].found, loc[c].owners) /\ Same(c)
  BY <1>1, <1>3 DEF Local, Same, Holds, Lists, InHand
<1> QED
  BY <1>3, <1>4 DEF k

LEMMA PendingDismissedEffect ==
    ASSUME Inv, NEW c \in Conns, PendingDismissed(c)
    PROVE  /\ Alone(c) /\ Same(c)
           /\ Holds(c, "pget", InHand(c))
           /\ Lists(c, loc[c].calls, IF OwnerOf[c] \in dismissed[InHand(c)] THEN loc[c].found
                                     ELSE loc[c].found \cup {InHand(c)}, loc[c].owners)
<1>1. c \in Procs /\ loc[c] \in Local
  BY InHandOK DEF Procs
<1>3. loc'[c] = [loc[c] EXCEPT !.pc = "pget",
           !.found = IF OwnerOf[c] \in dismissed[InHand(c)] THEN @ ELSE @ \cup {InHand(c)}] /\ Alone(c)
  BY <1>1, MovedOne DEF PendingDismissed
<1>4. Holds(c, "pget", InHand(c)) /\ Lists(c, loc[c].calls, IF OwnerOf[c] \in dismissed[InHand(c)] THEN loc[c].found
                                     ELSE loc[c].found \cup {InHand(c)}, loc[c].owners) /\ Same(c)
  BY <1>1, <1>3 DEF Local, Same, Holds, Lists, InHand
<1> QED
  BY <1>3, <1>4

LEMMA SaveRingingEffect ==
    ASSUME Inv, NEW c \in Conns, SaveRinging(c)
    PROVE  /\ Alone(c) /\ Same(c)
           /\ Holds(c, "index", InHand(c))
           /\ Lists(c, loc[c].calls, loc[c].found, Participants(InHand(c)))
<1>1. c \in Procs /\ loc[c] \in Local
  BY InHandOK DEF Procs
<1>3. loc'[c] = [loc[c] EXCEPT !.pc = "index", !.owners = Participants(InHand(c))] /\ Alone(c)
  BY <1>1, MovedOne DEF SaveRinging
<1>4. Holds(c, "index", InHand(c)) /\ Lists(c, loc[c].calls, loc[c].found, Participants(InHand(c))) /\ Same(c)
  BY <1>1, <1>3 DEF Local, Same, Holds, Lists, InHand
<1> QED
  BY <1>3, <1>4

LEMMA ReleaseNextEffect ==
    ASSUME Inv, NEW c \in Conns, ReleaseNext(c)
    PROVE  /\ Alone(c) /\ Same(c)
           /\ \E d \in loc[c].calls :
                 /\ Holds(c, IF Live(d) THEN "relleave" ELSE "release", d)
                 /\ Lists(c, loc[c].calls \ {d}, loc[c].found, loc[c].owners)
<1>1. c \in Procs /\ loc[c] \in Local
  BY InHandOK DEF Procs
<1>2. PICK d \in loc[c].calls : Become(c, [loc[c] EXCEPT !.pc = IF Live(d) THEN "relleave" ELSE "release",
                                   !.call = d, !.seen = rec[d], !.calls = @ \ {d}])
  BY DEF ReleaseNext
<1> DEFINE k == IF Live(d) THEN "relleave" ELSE "release"
<1>3. loc'[c] = [loc[c] EXCEPT !.pc = k,
                                   !.call = d, !.seen = rec[d], !.calls = @ \ {d}] /\ Alone(c)
  BY <1>1, <1>2, MovedOne
<1> HIDE DEF k
<1>4. Holds(c, k, d) /\ Lists(c, loc[c].calls \ {d}, loc[c].found, loc[c].owners) /\ Same(c)
  BY <1>1, <1>3 DEF Local, Same, Holds, Lists, InHand
<1> QED
  BY <1>3, <1>4 DEF k

LEMMA DeleteKeysEffect ==
    ASSUME Inv, NEW p \in Procs, DeleteKeys(p)
    PROVE  /\ Alone(p) /\ Same(p)
           /\ Holds(p, "unindex", InHand(p))
           /\ Lists(p, loc[p].calls, loc[p].found, Participants(InHand(p)))
<1>1. p \in Procs /\ loc[p] \in Local
  BY InHandOK DEF Procs
<1>3. loc'[p] = [loc[p] EXCEPT !.pc = "unindex", !.owners = Participants(InHand(p))] /\ Alone(p)
  BY <1>1, MovedOne DEF DeleteKeys
<1>4. Holds(p, "unindex", InHand(p)) /\ Lists(p, loc[p].calls, loc[p].found, Participants(InHand(p))) /\ Same(p)
  BY <1>1, <1>3 DEF Local, Same, Holds, Lists, InHand
<1> QED
  BY <1>3, <1>4

LEMMA SweepScanEffect ==
    ASSUME Inv, NEW i \in Instances, SweepScan(i)
    PROVE  /\ Alone(i) /\ Same(i)
           /\ Holds(i, "look", InHand(i))
           /\ Lists(i, {d \in Calls : Live(d)}, loc[i].found, loc[i].owners)
<1>1. i \in Procs /\ loc[i] \in Local
  BY InHandOK DEF Procs
<1>3. loc'[i] = [loc[i] EXCEPT !.pc = "look", !.calls = {d \in Calls : Live(d)}] /\ Alone(i)
  BY <1>1, MovedOne DEF SweepScan
<1>4. Holds(i, "look", InHand(i)) /\ Lists(i, {d \in Calls : Live(d)}, loc[i].found, loc[i].owners) /\ Same(i)
  BY <1>1, <1>3 DEF Local, Same, Holds, Lists, InHand
<1> QED
  BY <1>3, <1>4

LEMMA SweepGetEffect ==
    ASSUME Inv, NEW i \in Instances, SweepGet(i)
    PROVE  /\ Alone(i) /\ Same(i)
           /\ \E d \in loc[i].calls :
                 /\ Holds(i, IF Live(d) THEN "members" ELSE "look", d)
                 /\ Lists(i, loc[i].calls \ {d}, loc[i].found, loc[i].owners)
<1>1. i \in Procs /\ loc[i] \in Local
  BY InHandOK DEF Procs
<1>2. PICK d \in loc[i].calls : Become(i, [loc[i] EXCEPT !.pc = IF Live(d) THEN "members" ELSE "look", !.call = d, !.calls = @ \ {d}])
  BY DEF SweepGet
<1> DEFINE k == IF Live(d) THEN "members" ELSE "look"
<1>3. loc'[i] = [loc[i] EXCEPT !.pc = k, !.call = d, !.calls = @ \ {d}] /\ Alone(i)
  BY <1>1, <1>2, MovedOne
<1> HIDE DEF k
<1>4. Holds(i, k, d) /\ Lists(i, loc[i].calls \ {d}, loc[i].found, loc[i].owners) /\ Same(i)
  BY <1>1, <1>3 DEF Local, Same, Holds, Lists, InHand
<1> QED
  BY <1>3, <1>4 DEF k

LEMMA SweepMembersEffect ==
    ASSUME Inv, NEW i \in Instances, SweepMembers(i)
    PROVE  /\ Alone(i) /\ Same(i)
           /\ Holds(i, "look", InHand(i))
           /\ Lists(i, loc[i].calls, IF Orphaned(InHand(i), loc[i].live)
                                     THEN loc[i].found \cup {InHand(i)} ELSE loc[i].found, loc[i].owners)
<1>1. i \in Procs /\ loc[i] \in Local
  BY InHandOK DEF Procs
<1>3. loc'[i] = [loc[i] EXCEPT !.pc = "look",
           !.found = IF Orphaned(InHand(i), loc[i].live) THEN @ \cup {InHand(i)} ELSE @] /\ Alone(i)
  BY <1>1, MovedOne DEF SweepMembers
<1>4. Holds(i, "look", InHand(i)) /\ Lists(i, loc[i].calls, IF Orphaned(InHand(i), loc[i].live)
                                     THEN loc[i].found \cup {InHand(i)} ELSE loc[i].found, loc[i].owners) /\ Same(i)
  BY <1>1, <1>3 DEF Local, Same, Holds, Lists, InHand
<1> QED
  BY <1>3, <1>4

LEMMA SweepFoundEffect ==
    ASSUME Inv, NEW i \in Instances, SweepFound(i)
    PROVE  /\ Alone(i) /\ Same(i)
           /\ Holds(i, "reap", None)
           /\ Lists(i, loc[i].found, {}, loc[i].owners)
<1>1. i \in Procs /\ loc[i] \in Local
  BY InHandOK DEF Procs
<1>3. loc'[i] = [loc[i] EXCEPT !.pc = "reap", !.call = None,
                                !.calls = loc[i].found, !.found = {}] /\ Alone(i)
  BY <1>1, MovedOne DEF SweepFound
<1>4. Holds(i, "reap", None) /\ Lists(i, loc[i].found, {}, loc[i].owners) /\ Same(i)
  BY <1>1, <1>3 DEF Local, Same, Holds, Lists, InHand
<1> QED
  BY <1>3, <1>4

LEMMA ReapOrphanEffect ==
    ASSUME Inv, NEW i \in Instances, ReapOrphan(i)
    PROVE  /\ Alone(i) /\ Same(i)
           /\ \E d \in loc[i].calls :
                 /\ Holds(i, "end", d)
                 /\ Lists(i, loc[i].calls \ {d}, loc[i].found, loc[i].owners)
<1>1. i \in Procs /\ loc[i] \in Local
  BY InHandOK DEF Procs
<1>2. PICK d \in loc[i].calls : Become(i, [loc[i] EXCEPT !.pc = "end", !.call = d, !.calls = @ \ {d}])
  BY DEF ReapOrphan
<1>3. loc'[i] = [loc[i] EXCEPT !.pc = "end", !.call = d, !.calls = @ \ {d}] /\ Alone(i)
  BY <1>1, <1>2, MovedOne
<1>4. Holds(i, "end", d) /\ Lists(i, loc[i].calls \ {d}, loc[i].found, loc[i].owners) /\ Same(i)
  BY <1>1, <1>3 DEF Local, Same, Holds, Lists, InHand
<1> QED
  BY <1>3, <1>4

LEMMA ClaimConversationEffect ==
    ASSUME Inv, NEW c \in Conns, ClaimConversation(c)
    PROVE  /\ Alone(c) /\ Same(c) /\ Lists(c, loc[c].calls, loc[c].found, loc[c].owners)
           /\ Holds(c, IF claim[info[InHand(c)].conv] = None THEN "save" ELSE "holder", InHand(c))
<1>1. c \in Procs /\ loc[c] \in Local
  BY InHandOK DEF Procs
<1> DEFINE w == info[InHand(c)].conv
<1>2. CASE claim[w] = None
  BY <1>1, <1>2, GotoEffect DEF ClaimConversation
<1>3. CASE claim[w] # None
  <2>1. loc'[c] = [loc[c] EXCEPT !.pc = "holder", !.other = claim[w]] /\ Alone(c)
    BY <1>1, <1>3, MovedOne DEF ClaimConversation
  <2> HIDE DEF w
  <2>2. Same(c) /\ Lists(c, loc[c].calls, loc[c].found, loc[c].owners) /\ Holds(c, "holder", InHand(c))
    BY <1>1, <2>1 DEF Local, Same, Holds, Lists, InHand
  <2> QED
    BY <1>3, <2>1, <2>2 DEF w
<1> QED
  BY <1>2, <1>3

LEMMA IndexOwnerEffect ==
    ASSUME Inv, NEW c \in Conns, IndexOwner(c)
    PROVE  LET o == First(loc[c].owners) IN
           /\ Alone(c) /\ Same(c) /\ Lists(c, loc[c].calls, loc[c].found, loc[c].owners \ {o})
           /\ Holds(c, IF loc[c].owners = {o} THEN "hjoin" ELSE "index", InHand(c))
<1> DEFINE o == First(loc[c].owners)
           k == IF loc[c].owners = {o} THEN "hjoin" ELSE "index"
<1>1. c \in Procs /\ loc[c] \in Local
  BY InHandOK DEF Procs
<1>2. loc'[c] = [loc[c] EXCEPT !.pc = k, !.owners = @ \ {o}] /\ Alone(c)
  BY <1>1, MovedOne DEF IndexOwner
<1> HIDE DEF k, o
<1>3. Same(c) /\ Lists(c, loc[c].calls, loc[c].found, loc[c].owners \ {o}) /\ Holds(c, k, InHand(c))
  BY <1>1, <1>2 DEF Local, Same, Holds, Lists, InHand
<1> QED
  BY <1>2, <1>3 DEF k, o

LEMMA CountMembersEffect ==
    ASSUME Inv, NEW c \in Conns, CountMembers(c)
    PROVE  \/ Finish(c)
           \/ /\ Alone(c) /\ Same(c) /\ Holds(c, "end", InHand(c))
              /\ Lists(c, loc[c].calls, loc[c].found, loc[c].owners)
<1>1. c \in Procs /\ loc[c] \in Local
  BY InHandOK DEF Procs
<1>2. CASE Goto(c, "end")
  BY <1>1, <1>2, GotoEffect
<1>3. CASE Become(c, [loc[c] EXCEPT !.pc = "end", !.why = "empty"])
  <2>1. loc'[c] = [loc[c] EXCEPT !.pc = "end", !.why = "empty"] /\ Alone(c)
    BY <1>1, <1>3, MovedOne
  <2> QED
    BY <1>1, <2>1 DEF Local, Same, Holds, Lists, InHand
<1> QED
  BY <1>2, <1>3 DEF CountMembers

LEMMA ClaimEndingEffect ==
    ASSUME Inv, NEW p \in Procs, ClaimEnding(p)
    PROVE  /\ Alone(p) /\ Holds(p, "cleanup", InHand(p))
           /\ Lists(p, loc[p].calls, loc[p].found, loc[p].owners)
           /\ loc'[p].op = loc[p].op /\ loc'[p].live = loc[p].live /\ loc'[p].fresh = loc[p].fresh
           /\ loc'[p].mine = IF Live(InHand(p)) THEN life[InHand(p)] ELSE 0
<1> DEFINE m == IF Live(InHand(p)) THEN life[InHand(p)] ELSE 0
<1>1. loc[p] \in Local
  BY InHandOK
<1>2. loc'[p] = [loc[p] EXCEPT !.pc = "cleanup", !.mine = m] /\ Alone(p)
  BY MovedOne DEF ClaimEnding
<1> HIDE DEF m
<1> QED
  BY <1>1, <1>2 DEF Local, Holds, Lists, InHand, m

LEMMA UnindexEffect ==
    ASSUME Inv, NEW p \in Procs, Unindex(p)
    PROVE  \/ Finish(p) /\ loc[p].mine = 0
           \/ /\ Alone(p) /\ Same(p) /\ loc'[p].pc \in {"unindex", "announce"}
              /\ loc'[p].call = InHand(p)
              /\ loc'[p].calls = loc[p].calls /\ loc'[p].found = loc[p].found
<1> DEFINE o == First(loc[p].owners)
<1>1. loc[p] \in Local /\ loc[p].pc = "unindex"
  BY InHandOK DEF Unindex, At
<1>2. \/ Finish(p) /\ loc[p].mine = 0
      \/ Become(p, [loc[p] EXCEPT !.owners = @ \ {o}])
      \/ Become(p, [loc[p] EXCEPT !.pc = "announce", !.owners = {}])
  BY DEF Unindex
<1> HIDE DEF o
<1>3. CASE Become(p, [loc[p] EXCEPT !.owners = @ \ {o}])
  <2>1. loc'[p] = [loc[p] EXCEPT !.owners = @ \ {o}] /\ Alone(p)
    BY <1>3, MovedOne
  <2> QED
    BY <1>1, <2>1 DEF Local, Same, InHand
<1>4. CASE Become(p, [loc[p] EXCEPT !.pc = "announce", !.owners = {}])
  <2>1. loc'[p] = [loc[p] EXCEPT !.pc = "announce", !.owners = {}] /\ Alone(p)
    BY <1>4, MovedOne
  <2> QED
    BY <1>1, <2>1 DEF Local, Same, InHand
<1> QED
  BY <1>2, <1>3, <1>4

LEMMA RingTimeoutFiredEffect ==
    ASSUME Inv, NEW d \in Calls, RingTimeoutFired(d)
    PROVE  \/ Become(d, Blank)
           \/ /\ Alone(d) /\ Same(d) /\ Holds(d, "end", InHand(d)) /\ rec[d] = "ringing"
              /\ Lists(d, loc[d].calls, loc[d].found, loc[d].owners)
<1>1. d \in Procs /\ loc[d] \in Local
  BY InHandOK DEF Procs
<1>2. CASE rec[d] = "ringing"
  <2>1. loc'[d] = [loc[d] EXCEPT !.pc = "end", !.seen = "ringing", !.why = "missed"] /\ Alone(d)
    BY <1>1, <1>2, MovedOne DEF RingTimeoutFired
  <2> QED
    BY <1>1, <1>2, <2>1 DEF Local, Same, Holds, Lists, InHand
<1> QED
  BY <1>2 DEF RingTimeoutFired

(* A place that is won is noted by every sweep under way.                    *)
LEMMA HJoinEffect ==
    ASSUME Inv, NEW c \in Conns, HJoin(c), NEW d, d = InHand(c), JoinWins(d, c)
    PROVE  /\ SetMember(d, OwnerOf[c], c)
           /\ Same(c) /\ Holds(c, "sadd", d) /\ Lists(c, loc[c].calls, loc[c].found, loc[c].owners)
           /\ \A q \in Procs \ {c} :
                 \/ loc'[q] = loc[q] /\ (q \in Instances => loc[q].pc = "idle")
                 \/ /\ q \in Instances /\ loc'[q].fresh = loc[q].fresh \cup {<<d, c>>}
                    /\ loc'[q].op = loc[q].op /\ loc'[q].mine = loc[q].mine
                    /\ loc'[q].live = loc[q].live /\ Holds(q, loc[q].pc, InHand(q))
                    /\ Lists(q, loc[q].calls, loc[q].found, loc[q].owners)
<1>1. c \in Procs /\ c \notin Instances /\ loc[c] \in Local
  BY InHandOK, NoneIsNobody DEF Procs
<1>2. /\ SetMember(d, OwnerOf[c], c)
      /\ loc' = [p \in Procs |->
             IF p = c THEN [loc[c] EXCEPT !.pc = "sadd"]
             ELSE IF p \in Instances /\ loc[p].pc # "idle"
             THEN [loc[p] EXCEPT !.fresh = @ \cup {<<d, c>>}]
             ELSE loc[p]]
  BY DEF HJoin
<1>3. loc'[c] = [loc[c] EXCEPT !.pc = "sadd"]
  BY <1>1, <1>2
<1>4. Same(c) /\ Holds(c, "sadd", d) /\ Lists(c, loc[c].calls, loc[c].found, loc[c].owners)
  BY <1>1, <1>3 DEF Local, Same, Holds, Lists, InHand
<1>5. ASSUME NEW q \in Procs \ {c}, q \in Instances, loc[q].pc # "idle"
      PROVE  /\ loc'[q].fresh = loc[q].fresh \cup {<<d, c>>}
             /\ loc'[q].op = loc[q].op /\ loc'[q].mine = loc[q].mine
             /\ loc'[q].live = loc[q].live /\ Holds(q, loc[q].pc, InHand(q))
             /\ Lists(q, loc[q].calls, loc[q].found, loc[q].owners)
  <2>1. loc'[q] = [loc[q] EXCEPT !.fresh = @ \cup {<<d, c>>}]
    BY <1>2, <1>5
  <2>2. loc[q] \in Local
    BY InHandOK
  <2> QED
    BY <2>1, <2>2 DEF Local, Holds, Lists, InHand
<1>6. \A q \in Procs \ {c} : ~(q \in Instances /\ loc[q].pc # "idle") => loc'[q] = loc[q]
  BY <1>2
<1> QED
  BY <1>2, <1>4, <1>5, <1>6

(* A command that fails.                                                     *)
LEMMA FaultEffect ==
    ASSUME Inv, NEW p \in Procs, Fault(p)
    PROVE  \/ Finish(p) /\ (loc[p].pc \in {"cleanup", "unindex"} => loc[p].mine = 0)
           \/ /\ Alone(p) /\ Same(p) /\ loc'[p].call = InHand(p)
              /\ loc'[p].calls = loc[p].calls /\ loc'[p].found = loc[p].found
              /\ \/ loc[p].pc = "save" /\ loc'[p].pc = "unclaim"
                 \/ loc[p].pc = "dismiss" /\ loc'[p].pc = "count"
                 \/ loc[p].pc \in {"cleanup", "unindex"} /\ loc'[p].pc = "announce"
<1>1. loc[p] \in Local /\ Become(p, AfterFault(p)) /\ loc[p].pc # "end"
  BY InHandOK DEF Fault
<1>2. CASE loc[p].pc \in {"save", "dismiss"}
  <2> DEFINE k == IF At(p, "save") THEN "unclaim" ELSE "count"
  <2>1. Goto(p, k)
    BY <1>1, <1>2 DEF AfterFault, At, Goto
  <2> QED
    BY <1>2, <2>1, GotoEffect DEF Holds, Lists, At
<1>3. CASE loc[p].pc \in {"cleanup", "unindex"} /\ loc[p].mine # 0
  <2>1. loc'[p] = [loc[p] EXCEPT !.pc = "announce", !.owners = {}] /\ Alone(p)
    BY <1>1, <1>3, MovedOne DEF AfterFault, At
  <2> QED
    BY <1>1, <1>3, <2>1 DEF Local, Same, InHand
<1>4. CASE /\ loc[p].pc \notin {"save", "dismiss"}
           /\ ~(loc[p].pc \in {"cleanup", "unindex"} /\ loc[p].mine # 0)
  BY <1>1, <1>4 DEF AfterFault, At, Finish
<1> QED
  BY <1>2, <1>3, <1>4

(* A process moves by itself, except that winning a place is noted by the    *)
(* sweeps and a crash stops everything on its instance.                      *)
LEMMA MovesAlone ==
    ASSUME Inv, NEW p \in Procs,
           \/ p \in Conns /\ (Client(p) \/ Handle(p)) /\ ~HJoin(p)
           \/ p \in Calls /\ Time(p)
           \/ p \in Instances /\ Reap(p)
           \/ Fault(p)
    PROVE  Alone(p)
<1>1. ASSUME Connecting(p) PROVE Alone(p)
  BY <1>1, MovedOne DEF Connecting, PendingIndex, PendingGet, PendingJoined, PendingDismissed,
     RingPending, Goto
<1>2. ASSUME Inviting(p) PROVE Alone(p)
  BY <1>2, MovedOne DEF Inviting, ClaimConversation, CheckHolder, StealClaim, SaveRinging,
     UndoClaim, IndexOwner, Ring, ArmRingTimeout, Goto, Finish
<1>3. ASSUME Joining(p), ~HJoin(p) PROVE Alone(p)
  BY <1>3, MovedOne DEF Joining, CheckRoom, SAddJoined, Activate, ExtendClaim, PublishStarted,
     Goto, Finish
<1>4. ASSUME Leaving(p) PROVE Alone(p)
  BY <1>4, MovedOne DEF Leaving, Leave, DismissLeaver, CountMembers, ReleaseNext,
     LeaveIfHeldBy, Closed, Goto, Finish
<1>5. ASSUME EndCall(p) PROVE Alone(p)
  BY <1>5, MovedOne DEF EndCall, EndCancelTimer, ClaimEnding, DeleteKeys, Unindex,
     AnnounceEnding, Goto, Finish
<1>6. ASSUME Client(p) PROVE Alone(p)
  BY <1>6, MovedOne DEF Client, Connect, Invite, Join, Hangup, Close
<1>7. ASSUME Sweeping(p) PROVE Alone(p)
  BY <1>7, MovedOne DEF Sweeping, SweepHeartbeats, SweepScan, SweepGet, SweepMembers,
     SweepFound, ReapOrphan, SweepDone
<1>8. ASSUME RingTimeout(p) \/ RingTimeoutFired(p) PROVE Alone(p)
  BY <1>8, MovedOne DEF RingTimeout, RingTimeoutFired
<1>9. ASSUME Fault(p) PROVE Alone(p)
  BY <1>9, MovedOne DEF Fault
<1> QED
  BY <1>1, <1>2, <1>3, <1>4, <1>5, <1>6, <1>7, <1>8, <1>9 DEF Handle, Time, Reap

-----------------------------------------------------------------------------
(* Which steps touch the records, the places and the lists of participants.  *)

LEMMA RegistryFrame ==
    ASSUME [Next]_vars
    PROVE  \/ UNCHANGED registry
           \/ \E c \in Conns : Inviting(c) \/ Joining(c) \/ Leaving(c)
           \/ \E p \in Procs : EndCall(p)
           \/ \E d \in Calls : RingingExpires(d)
<1>1. ASSUME NEW c \in Conns, Client(c) \/ Connecting(c) PROVE UNCHANGED registry
  BY <1>1 DEF Client, Connect, Invite, Join, Hangup, Close, Connecting, PendingIndex,
     PendingGet, PendingJoined, PendingDismissed, RingPending
<1>2. ASSUME NEW p \in Procs, RingTimeout(p) \/ RingTimeoutFired(p) \/ Sweeping(p)
      PROVE  UNCHANGED registry
  BY <1>2 DEF RingTimeout, RingTimeoutFired, Sweeping, SweepHeartbeats, SweepScan, SweepGet,
     SweepMembers, SweepFound, ReapOrphan, SweepDone
<1>3. ASSUME NEW p, Fault(p) \/ Crash(p) \/ Restart(p) \/ HeartbeatLapses(p)
      PROVE  UNCHANGED registry
  BY <1>3 DEF Fault, Crash, Restart, HeartbeatLapses
<1>4. UNCHANGED vars => UNCHANGED registry
  BY DEF vars
<1> QED
  BY <1>1, <1>2, <1>3, <1>4 DEF Next, Handle, Time, Reap, Procs

(* A record is written by an invite and by a join, and goes by its TTL or    *)
(* with whoever ends the call.                                               *)
LEMMA RecordFrame ==
    ASSUME [Next]_vars
    PROVE  \/ UNCHANGED <<rec, life>>
           \/ \E c \in Conns : SaveRinging(c) \/ Activate(c)
           \/ \E p \in Procs : ClaimEnding(p)
           \/ \E d \in Calls : RingingExpires(d)
<1>1. ASSUME NEW c \in Conns, Inviting(c), ~SaveRinging(c) PROVE UNCHANGED <<rec, life>>
  BY <1>1 DEF Inviting, ClaimConversation, CheckHolder, StealClaim, UndoClaim, IndexOwner,
     Ring, ArmRingTimeout, registry, Claim, AddToIndex
<1>2. ASSUME NEW c \in Conns, Joining(c), ~Activate(c) PROVE UNCHANGED <<rec, life>>
  BY <1>2 DEF Joining, CheckRoom, HJoin, SAddJoined, ExtendClaim, PublishStarted, registry,
     Claim, SetMember, RecordJoin
<1>3. ASSUME NEW c \in Conns, Leaving(c) PROVE UNCHANGED <<rec, life>>
  BY <1>3 DEF Leaving, Leave, DismissLeaver, CountMembers, ReleaseNext, LeaveIfHeldBy, Closed,
     registry, SetMember, Dismiss
<1>4. ASSUME NEW p \in Procs, EndCall(p), ~ClaimEnding(p) PROVE UNCHANGED <<rec, life>>
  BY <1>4 DEF EndCall, EndCancelTimer, DeleteKeys, Unindex, AnnounceEnding, registry, CleanUp,
     RemoveFromIndex
<1> QED
  BY RegistryFrame, <1>1, <1>2, <1>3, <1>4 DEF registry

(* A place is won by a join; it goes with a hang-up, a release or the call.  *)
LEMMA PlaceFrame ==
    ASSUME [Next]_vars
    PROVE  \/ UNCHANGED <<members, joined>>
           \/ \E c \in Conns : HJoin(c) \/ SAddJoined(c) \/ Leave(c) \/ LeaveIfHeldBy(c)
           \/ \E p \in Procs : DeleteKeys(p)
<1>1. ASSUME NEW c \in Conns, Inviting(c) PROVE UNCHANGED <<members, joined>>
  BY <1>1 DEF Inviting, ClaimConversation, CheckHolder, StealClaim, SaveRinging, UndoClaim,
     IndexOwner, Ring, ArmRingTimeout, registry, Claim, Save, AddToIndex
<1>2. ASSUME NEW c \in Conns, Joining(c), ~SAddJoined(c), ~HJoin(c)
      PROVE  UNCHANGED <<members, joined>>
  BY <1>2 DEF Joining, CheckRoom, Activate, ExtendClaim, PublishStarted, registry, Claim, Save
<1>3. ASSUME NEW c \in Conns, Leaving(c), ~Leave(c), ~LeaveIfHeldBy(c)
      PROVE  UNCHANGED <<members, joined>>
  BY <1>3 DEF Leaving, DismissLeaver, CountMembers, ReleaseNext, Closed, registry, Dismiss
<1>4. ASSUME NEW p \in Procs, EndCall(p), ~DeleteKeys(p) PROVE UNCHANGED <<members, joined>>
  BY <1>4 DEF EndCall, EndCancelTimer, ClaimEnding, Unindex, AnnounceEnding, registry, Consume,
     RemoveFromIndex
<1>5. ASSUME NEW d \in Calls, RingingExpires(d) PROVE UNCHANGED <<members, joined>>
  BY <1>5 DEF RingingExpires, Lapse
<1>6. UNCHANGED registry => UNCHANGED <<members, joined>>
  BY DEF registry
<1> QED
  BY RegistryFrame, <1>1, <1>2, <1>3, <1>4, <1>5, <1>6

-----------------------------------------------------------------------------
(* Where a process may be. *)

(* Where a sweep, an ending and a closing socket may be.                     *)
Sweeps == {"scan", "look", "members", "reap"}
Ends == {"end", "consume"} \cup Telling
Closes == {"release", "relleave", "count"} \cup Ends

(* A connection handles frames while it is open and releases its places      *)
(* while it closes; timers only fire and end, reapers only sweep and end.    *)
StationOK(c, k) ==
    /\ k \notin Sweeps \cup {"tget"}
    /\ sock[c] \in {"off", "gone"} => k = "idle"
    /\ sock[c] = "closing" => k \in Closes
    /\ k \in {"release", "relleave"} => sock[c] = "closing"

Stations ==
    /\ \A c \in Conns : StationOK(c, loc[c].pc)
    /\ \A d \in Calls : loc[d].pc \in {"idle", "tget"} \cup Ends
    /\ \A i \in Instances : loc[i].pc \in {"idle"} \cup Sweeps \cup Ends

LEMMA Kinds ==
    /\ Procs = Conns \cup Calls \cup Instances
    /\ Conns \cap Calls = {} /\ Conns \cap Instances = {} /\ Calls \cap Instances = {}
BY NoneIsNobody DEF Procs

LEMMA InitStations == Init => Stations
<1>1. Blank.pc = "idle"
  BY DEF Blank
<1> QED
  BY <1>1, Kinds DEF Init, Stations, StationOK, Sweeps, Ends, Closes, Telling

LEMMA HomePlace == ASSUME NEW p PROVE Home(p).pc = LoopHead(p)
BY DEF Home, Blank

(* A handler's step that leaves the sockets alone.                           *)
LEMMA ConnStation ==
    ASSUME Inv, Stations, NEW c \in Conns, UNCHANGED sock,
           \A q \in Procs \ {c} : loc'[q].pc = loc[q].pc, StationOK(c, loc'[c].pc)
    PROVE  Stations'
BY Kinds DEF Stations, StationOK

LEMMA ConnFinish ==
    ASSUME Inv, Stations, NEW c \in Conns, loc[c].pc # "idle"
    PROVE  StationOK(c, Home(c).pc)
<1>1. c \in Procs /\ c \notin Instances
  BY Kinds
<1>2. Home(c).pc = IF sock[c] = "closing" THEN "release" ELSE "idle"
  BY <1>1, HomePlace DEF LoopHead
<1> QED
  BY <1>2 DEF Stations, StationOK, Sweeps, Closes

LEMMA ConnectingStations ==
    ASSUME Inv, Stations, NEW c \in Conns, Connecting(c) PROVE Stations'
<1>1. loc[c] \in Local /\ c \in Procs
  BY Kinds, InHandOK
<1>2. \A q \in Procs \ {c} : loc'[q].pc = loc[q].pc
  BY <1>1, MovedOne DEF Connecting, PendingIndex, PendingGet, PendingJoined,
     PendingDismissed, RingPending, Goto, Alone
<1>3. loc'[c].pc \in {"pget", "pjoined", "pdismissed", "idle"}
  BY <1>1, PendingIndexEffect, PendingGetEffect, GotoEffect, PendingDismissedEffect, BlankEffect
     DEF Connecting, PendingJoined, RingPending, Holds, Anew
<1>4. loc[c].pc \in {"pending", "pget", "pjoined", "pdismissed"} /\ UNCHANGED sock
  BY DEF Connecting, PendingIndex, PendingGet, PendingJoined, PendingDismissed,
     RingPending, At
<1>5. StationOK(c, loc'[c].pc)
  BY <1>3, <1>4 DEF Stations, StationOK, Sweeps, Closes, Ends, Telling
<1> QED
  BY <1>2, <1>4, <1>5, ConnStation

LEMMA InvitingStations ==
    ASSUME Inv, Stations, NEW c \in Conns, Inviting(c) PROVE Stations'
<1>1. loc[c] \in Local /\ c \in Procs
  BY Kinds, InHandOK
<1>2. \A q \in Procs \ {c} : loc'[q].pc = loc[q].pc
  BY <1>1, MovedOne DEF Inviting, ClaimConversation, CheckHolder, StealClaim, SaveRinging,
     UndoClaim, IndexOwner, Ring, ArmRingTimeout, Goto, Finish, Alone
<1>3. \/ loc'[c].pc \in {"holder", "save", "steal", "index", "hjoin", "arm"}
      \/ loc'[c] = Home(c)
  BY <1>1, ClaimConversationEffect, SaveRingingEffect, IndexOwnerEffect, GotoEffect, MovedOne
     DEF Inviting, CheckHolder, StealClaim, UndoClaim, Ring, ArmRingTimeout, Finish, Holds
<1>4. /\ loc[c].pc \in {"claim", "holder", "steal", "save", "unclaim", "index", "ring", "arm"}
      /\ UNCHANGED sock
  BY DEF Inviting, ClaimConversation, CheckHolder, StealClaim, SaveRinging,
     UndoClaim, IndexOwner, Ring, ArmRingTimeout, At
<1>5. StationOK(c, loc'[c].pc)
  BY <1>3, <1>4, ConnFinish DEF Stations, StationOK, Sweeps, Closes, Ends, Telling
<1> QED
  BY <1>2, <1>4, <1>5, ConnStation

LEMMA JoiningStations ==
    ASSUME Inv, Stations, NEW c \in Conns, Joining(c) PROVE Stations'
<1>1. loc[c] \in Local /\ c \in Procs
  BY Kinds, InHandOK
<1>2. \A q \in Procs \ {c} : loc'[q].pc = loc[q].pc
  <2>1. CASE HJoin(c)
    <3>1. CASE JoinWins(InHand(c), c)
      <4>1. \A q \in Procs \ {c} :
               loc'[q] = loc[q] \/ loc'[q] = [loc[q] EXCEPT !.fresh = @ \cup {<<InHand(c), c>>}]
        BY <2>1, <3>1 DEF HJoin
      <4> QED
        BY <4>1, InHandOK DEF Local
    <3>2. CASE ~JoinWins(InHand(c), c)
      BY <1>1, <2>1, <3>2, MovedOne DEF HJoin, Goto, Finish, Alone
    <3> QED
      BY <3>1, <3>2
  <2>2. CASE ~HJoin(c)
    BY <1>1, <2>2, MovedOne DEF Joining, CheckRoom, SAddJoined, Activate, ExtendClaim,
       PublishStarted, Goto, Finish, Alone
  <2> QED
    BY <2>1, <2>2
<1>3. \/ loc'[c].pc \in {"hjoin", "sadd", "ring", "activate", "reclaim", "started"}
      \/ loc'[c] = Home(c)
  BY <1>1 DEF Joining, CheckRoom, HJoin, SAddJoined, Activate, ExtendClaim, PublishStarted,
     Become, Goto, Finish, Local, Inv, TypeOK
<1>4. /\ loc[c].pc \in {"room", "hjoin", "sadd", "activate", "reclaim", "started"}
      /\ UNCHANGED sock
  BY DEF Joining, CheckRoom, HJoin, SAddJoined, Activate, ExtendClaim, PublishStarted, At
<1>5. StationOK(c, loc'[c].pc)
  BY <1>3, <1>4, ConnFinish DEF Stations, StationOK, Sweeps, Closes, Ends, Telling
<1> QED
  BY <1>2, <1>4, <1>5, ConnStation

LEMMA LeavingStations ==
    ASSUME Inv, Stations, NEW c \in Conns, Leaving(c) PROVE Stations'
<1>1. loc[c] \in Local /\ c \in Procs
  BY Kinds, InHandOK
<1>2. \A q \in Procs \ {c} : loc'[q].pc = loc[q].pc
  BY <1>1, MovedOne DEF Leaving, Leave, DismissLeaver, CountMembers, ReleaseNext,
     LeaveIfHeldBy, Closed, Goto, Finish, Alone
<1>3. CASE Closed(c)
  <2>1. loc'[c].pc = "idle" /\ \A b \in Conns : sock'[b] = IF b = c THEN "gone" ELSE sock[b]
    BY <1>1, <1>3, MovedOne DEF Closed, Blank, Inv, TypeOK
  <2> QED
    BY <1>2, <2>1, Kinds DEF Stations, StationOK, Sweeps
<1>4. CASE ~Closed(c)
  <2>1. loc[c].pc \in {"leave", "dismiss", "count", "release", "relleave"} /\ UNCHANGED sock
    BY <1>4 DEF Leaving, Leave, DismissLeaver, CountMembers, ReleaseNext, LeaveIfHeldBy, At
  <2>2. \/ loc[c].pc = "leave" /\ loc'[c].pc = "dismiss"
        \/ loc[c].pc = "dismiss" /\ loc'[c].pc = "count"
        \/ loc[c].pc = "release" /\ loc'[c].pc \in {"release", "relleave"}
        \/ loc[c].pc \in {"count", "relleave"} /\ loc'[c].pc \in {"count", "end"}
        \/ loc'[c] = Home(c)
    BY <1>1, <1>4, GotoEffect, CountMembersEffect, ReleaseNextEffect, MovedOne
       DEF Leaving, Leave, DismissLeaver, CountMembers, ReleaseNext, LeaveIfHeldBy, Finish,
           Holds, At
  <2>3. StationOK(c, loc'[c].pc)
    BY <2>1, <2>2, ConnFinish DEF Stations, StationOK, Sweeps, Closes, Ends, Telling
  <2> QED
    BY <1>2, <2>1, <2>3, ConnStation
<1> QED
  BY <1>3, <1>4

LEMMA ClientStations ==
    ASSUME Inv, Stations, NEW c \in Conns, Client(c) PROVE Stations'
<1>1. loc[c] \in Local /\ c \in Procs
  BY Kinds, InHandOK
<1>2. \A q \in Procs \ {c} : loc'[q].pc = loc[q].pc
  BY <1>1, MovedOne DEF Client, Connect, Invite, Join, Hangup, Close, Alone
<1>3. CASE Connect(c)
  <2>1. loc'[c].pc = "pending" /\ \A b \in Conns : sock'[b] = IF b = c THEN "open" ELSE sock[b]
    BY <1>1, <1>3, MovedOne DEF Connect, Blank, Inv, TypeOK
  <2> QED
    BY <1>2, <2>1, Kinds DEF Stations, StationOK, Sweeps
<1>4. CASE Close(c)
  <2>1. loc'[c].pc = "release" /\ \A b \in Conns : sock'[b] = IF b = c THEN "closing" ELSE sock[b]
    BY <1>1, <1>4, CloseEffect DEF Close, Anew, Holds, Inv, TypeOK
  <2> QED
    BY <1>2, <2>1, Kinds DEF Stations, StationOK, Sweeps, Closes
<1>5. CASE ~Connect(c) /\ ~Close(c)
  <2>1. sock[c] = "open" /\ UNCHANGED sock
    BY <1>5 DEF Client, Invite, Join, Hangup, Receive
  <2>2. loc'[c].pc \in {"claim", "hjoin", "room", "leave", "end"}
    BY <1>5, InviteEffect, JoinEffect, HangupEffect DEF Client, Anew, Holds
  <2>3. StationOK(c, loc'[c].pc)
    BY <2>1, <2>2 DEF StationOK, Sweeps
  <2> QED
    BY <1>2, <2>1, <2>3, ConnStation
<1> QED
  BY <1>3, <1>4, <1>5

LEMMA EndCallStations ==
    ASSUME Inv, Stations, NEW p \in Procs, EndCall(p) PROVE Stations'
<1>1. loc[p] \in Local
  BY InHandOK
<1>2. \A q \in Procs \ {p} : loc'[q].pc = loc[q].pc
  BY <1>1, MovedOne DEF EndCall, EndCancelTimer, ClaimEnding, DeleteKeys, Unindex,
     AnnounceEnding, Goto, Finish, Alone
<1>3. loc[p].pc \in Ends /\ UNCHANGED sock
  BY DEF EndCall, EndCancelTimer, ClaimEnding, DeleteKeys, Unindex, AnnounceEnding, At,
     Ends, Telling, events
<1>4. loc'[p].pc \in Ends \/ loc'[p] = Home(p)
  BY <1>1, GotoEffect, ClaimEndingEffect, DeleteKeysEffect, UnindexEffect, MovedOne
     DEF EndCall, EndCancelTimer, AnnounceEnding, Finish, Holds, Ends, Telling
<1>5. CASE p \in Conns
  <2>1. StationOK(p, loc'[p].pc)
    BY <1>3, <1>4, <1>5, ConnFinish DEF Stations, StationOK, Sweeps, Closes, Ends, Telling
  <2> QED
    BY <1>2, <1>3, <1>5, <2>1, ConnStation
<1>6. CASE p \notin Conns
  <2>1. p \in Calls => loc'[p].pc \in {"idle"} \cup Ends
    BY <1>4, Kinds, HomePlace DEF LoopHead
  <2>2. p \in Instances => loc'[p].pc \in {"reap"} \cup Ends
    BY <1>4, Kinds, HomePlace DEF LoopHead
  <2>3. \A c \in Conns : StationOK(c, loc[c].pc)'
    BY <1>2, <1>3, <1>6, Kinds DEF Stations, StationOK
  <2> QED
    BY <1>2, <1>6, <2>1, <2>2, <2>3, Kinds DEF Stations, Sweeps
<1> QED
  BY <1>5, <1>6

(* The timers and the sweeps. *)
LEMMA ClockStations ==
    ASSUME Inv, Stations, NEW p \in Procs,
           \/ p \in Calls /\ (RingTimeout(p) \/ RingTimeoutFired(p))
           \/ p \in Instances /\ Sweeping(p)
    PROVE  Stations'
<1>1. loc[p] \in Local /\ loc \in [Procs -> Local]
  BY InHandOK DEF Inv, TypeOK
<1>2. UNCHANGED sock
  BY DEF RingTimeout, RingTimeoutFired, Sweeping, SweepHeartbeats, SweepScan, SweepGet,
     SweepMembers, SweepFound, ReapOrphan, SweepDone
<1>3. \A q \in Procs \ {p} : loc'[q].pc = loc[q].pc
  BY MovedOne DEF RingTimeout, RingTimeoutFired, Sweeping, SweepHeartbeats, SweepScan,
     SweepGet, SweepMembers, SweepFound, ReapOrphan, SweepDone, Alone
<1>4. p \in Calls => loc'[p].pc \in {"tget", "end", "idle"}
  BY <1>1, Kinds, RingTimeoutEffect, RingTimeoutFiredEffect, BlankEffect DEF Anew, Holds
<1>5. p \in Instances => loc'[p].pc \in {"idle", "end"} \cup Sweeps
  BY <1>1, Kinds, SweepHeartbeatsEffect, SweepScanEffect, SweepGetEffect, SweepMembersEffect,
     SweepFoundEffect, ReapOrphanEffect, BlankEffect
     DEF Sweeping, SweepDone, Anew, Holds, Sweeps
<1>6. \A c \in Conns : StationOK(c, loc[c].pc)'
  BY <1>2, <1>3, Kinds DEF Stations, StationOK
<1> QED
  BY <1>3, <1>4, <1>5, <1>6, Kinds DEF Stations, Ends, Sweeps

LEMMA FaultStations ==
    ASSUME Inv, Stations, NEW p \in Procs, Fault(p) PROVE Stations'
<1>1. loc[p] \in Local /\ UNCHANGED sock /\ loc[p].pc # "idle"
  BY InHandOK DEF Fault
<1>2. loc'[p] = AfterFault(p) /\ \A q \in Procs \ {p} : loc'[q] = loc[q]
  BY MovedOne DEF Fault, Alone
<1>3. \/ loc[p].pc = "save" /\ loc'[p].pc = "unclaim"
      \/ loc[p].pc = "dismiss" /\ loc'[p].pc = "count"
      \/ loc[p].pc = "end" /\ loc'[p].pc = "consume"
      \/ loc[p].pc \in {"cleanup", "unindex"} /\ loc'[p].pc = "announce"
      \/ loc'[p] = Home(p)
  BY <1>1, <1>2 DEF AfterFault, At, Local
<1>4. CASE p \in Conns
  <2>1. StationOK(p, loc'[p].pc)
    BY <1>1, <1>3, <1>4, ConnFinish DEF Stations, StationOK, Sweeps, Closes, Ends, Telling
  <2> QED
    BY <1>1, <1>2, <1>4, <2>1, ConnStation
<1>5. CASE p \notin Conns
  <2>1. p \in Calls => loc'[p].pc \in {"idle"} \cup Ends
    BY <1>3, Kinds, HomePlace DEF Stations, LoopHead, Ends, Telling
  <2>2. p \in Instances => loc'[p].pc \in {"reap"} \cup Ends
    BY <1>3, Kinds, HomePlace DEF Stations, LoopHead, Ends, Sweeps, Telling
  <2>3. \A c \in Conns : StationOK(c, loc[c].pc)'
    BY <1>1, <1>2, <1>5, Kinds DEF Stations, StationOK
  <2> QED
    BY <1>2, <1>5, <2>1, <2>2, <2>3, Kinds DEF Stations, Sweeps
<1> QED
  BY <1>4, <1>5

LEMMA CrashStations ==
    ASSUME Inv, Stations, NEW i \in Instances, Crash(i) PROVE Stations'
<1>1. \A q \in Procs : loc'[q] = IF InstanceRunning(q) = i THEN Blank ELSE loc[q]
  BY DEF Crash
<1>2. Blank.pc = "idle"
  BY DEF Blank
<1>3. \A c \in Conns : StationOK(c, loc[c].pc)'
  <2> TAKE c \in Conns
  <2>1. sock'[c] = IF InstanceOf[c] = i /\ sock[c] # "off" THEN "gone" ELSE sock[c]
    BY DEF Crash
  <2>2. loc'[c] = IF InstanceOf[c] = i THEN Blank ELSE loc[c]
    BY <1>1, Kinds DEF InstanceRunning
  <2> QED
    BY <1>2, <2>1, <2>2 DEF Stations, StationOK, Sweeps, Closes, Ends, Telling
<1> QED
  BY <1>1, <1>2, <1>3, Kinds DEF Stations

LEMMA NextStations == Inv /\ Stations /\ [Next]_vars => Stations'
<1> SUFFICES ASSUME Inv, Stations, [Next]_vars PROVE Stations'
  OBVIOUS
<1>1. ASSUME NEW c \in Conns, Handle(c) PROVE Stations'
  BY <1>1, Kinds, ConnectingStations, InvitingStations, JoiningStations, LeavingStations,
     EndCallStations DEF Handle
<1>2. ASSUME NEW d \in Calls, Time(d) PROVE Stations'
  BY <1>2, Kinds, ClockStations, EndCallStations DEF Time
<1>3. ASSUME NEW i \in Instances, Reap(i) PROVE Stations'
  BY <1>3, Kinds, ClockStations, EndCallStations DEF Reap
<1>4. CASE UNCHANGED <<sock, loc>>
  BY <1>4 DEF Stations, StationOK
<1>5. CASE \/ \E i \in Instances : Restart(i) \/ HeartbeatLapses(i)
           \/ \E d \in Calls : RingingExpires(d)
           \/ UNCHANGED vars
  BY <1>4, <1>5 DEF Restart, HeartbeatLapses, RingingExpires, vars, proc
<1> QED
  BY <1>1, <1>2, <1>3, <1>5, ClientStations, FaultStations, CrashStations DEF Next

-----------------------------------------------------------------------------
(* Which calls a process may have in hand.                                   *)

(* Where the call in hand need not have had a record yet.                    *)
Fetching == Unheld \cup {"claim", "holder", "steal", "save", "unclaim", "tget"}

(* Everywhere else it has had one, and so have the calls of a sweep.  A      *)
(* record that is there while its call is cleaned up is a later life.  A     *)
(* timer looks at its own call.                                              *)
Lasting(p) ==
    /\ loc[p].pc \notin Fetching => life[InHand(p)] > 0
    /\ p \in Instances => \A d \in loc[p].calls \cup loc[p].found : life[d] > 0
    /\ At(p, "cleanup") /\ Live(InHand(p)) => life[InHand(p)] > 1
    /\ At(p, "tget") => InHand(p) = p

Lives ==
    /\ \A d \in Calls : Live(d) => life[d] > 0
    /\ \A p \in Procs : Lasting(p)

(* Lives only grow in number, by one when a record comes to be.              *)
Grows ==
    \A d \in Calls :
        /\ life'[d] \in Nat /\ life[d] \in Nat /\ life'[d] >= life[d]
        /\ Live(d)' /\ ~Live(d) => life'[d] = life[d] + 1

LEMMA Growing == ASSUME Inv, [Next]_vars PROVE Grows
<1>1. RegistryTypeOK
  BY DEF Inv, TypeOK
<1>2. CASE UNCHANGED <<rec, life>>
  BY <1>1, <1>2 DEF Grows, Live, RegistryTypeOK
<1>3. ASSUME NEW p \in Procs, NEW s \in Status, p \in Conns, Save(InHand(p), s), InHand(p) \in Calls
      PROVE  Grows
  BY <1>1, <1>3 DEF Grows, Save, Live, RegistryTypeOK
<1>4. ASSUME NEW c \in Conns, SaveRinging(c) \/ Activate(c) PROVE Grows
  <2>1. c \in Procs /\ InHand(c) \in Calls
    BY <1>4, Kinds, InHandOK DEF SaveRinging, Activate, At, Unheld
  <2> QED
    BY <1>3, <1>4, <2>1 DEF SaveRinging, Activate, Status
<1>5. ASSUME NEW p \in Procs, ClaimEnding(p) PROVE Grows
  BY <1>1, <1>5 DEF ClaimEnding, Consume, Grows, Live, RegistryTypeOK
<1>6. ASSUME NEW d \in Calls, RingingExpires(d) PROVE Grows
  BY <1>1, <1>6 DEF RingingExpires, Lapse, Grows, Live, RegistryTypeOK
<1> QED
  BY RecordFrame, <1>2, <1>4, <1>5, <1>6

LEMMA InitLives == Init => Lives
<1>1. Blank.pc = "idle" /\ Blank.calls = {} /\ Blank.found = {}
  BY DEF Blank
<1>2. "idle" \in Fetching
  BY DEF Fetching, Unheld
<1> QED
  BY <1>1, <1>2 DEF Init, RegistryInit, Lives, Lasting, Live, At

(* A process that keeps its place and its calls.                             *)
Stays(q) ==
    /\ Holds(q, loc[q].pc, InHand(q))
    /\ loc'[q].calls = loc[q].calls /\ loc'[q].found = loc[q].found

LEMMA LastingStays == ASSUME Inv, Lives, Grows, NEW q \in Procs, Stays(q) PROVE Lasting(q)'
<1>1. loc[q] \in Local /\ (loc[q].pc \notin Unheld => InHand(q) \in Calls)
  BY InHandOK
<1>2. loc[q].pc \notin Fetching => life'[InHand(q)] > 0
  BY <1>1 DEF Lives, Lasting, Grows, Fetching
<1>3. q \in Instances => \A d \in loc[q].calls \cup loc[q].found : life'[d] > 0
  BY <1>1 DEF Lives, Lasting, Grows, Local
<1>4. ASSUME NEW d \in Calls, d = InHand(q), At(q, "cleanup"), Live(d)' PROVE life'[d] > 1
  <2>1. loc[q].pc \notin Fetching
    BY <1>4 DEF Fetching, At, Unheld
  <2>2. CASE Live(d)
    BY <1>4, <2>1, <2>2 DEF Lives, Lasting, Grows
  <2>3. CASE ~Live(d)
    <3>1. life'[d] = life[d] + 1 /\ life[d] \in Nat
      BY <1>4, <2>3 DEF Grows
    <3>2. life[d] > 0
      BY <1>4, <2>1 DEF Lives, Lasting
    <3> QED
      BY <3>1, <3>2
  <2> QED
    BY <2>2, <2>3
<1>5. At(q, "cleanup") => InHand(q) \in Calls
  BY <1>1 DEF At, Unheld
<1>6. /\ InHand(q)' = InHand(q) /\ (At(q, "cleanup")' <=> At(q, "cleanup"))
      /\ At(q, "tget")' => At(q, "tget") /\ InHand(q) = q
  BY DEF Lives, Lasting, Stays, Holds, InHand, At
<1> QED
  BY <1>2, <1>3, <1>4, <1>5, <1>6 DEF Stays, Holds, Lasting

LEMMA LivesStep ==
    ASSUME Inv, Lives, Grows, NEW p \in Procs, \A q \in Procs \ {p} : Stays(q), Lasting(p)'
    PROVE  Lives'
<1>1. \A d \in Calls : Live(d)' => life'[d] > 0
  BY DEF Lives, Grows
<1>2. \A q \in Procs : Lasting(q)'
  BY LastingStays
<1> QED
  BY <1>1, <1>2 DEF Lives

(* The moves of a handler: to a place that asks nothing of its call, or on   *)
(* with a call that has had a record.                                        *)
LEMMA LivesMove ==
    ASSUME Inv, Lives, Grows, NEW p \in Procs, \A q \in Procs \ {p} : Stays(q),
           \/ loc'[p].pc \in Fetching
           \/ /\ loc'[p].pc # "cleanup"
              /\ loc'[p].call \in Calls /\ life[loc'[p].call] > 0,
           p \in Instances =>
               \A d \in loc'[p].calls \cup loc'[p].found : d \in Calls /\ life[d] > 0,
           loc'[p].pc = "tget" => loc'[p].call = p
    PROVE  Lives'
<1>1. "cleanup" \notin Fetching
  BY DEF Fetching, Unheld
<1>2. loc'[p].pc \notin Fetching => life'[loc'[p].call] > 0
  BY DEF Grows
<1>3. p \in Instances => \A d \in loc'[p].calls \cup loc'[p].found : life'[d] > 0
  BY DEF Grows
<1>4. Lasting(p)'
  BY <1>1, <1>2, <1>3 DEF Lasting, InHand, At
<1> QED
  BY <1>4, LivesStep

LEMMA AloneStays == ASSUME NEW p, Alone(p) PROVE \A q \in Procs \ {p} : Stays(q)
BY DEF Alone, Stays, Holds, InHand

LEMMA ConnLives ==
    ASSUME Inv, Stations', Lives, Grows, NEW c \in Conns, \A q \in Procs \ {c} : Stays(q),
           \/ loc'[c].pc \in Fetching
           \/ /\ loc'[c].pc # "cleanup"
              /\ loc'[c].call \in Calls /\ life[loc'[c].call] > 0
    PROVE  Lives'
<1>1. c \in Procs /\ c \notin Instances /\ loc'[c].pc # "tget"
  BY Kinds DEF Stations, StationOK
<1> QED
  BY <1>1, LivesMove


LEMMA ConnectingLives ==
    ASSUME Inv, Stations', Lives, Grows, NEW c \in Conns, Connecting(c) PROVE Lives'
<1>1. c \in Procs /\ c \notin Instances /\ loc[c] \in Local
  BY Kinds, InHandOK
<1>2. Alone(c)
  BY <1>1, PendingIndexEffect, PendingGetEffect, GotoEffect, PendingDismissedEffect, BlankEffect
     DEF Connecting, PendingJoined, RingPending
<1>3. \/ loc'[c].pc \in {"pget", "idle"}
      \/ PendingGet(c) /\ loc'[c].call \in Calls /\ Live(loc'[c].call) /\ loc'[c].pc = "pjoined"
      \/ At(c, "pjoined") /\ Holds(c, "pdismissed", InHand(c))
  <2>1. CASE PendingGet(c)
    BY <1>1, <2>1, PendingGetEffect DEF Holds, Local
  <2>2. CASE PendingJoined(c)
    BY <1>1, <2>2, GotoEffect DEF PendingJoined, Holds
  <2>3. CASE PendingIndex(c) \/ PendingDismissed(c) \/ RingPending(c)
    BY <1>1, <2>3, PendingIndexEffect, PendingDismissedEffect, BlankEffect
       DEF RingPending, Holds, Anew
  <2> QED
    BY <2>1, <2>2, <2>3 DEF Connecting
<1>4. At(c, "pjoined") => InHand(c) \in Calls /\ life[InHand(c)] > 0
  BY <1>1, InHandOK DEF Lives, Lasting, At, Fetching, Unheld
<1> QED
  BY <1>1, <1>2, <1>3, <1>4, ConnLives, AloneStays DEF Lives, Holds, Fetching, Unheld

LEMMA InvitingLives ==
    ASSUME Inv, Stations', Lives, Grows, NEW c \in Conns, Inviting(c) PROVE Lives'
<1>1. c \in Procs /\ c \notin Instances /\ loc[c] \in Local /\ loc[c].pc \notin Unheld
  BY Kinds, InHandOK DEF Inviting, ClaimConversation, CheckHolder, StealClaim, SaveRinging,
     UndoClaim, IndexOwner, Ring, ArmRingTimeout, At, Unheld
<1>2. InHand(c) \in Calls
  BY <1>1, InHandOK
<1>3. Alone(c)
  BY <1>1, ClaimConversationEffect, SaveRingingEffect, IndexOwnerEffect, GotoEffect, MovedOne
     DEF Inviting, CheckHolder, StealClaim, UndoClaim, Ring, ArmRingTimeout, Finish
<1>4. \/ loc'[c].pc \in {"save", "holder", "steal"}
      \/ loc'[c] = Home(c)
      \/ SaveRinging(c)
      \/ loc[c].pc \in {"index", "ring"} /\ loc'[c].call = InHand(c)
         /\ loc'[c].pc \in {"index", "hjoin", "arm"}
  BY <1>1, ClaimConversationEffect, IndexOwnerEffect, GotoEffect, MovedOne
     DEF Inviting, CheckHolder, StealClaim, UndoClaim, Ring, ArmRingTimeout, IndexOwner, Finish,
         Holds, At
<1>5. CASE loc'[c].pc \in {"save", "holder", "steal"}
  BY <1>1, <1>3, <1>5, ConnLives, AloneStays DEF Fetching
<1>6. CASE loc'[c] = Home(c)
  <2>1. loc'[c].pc \in Unheld
    BY <1>1, <1>6, HomePlace DEF LoopHead, Unheld
  <2> QED
    BY <1>1, <1>3, <2>1, ConnLives, AloneStays DEF Fetching
<1>7. CASE SaveRinging(c)
  <2>1. PICK d \in Calls : d = InHand(c)
    BY <1>2
  <2>2. Holds(c, "index", d) /\ Live(d)'
    BY <1>1, <1>7, <2>1, SaveRingingEffect
       DEF SaveRinging, Save, Live, Inv, TypeOK, RegistryTypeOK
  <2>3. life'[d] > 0
    <3>1. Live(d) => life[d] > 0
      BY DEF Lives
    <3> QED
      BY <2>2, <3>1 DEF Grows
  <2>4. Lasting(c)'
    BY <1>1, <2>2, <2>3 DEF Lasting, Holds, InHand, At
  <2> QED
    BY <1>1, <1>3, <2>4, LivesStep, AloneStays
<1>8. CASE /\ loc[c].pc \in {"index", "ring"} /\ loc'[c].call = InHand(c)
           /\ loc'[c].pc \in {"index", "hjoin", "arm"}
  <2>1. life[InHand(c)] > 0
    BY <1>1, <1>8 DEF Lives, Lasting, Fetching, Unheld
  <2> QED
    BY <1>1, <1>2, <1>3, <1>8, <2>1, ConnLives, AloneStays
<1> QED
  BY <1>4, <1>5, <1>6, <1>7, <1>8

(* A step that goes home or on with the call in hand.                        *)
LEMMA LivesOn ==
    ASSUME Inv, Stations', Lives, Grows, NEW c \in Conns, \A q \in Procs \ {c} : Stays(q),
           loc[c].pc \notin Fetching,
           \/ loc'[c].pc \in Unheld
           \/ loc'[c].call = InHand(c) /\ loc'[c].pc # "cleanup"
    PROVE  Lives'
<1>1. c \in Procs /\ c \notin Instances /\ InHand(c) \in Calls /\ life[InHand(c)] > 0
  BY Kinds, InHandOK DEF Lives, Lasting, Fetching
<1> QED
  BY <1>1, ConnLives DEF Fetching

LEMMA JoiningLives ==
    ASSUME Inv, Stations', Lives, Grows, NEW c \in Conns, Joining(c) PROVE Lives'
<1>1. c \in Procs /\ c \notin Instances /\ loc[c].pc \notin Fetching
  BY Kinds DEF Joining, CheckRoom, HJoin, SAddJoined, Activate, ExtendClaim, PublishStarted,
     At, Fetching, Unheld
<1>2. Home(c).pc \in Unheld
  BY HomePlace DEF LoopHead, Unheld
<1>3. CASE HJoin(c) /\ JoinWins(InHand(c), c)
  BY <1>1, <1>3, HJoinEffect, LivesOn DEF Stays, Holds, Lists, InHand
<1>4. CASE ~(HJoin(c) /\ JoinWins(InHand(c), c))
  <2>1. Finish(c) \/ \E k \in {"hjoin", "ring", "activate", "reclaim", "started"} : Goto(c, k)
    BY <1>4 DEF Joining, CheckRoom, HJoin, SAddJoined, Activate, ExtendClaim, PublishStarted
  <2> QED
    BY <1>1, <1>2, <2>1, GotoEffect, MovedOne, AloneStays, LivesOn DEF Finish, Holds
<1> QED
  BY <1>3, <1>4

LEMMA LeavingLives ==
    ASSUME Inv, Stations', Lives, Grows, NEW c \in Conns, Leaving(c) PROVE Lives'
<1>1. c \in Procs /\ c \notin Instances /\ loc[c] \in Local
  BY Kinds, InHandOK
<1>2. Home(c).pc \in Unheld
  BY HomePlace DEF LoopHead, Unheld
<1>3. CASE ReleaseNext(c)
  <2>1. /\ Alone(c) /\ loc'[c].call \in Calls
        /\ loc'[c].pc = IF Live(loc'[c].call) THEN "relleave" ELSE "release"
    BY <1>1, <1>3, ReleaseNextEffect DEF Holds, Local
  <2> QED
    BY <1>1, <2>1, ConnLives, AloneStays DEF Lives, Fetching, Unheld
<1>4. CASE Closed(c)
  BY <1>1, <1>4, BlankEffect, ConnLives, AloneStays DEF Closed, Anew, Holds, Fetching, Unheld
<1>5. CASE Leave(c) \/ DismissLeaver(c) \/ CountMembers(c) \/ LeaveIfHeldBy(c)
  <2>1. loc[c].pc \notin Fetching
    BY <1>5 DEF Leave, DismissLeaver, CountMembers, LeaveIfHeldBy, At, Fetching, Unheld
  <2>2. \/ Alone(c) /\ loc'[c] = Home(c)
        \/ Alone(c) /\ loc'[c].call = InHand(c) /\ loc'[c].pc \in {"dismiss", "count", "end"}
    BY <1>1, <1>5, GotoEffect, CountMembersEffect, MovedOne
       DEF Leave, DismissLeaver, LeaveIfHeldBy, Finish, Holds
  <2> QED
    BY <1>1, <1>2, <2>1, <2>2, AloneStays, LivesOn
<1> QED
  BY <1>3, <1>4, <1>5 DEF Leaving

LEMMA ClientLives ==
    ASSUME Inv, Stations', Lives, Grows, NEW c \in Conns, Client(c) PROVE Lives'
<1>1. c \in Procs /\ c \notin Instances
  BY Kinds
<1>2. CASE Connect(c) \/ Close(c) \/ \E w \in Conversations, d \in Calls : Invite(c, w, d)
  BY <1>1, <1>2, ConnectEffect, CloseEffect, InviteEffect, AloneStays, ConnLives
     DEF Anew, Holds, Fetching, Unheld
<1>3. ASSUME NEW d \in Calls, Join(c, d) \/ Hangup(c, d) PROVE Lives'
  <2>1. Alone(c) /\ loc'[c].call = d /\ loc'[c].pc \in {"hjoin", "room", "leave", "end"}
    BY <1>3, JoinEffect, HangupEffect DEF Anew, Holds
  <2>2. life[d] > 0
    BY <1>3 DEF Join, Hangup, Lives
  <2> QED
    BY <1>1, <2>1, <2>2, AloneStays, ConnLives
<1> QED
  BY <1>2, <1>3 DEF Client

LEMMA EndCallLives ==
    ASSUME Inv, Lives, Grows, NEW p \in Procs, EndCall(p) PROVE Lives'
<1>1. /\ loc[p] \in Local /\ InHand(p) \in Calls /\ loc[p].pc \notin Fetching
  BY InHandOK DEF EndCall, EndCancelTimer, ClaimEnding, DeleteKeys, Unindex, AnnounceEnding,
     At, Unheld, Fetching
<1>2. life[InHand(p)] > 0
  BY <1>1 DEF Lives, Lasting
<1>3. p \in Instances => \A d \in loc[p].calls \cup loc[p].found : d \in Calls /\ life[d] > 0
  BY <1>1 DEF Lives, Lasting, Local
<1>4. CASE ClaimEnding(p)
  <2>1. PICK d \in Calls : d = InHand(p)
    BY <1>1
  <2>2. ~Live(d)'
    BY <1>4, <2>1 DEF ClaimEnding, Consume, Live, Inv, TypeOK, RegistryTypeOK
  <2>3. /\ Alone(p) /\ Holds(p, "cleanup", d)
        /\ loc'[p].calls = loc[p].calls /\ loc'[p].found = loc[p].found
    BY <1>4, <2>1, ClaimEndingEffect DEF Lists
  <2>4. life'[d] > 0 /\ \A x \in Calls : life[x] > 0 => life'[x] > 0
    BY <1>2, <2>1 DEF Grows
  <2>5. Lasting(p)'
    BY <1>3, <2>2, <2>3, <2>4 DEF Lasting, Holds, InHand, At
  <2> QED
    BY <2>3, <2>5, AloneStays, LivesStep
<1>5. CASE Finish(p)
  <2>1. Home(p).pc \in Unheld /\ Alone(p) /\ loc'[p] = Home(p)
    BY <1>5, HomePlace, MovedOne DEF LoopHead, Unheld, Finish
  <2>2. loc'[p].calls \subseteq loc[p].calls /\ loc'[p].found = {}
    BY <1>5, HomeEffect DEF Lists
  <2> QED
    BY <1>3, <2>1, <2>2, AloneStays, LivesMove DEF Fetching, Unheld
<1>6. CASE /\ Alone(p) /\ loc'[p].call = InHand(p) /\ loc'[p].pc \in Ends \ {"cleanup"}
           /\ loc'[p].calls = loc[p].calls /\ loc'[p].found = loc[p].found
  BY <1>1, <1>2, <1>3, <1>6, AloneStays, LivesMove DEF Ends, Telling
<1>7. CASE EndCancelTimer(p) \/ DeleteKeys(p) \/ Unindex(p) \/ AnnounceEnding(p)
  BY <1>5, <1>6, <1>7, GotoEffect, DeleteKeysEffect, UnindexEffect
     DEF EndCancelTimer, AnnounceEnding, Holds, Lists, Ends, Telling
<1> QED
  BY <1>4, <1>7 DEF EndCall

LEMMA TimerLives ==
    ASSUME Inv, Lives, Grows, NEW d \in Calls, RingTimeout(d) \/ RingTimeoutFired(d)
    PROVE  Lives'
<1>1. d \in Procs /\ d \notin Instances /\ loc[d] \in Local
  BY Kinds, InHandOK
<1>2. CASE RingTimeout(d)
  BY <1>1, <1>2, RingTimeoutEffect, AloneStays, LivesMove DEF Anew, Holds, Fetching
<1>3. CASE Become(d, Blank)
  BY <1>1, <1>3, BlankEffect, AloneStays, LivesMove DEF Anew, Holds, Fetching, Unheld
<1>4. CASE RingTimeoutFired(d) /\ ~Become(d, Blank)
  <2>1. Alone(d) /\ Holds(d, "end", InHand(d))
    BY <1>4, RingTimeoutFiredEffect
  <2>2. InHand(d) = d
    BY <1>1, <1>4 DEF RingTimeoutFired, Lives, Lasting
  <2>3. rec[d] = "ringing"
    BY <1>4 DEF RingTimeoutFired
  <2>4. life[InHand(d)] > 0
    BY <2>2, <2>3 DEF Lives, Live
  <2> QED
    BY <1>1, <2>1, <2>2, <2>4, AloneStays, LivesMove DEF Holds
<1> QED
  BY <1>2, <1>3, <1>4

LEMMA SweepingLives ==
    ASSUME Inv, Lives, Grows, NEW i \in Instances, Sweeping(i) PROVE Lives'
<1>1. i \in Procs /\ loc[i] \in Local /\ (loc[i].pc \notin Unheld => InHand(i) \in Calls)
  BY Kinds, InHandOK
<1>2. \A d \in loc[i].calls \cup loc[i].found : d \in Calls /\ life[d] > 0
  BY <1>1 DEF Lives, Lasting, Local
<1>3. CASE SweepHeartbeats(i) \/ SweepFound(i) \/ SweepDone(i)
  BY <1>1, <1>2, <1>3, SweepHeartbeatsEffect, SweepFoundEffect, BlankEffect, AloneStays, LivesMove
     DEF SweepDone, Anew, Holds, Lists, Fetching, Unheld
<1>4. CASE SweepScan(i)
  <2>1. \A d \in {e \in Calls : Live(e)} : life[d] > 0
    BY DEF Lives
  <2> QED
    BY <1>1, <1>2, <1>4, <2>1, SweepScanEffect, AloneStays, LivesMove
       DEF Holds, Lists, Fetching, Unheld
<1>5. CASE SweepGet(i)
  <2>1. PICK d \in loc[i].calls :
           /\ Holds(i, IF Live(d) THEN "members" ELSE "look", d)
           /\ Lists(i, loc[i].calls \ {d}, loc[i].found, loc[i].owners)
    BY <1>5, SweepGetEffect
  <2>2. loc'[i].pc \in {"members", "look"}
    BY <2>1 DEF Holds
  <2> QED
    BY <1>1, <1>2, <1>5, <2>1, <2>2, SweepGetEffect, AloneStays, LivesMove DEF Holds, Lists
<1>6. CASE SweepMembers(i)
  <2>1. InHand(i) \in Calls /\ life[InHand(i)] > 0
    BY <1>1, <1>6 DEF SweepMembers, At, Lives, Lasting, Fetching, Unheld
  <2>2. loc'[i].found \subseteq loc[i].found \cup {InHand(i)} /\ loc'[i].calls = loc[i].calls
    BY <1>6, SweepMembersEffect DEF Lists
  <2>3. loc'[i].pc = "look" /\ Alone(i)
    BY <1>6, SweepMembersEffect DEF Holds
  <2> QED
    BY <1>1, <1>2, <2>1, <2>2, <2>3, AloneStays, LivesMove DEF Fetching, Unheld
<1>7. CASE ReapOrphan(i)
  BY <1>1, <1>2, <1>7, ReapOrphanEffect, AloneStays, LivesMove DEF Holds, Lists
<1> QED
  BY <1>3, <1>4, <1>5, <1>6, <1>7 DEF Sweeping

LEMMA FaultLives ==
    ASSUME Inv, Lives, Grows, NEW p \in Procs, Fault(p) PROVE Lives'
<1>1. loc[p] \in Local /\ (loc[p].pc \notin Unheld => InHand(p) \in Calls)
  BY InHandOK
<1>2. p \in Instances => \A d \in loc[p].calls \cup loc[p].found : d \in Calls /\ life[d] > 0
  BY <1>1 DEF Lives, Lasting, Local
<1>3. CASE Finish(p)
  <2>1. Home(p).pc \in {"idle", "release", "reap"} /\ Alone(p) /\ loc'[p] = Home(p)
    BY <1>3, HomePlace, MovedOne DEF LoopHead, Finish
  <2>2. loc'[p].calls \subseteq loc[p].calls /\ loc'[p].found = {}
    BY <1>3, HomeEffect DEF Lists
  <2> QED
    BY <1>2, <2>1, <2>2, AloneStays, LivesMove DEF Fetching, Unheld
<1>4. CASE ~Finish(p)
  <2>1. /\ Alone(p) /\ loc'[p].call = InHand(p)
        /\ loc'[p].calls = loc[p].calls /\ loc'[p].found = loc[p].found
        /\ \/ loc'[p].pc = "unclaim"
           \/ loc[p].pc \in {"dismiss", "cleanup", "unindex"} /\ loc'[p].pc \in {"count", "announce"}
    BY <1>4, FaultEffect
  <2>2. loc[p].pc \in {"dismiss", "cleanup", "unindex"} => InHand(p) \in Calls /\ life[InHand(p)] > 0
    BY <1>1 DEF Lives, Lasting, Fetching, Unheld
  <2> QED
    BY <1>2, <2>1, <2>2, AloneStays, LivesMove DEF Fetching, Unheld
<1> QED
  BY <1>3, <1>4

LEMMA CrashLives ==
    ASSUME Inv, Lives, Grows, NEW i \in Instances, Crash(i) PROVE Lives'
<1>1. Blank.pc = "idle" /\ Blank.calls = {} /\ Blank.found = {}
  BY DEF Blank
<1>2. ASSUME NEW q \in Procs PROVE Lasting(q)'
  <2>1. CASE loc'[q] = Blank
    BY <1>1, <2>1 DEF Lasting, Fetching, Unheld, At
  <2>2. CASE loc'[q] = loc[q]
    BY <2>2, LastingStays DEF Stays, Holds, InHand
  <2> QED
    BY <2>1, <2>2 DEF Crash
<1> QED
  BY <1>2 DEF Lives, Grows

LEMMA NextLives == Inv /\ Stations' /\ Lives /\ [Next]_vars => Lives'
<1> SUFFICES ASSUME Inv, Stations', Lives, [Next]_vars PROVE Lives'
  OBVIOUS
<1>1. Grows
  BY Growing
<1>2. ASSUME NEW c \in Conns, Client(c) \/ Handle(c) PROVE Lives'
  BY <1>1, <1>2, Kinds, ClientLives, ConnectingLives, InvitingLives, JoiningLives, LeavingLives,
     EndCallLives DEF Handle
<1>3. ASSUME NEW d \in Calls, Time(d) PROVE Lives'
  BY <1>1, <1>3, Kinds, TimerLives, EndCallLives DEF Time
<1>4. ASSUME NEW i \in Instances, Reap(i) PROVE Lives'
  BY <1>1, <1>4, Kinds, SweepingLives, EndCallLives DEF Reap
<1>5. ASSUME UNCHANGED loc PROVE Lives'
  <2>1. \A q \in Procs : Stays(q)
    BY <1>5 DEF Stays, Holds, InHand
  <2> QED
    BY <1>1, <2>1, LastingStays DEF Lives, Grows
<1>6. CASE \/ \E i \in Instances : Restart(i) \/ HeartbeatLapses(i)
           \/ \E d \in Calls : RingingExpires(d)
           \/ UNCHANGED vars
  BY <1>5, <1>6 DEF Restart, HeartbeatLapses, RingingExpires, vars, proc
<1> QED
  BY <1>1, <1>2, <1>3, <1>4, <1>6, FaultLives, CrashLives DEF Next

-----------------------------------------------------------------------------
(* Who may empty a place. *)

(* A place that is emptied under an open connection is emptied by a hang-up  *)
(* of its owner: LeaveIfHeldBy is run by closing sockets only, and what is   *)
(* cleaned up while its record is there is not the call's first life.        *)
LEMMA PlaceKept ==
    ASSUME Inv, Stations, Lives, [Next]_vars, NEW d \in Calls, NEW o \in Owners,
           members[d][o] # None, sock[members[d][o]] = "open", members'[d][o] = None,
           Live(d), life[d] = 1
    PROVE  \E b \in Conns : OwnerOf[b] = o /\ At(b, "leave") /\ InHand(b) = d
<1>1. members \in [Calls -> [Owners -> Conns \cup {None}]]
  BY DEF Inv, TypeOK, RegistryTypeOK
<1>2. ~UNCHANGED <<members, joined>>
  OBVIOUS
<1>3. ASSUME NEW c \in Conns, HJoin(c) PROVE FALSE
  <2>1. c # None /\ InHand(c) \in Calls
    BY <1>3, Kinds, NoneIsNobody, InHandOK DEF HJoin, At, Unheld
  <2>2. JoinWins(InHand(c), c)
    BY <1>3 DEF HJoin, registry
  <2>3. SetMember(InHand(c), OwnerOf[c], c)
    BY <1>3, <2>2 DEF HJoin
  <2> QED
    BY <1>1, <2>1, <2>3 DEF SetMember
<1>4. ASSUME NEW c \in Conns, SAddJoined(c) PROVE FALSE
  BY <1>4 DEF SAddJoined, RecordJoin
<1>5. ASSUME NEW c \in Conns, Leave(c) PROVE OwnerOf[c] = o /\ At(c, "leave") /\ InHand(c) = d
  BY <1>1, <1>5 DEF Leave, SetMember
<1>6. ASSUME NEW c \in Conns, LeaveIfHeldBy(c) PROVE FALSE
  <2>1. sock[c] = "closing"
    BY <1>6 DEF LeaveIfHeldBy, At, Stations, StationOK
  <2>2. HeldBy(InHand(c), c)
    BY <1>6 DEF LeaveIfHeldBy, registry
  <2>3. SetMember(InHand(c), OwnerOf[c], None)
    BY <1>6, <2>2 DEF LeaveIfHeldBy
  <2>4. InHand(c) = d /\ OwnerOf[c] = o
    BY <1>1, <2>3 DEF SetMember
  <2> QED
    BY <2>1, <2>2, <2>4 DEF HeldBy
<1>7. ASSUME NEW p \in Procs, DeleteKeys(p) PROVE FALSE
  <2>1. At(p, "cleanup") /\ CleanUp(InHand(p))
    BY <1>7 DEF DeleteKeys
  <2>2. InHand(p) = d
    BY <1>1, <2>1 DEF CleanUp
  <2> QED
    BY <2>1, <2>2 DEF Lives, Lasting
<1> QED
  BY <1>2, <1>3, <1>4, <1>5, <1>6, <1>7, PlaceFrame

-----------------------------------------------------------------------------
(* Whom a sweep may condemn. *)

(* The calls a sweep may still end or clean up after.                        *)
Suspects(i) ==
    loc[i].found \cup (IF At(i, "reap") THEN loc[i].calls ELSE {})
                \cup (IF loc[i].pc \in Ends THEN loc[i].calls \cup {InHand(i)} ELSE {})

(* What SweepSparesTheHeld says, until the keys of the call are gone.        *)
Spares(i) ==
    /\ loc[i].found # {} => loc[i].pc \in {"look", "members"}
    /\ \A d \in Suspects(i) \cap Calls, o \in Owners :
           members[d][o] # None /\ InstanceOf[members[d][o]] \in loc[i].live
               => <<d, members[d][o]>> \in loc[i].fresh

Spared == \A i \in Instances : Spares(i)

LEMMA InitSpared == Init => Spared
<1>1. Blank.pc = "idle" /\ Blank.found = {}
  BY DEF Blank
<1> QED
  BY <1>1, Kinds DEF Init, Spared, Spares, Suspects, At, Ends, Telling

(* Nobody new sits anywhere. *)
Thins == \A d \in Calls, o \in Owners : members'[d][o] \in {members[d][o], None}

LEMMA Thinning ==
    ASSUME Inv, [Next]_vars, ~(\E c \in Conns : HJoin(c) /\ JoinWins(InHand(c), c))
    PROVE  Thins
<1>1. members \in [Calls -> [Owners -> Conns \cup {None}]]
  BY DEF Inv, TypeOK, RegistryTypeOK
<1>2. ASSUME NEW c \in Conns, SAddJoined(c) \/ HJoin(c) PROVE Thins
  BY <1>2 DEF SAddJoined, RecordJoin, HJoin, registry, Thins
<1>3. ASSUME NEW c \in Conns, Leave(c) \/ LeaveIfHeldBy(c) PROVE Thins
  BY <1>1, <1>3 DEF Leave, LeaveIfHeldBy, SetMember, registry, Thins
<1>4. ASSUME NEW p \in Procs, DeleteKeys(p) PROVE Thins
  BY <1>1, <1>4 DEF DeleteKeys, CleanUp, Thins
<1>5. UNCHANGED <<members, joined>> => Thins
  BY DEF Thins
<1> QED
  BY <1>2, <1>3, <1>4, <1>5, PlaceFrame

(* A sweep that goes on with no more suspects than it had.                   *)
LEMMA SparesMove ==
    ASSUME Inv, Thins, NEW i \in Instances, Spares(i),
           Suspects(i)' \cap Calls \subseteq Suspects(i),
           loc'[i].live = loc[i].live, loc'[i].fresh = loc[i].fresh,
           loc'[i].found # {} => loc'[i].pc \in {"look", "members"}
    PROVE  Spares(i)'
<1>1. ASSUME NEW d \in Calls, d \in Suspects(i)', NEW o \in Owners,
             members'[d][o] # None, InstanceOf[members'[d][o]] \in loc[i].live
      PROVE  <<d, members'[d][o]>> \in loc[i].fresh
  <2>1. members'[d][o] = members[d][o] /\ d \in Suspects(i)
    BY <1>1 DEF Thins
  <2> QED
    BY <1>1, <2>1 DEF Spares
<1> QED
  BY <1>1 DEF Spares

LEMMA SparesNobody ==
    ASSUME NEW i, Suspects(i)' = {}, loc'[i].found = {} PROVE Spares(i)'
BY DEF Spares

LEMMA SweepingSpares ==
    ASSUME Inv, Stations, Thins, NEW i \in Instances, Spares(i), Sweeping(i)
    PROVE  Spares(i)'
<1>1. i \in Procs /\ loc[i] \in Local
  BY Kinds, InHandOK
<1>2. "scan" \notin Ends /\ "look" \notin Ends /\ "members" \notin Ends /\ "reap" \notin Ends
  BY DEF Ends, Telling
<1>3. CASE SweepHeartbeats(i) \/ SweepDone(i)
  <2>1. loc'[i].pc \in {"scan", "idle"} /\ loc'[i].found = {}
    BY <1>1, <1>3, SweepHeartbeatsEffect, BlankEffect DEF SweepDone, Anew, Holds, Lists
  <2>2. Suspects(i)' = {}
    BY <1>2, <2>1 DEF Suspects, At, Ends, Telling
  <2> QED
    BY <2>1, <2>2, SparesNobody
<1>4. CASE SweepScan(i) \/ SweepGet(i)
  <2>1. /\ loc'[i].pc \in {"look", "members"} /\ loc'[i].found = loc[i].found /\ Same(i)
    BY <1>1, <1>4, SweepScanEffect, SweepGetEffect DEF Holds, Lists
  <2>2. Suspects(i)' = loc[i].found
    BY <1>2, <2>1 DEF Suspects, At
  <2>3. loc[i].found \subseteq Suspects(i)
    BY DEF Suspects
  <2> QED
    BY <2>1, <2>2, <2>3, SparesMove DEF Same
<1>5. CASE SweepMembers(i)
  <2>1. /\ loc'[i].pc = "look" /\ Same(i) /\ UNCHANGED members
        /\ loc'[i].found = IF Orphaned(InHand(i), loc[i].live)
                           THEN loc[i].found \cup {InHand(i)} ELSE loc[i].found
    BY <1>1, <1>5, SweepMembersEffect DEF SweepMembers, registry, Holds, Lists
  <2>2. Suspects(i)' = loc'[i].found /\ loc[i].found \subseteq Suspects(i)
    BY <1>2, <2>1 DEF Suspects, At
  <2>3. CASE ~Orphaned(InHand(i), loc[i].live)
    BY <2>1, <2>2, <2>3, SparesMove DEF Same
  <2>4. CASE Orphaned(InHand(i), loc[i].live)
    <3>1. \A o \in Owners : members[InHand(i)][o] # None
              => InstanceOf[members[InHand(i)][o]] \notin loc[i].live
      BY <2>4 DEF Orphaned, Members
    <3> QED
      BY <2>1, <2>2, <2>4, <3>1 DEF Spares, Same
  <2> QED
    BY <2>3, <2>4
<1>6. CASE SweepFound(i)
  <2>1. loc'[i].pc = "reap" /\ loc'[i].calls = loc[i].found /\ loc'[i].found = {} /\ Same(i)
    BY <1>6, SweepFoundEffect DEF Holds, Lists
  <2>2. Suspects(i)' = loc[i].found /\ loc[i].found \subseteq Suspects(i)
    BY <1>2, <2>1 DEF Suspects, At
  <2> QED
    BY <2>1, <2>2, SparesMove DEF Same
<1>7. CASE ReapOrphan(i)
  <2>1. PICK d \in loc[i].calls : Holds(i, "end", d) /\ Lists(i, loc[i].calls \ {d}, loc[i].found, loc[i].owners)
    BY <1>7, ReapOrphanEffect
  <2>2. loc[i].pc = "reap" /\ Same(i)
    BY <1>7, ReapOrphanEffect DEF ReapOrphan, At
  <2>3. loc[i].found = {}
    BY <2>2 DEF Spares
  <2>4. Suspects(i)' \subseteq Suspects(i)
    BY <2>1, <2>2 DEF Suspects, At, Holds, Lists, InHand
  <2> QED
    BY <2>1, <2>2, <2>3, <2>4, SparesMove DEF Same, Lists
<1> QED
  BY <1>3, <1>4, <1>5, <1>6, <1>7 DEF Sweeping

(* Ending a call, whether it goes on, returns to the sweep or fails.         *)
LEMMA EndingSpares ==
    ASSUME Inv, Stations, Thins, NEW i \in Instances, Spares(i), EndCall(i) \/ Fault(i)
    PROVE  Spares(i)'
<1>1. i \in Procs /\ loc[i] \in Local
  BY Kinds, InHandOK
<1>2. loc[i].pc \in Ends
  <2>1. EndCall(i) => loc[i].pc \in Ends
    BY DEF EndCall, EndCancelTimer, ClaimEnding, DeleteKeys, Unindex, AnnounceEnding, At, Ends,
       Telling
  <2>2. Fault(i) => loc[i].pc \in Ends
    BY DEF Fault, Stations, Sweeps, Ends, Telling
  <2> QED
    BY <2>1, <2>2
<1>3. loc[i].found = {}
  BY <1>2 DEF Spares, Ends, Telling
<1>4. CASE Finish(i)
  <2>1. LoopHead(i) = "reap"
    BY DEF LoopHead
  <2>2. /\ loc'[i].pc = "reap" /\ loc'[i].calls = loc[i].calls /\ loc'[i].found = {}
        /\ loc'[i].live = loc[i].live /\ loc'[i].fresh = loc[i].fresh
    BY <1>1, <1>4, <2>1, HomeEffect DEF Holds, Lists
  <2>3. Suspects(i)' = loc[i].calls /\ loc[i].calls \subseteq Suspects(i)
    BY <1>2, <2>2 DEF Suspects, At, Ends, Telling
  <2> QED
    BY <2>2, <2>3, SparesMove
<1>5. CASE /\ loc'[i].pc \in Ends /\ loc'[i].call = InHand(i)
           /\ loc'[i].calls = loc[i].calls /\ loc'[i].found = loc[i].found
           /\ loc'[i].live = loc[i].live /\ loc'[i].fresh = loc[i].fresh
  <2>1. loc'[i].pc # "reap"
    BY <1>5 DEF Ends, Telling
  <2>2. Suspects(i)' \subseteq Suspects(i)
    BY <1>2, <1>5, <2>1 DEF Suspects, At, InHand
  <2> QED
    BY <1>3, <1>5, <2>2, SparesMove
<1>6. CASE EndCall(i)
  BY <1>1, <1>4, <1>5, <1>6, GotoEffect, ClaimEndingEffect, DeleteKeysEffect, UnindexEffect
     DEF EndCall, EndCancelTimer, AnnounceEnding, Holds, Lists, Same, Ends, Telling
<1>7. CASE Fault(i)
  BY <1>1, <1>2, <1>4, <1>5, <1>7, FaultEffect DEF Same, Ends, Telling
<1> QED
  BY <1>6, <1>7

(* The one place that a write to the member hash changes.                    *)
LEMMA PlaceSet ==
    ASSUME RegistryTypeOK, NEW d \in Calls, NEW o \in Owners, NEW c, SetMember(d, o, c),
           NEW e \in Calls, NEW p \in Owners
    PROVE  members'[e][p] = IF e = d /\ p = o THEN c ELSE members[e][p]
<1>1. members \in [Calls -> [Owners -> Conns \cup {None}]]
  BY DEF RegistryTypeOK
<1>2. members' = [members EXCEPT ![d][o] = c]
  BY DEF SetMember
<1>3. CASE e = d
  BY <1>1, <1>2, <1>3
<1>4. CASE e # d
  BY <1>1, <1>2, <1>4
<1> QED
  BY <1>3, <1>4

LEMMA NextSpared == Inv /\ Stations /\ Spared /\ [Next]_vars => Spared'
<1> SUFFICES ASSUME Inv, Stations, Spared, [Next]_vars, NEW i \in Instances PROVE Spares(i)'
  BY DEF Spared
<1>1. i \in Procs /\ Spares(i)
  BY Kinds DEF Spared
<1>2. CASE \E c \in Conns : HJoin(c) /\ JoinWins(InHand(c), c)
  <2>1. PICK c \in Conns : HJoin(c) /\ JoinWins(InHand(c), c)
    BY <1>2
  <2>2. PICK d \in Calls : d = InHand(c)
    BY <2>1, Kinds, InHandOK DEF HJoin, At, Unheld
  <2>3. i # c /\ SetMember(d, OwnerOf[c], c)
    BY <2>1, <2>2, Kinds, HJoinEffect
  <2>4. CASE loc'[i] = loc[i] /\ loc[i].pc = "idle"
    <3>1. loc[i].found = {}
      BY <1>1, <2>4 DEF Spares
    <3>2. Suspects(i)' = {}
      BY <2>4, <3>1 DEF Suspects, At, Ends, Telling
    <3> QED
      BY <2>4, <3>1, <3>2, SparesNobody
  <2>5. CASE /\ loc'[i].fresh = loc[i].fresh \cup {<<d, c>>}
             /\ loc'[i].live = loc[i].live /\ Holds(i, loc[i].pc, InHand(i))
             /\ Lists(i, loc[i].calls, loc[i].found, loc[i].owners)
    <3>1. Suspects(i)' = Suspects(i)
      BY <2>5 DEF Suspects, At, Holds, Lists, InHand
    <3>2. \A e \in Calls, o \in Owners :
             members'[e][o] # members[e][o] => e = d /\ members'[e][o] = c
      <4>1. OwnerOf[c] \in Owners /\ RegistryTypeOK
        BY <2>1, ConnsAreServed DEF Inv, TypeOK
      <4> QED
        BY <2>2, <2>3, <4>1, PlaceSet
    <3> QED
      BY <1>1, <2>5, <3>1, <3>2 DEF Spares, Holds, Lists
  <2> QED
    BY <1>1, <2>1, <2>2, <2>3, <2>4, <2>5, HJoinEffect
<1>3. CASE ~(\E c \in Conns : HJoin(c) /\ JoinWins(InHand(c), c))
  <2>1. Thins
    BY <1>3, Thinning
  <2>2. CASE loc'[i] = loc[i]
    <3>1. Suspects(i)' = Suspects(i)
      BY <2>2 DEF Suspects, At, InHand
    <3> QED
      BY <1>1, <2>1, <2>2, <3>1, SparesMove DEF Spares
  <2>3. CASE loc'[i] = Blank
    <3>1. Blank.pc = "idle" /\ Blank.found = {}
      BY DEF Blank
    <3>2. Suspects(i)' = {}
      BY <2>3, <3>1 DEF Suspects, At, Ends, Telling
    <3> QED
      BY <2>3, <3>1, <3>2, SparesNobody
  <2>4. ASSUME NEW p \in Procs, Alone(p), p # i PROVE loc'[i] = loc[i]
    BY <1>1, <2>4 DEF Alone
  <2>5. ASSUME NEW c \in Conns, HJoin(c) PROVE loc'[i] = loc[i]
    BY <1>1, <1>3, <2>5, Kinds, MovedOne DEF HJoin, Goto, Finish, Alone
  <2>6. ASSUME NEW c \in Conns, Client(c) \/ Handle(c) PROVE loc'[i] = loc[i]
    BY <2>4, <2>5, <2>6, Kinds, MovesAlone
  <2>7. ASSUME NEW d \in Calls, Time(d) PROVE loc'[i] = loc[i]
    BY <2>4, <2>7, Kinds, MovesAlone
  <2>8. ASSUME NEW j \in Instances, Reap(j) PROVE Spares(i)'
    <3>1. CASE j = i
      BY <1>1, <2>1, <2>8, <3>1, SweepingSpares, EndingSpares DEF Reap
    <3> QED
      BY <2>2, <2>4, <2>8, <3>1, Kinds, MovesAlone
  <2>9. ASSUME NEW p \in Procs, Fault(p) PROVE Spares(i)'
    <3>1. CASE p = i
      BY <1>1, <2>1, <2>9, <3>1, EndingSpares
    <3> QED
      BY <2>2, <2>4, <2>9, <3>1, MovesAlone
  <2>10. ASSUME NEW j \in Instances, Crash(j) PROVE Spares(i)'
    BY <1>1, <2>2, <2>3, <2>10 DEF Crash
  <2>11. CASE \/ \E j \in Instances : Restart(j) \/ HeartbeatLapses(j)
              \/ \E d \in Calls : RingingExpires(d)
              \/ UNCHANGED vars
    BY <2>2, <2>11 DEF Restart, HeartbeatLapses, RingingExpires, vars, proc
  <2> QED
    BY <2>2, <2>6, <2>7, <2>8, <2>9, <2>10, <2>11 DEF Next
<1> QED
  BY <1>2, <1>3

-----------------------------------------------------------------------------
PlacesInv == Stations /\ Lives /\ Spared

LEMMA PlacesInvariance == Spec => [](Inv /\ PlacesInv)
<1>1. Init => PlacesInv
  BY InitStations, InitLives, InitSpared DEF PlacesInv
<1>2. Inv /\ PlacesInv /\ [Next]_vars => PlacesInv'
  BY NextStations, NextLives, NextSpared DEF PlacesInv
<1> QED
  BY <1>1, <1>2, Invariance, PTL DEF Spec

(* FindOrphans and ReapOrphanedCalls: a sweep condemns, ends and cleans up   *)
(* only calls in which nobody sits over a connection to an instance whose    *)
(* heartbeat it had seen, except who won a place after the sweep began.      *)
THEOREM SweepSpares == Spec => []SweepSparesTheHeld
<1>1. Inv /\ Spared => SweepSparesTheHeld
  <2> SUFFICES ASSUME Inv, Spared, NEW i \in Instances, NEW d \in Condemned(i), NEW o \in Members(d),
                      InstanceOf[members[d][o]] \in loc[i].live
               PROVE  <<d, members[d][o]>> \in loc[i].fresh
    BY DEF SweepSparesTheHeld
  <2>1. d \in Suspects(i)
    BY DEF Condemned, Suspects, Ends
  <2>2. i \in Procs /\ loc[i] \in Local
    BY Kinds, InHandOK
  <2>3. d \in Calls
    BY <2>2, InHandOK DEF Condemned, Local, Unheld
  <2> QED
    BY <2>1, <2>3 DEF Spared, Spares, Members
<1> QED
  BY <1>1, PlacesInvariance, PTL DEF PlacesInv

(* leaveScript and releaseCalls: as long as a call is in its first life, the *)
(* place of an open connection is emptied by nothing but a hang-up of the    *)
(* same person, whatever closes, fires, sweeps, crashes or fails.            *)
THEOREM OpenPlaces == Spec => OpenPlaceIsKept
<1> DEFINE Kept == \A d \in Calls, o \in Owners :
        LET c == members[d][o] IN
        /\ c # None /\ sock[c] = "open" /\ members'[d][o] = None
        /\ Live(d) /\ life[d] = 1
        => \E b \in Conns : OwnerOf[b] = o /\ At(b, "leave") /\ InHand(b) = d
<1>1. Inv /\ PlacesInv /\ [Next]_vars => [Kept]_vars
  BY PlaceKept DEF PlacesInv
<1>2. Spec => [][Kept]_vars
  BY <1>1, PlacesInvariance, PTL DEF Spec
<1> QED
  BY <1>2 DEF OpenPlaceIsKept

-----------------------------------------------------------------------------
(* Whatever hang-ups, closing sockets, ring timers, sweeps, crashes and     *)
(* failed commands coincide, every step of the service is a step of what   *)
(* endCall promises about the end of a call.                               *)

(* A process that holds an ending after a step held it before.               *)
Keeps(p) ==
    loc'[p].mine # 0 => loc'[p].mine = loc[p].mine /\ loc'[p].call = loc[p].call

(* Every call is live or not as before, in the life it was in.               *)
Still == UNCHANGED life /\ \A d \in Calls : Live(d)' <=> Live(d)

LEMMA StillOpen == Still => UNCHANGED OpenLives
BY DEF Still, OpenLives

-----------------------------------------------------------------------------
(* Which steps take an ending: none but the consume of the record.           *)

LEMMA NotTelling ==
    ASSUME Inv, NEW p \in Procs, loc[p].pc \notin Telling, loc'[p].mine = loc[p].mine
    PROVE  loc'[p].mine = 0
BY InHandOK

LEMMA ClientKeeps == ASSUME Inv, NEW c \in Conns, Client(c) PROVE loc'[c].mine = 0
BY ConnectEffect, InviteEffect, JoinEffect, HangupEffect, CloseEffect DEF Client, Anew

LEMMA ConnectingKeeps == ASSUME Inv, NEW c \in Conns, Connecting(c) PROVE loc'[c].mine = 0
<1>1. c \in Procs
  BY Kinds
<1>2. loc[c].pc \notin Telling
  BY DEF Connecting, PendingIndex, PendingGet, PendingJoined, PendingDismissed, RingPending,
     At, Telling
<1>3. loc'[c].mine = 0 \/ loc'[c].mine = loc[c].mine
  BY <1>1, PendingIndexEffect, PendingGetEffect, GotoEffect, PendingDismissedEffect, BlankEffect
     DEF Connecting, PendingJoined, RingPending, Same, Anew
<1> QED
  BY <1>1, <1>2, <1>3, NotTelling

LEMMA InvitingKeeps == ASSUME Inv, NEW c \in Conns, Inviting(c) PROVE loc'[c].mine = 0
<1>1. c \in Procs
  BY Kinds
<1>2. loc[c].pc \notin Telling
  BY DEF Inviting, ClaimConversation, CheckHolder, StealClaim, SaveRinging, UndoClaim,
     IndexOwner, Ring, ArmRingTimeout, At, Telling
<1>3. loc'[c].mine = 0 \/ loc'[c].mine = loc[c].mine
  BY <1>1, ClaimConversationEffect, SaveRingingEffect, IndexOwnerEffect, GotoEffect, HomeEffect
     DEF Inviting, CheckHolder, StealClaim, UndoClaim, Ring, ArmRingTimeout, Same
<1> QED
  BY <1>1, <1>2, <1>3, NotTelling

LEMMA JoiningKeeps == ASSUME Inv, NEW c \in Conns, Joining(c) PROVE loc'[c].mine = 0
<1>1. c \in Procs
  BY Kinds
<1>2. loc[c].pc \notin Telling
  BY DEF Joining, CheckRoom, HJoin, SAddJoined, Activate, ExtendClaim, PublishStarted, At,
     Telling
<1>3. HJoin(c) => loc'[c].mine = 0 \/ loc'[c].mine = loc[c].mine
  <2>1. CASE HJoin(c) /\ JoinWins(InHand(c), c)
    BY <2>1, HJoinEffect DEF Same
  <2>2. CASE HJoin(c) /\ ~JoinWins(InHand(c), c)
    BY <1>1, <2>2, GotoEffect, HomeEffect DEF HJoin, Same
  <2> QED
    BY <2>1, <2>2
<1>4. loc'[c].mine = 0 \/ loc'[c].mine = loc[c].mine
  BY <1>1, <1>3, GotoEffect, HomeEffect
     DEF Joining, CheckRoom, SAddJoined, Activate, ExtendClaim, PublishStarted, Same
<1> QED
  BY <1>1, <1>2, <1>4, NotTelling

LEMMA LeavingKeeps == ASSUME Inv, NEW c \in Conns, Leaving(c) PROVE loc'[c].mine = 0
<1>1. c \in Procs
  BY Kinds
<1>2. loc[c].pc \notin Telling
  BY DEF Leaving, Leave, DismissLeaver, CountMembers, ReleaseNext, LeaveIfHeldBy, Closed, At,
     Telling
<1>3. loc'[c].mine = 0 \/ loc'[c].mine = loc[c].mine
  BY <1>1, GotoEffect, HomeEffect, CountMembersEffect, ReleaseNextEffect, BlankEffect
     DEF Leaving, Leave, DismissLeaver, LeaveIfHeldBy, Closed, Same, Anew
<1> QED
  BY <1>1, <1>2, <1>3, NotTelling

(* The timers and the sweeps. *)
LEMMA ClockKeeps ==
    ASSUME Inv, NEW p \in Procs,
           \/ p \in Calls /\ (RingTimeout(p) \/ RingTimeoutFired(p))
           \/ p \in Instances /\ Sweeping(p)
    PROVE  loc'[p].mine = 0
<1>1. loc[p].pc \notin Telling
  BY DEF RingTimeout, RingTimeoutFired, Sweeping, SweepHeartbeats, SweepScan, SweepGet,
     SweepMembers, SweepFound, ReapOrphan, SweepDone, At, Telling
<1>2. loc'[p].mine = 0 \/ loc'[p].mine = loc[p].mine
  BY RingTimeoutEffect, RingTimeoutFiredEffect, SweepHeartbeatsEffect, SweepScanEffect,
     SweepGetEffect, SweepMembersEffect, SweepFoundEffect, ReapOrphanEffect, BlankEffect
     DEF Sweeping, SweepDone, Same, Anew
<1> QED
  BY <1>1, <1>2, NotTelling

LEMMA EndCallKeeps ==
    ASSUME Inv, NEW p \in Procs, EndCall(p), ~ClaimEnding(p) PROVE Keeps(p)
BY GotoEffect, HomeEffect, DeleteKeysEffect, UnindexEffect
   DEF EndCall, EndCancelTimer, AnnounceEnding, Keeps, Same, Holds, InHand

LEMMA FaultKeeps == ASSUME Inv, NEW p \in Procs, Fault(p) PROVE Keeps(p)
BY FaultEffect, HomeEffect DEF Keeps, Same, InHand

LEMMA NextKeeps ==
    ASSUME Inv, [Next]_vars, \A p \in Procs : ~ClaimEnding(p), NEW q \in Procs
    PROVE  Keeps(q)
<1>1. loc'[q] = loc[q] \/ loc'[q].mine = 0 => Keeps(q)
  BY DEF Keeps
<1>2. ASSUME NEW c \in Conns, HJoin(c) PROVE Keeps(q)
  <2>1. CASE JoinWins(InHand(c), c)
    <3>1. CASE q = c
      BY <1>1, <1>2, <3>1, JoiningKeeps DEF Joining
    <3>2. CASE q # c
      BY <1>2, <2>1, <3>2, HJoinEffect DEF Keeps, Holds, InHand
    <3> QED
      BY <3>1, <3>2
  <2>2. CASE ~JoinWins(InHand(c), c)
    <3>1. Alone(c)
      BY <1>2, <2>2, Kinds, GotoEffect, HomeEffect DEF HJoin
    <3> QED
      BY <1>1, <1>2, <3>1, JoiningKeeps DEF Joining, Alone
  <2> QED
    BY <2>1, <2>2
<1>3. ASSUME NEW p \in Procs, Alone(p), Keeps(p) PROVE Keeps(q)
  BY <1>1, <1>3 DEF Alone
<1>4. ASSUME NEW c \in Conns, Client(c) \/ Handle(c), ~HJoin(c) PROVE Keeps(q)
  <2>1. c \in Procs /\ Alone(c)
    BY <1>4, Kinds, MovesAlone
  <2>2. Keeps(c)
    BY <1>4, <2>1, ClientKeeps, ConnectingKeeps, InvitingKeeps, JoiningKeeps, LeavingKeeps,
       EndCallKeeps DEF Handle, Keeps
  <2> QED
    BY <1>3, <2>1, <2>2
<1>5. ASSUME NEW d \in Calls, Time(d) PROVE Keeps(q)
  <2>1. d \in Procs /\ Alone(d)
    BY <1>5, Kinds, MovesAlone
  <2>2. Keeps(d)
    BY <1>5, <2>1, ClockKeeps, EndCallKeeps DEF Time, Keeps
  <2> QED
    BY <1>3, <2>1, <2>2
<1>6. ASSUME NEW i \in Instances, Reap(i) PROVE Keeps(q)
  <2>1. i \in Procs /\ Alone(i)
    BY <1>6, Kinds, MovesAlone
  <2>2. Keeps(i)
    BY <1>6, <2>1, ClockKeeps, EndCallKeeps DEF Reap, Keeps
  <2> QED
    BY <1>3, <2>1, <2>2
<1>7. ASSUME NEW p \in Procs, Fault(p) PROVE Keeps(q)
  BY <1>3, <1>7, FaultKeeps, MovesAlone
<1>8. ASSUME NEW i \in Instances, Crash(i) PROVE Keeps(q)
  BY <1>1, <1>8, BlankIsLocal DEF Crash
<1>9. CASE \/ \E i \in Instances : Restart(i) \/ HeartbeatLapses(i)
           \/ \E d \in Calls : RingingExpires(d)
           \/ UNCHANGED vars
  BY <1>1, <1>9 DEF Restart, HeartbeatLapses, RingingExpires, vars, proc
<1> QED
  BY <1>2, <1>4, <1>5, <1>6, <1>7, <1>8, <1>9 DEF Next

-----------------------------------------------------------------------------
(* Which steps tell of an ending. *)

LEMMA ToldFrame ==
    ASSUME [Next]_vars, \A p \in Procs : ~AnnounceEnding(p)
    PROVE  UNCHANGED told
<1>1. ASSUME NEW c, Client(c) \/ Connecting(c) PROVE UNCHANGED told
  BY <1>1 DEF Client, Connect, Invite, Join, Hangup, Close, Connecting, PendingIndex,
     PendingGet, PendingJoined, PendingDismissed, RingPending, events
<1>2. ASSUME NEW c, Inviting(c) \/ Joining(c) PROVE UNCHANGED told
  BY <1>2 DEF Inviting, ClaimConversation, CheckHolder, StealClaim, SaveRinging, UndoClaim,
     IndexOwner, Ring, ArmRingTimeout, Joining, CheckRoom, HJoin, SAddJoined, Activate,
     ExtendClaim, PublishStarted, events
<1>3. ASSUME NEW c, Leaving(c) PROVE UNCHANGED told
  BY <1>3 DEF Leaving, Leave, DismissLeaver, CountMembers, ReleaseNext, LeaveIfHeldBy, Closed,
     events
<1>4. ASSUME NEW p \in Procs, EndCall(p) PROVE UNCHANGED told
  BY <1>4 DEF EndCall, EndCancelTimer, ClaimEnding, DeleteKeys, Unindex, events
<1>5. ASSUME NEW p, RingTimeout(p) \/ RingTimeoutFired(p) \/ Sweeping(p) PROVE UNCHANGED told
  BY <1>5 DEF RingTimeout, RingTimeoutFired, Sweeping, SweepHeartbeats, SweepScan, SweepGet,
     SweepMembers, SweepFound, ReapOrphan, SweepDone, events
<1>6. ASSUME NEW p, Fault(p) \/ Crash(p) \/ Restart(p) \/ HeartbeatLapses(p) \/ RingingExpires(p)
      PROVE  UNCHANGED told
  BY <1>6 DEF Fault, Crash, Restart, HeartbeatLapses, RingingExpires, events
<1>7. UNCHANGED vars => UNCHANGED told
  BY DEF vars, events
<1> QED
  BY <1>1, <1>2, <1>3, <1>4, <1>5, <1>6, <1>7, Kinds DEF Next, Handle, Time, Reap

-----------------------------------------------------------------------------
(* The steps of the abstract endings. *)

(* Whatever begins, takes, tells or expires no life at most loses an ending. *)
LEMMA LoseStep ==
    ASSUME Still, UNCHANGED told, \A q \in Procs : Keeps(q) PROVE Abstract!Next
<1>1. UNCHANGED OpenLives
  BY StillOpen
<1>2. \A q \in Procs : Ending(q)' => Ending(q) /\ EndingOf(q)' = EndingOf(q)
  BY DEF Keeps, Ending, EndingOf
<1>3. TakenLives' \subseteq TakenLives
  BY <1>2 DEF TakenLives
<1>4. Abstract!Lose
  <2> DEFINE lost == TakenLives \ TakenLives'
  <2>1. lost \in SUBSET TakenLives /\ TakenLives' = TakenLives \ lost
    BY <1>3
  <2> QED
    BY <1>1, <2>1 DEF Abstract!Lose, Still
<1> QED
  BY <1>4 DEF Abstract!Next

(* A write of the record begins a life if there was no record.               *)
LEMMA BeginStep ==
    ASSUME Inv, NEW c \in Conns, NEW d \in Calls, NEW s \in {"ringing", "active"}, Save(d, s),
           \A q \in Procs : Keeps(q), UNCHANGED told,
           Alone(c), loc[c].pc \notin Telling
    PROVE  Abstract!Next
<1>1. /\ life \in [Calls -> Nat] /\ rec \in [Calls -> Status]
      /\ rec' = [rec EXCEPT ![d] = s]
      /\ life' = IF Live(d) THEN life ELSE [life EXCEPT ![d] = @ + 1]
  BY DEF Inv, TypeOK, RegistryTypeOK, Save
<1>2. CASE Live(d)
  <2>1. Still
    BY <1>1, <1>2 DEF Still, Live
  <2> QED
    BY <2>1, LoseStep
<1>3. CASE ~Live(d)
  <2>1. \A e \in Calls : Live(e)' <=> (Live(e) \/ e = d)
    BY <1>1 DEF Live
  <2>2. \A e \in Calls : life'[e] = IF e = d THEN life[d] + 1 ELSE life[e]
    BY <1>1, <1>3
  <2>3. OpenLives' = OpenLives \cup {<<d, life[d] + 1>>}
    BY <1>3, <2>1, <2>2 DEF OpenLives
  <2>4. \A x \in OpenLives : x[1] # d
    BY <1>3 DEF OpenLives
  <2>5. c \in Procs /\ loc[c].mine = 0 /\ loc'[c].mine = 0
    BY Kinds, InHandOK DEF Keeps
  <2>6. \A q \in Procs : (Ending(q)' <=> Ending(q)) /\ (Ending(q) => EndingOf(q)' = EndingOf(q))
    BY <2>5 DEF Alone, Ending, EndingOf
  <2>7. UNCHANGED TakenLives
    BY <2>6 DEF TakenLives
  <2>8. Abstract!Begin(d)
    BY <1>1, <1>3, <2>3, <2>4, <2>7 DEF Abstract!Begin
  <2> QED
    BY <2>8 DEF Abstract!Next
<1> QED
  BY <1>2, <1>3

(* Who consumes the record takes the ending of the life it was in.           *)
LEMMA TakeStep == ASSUME Inv, Lives, NEW p \in Procs, ClaimEnding(p) PROVE Abstract!Next
<1> DEFINE d == InHand(p)
           x == <<d, life[d]>>
<1>1. d \in Calls /\ loc[p].mine = 0
  BY InHandOK DEF ClaimEnding, At, Unheld, Telling
<1>2. /\ rec \in [Calls -> Status] /\ rec' = [rec EXCEPT ![d] = "none"]
      /\ UNCHANGED <<life, told>>
  BY DEF Inv, TypeOK, RegistryTypeOK, ClaimEnding, Consume, events
<1>3. /\ Alone(p) /\ loc'[p].call = d
      /\ loc'[p].mine = IF Live(d) THEN life[d] ELSE 0
  BY ClaimEndingEffect DEF Holds
<1>4. CASE ~Live(d)
  <2>1. Still
    BY <1>2, <1>4 DEF Still, Live
  <2>2. \A q \in Procs : Keeps(q)
    BY <1>3, <1>4 DEF Keeps, Alone
  <2> QED
    BY <1>2, <2>1, <2>2, LoseStep
<1>5. CASE Live(d)
  <2>1. \A e \in Calls : Live(e)' <=> Live(e) /\ e # d
    BY <1>1, <1>2 DEF Live
  <2>2. x \in OpenLives /\ OpenLives' = OpenLives \ {x}
    BY <1>1, <1>2, <1>5, <2>1 DEF OpenLives
  <2>3. Ending(p)' /\ EndingOf(p)' = x /\ ~Ending(p)
    BY <1>1, <1>3, <1>5 DEF Lives, Ending, EndingOf
  <2>4. \A q \in Procs \ {p} : (Ending(q)' <=> Ending(q)) /\ EndingOf(q)' = EndingOf(q)
    BY <1>3 DEF Alone, Ending, EndingOf
  <2>5. TakenLives' = TakenLives \cup {x}
    BY <2>3, <2>4 DEF TakenLives
  <2>6. Abstract!Take(x)
    BY <1>2, <2>2, <2>5 DEF Abstract!Take
  <2> QED
    BY <2>2, <2>6 DEF Abstract!Next
<1> QED
  BY <1>4, <1>5

(* Nobody else holds the ending that is told.                                *)
LEMMA TellStep == ASSUME Inv, NEW p \in Procs, AnnounceEnding(p) PROVE Abstract!Next
<1> DEFINE x == EndingOf(p)
<1>1. Ending(p)
  BY InHandOK DEF AnnounceEnding, At, Handy, Ending
<1>2. /\ Alone(p) /\ ~Ending(p)'
      /\ UNCHANGED <<rec, life>> /\ told' = told \cup {x}
  BY HomeEffect DEF AnnounceEnding, Ending, EndingOf, InHand, registry
<1>3. UNCHANGED <<life, OpenLives>>
  BY <1>2 DEF OpenLives, Live
<1>4. \A q \in Procs \ {p} :
         (Ending(q)' <=> Ending(q)) /\ EndingOf(q)' = EndingOf(q) /\ (Ending(q) => EndingOf(q) # x)
  BY <1>1, <1>2 DEF Alone, Ending, EndingOf, Inv, OneAnnouncerPerLife
<1>5. x \in TakenLives /\ TakenLives' = TakenLives \ {x}
  BY <1>1, <1>2, <1>4 DEF TakenLives
<1>6. Abstract!Tell(x)
  BY <1>2, <1>3, <1>5 DEF Abstract!Tell
<1> QED
  BY <1>5, <1>6 DEF Abstract!Next

LEMMA ExpireStep ==
    ASSUME Inv, NEW d \in Calls, RingingExpires(d) PROVE Abstract!Next
<1>1. /\ rec \in [Calls -> Status] /\ rec' = [rec EXCEPT ![d] = "none"]
      /\ UNCHANGED <<life, told, loc>>
  BY DEF Inv, TypeOK, RegistryTypeOK, RingingExpires, Lapse, proc, events
<1>2. CASE ~Live(d)
  <2>1. Still /\ \A q \in Procs : Keeps(q)
    BY <1>1, <1>2 DEF Still, Live, Keeps
  <2> QED
    BY <1>1, <2>1, LoseStep
<1>3. CASE Live(d)
  <2> DEFINE x == <<d, life[d]>>
  <2>1. \A e \in Calls : Live(e)' <=> Live(e) /\ e # d
    BY <1>1 DEF Live
  <2>2. x \in OpenLives /\ OpenLives' = OpenLives \ {x}
    BY <1>1, <1>3, <2>1 DEF OpenLives
  <2>3. UNCHANGED TakenLives
    BY <1>1 DEF TakenLives, Ending, EndingOf
  <2>4. Abstract!Expire(x)
    BY <1>1, <2>2, <2>3 DEF Abstract!Expire
  <2> QED
    BY <2>2, <2>4 DEF Abstract!Next
<1> QED
  BY <1>2, <1>3

-----------------------------------------------------------------------------
LEMMA InitEndings == Init => Abstract!Init
<1> SUFFICES ASSUME Init PROVE Abstract!Init
  OBVIOUS
<1>1. \A d \in Calls : ~Live(d)
  BY DEF Init, RegistryInit, Live
<1>2. \A p \in Procs : ~Ending(p)
  BY BlankIsLocal DEF Init, Ending
<1>3. OpenLives = {} /\ TakenLives = {}
  BY <1>1, <1>2 DEF OpenLives, TakenLives
<1> QED
  BY <1>3 DEF Init, RegistryInit, Abstract!Init

LEMMA NextEndings == Inv /\ Lives /\ [Next]_vars => Abstract!Next
<1> SUFFICES ASSUME Inv, Lives, [Next]_vars PROVE Abstract!Next
  OBVIOUS
<1>1. CASE \E p \in Procs : ClaimEnding(p)
  BY <1>1, TakeStep
<1>2. CASE \E p \in Procs : AnnounceEnding(p)
  BY <1>2, TellStep
<1>3. CASE \E d \in Calls : RingingExpires(d)
  BY <1>3, ExpireStep
<1>4. CASE ~\E p \in Procs : ClaimEnding(p) \/ AnnounceEnding(p)
  <2>1. UNCHANGED told /\ \A q \in Procs : Keeps(q)
    BY <1>4, ToldFrame, NextKeeps
  <2>2. CASE \E c \in Conns : SaveRinging(c) \/ Activate(c)
    <3>1. PICK c \in Conns : SaveRinging(c) \/ Activate(c)
      BY <2>2
    <3>2. PICK d \in Calls : d = InHand(c)
      BY <3>1, Kinds, InHandOK DEF SaveRinging, Activate, At, Unheld
    <3>3. Alone(c) /\ loc[c].pc \notin Telling
      BY <3>1, Kinds, SaveRingingEffect, GotoEffect DEF SaveRinging, Activate, At, Telling
    <3>4. \E s \in {"ringing", "active"} : Save(d, s)
      BY <3>1, <3>2 DEF SaveRinging, Activate
    <3> QED
      BY <2>1, <3>3, <3>4, BeginStep
  <2>3. CASE UNCHANGED <<rec, life>>
    <3>1. Still
      BY <2>3 DEF Still, Live
    <3> QED
      BY <2>1, <3>1, LoseStep
  <2> QED
    BY <1>3, <1>4, <2>2, <2>3, RecordFrame
<1> QED
  BY <1>1, <1>2, <1>4

(* endCall: a call is announced as ended by whoever consumed its record, at  *)
(* most once per life, and nothing is announced that was not consumed,       *)
(* whatever ends it, dies in the middle or fails.                            *)
THEOREM ImplementsCallEnding == Spec => EndingsAreClaimed
<1>1. Inv /\ PlacesInv /\ [Next]_vars => [Abstract!Next]_(Abstract!vars)
  BY NextEndings DEF PlacesInv
<1> QED
  BY <1>1, InitEndings, PlacesInvariance, PTL DEF Spec, EndingsAreClaimed, Abstract!Spec

-----------------------------------------------------------------------------
(* What the people of a call get to know, as long as no Redis command has   *)
(* failed: whoever holds a place is recorded for call history, and whoever  *)
(* is rung for is rung in every tab.                                        *)

Faultless == spent.faults = 0

LEMMA NoFault ==
    ASSUME Inv, [Next]_vars, Faultless' PROVE Faultless /\ \A p \in Procs : ~Fault(p)
<1>1. spent \in Bounds
  BY DEF Inv, TypeOK
<1>2. ASSUME NEW p \in Procs, Fault(p) PROVE FALSE
  BY <1>1, <1>2 DEF Fault, Bounds, Faultless
<1>3. spent'.faults = spent.faults
  <2>1. ASSUME NEW c \in Conns, Client(c) PROVE spent'.faults = spent.faults
    BY <1>1, <2>1 DEF Client, Connect, Invite, Join, Hangup, Close, Receive, Bounds
  <2>2. ASSUME NEW c \in Conns, Connecting(c) \/ Inviting(c) PROVE spent' = spent
    BY <2>2 DEF Connecting, PendingIndex, PendingGet, PendingJoined, PendingDismissed,
       RingPending, Inviting, ClaimConversation, CheckHolder, StealClaim, SaveRinging, UndoClaim,
       IndexOwner, Ring, ArmRingTimeout
  <2>3. ASSUME NEW c \in Conns, Joining(c) \/ Leaving(c) PROVE spent' = spent
    BY <2>3 DEF Joining, CheckRoom, HJoin, SAddJoined, Activate, ExtendClaim, PublishStarted,
       Leaving, Leave, DismissLeaver, CountMembers, ReleaseNext, LeaveIfHeldBy, Closed
  <2>4. ASSUME NEW p \in Procs, EndCall(p) PROVE spent' = spent
    BY <2>4 DEF EndCall, EndCancelTimer, ClaimEnding, DeleteKeys, Unindex, AnnounceEnding
  <2>5. ASSUME NEW p, RingTimeout(p) \/ RingTimeoutFired(p) \/ Sweeping(p) PROVE spent' = spent
    BY <2>5 DEF RingTimeout, RingTimeoutFired, Sweeping, SweepHeartbeats, SweepScan, SweepGet,
       SweepMembers, SweepFound, ReapOrphan, SweepDone
  <2>6. ASSUME NEW p, Crash(p) \/ Restart(p) \/ HeartbeatLapses(p) \/ RingingExpires(p)
        PROVE  spent'.faults = spent.faults
    BY <1>1, <2>6 DEF Crash, Restart, HeartbeatLapses, RingingExpires, Bounds
  <2>7. UNCHANGED vars => spent' = spent
    BY DEF vars
  <2> QED
    BY <1>2, <2>1, <2>2, <2>3, <2>4, <2>5, <2>6, <2>7, Kinds DEF Next, Handle, Time, Reap
<1> QED
  BY <1>2, <1>3 DEF Faultless

(* What may move a connection. *)
LEMMA ConnMoves ==
    ASSUME Inv, [Next]_vars, NEW c \in Conns
    PROVE  \/ loc'[c] = loc[c]
           \/ Client(c) \/ Handle(c) \/ Fault(c)
           \/ \E i \in Instances : Crash(i) /\ InstanceOf[c] = i /\ loc'[c] = Blank
<1>1. c \in Procs /\ c \notin Instances /\ c \notin Calls
  BY Kinds
<1>2. ASSUME NEW p \in Procs, Alone(p), p # c PROVE loc'[c] = loc[c]
  BY <1>1, <1>2 DEF Alone
<1>3. ASSUME NEW b \in Conns, HJoin(b), b # c PROVE loc'[c] = loc[c]
  BY <1>1, <1>2, <1>3, Kinds, HJoinEffect, GotoEffect, HomeEffect DEF HJoin
<1>4. ASSUME NEW b \in Conns, Client(b) \/ Handle(b), b # c PROVE loc'[c] = loc[c]
  BY <1>2, <1>3, <1>4, Kinds, MovesAlone
<1>5. ASSUME NEW p \in Procs, \/ p \in Calls /\ Time(p)
                              \/ p \in Instances /\ Reap(p)
                              \/ Fault(p) /\ p # c
      PROVE  loc'[c] = loc[c]
  BY <1>1, <1>2, <1>5, MovesAlone
<1>6. ASSUME NEW i \in Instances, Crash(i)
      PROVE  loc'[c] = loc[c] \/ (InstanceOf[c] = i /\ loc'[c] = Blank)
  BY <1>1, <1>6 DEF Crash, InstanceRunning
<1>7. CASE \/ \E i \in Instances : Restart(i) \/ HeartbeatLapses(i)
           \/ \E d \in Calls : RingingExpires(d)
           \/ UNCHANGED vars
  BY <1>7 DEF Restart, HeartbeatLapses, RingingExpires, vars, proc
<1> QED
  BY <1>4, <1>5, <1>6, <1>7, Kinds DEF Next

-----------------------------------------------------------------------------
(* Who holds a place is recorded as having joined. *)

(* A place is held over a connection of its person.                          *)
Seated == \A d \in Calls, o \in Owners : members[d][o] # None => OwnerOf[members[d][o]] = o

(* The join of a connection at work is recorded, or about to be.             *)
Recorded(d, o, c) == sock[c] = "gone" \/ o \in joined[d] \/ (At(c, "sadd") /\ InHand(c) = d)
Joins == \A d \in Calls : \A o \in Members(d) : Recorded(d, o, members[d][o])

(* A connection between its place and the record stays there until recorded. *)
LEMMA SAddNext ==
    ASSUME Inv, Stations, [Next]_vars, Faultless', NEW c \in Conns, At(c, "sadd")
    PROVE  \/ sock'[c] = "gone" \/ SAddJoined(c)
           \/ At(c, "sadd")' /\ InHand(c)' = InHand(c)
<1>1. ASSUME Client(c) \/ Connecting(c) \/ Inviting(c) PROVE FALSE
  <2>1. At(c, "idle") \/ Connect(c) \/ Connecting(c) \/ Inviting(c)
    BY <1>1 DEF Client, Invite, Join, Hangup, Close, Receive
  <2>2. ~Connect(c)
    BY DEF Connect, Stations, StationOK, At
  <2> QED
    BY <2>1, <2>2 DEF At, Connecting, PendingIndex, PendingGet, PendingJoined, PendingDismissed,
       RingPending, Inviting, ClaimConversation, CheckHolder, StealClaim, SaveRinging, UndoClaim,
       IndexOwner, Ring, ArmRingTimeout
<1>2. ASSUME Joining(c) \/ Leaving(c) PROVE SAddJoined(c)
  BY <1>2 DEF At, Joining, CheckRoom, HJoin, Activate, ExtendClaim, PublishStarted,
       Leaving, Leave, DismissLeaver, CountMembers, ReleaseNext, LeaveIfHeldBy, Closed
<1>3. ASSUME EndCall(c) PROVE FALSE
  BY <1>3 DEF At, EndCall, EndCancelTimer, ClaimEnding, DeleteKeys, Unindex, AnnounceEnding
<1>4. ASSUME NEW i \in Instances, Crash(i), InstanceOf[c] = i PROVE sock'[c] = "gone"
  BY <1>4 DEF Crash, Stations, StationOK, At
<1>5. loc'[c] = loc[c] => At(c, "sadd")' /\ InHand(c)' = InHand(c)
  BY DEF At, InHand
<1> QED
  BY <1>1, <1>2, <1>3, <1>4, <1>5, ConnMoves, NoFault, Kinds DEF Handle

LEMMA GoneStays ==
    ASSUME Inv, [Next]_vars, NEW c \in Conns, sock[c] = "gone" PROVE sock'[c] = "gone"
<1>1. sock \in [Conns -> {"off", "open", "closing", "gone"}]
  BY DEF Inv, TypeOK
<1>2. ASSUME NEW b \in Conns, Client(b) PROVE sock'[c] = "gone"
  BY <1>1, <1>2 DEF Client, Connect, Invite, Join, Hangup, Close
<1>3. ASSUME NEW b \in Conns, Connecting(b) \/ Inviting(b) PROVE sock' = sock
  BY <1>3 DEF Connecting, PendingIndex, PendingGet, PendingJoined, PendingDismissed,
     RingPending, Inviting, ClaimConversation, CheckHolder, StealClaim, SaveRinging, UndoClaim,
     IndexOwner, Ring, ArmRingTimeout
<1>4. ASSUME NEW b \in Conns, Joining(b) PROVE sock' = sock
  BY <1>4 DEF Joining, CheckRoom, HJoin, SAddJoined, Activate, ExtendClaim, PublishStarted
<1>5. ASSUME NEW b \in Conns, Leaving(b) PROVE sock'[c] = "gone"
  BY <1>1, <1>5 DEF Leaving, Leave, DismissLeaver, CountMembers, ReleaseNext, LeaveIfHeldBy, Closed
<1>6. ASSUME NEW p \in Procs, EndCall(p) PROVE sock' = sock
  BY <1>6 DEF EndCall, EndCancelTimer, ClaimEnding, DeleteKeys, Unindex, AnnounceEnding
<1>7. ASSUME NEW p, RingTimeout(p) \/ RingTimeoutFired(p) \/ Sweeping(p) PROVE sock' = sock
  BY <1>7 DEF RingTimeout, RingTimeoutFired, Sweeping, SweepHeartbeats, SweepScan, SweepGet,
     SweepMembers, SweepFound, ReapOrphan, SweepDone
<1>8. ASSUME NEW p, Fault(p) \/ Restart(p) \/ HeartbeatLapses(p) \/ RingingExpires(p)
      PROVE  sock' = sock
  BY <1>8 DEF Fault, Restart, HeartbeatLapses, RingingExpires, proc
<1>9. ASSUME NEW i \in Instances, Crash(i) PROVE sock'[c] = "gone"
  BY <1>9 DEF Crash
<1>10. UNCHANGED vars => sock' = sock
  BY DEF vars, proc
<1> QED
  BY <1>2, <1>3, <1>4, <1>5, <1>6, <1>7, <1>8, <1>9, <1>10, Kinds DEF Next, Handle, Time, Reap
LEMMA NextSeated == Inv /\ Seated /\ [Next]_vars => Seated'
<1> SUFFICES ASSUME Inv, Seated, [Next]_vars,
                    NEW d \in Calls, NEW o \in Owners, members'[d][o] # None
             PROVE  OwnerOf[members'[d][o]] = o
  BY DEF Seated
<1>1. RegistryTypeOK
  BY DEF Inv, TypeOK
<1>2. CASE members'[d][o] = members[d][o]
  BY <1>2 DEF Seated
<1>3. ASSUME NEW e \in Calls, NEW p \in Owners, NEW c, SetMember(e, p, c),
             c # None => OwnerOf[c] = p
      PROVE  OwnerOf[members'[d][o]] = o
  <2>1. members'[d][o] = IF d = e /\ o = p THEN c ELSE members[d][o]
    BY <1>1, <1>3, PlaceSet
  <2> QED
    BY <1>3, <2>1 DEF Seated
<1>4. ASSUME NEW c \in Conns, HJoin(c) \/ Leave(c) \/ LeaveIfHeldBy(c)
      PROVE  OwnerOf[members'[d][o]] = o
  <2>1. PICK e \in Calls : e = InHand(c)
    BY <1>4, Kinds, InHandOK DEF HJoin, Leave, LeaveIfHeldBy, At, Unheld
  <2>2. OwnerOf[c] \in Owners
    BY ConnsAreServed
  <2>3. \/ UNCHANGED members
        \/ SetMember(e, OwnerOf[c], c)
        \/ SetMember(e, OwnerOf[c], None)
    BY <1>4, <2>1 DEF HJoin, Leave, LeaveIfHeldBy, registry
  <2> QED
    BY <1>2, <1>3, <2>2, <2>3
<1>5. ASSUME NEW c \in Conns, SAddJoined(c) PROVE UNCHANGED members
  BY <1>5 DEF SAddJoined, RecordJoin
<1>6. ASSUME NEW p \in Procs, DeleteKeys(p) PROVE members'[d][o] = members[d][o]
  BY <1>1, <1>6 DEF DeleteKeys, CleanUp, RegistryTypeOK
<1> QED
  BY <1>2, <1>4, <1>5, <1>6, PlaceFrame

(* The joined set of a call grows until its clean-up.                        *)
LEMMA JoinedStays ==
    ASSUME Inv, [Next]_vars, NEW d \in Calls, \A p \in Procs : DeleteKeys(p) => InHand(p) # d
    PROVE  joined[d] \subseteq joined'[d]
<1>1. RegistryTypeOK
  BY DEF Inv, TypeOK
<1>2. ASSUME NEW b \in Conns, HJoin(b) \/ Leave(b) \/ LeaveIfHeldBy(b) PROVE joined' = joined
  BY <1>2 DEF HJoin, Leave, LeaveIfHeldBy, SetMember, registry
<1>3. ASSUME NEW b \in Conns, SAddJoined(b) PROVE joined[d] \subseteq joined'[d]
  BY <1>1, <1>3 DEF SAddJoined, RecordJoin, RegistryTypeOK
<1>4. ASSUME NEW p \in Procs, DeleteKeys(p) PROVE joined'[d] = joined[d]
  BY <1>1, <1>4 DEF DeleteKeys, CleanUp, RegistryTypeOK
<1> QED
  BY <1>2, <1>3, <1>4, PlaceFrame

LEMMA RecordedNext ==
    ASSUME Inv, Stations, [Next]_vars, Faultless', NEW d \in Calls, NEW o \in Owners,
           NEW c \in Conns, OwnerOf[c] = o, Recorded(d, o, c), ~(\E p \in Procs : DeleteKeys(p) /\ InHand(p) = d)
    PROVE  Recorded(d, o, c)'
<1>1. RegistryTypeOK
  BY DEF Inv, TypeOK
<1>2. joined[d] \subseteq joined'[d]
  BY JoinedStays
<1>3. CASE sock[c] = "gone" \/ o \in joined[d]
  BY <1>2, <1>3, GoneStays DEF Recorded
<1>4. CASE At(c, "sadd") /\ InHand(c) = d
  <2>1. SAddJoined(c) => o \in joined'[d]
    BY <1>1, <1>4 DEF SAddJoined, RecordJoin, RegistryTypeOK
  <2> QED
    BY <1>4, <2>1, SAddNext DEF Recorded
<1> QED
  BY <1>3, <1>4 DEF Recorded

LEMMA NextJoins ==
    Inv /\ Stations /\ Seated /\ (Faultless => Joins) /\ [Next]_vars => (Faultless => Joins)'
<1> SUFFICES ASSUME Inv, Stations, Seated, Joins, [Next]_vars, Faultless',
                    NEW d \in Calls, NEW o \in Members(d)'
             PROVE  Recorded(d, o, members[d][o])'
  BY NoFault DEF Joins
<1>1. RegistryTypeOK /\ RegistryTypeOK'
  BY NextInv DEF Inv, TypeOK
<1>2. o \in Owners /\ members'[d][o] # None
  BY DEF Members
<1>3. members[d][o] \in Conns \cup {None} /\ members'[d][o] \in Conns
  BY <1>1, <1>2 DEF RegistryTypeOK
<1>4. ASSUME members'[d][o] = members[d][o] PROVE Recorded(d, o, members[d][o])'
  <2>1. Recorded(d, o, members[d][o]) /\ OwnerOf[members[d][o]] = o
    BY <1>2, <1>4 DEF Joins, Members, Seated
  <2>2. ASSUME NEW p \in Procs, DeleteKeys(p), InHand(p) = d PROVE FALSE
    <3>1. members' = [members EXCEPT ![d] = [x \in Owners |-> None]]
      BY <2>2 DEF DeleteKeys, CleanUp
    <3>2. members'[d][o] = None
      BY <1>1, <1>2, <3>1 DEF RegistryTypeOK
    <3> QED
      BY <1>2, <3>2
  <2>3. PICK c \in Conns : c = members[d][o]
    BY <1>3, <1>4
  <2>4. Recorded(d, o, c)'
    BY <1>2, <2>1, <2>2, <2>3, RecordedNext
  <2> QED
    BY <1>4, <2>3, <2>4 DEF Recorded
<1>5. ASSUME NEW e \in Calls, NEW p \in Owners, SetMember(e, p, None)
      PROVE  members'[d][o] = members[d][o]
  BY <1>1, <1>2, <1>5, PlaceSet
<1>6. ASSUME NEW c \in Conns, HJoin(c), JoinWins(InHand(c), c)
      PROVE  Recorded(d, o, members[d][o])'
  <2>1. PICK e \in Calls : e = InHand(c)
    BY <1>6, Kinds, InHandOK DEF HJoin, At, Unheld
  <2>2. SetMember(e, OwnerOf[c], c) /\ Holds(c, "sadd", e) /\ OwnerOf[c] \in Owners
    BY <1>6, <2>1, HJoinEffect, ConnsAreServed
  <2>3. members'[d][o] = IF d = e /\ o = OwnerOf[c] THEN c ELSE members[d][o]
    BY <1>1, <1>2, <2>2, PlaceSet
  <2>4. d = e /\ o = OwnerOf[c] => Recorded(d, o, members[d][o])'
    BY <2>2, <2>3 DEF Recorded, Holds, At, InHand
  <2> QED
    BY <1>4, <2>3, <2>4
<1>7. ASSUME NEW c \in Conns, Leave(c) \/ LeaveIfHeldBy(c) PROVE members'[d][o] = members[d][o]
  <2>1. InHand(c) \in Calls /\ OwnerOf[c] \in Owners
    BY <1>7, Kinds, InHandOK, ConnsAreServed DEF Leave, LeaveIfHeldBy, At, Unheld
  <2> QED
    BY <1>5, <1>7, <2>1 DEF Leave, LeaveIfHeldBy, registry
<1>8. ASSUME NEW c \in Conns, HJoin(c), ~JoinWins(InHand(c), c) PROVE UNCHANGED members
  BY <1>8 DEF HJoin, registry
<1>9. ASSUME NEW c \in Conns, SAddJoined(c) PROVE UNCHANGED members
  BY <1>9 DEF SAddJoined, RecordJoin
<1>10. ASSUME NEW p \in Procs, DeleteKeys(p) PROVE members'[d][o] = members[d][o]
  BY <1>1, <1>2, <1>10 DEF DeleteKeys, CleanUp, RegistryTypeOK
<1> QED
  BY <1>4, <1>6, <1>7, <1>8, <1>9, <1>10, PlaceFrame

(* Join records the joiner for call history after winning the place: while   *)
(* no Redis command has failed, whoever sits in a call over a connection     *)
(* that still exists is in the joined set, or a join of theirs is about to   *)
(* record it, however hang-ups, closes, sweeps and crashes fall.             *)
THEOREM JoinsAreRecorded == Spec => [](Faultless => HistoryKnowsWhoJoined)
<1>1. Init => Seated /\ Joins
  BY DEF Init, RegistryInit, Seated, Joins, Members
<1>2. Inv /\ PlacesInv /\ Seated /\ (Faultless => Joins) /\ [Next]_vars
      => Seated' /\ (Faultless => Joins)'
  BY NextSeated, NextJoins DEF PlacesInv
<1>3. Inv /\ Seated /\ (Faultless => Joins) => (Faultless => HistoryKnowsWhoJoined)
  <2> SUFFICES ASSUME Inv, Seated, Joins, NEW d \in Calls, NEW o \in Members(d),
                      sock[members[d][o]] # "gone"
               PROVE  \/ o \in joined[d]
                      \/ \E b \in Conns : OwnerOf[b] = o /\ At(b, "sadd") /\ InHand(b) = d
    BY DEF HistoryKnowsWhoJoined
  <2>1. o \in Owners /\ members[d][o] \in Conns
    BY DEF Inv, TypeOK, RegistryTypeOK, Members
  <2> QED
    BY <2>1, NoneIsNobody DEF Joins, Recorded, Seated, Members
<1> QED
  BY <1>1, <1>2, <1>3, PlacesInvariance, PTL DEF Spec
-----------------------------------------------------------------------------
(* What an inviter knows of the call it mints. *)

Dials == {"claim", "holder", "steal", "save"}
Invites == Dials \cup {"unclaim", "index", "hjoin", "sadd", "ring", "arm"}
OnlyInvites == Invites \ {"hjoin", "sadd"}

(* An invite is about the call its connection minted, which has no record    *)
(* until the invite saves it and rings at the end of the invite only.        *)
Inviter(c) ==
    /\ loc[c].op = "invite" => loc[c].pc \in Invites /\ info[InHand(c)].host = c
    /\ loc[c].pc \in OnlyInvites => loc[c].op = "invite"
    /\ loc[c].pc \in Dials => life[InHand(c)] = 0
    /\ loc[c].op = "invite" /\ InHand(c) \in rang => At(c, "arm")

Minting ==
    /\ \A d \in rang : Minted(d)
    /\ \A d \in Calls : ~Minted(d) => life[d] = 0

Dialled == Minting /\ \A c \in Conns : Inviter(c)

LEMMA InitDialled == Init => Dialled
<1>1. Blank.op = "none" /\ Blank.pc = "idle"
  BY DEF Blank
<1> QED
  BY <1>1, Kinds DEF Init, RegistryInit, Dialled, Minting, Inviter, Invites, OnlyInvites, Dials

LEMMA InfoFrame ==
    ASSUME [Next]_vars
    PROVE  \/ UNCHANGED info
           \/ \E c \in Conns, w \in Conversations, d \in Calls : Invite(c, w, d)
<1>1. ASSUME NEW c, Connect(c) \/ Close(c) \/ Connecting(c) \/ \E d \in Calls : Join(c, d) \/ Hangup(c, d)
      PROVE  UNCHANGED info
  BY <1>1 DEF Connect, Join, Hangup, Close, Connecting, PendingIndex, PendingGet, PendingJoined,
     PendingDismissed, RingPending
<1>2. ASSUME NEW c, Inviting(c) \/ Joining(c) PROVE UNCHANGED info
  BY <1>2 DEF Inviting, ClaimConversation, CheckHolder, StealClaim, SaveRinging, UndoClaim,
     IndexOwner, Ring, ArmRingTimeout, Joining, CheckRoom, HJoin, SAddJoined, Activate,
     ExtendClaim, PublishStarted
<1>3. ASSUME NEW c, Leaving(c) PROVE UNCHANGED info
  BY <1>3 DEF Leaving, Leave, DismissLeaver, CountMembers, ReleaseNext, LeaveIfHeldBy, Closed
<1>4. ASSUME NEW p, EndCall(p) PROVE UNCHANGED info
  BY <1>4 DEF EndCall, EndCancelTimer, ClaimEnding, DeleteKeys, Unindex, AnnounceEnding
<1>5. ASSUME NEW p, RingTimeout(p) \/ RingTimeoutFired(p) \/ Sweeping(p) PROVE UNCHANGED info
  BY <1>5 DEF RingTimeout, RingTimeoutFired, Sweeping, SweepHeartbeats, SweepScan, SweepGet,
     SweepMembers, SweepFound, ReapOrphan, SweepDone
<1>6. ASSUME NEW p, Fault(p) \/ Crash(p) \/ Restart(p) \/ HeartbeatLapses(p) \/ RingingExpires(p)
      PROVE  UNCHANGED info
  BY <1>6 DEF Fault, Crash, Restart, HeartbeatLapses, RingingExpires
<1>7. UNCHANGED vars => UNCHANGED info
  BY DEF vars
<1> QED
  BY <1>1, <1>2, <1>3, <1>4, <1>5, <1>6, <1>7 DEF Next, Client, Handle, Time, Reap

LEMMA HeardFrame ==
    ASSUME [Next]_vars
    PROVE  \/ UNCHANGED <<heard, rang>>
           \/ \E c \in Conns : RingPending(c) \/ CheckHolder(c) \/ Ring(c)
<1>1. ASSUME NEW c, Client(c) \/ (Connecting(c) /\ ~RingPending(c)) PROVE UNCHANGED <<heard, rang>>
  BY <1>1 DEF Client, Invite, Connect, Join, Hangup, Close, Connecting, PendingIndex, PendingGet,
     PendingJoined, PendingDismissed, events
<1>2. ASSUME NEW c, Inviting(c), ~CheckHolder(c), ~Ring(c) PROVE UNCHANGED <<heard, rang>>
  BY <1>2 DEF Inviting, ClaimConversation, StealClaim, SaveRinging, UndoClaim,
     IndexOwner, ArmRingTimeout, events
<1>3. ASSUME NEW c, Joining(c) \/ Leaving(c) PROVE UNCHANGED <<heard, rang>>
  BY <1>3 DEF Joining, CheckRoom, HJoin, SAddJoined, Activate, ExtendClaim, PublishStarted,
     Leaving, Leave, DismissLeaver, CountMembers, ReleaseNext, LeaveIfHeldBy, Closed, events
<1>4. ASSUME NEW p, EndCall(p) PROVE UNCHANGED <<heard, rang>>
  BY <1>4 DEF EndCall, EndCancelTimer, ClaimEnding, DeleteKeys, Unindex, AnnounceEnding, events
<1>5. ASSUME NEW p, RingTimeout(p) \/ RingTimeoutFired(p) \/ Sweeping(p)
      PROVE  UNCHANGED <<heard, rang>>
  BY <1>5 DEF RingTimeout, RingTimeoutFired, Sweeping, SweepHeartbeats, SweepScan, SweepGet,
     SweepMembers, SweepFound, ReapOrphan, SweepDone, events
<1>6. ASSUME NEW p, Fault(p) \/ Crash(p) \/ Restart(p) \/ HeartbeatLapses(p) \/ RingingExpires(p)
      PROVE  UNCHANGED <<heard, rang>>
  BY <1>6 DEF Fault, Crash, Restart, HeartbeatLapses, RingingExpires, events
<1>7. UNCHANGED vars => UNCHANGED <<heard, rang>>
  BY DEF vars, events
<1> QED
  BY <1>1, <1>2, <1>3, <1>4, <1>5, <1>6, <1>7 DEF Next, Handle, Time, Reap

(* A call that was minted stays what it is.                                  *)
LEMMA MintedStays ==
    ASSUME Inv, [Next]_vars, NEW d \in Calls, Minted(d) PROVE info'[d] = info[d]
BY InfoFrame DEF Invite, Inv, TypeOK, RegistryTypeOK

(* Only its own invite saves a call that has had no record.                  *)
LEMMA FirstLife ==
    ASSUME Inv, Lives, Dialled, [Next]_vars, NEW d \in Calls, life[d] = 0, life'[d] # 0
    PROVE  \E c \in Conns : SaveRinging(c) /\ InHand(c) = d /\ info[d].host = c
<1>1. life \in [Calls -> Nat]
  BY DEF Inv, TypeOK, RegistryTypeOK
<1>2. ASSUME NEW c \in Conns, SaveRinging(c) PROVE InHand(c) = d /\ info[d].host = c
  <2>1. life'[d] # life[d] => InHand(c) = d
    BY <1>1, <1>2 DEF SaveRinging, Save
  <2>2. loc[c].op = "invite"
    BY <1>2 DEF Dialled, Inviter, SaveRinging, At, OnlyInvites, Invites, Dials
  <2> QED
    BY <2>1, <2>2 DEF Dialled, Inviter
<1>3. ASSUME NEW c \in Conns, Activate(c) PROVE FALSE
  <2>1. life[InHand(c)] > 0
    BY <1>3, Kinds DEF Lives, Lasting, Activate, At, Fetching, Unheld
  <2>2. InHand(c) = d
    BY <1>1, <1>3 DEF Activate, Save
  <2> QED
    BY <2>1, <2>2
<1>4. ASSUME NEW p \in Procs, ClaimEnding(p) PROVE FALSE
  BY <1>4 DEF ClaimEnding, Consume
<1>5. ASSUME NEW e \in Calls, RingingExpires(e) PROVE FALSE
  BY <1>5 DEF RingingExpires, Lapse
<1> QED
  BY <1>2, <1>3, <1>4, <1>5, RecordFrame

LEMMA NextMinting == Inv /\ Lives /\ Dialled /\ [Next]_vars => Minting'
<1> SUFFICES ASSUME Inv, Lives, Dialled, [Next]_vars PROVE Minting'
  OBVIOUS
<1>1. \A d \in Calls : Minted(d) => Minted(d)'
  BY MintedStays DEF Minted
<1>2. ASSUME NEW d \in rang' PROVE Minted(d)'
  <2>1. rang' \subseteq Calls
    BY NextInv DEF Inv, TypeOK
  <2>2. CASE d \in rang
    BY <1>1, <2>1, <2>2 DEF Dialled, Minting
  <2>3. CASE d \notin rang
    <3>1. PICK c \in Conns : Ring(c) /\ d = InHand(c)
      BY <2>3, HeardFrame DEF Ring, RingPending, CheckHolder
    <3>2. info[d].host = c
      BY <3>1 DEF Dialled, Inviter, Ring, At, OnlyInvites, Invites
    <3> QED
      BY <1>1, <2>1, <3>2, NoneIsNobody DEF Minted
  <2> QED
    BY <2>2, <2>3
<1>3. ASSUME NEW d \in Calls, ~Minted(d)' PROVE life'[d] = 0
  <2>1. ~Minted(d) /\ life[d] = 0
    BY <1>1, <1>3 DEF Dialled, Minting
  <2> QED
    BY <2>1, FirstLife, NoneIsNobody DEF Minted
<1> QED
  BY <1>2, <1>3 DEF Minting

(* A connection that is not inviting after its step.                         *)
LEMMA NoInviter ==
    ASSUME NEW c, loc'[c].op # "invite", loc'[c].pc \notin OnlyInvites PROVE Inviter(c)'
BY DEF Inviter, OnlyInvites, Dials, Invites

(* An invite goes on with the same call.                                     *)
LEMMA InviteOn ==
    ASSUME Inv, Lives, Dialled, [Next]_vars, NEW c \in Conns, loc[c].op = "invite",
           loc'[c].op = "invite", loc'[c].call = InHand(c), loc'[c].pc \in Invites,
           loc'[c].pc \in Dials => loc[c].pc \in Dials /\ ~SaveRinging(c),
           InHand(c) \in rang' => loc'[c].pc = "arm"
    PROVE  Inviter(c)'
<1>1. info[InHand(c)].host = c /\ loc[c].pc \in Invites
  BY DEF Dialled, Inviter
<1>2. InHand(c) \in Calls
  BY <1>1, Kinds, InHandOK DEF Invites, Dials, Unheld
<1>3. info'[InHand(c)].host = c
  BY <1>1, <1>2, MintedStays, NoneIsNobody DEF Minted
<1>4. ASSUME loc'[c].pc \in Dials PROVE life'[InHand(c)] = 0
  <2>1. life[InHand(c)] = 0
    BY <1>4 DEF Dialled, Inviter
  <2> QED
    BY <1>1, <1>2, <1>4, <2>1, FirstLife
<1> QED
  BY <1>3, <1>4 DEF Inviter, InHand, At

(* While an invite does not ring, nobody rings its call.                     *)
LEMMA NotRung ==
    ASSUME Inv, Lives, Dialled, [Next]_vars, NEW c \in Conns, loc[c].op = "invite", ~Ring(c),
           InHand(c) \in rang'
    PROVE  At(c, "arm")
<1>1. CASE InHand(c) \in rang
  BY <1>1 DEF Dialled, Inviter
<1>2. CASE InHand(c) \notin rang
  <2>1. PICK b \in Conns : Ring(b) /\ InHand(b) = InHand(c)
    BY <1>2, HeardFrame DEF Ring, RingPending, CheckHolder
  <2>2. loc[b].op = "invite"
    BY <2>1 DEF Dialled, Inviter, Ring, At, OnlyInvites, Invites
  <2> QED
    BY <2>1, <2>2 DEF Dialled, Inviter
<1> QED
  BY <1>1, <1>2

LEMMA ClientInviter ==
    ASSUME Inv, Dialled, [Next]_vars, NEW c \in Conns, Client(c) PROVE Inviter(c)'
<1>1. CASE Connect(c) \/ Close(c) \/ \E d \in Calls : Join(c, d) \/ Hangup(c, d)
  BY <1>1, ConnectEffect, CloseEffect, JoinEffect, HangupEffect, NoInviter
     DEF Anew, Holds, OnlyInvites, Invites, Dials
<1>2. ASSUME NEW w \in Conversations, NEW d \in Calls, Invite(c, w, d) PROVE Inviter(c)'
  <2>1. Anew(c, "invite", "claim", d, {})
    BY <1>2, InviteEffect
  <2>2. info'[d].host = c /\ ~Minted(d) /\ UNCHANGED <<life, rang>>
    BY <1>2 DEF Invite, registry, events, Inv, TypeOK, RegistryTypeOK
  <2>3. life'[d] = 0 /\ d \notin rang'
    BY <2>2 DEF Dialled, Minting
  <2> QED
    BY <2>1, <2>2, <2>3 DEF Anew, Holds, Inviter, InHand, At, Invites, OnlyInvites, Dials
<1> QED
  BY <1>1, <1>2 DEF Client

LEMMA InvitingInviter ==
    ASSUME Inv, Lives, Dialled, [Next]_vars, NEW c \in Conns, Inviting(c) PROVE Inviter(c)'
<1>1. c \in Procs /\ c \notin Instances
  BY Kinds
<1>2. loc[c].op = "invite" /\ loc[c].pc \in OnlyInvites
  BY DEF Dialled, Inviter, Inviting, ClaimConversation, CheckHolder, StealClaim, SaveRinging,
     UndoClaim, IndexOwner, Ring, ArmRingTimeout, At, OnlyInvites, Invites, Dials
<1>3. CASE Finish(c)
  BY <1>1, <1>3, HomeEffect, NoInviter DEF Holds, LoopHead, OnlyInvites, Invites, Dials
<1>4. CASE Ring(c)
  <2>1. Same(c) /\ Holds(c, "arm", InHand(c))
    BY <1>1, <1>4, GotoEffect DEF Ring
  <2> QED
    BY <1>2, <1>4, <2>1, InviteOn DEF Same, Holds, Invites, Dials
<1>5. CASE ~Finish(c) /\ ~Ring(c)
  <2>1. /\ Same(c) /\ loc'[c].call = InHand(c) /\ ~At(c, "arm")
        /\ \/ loc[c].pc \in Dials /\ ~SaveRinging(c) /\ loc'[c].pc \in Dials
           \/ loc'[c].pc \in {"index", "hjoin"}
    BY <1>1, <1>5, ClaimConversationEffect, SaveRingingEffect, IndexOwnerEffect, GotoEffect
       DEF Inviting, ClaimConversation, CheckHolder, StealClaim, SaveRinging, UndoClaim, IndexOwner, ArmRingTimeout,
           Holds, At, Dials
  <2>2. InHand(c) \notin rang'
    BY <1>2, <1>5, <2>1, NotRung
  <2> QED
    BY <1>2, <2>1, <2>2, InviteOn DEF Same, Invites, Dials
<1> QED
  BY <1>3, <1>4, <1>5

LEMMA JoiningInviter ==
    ASSUME Inv, Lives, Dialled, [Next]_vars, NEW c \in Conns, Joining(c) PROVE Inviter(c)'
<1>1. c \in Procs /\ c \notin Instances /\ ~Ring(c)
  BY Kinds DEF Joining, CheckRoom, HJoin, SAddJoined, Activate, ExtendClaim, PublishStarted,
     At, Ring
<1>2. CASE Finish(c)
  BY <1>1, <1>2, HomeEffect, NoInviter DEF Holds, LoopHead, OnlyInvites, Invites, Dials
<1>3. ASSUME NEW k \in {"sadd", "ring"}, Same(c), Holds(c, k, InHand(c)), loc[c].op = "invite",
             loc[c].pc \in {"hjoin", "sadd"}
      PROVE  Inviter(c)'
  <2>1. InHand(c) \notin rang'
    BY <1>1, <1>3, NotRung DEF At
  <2> QED
    BY <1>3, <2>1, InviteOn DEF Same, Holds, Invites, Dials
<1>4. CASE HJoin(c) /\ JoinWins(InHand(c), c)
  <2>1. Same(c) /\ Holds(c, "sadd", InHand(c)) /\ loc[c].pc = "hjoin"
    BY <1>4, HJoinEffect DEF HJoin, At
  <2>2. CASE loc[c].op = "invite"
    BY <1>3, <2>1, <2>2
  <2>3. CASE loc[c].op # "invite"
    BY <2>1, <2>3, NoInviter DEF Same, Holds, OnlyInvites, Invites, Dials
  <2> QED
    BY <2>2, <2>3
<1>5. CASE HJoin(c) /\ ~JoinWins(InHand(c), c) /\ ~Finish(c)
  <2>1. Goto(c, "ring") /\ loc[c].op = "invite" /\ loc[c].pc = "hjoin"
    BY <1>5 DEF HJoin, At
  <2> QED
    BY <1>1, <1>3, <2>1, GotoEffect
<1>6. CASE SAddJoined(c) /\ loc[c].op = "invite"
  BY <1>1, <1>3, <1>6, GotoEffect DEF SAddJoined, At
<1>7. CASE ~HJoin(c) /\ ~(SAddJoined(c) /\ loc[c].op = "invite") /\ ~Finish(c)
  <2>1. loc[c].op # "invite"
    BY <1>7 DEF Joining, CheckRoom, Activate, ExtendClaim, PublishStarted, Dialled, Inviter,
       At, Invites, Dials
  <2>2. Same(c) /\ loc'[c].pc \in {"hjoin", "activate", "reclaim", "started"}
    BY <1>1, <1>7, <2>1, GotoEffect
       DEF Joining, CheckRoom, SAddJoined, Activate, ExtendClaim, PublishStarted, Holds
  <2> QED
    BY <2>1, <2>2, NoInviter DEF Same, OnlyInvites, Invites, Dials
<1> QED
  BY <1>2, <1>4, <1>5, <1>6, <1>7

(* What is no part of an invite begins none.                                 *)
LEMMA OtherInviter ==
    ASSUME Inv, Stations', Dialled, NEW c \in Conns, Connecting(c) \/ Leaving(c) \/ EndCall(c)
    PROVE  Inviter(c)'
<1>1. c \in Procs /\ c \notin Instances
  BY Kinds
<1>2. loc[c].op # "invite"
  BY DEF Dialled, Inviter, Connecting, PendingIndex, PendingGet, PendingJoined, PendingDismissed,
     RingPending, Leaving, Leave, DismissLeaver, CountMembers, ReleaseNext, LeaveIfHeldBy, Closed,
     EndCall, EndCancelTimer, ClaimEnding, DeleteKeys, Unindex, AnnounceEnding, At, Invites, Dials
<1>3. ASSUME Finish(c) PROVE loc'[c].op = "none" /\ loc'[c].pc \in {"idle", "release"}
  BY <1>1, <1>3, HomeEffect DEF Holds, LoopHead
<1>4. CASE Connecting(c)
  <2>1. loc'[c].op \in {"none", loc[c].op} /\ loc'[c].pc \in {"idle", "pget", "pjoined", "pdismissed"}
    BY ZenonT(60), <1>1, <1>4, PendingIndexEffect, PendingGetEffect, GotoEffect, PendingDismissedEffect,
       BlankEffect DEF Connecting, PendingJoined, RingPending, Same, Anew, Holds
  <2> QED
    BY <1>2, <2>1, NoInviter DEF OnlyInvites, Invites, Dials
<1>5. CASE Leaving(c)
  <2>1. /\ loc'[c].op \in {"none", loc[c].op}
        /\ loc'[c].pc \in {"idle", "release", "relleave", "dismiss", "count", "end"}
    BY ZenonT(60), <1>1, <1>3, <1>5, GotoEffect, CountMembersEffect, ReleaseNextEffect, BlankEffect
       DEF Leaving, Leave, DismissLeaver, LeaveIfHeldBy, Closed, Same, Anew, Holds
  <2> QED
    BY <1>2, <2>1, NoInviter DEF OnlyInvites, Invites, Dials
<1>6. CASE EndCall(c)
  <2>1. loc'[c].op \in {"none", loc[c].op} /\ loc'[c].pc \in {"idle", "release"} \cup Ends
    BY <1>1, <1>3, <1>6, GotoEffect, ClaimEndingEffect, DeleteKeysEffect, UnindexEffect
       DEF EndCall, EndCancelTimer, AnnounceEnding, Same, Holds, Ends, Telling
  <2> QED
    BY <1>2, <2>1, NoInviter DEF OnlyInvites, Invites, Dials, Ends, Telling
<1> QED
  BY <1>4, <1>5, <1>6

LEMMA FaultInviter ==
    ASSUME Inv, Lives, Dialled, [Next]_vars, NEW c \in Conns, Fault(c) PROVE Inviter(c)'
<1>1. c \in Procs /\ c \notin Instances
  BY Kinds
<1>2. CASE Finish(c)
  BY <1>1, <1>2, HomeEffect, NoInviter DEF Holds, LoopHead, OnlyInvites, Invites, Dials
<1>3. CASE ~Finish(c)
  <2>1. /\ Same(c) /\ loc'[c].call = InHand(c)
        /\ \/ loc[c].pc = "save" /\ loc'[c].pc = "unclaim"
           \/ /\ loc[c].pc \in {"dismiss", "cleanup", "unindex"}
              /\ loc'[c].pc \in {"count", "announce"}
    BY <1>1, <1>3, FaultEffect
  <2>2. CASE loc[c].pc = "save"
    <3>1. loc[c].op = "invite" /\ ~Ring(c) /\ ~At(c, "arm")
      BY <2>2 DEF Dialled, Inviter, OnlyInvites, Invites, Dials, Ring, At
    <3>2. InHand(c) \notin rang'
      BY <3>1, NotRung
    <3> QED
      BY <2>1, <2>2, <3>1, <3>2, InviteOn DEF Same, Invites, Dials
  <2>3. CASE loc[c].pc # "save"
    <3>1. loc[c].op # "invite"
      BY <2>1, <2>3 DEF Dialled, Inviter, Invites, Dials
    <3> QED
      BY <2>1, <2>3, <3>1, NoInviter DEF Same, OnlyInvites, Invites, Dials
  <2> QED
    BY <2>2, <2>3
<1> QED
  BY <1>2, <1>3

LEMMA StillInviter ==
    ASSUME Inv, Lives, Dialled, [Next]_vars, NEW c \in Conns, loc'[c] = loc[c] PROVE Inviter(c)'
<1>1. CASE loc[c].op = "invite"
  <2>1. loc[c].pc \in Invites
    BY <1>1 DEF Dialled, Inviter
  <2>2. ~SaveRinging(c)
    BY SaveRingingEffect DEF Holds, SaveRinging, At
  <2>3. Ring(c) => loc'[c].pc = "arm"
    BY Kinds, GotoEffect DEF Ring, Holds
  <2>4. InHand(c) \in rang' => loc'[c].pc = "arm"
    BY <1>1, <2>3, NotRung DEF At
  <2> QED
    BY <1>1, <2>1, <2>2, <2>4, InviteOn DEF InHand
<1>2. CASE loc[c].op # "invite"
  BY <1>2, NoInviter DEF Dialled, Inviter
<1> QED
  BY <1>1, <1>2

LEMMA NextDialled == Inv /\ Stations /\ Lives /\ Dialled /\ [Next]_vars => Dialled'
<1> SUFFICES ASSUME Inv, Stations, Lives, Dialled, [Next]_vars, NEW c \in Conns PROVE Inviter(c)'
  BY NextMinting DEF Dialled
<1>1. CASE loc'[c] = Blank
  BY <1>1, NoInviter DEF Blank, OnlyInvites, Invites, Dials
<1> QED
  BY <1>1, StillInviter, ClientInviter, InvitingInviter, JoiningInviter, OtherInviter, FaultInviter,
     ConnMoves, NextStations DEF Handle

-----------------------------------------------------------------------------
(* What a ringing record goes with. *)

Ringing(d) == rec[d] = "ringing"
Cleaning(p, d) == InHand(p) = d /\ loc[p].pc \in {"cleanup", "unindex"}

(* While a call rings its keys are not being deleted; once its ring went     *)
(* out, and from the end of the index writes on, it is indexed under every   *)
(* participant, and during them under all but those still to come.           *)
Uncleaned == \A d \in Calls, p \in Procs : Ringing(d) => ~Cleaning(p, d)
IndexedBut(d, owners) == \A o \in Participants(d) \ owners : d \in index[o]
Indexing(c) ==
    loc[c].op = "invite" /\ Ringing(InHand(c)) =>
        /\ At(c, "index") => IndexedBut(InHand(c), loc[c].owners)
        /\ loc[c].pc \in {"hjoin", "sadd", "ring"} => IndexedBut(InHand(c), {})

Indexed ==
    /\ \A d \in rang : Ringing(d) => IndexedBut(d, {})
    /\ \A c \in Conns : Indexing(c)

(* A call comes to ring in its first life only, by its own invite.           *)
LEMMA BeginsToRing ==
    ASSUME Inv, Dialled, [Next]_vars, NEW d \in Calls, Ringing(d)', ~Ringing(d)
    PROVE  \E c \in Conns : /\ SaveRinging(c) /\ InHand(c) = d /\ info[d].host = c
                            /\ life[d] = 0 /\ d \notin rang
<1>1. rec \in [Calls -> Status]
  BY DEF Inv, TypeOK, RegistryTypeOK
<1>2. ASSUME NEW c \in Conns, SaveRinging(c)
      PROVE  /\ InHand(c) = d /\ info[d].host = c
             /\ life[d] = 0 /\ d \notin rang
  <2>1. InHand(c) = d
    BY <1>1, <1>2 DEF SaveRinging, Save, Ringing
  <2>2. loc[c].op = "invite" /\ loc[c].pc = "save"
    BY <1>2 DEF Dialled, Inviter, SaveRinging, At, OnlyInvites, Invites, Dials
  <2> QED
    BY <2>1, <2>2 DEF Dialled, Inviter, At, Dials
<1>3. ASSUME NEW c \in Conns, Activate(c) PROVE FALSE
  BY <1>1, <1>3 DEF Activate, Save, Ringing
<1>4. ASSUME NEW p \in Procs, ClaimEnding(p) PROVE FALSE
  BY <1>1, <1>4 DEF ClaimEnding, Consume, Ringing
<1>5. ASSUME NEW e \in Calls, RingingExpires(e) PROVE FALSE
  BY <1>1, <1>5 DEF RingingExpires, Lapse, Ringing
<1>6. CASE UNCHANGED <<rec, life>>
  BY <1>6 DEF Ringing
<1> QED
  BY <1>2, <1>3, <1>4, <1>5, <1>6, RecordFrame

(* Nobody gets to the clean-up of a call but over the consume of its record. *)
LEMMA GetsToCleanUp ==
    ASSUME Inv, [Next]_vars, NEW p \in Procs, NEW d \in Calls, Cleaning(p, d)', ~Cleaning(p, d)
    PROVE  ~Ringing(d)'
<1>1. ClaimEnding(p) /\ InHand(p) = d => ~Ringing(d)'
  BY DEF ClaimEnding, Consume, Ringing, Inv, TypeOK, RegistryTypeOK
<1>2. loc'[p] # loc[p] /\ loc'[p].pc \in {"cleanup", "unindex"} /\ loc'[p].call = d
  BY DEF Cleaning, InHand
<1>3. ~Finish(p) /\ loc'[p] # Blank
  BY <1>2, HomeEffect DEF Holds, LoopHead, Blank
<1>4. CASE EndCall(p)
  <2>1. ClaimEnding(p) \/ DeleteKeys(p) \/ Unindex(p)
    BY <1>2, <1>3, <1>4, GotoEffect DEF EndCall, EndCancelTimer, AnnounceEnding, Holds
  <2>2. loc'[p].call = InHand(p)
    BY <1>3, <2>1, ClaimEndingEffect, DeleteKeysEffect, UnindexEffect DEF Holds
  <2>3. DeleteKeys(p) \/ Unindex(p) => loc[p].pc \in {"cleanup", "unindex"}
    BY DEF DeleteKeys, Unindex, At
  <2> QED
    BY <1>1, <1>2, <2>1, <2>2, <2>3 DEF Cleaning
<1>5. CASE Fault(p)
  BY <1>2, <1>3, <1>5, FaultEffect
<1>6. ASSUME NEW c \in Conns, p = c, Client(c) PROVE FALSE
  BY <1>2, <1>6, ConnectEffect, InviteEffect, JoinEffect, HangupEffect, CloseEffect
     DEF Client, Anew, Holds
<1>7. ASSUME NEW c \in Conns, p = c, Connecting(c) \/ Leaving(c) \/ Inviting(c) PROVE FALSE
  <2>1. CASE Connecting(c)
    <3>1. loc'[c].pc \in {"pget", "pjoined", "pdismissed", "idle"}
      BY <1>7, <2>1, PendingIndexEffect, PendingGetEffect, GotoEffect, PendingDismissedEffect,
         BlankEffect DEF Connecting, PendingJoined, RingPending, Anew, Holds
    <3> QED
      BY <1>2, <1>7, <3>1
  <2>2. CASE Leaving(c)
    <3>1. loc'[c].pc \in {"idle", "release", "relleave", "dismiss", "count", "end"}
      BY <1>3, <1>7, <2>2, GotoEffect, CountMembersEffect, ReleaseNextEffect, BlankEffect
         DEF Leaving, Leave, DismissLeaver, LeaveIfHeldBy, Closed, Anew, Holds
    <3> QED
      BY <1>2, <1>7, <3>1
  <2>3. CASE Inviting(c)
    <3>1. loc'[c].pc \in {"holder", "save", "steal", "index", "hjoin", "arm"}
      BY <1>3, <1>7, <2>3, ClaimConversationEffect, SaveRingingEffect, IndexOwnerEffect, GotoEffect
         DEF Inviting, CheckHolder, StealClaim, UndoClaim, Ring, ArmRingTimeout, Holds
    <3> QED
      BY <1>2, <1>7, <3>1
  <2> QED
    BY <1>7, <2>1, <2>2, <2>3
<1>8. ASSUME NEW c \in Conns, p = c, Joining(c) PROVE FALSE
  <2>1. CASE HJoin(c) /\ JoinWins(InHand(c), c)
    BY <1>2, <1>8, <2>1, HJoinEffect DEF Holds
  <2>2. CASE ~(HJoin(c) /\ JoinWins(InHand(c), c))
    BY <1>2, <1>3, <1>8, <2>2, GotoEffect
       DEF Joining, CheckRoom, HJoin, SAddJoined, Activate, ExtendClaim, PublishStarted, Holds
  <2> QED
    BY <2>1, <2>2
<1>9. CASE p \in Conns
  BY <1>2, <1>3, <1>4, <1>5, <1>6, <1>7, <1>8, <1>9, ConnMoves DEF Handle
<1>10. CASE p \notin Conns
  <2>1. ASSUME NEW q \in Procs, Alone(q), q # p PROVE FALSE
    BY <1>2, <2>1 DEF Alone
  <2>2. ASSUME NEW c \in Conns, HJoin(c) PROVE FALSE
    <3>1. CASE JoinWins(InHand(c), c)
      <4>1. loc'[p].pc = loc[p].pc /\ loc'[p].call = InHand(p)
        BY <1>2, <1>10, <2>2, <3>1, HJoinEffect DEF Holds, InHand
      <4> QED
        BY <1>2, <4>1 DEF Cleaning
    <3>2. CASE ~JoinWins(InHand(c), c)
      BY <1>10, <2>1, <2>2, <3>2, Kinds, GotoEffect, HomeEffect DEF HJoin
    <3> QED
      BY <3>1, <3>2
  <2>3. ASSUME NEW c \in Conns, Client(c) \/ Handle(c) PROVE FALSE
    BY <1>10, <2>1, <2>2, <2>3, Kinds, MovesAlone
  <2>4. ASSUME p \in Calls, RingTimeout(p) \/ RingTimeoutFired(p) PROVE FALSE
    BY <1>2, <2>4, RingTimeoutEffect, RingTimeoutFiredEffect, BlankEffect DEF Anew, Holds
  <2>5. ASSUME p \in Instances, Sweeping(p) PROVE FALSE
    <3>1. loc'[p].pc \in {"idle", "end"} \cup Sweeps
      BY <2>5, SweepHeartbeatsEffect, SweepScanEffect, SweepGetEffect, SweepMembersEffect,
         SweepFoundEffect, ReapOrphanEffect, BlankEffect DEF Sweeping, SweepDone, Anew, Holds, Sweeps
    <3> QED
      BY <1>2, <3>1 DEF Sweeps
  <2>6. ASSUME NEW q \in Procs, \/ q \in Calls /\ Time(q)
                                \/ q \in Instances /\ Reap(q)
                                \/ Fault(q)
        PROVE  ~Ringing(d)'
    <3>1. CASE q # p
      BY <2>1, <2>6, <3>1, MovesAlone
    <3>2. CASE q = p
      BY <1>4, <1>5, <2>4, <2>5, <2>6, <3>2 DEF Time, Reap
    <3> QED
      BY <3>1, <3>2
  <2>8. ASSUME NEW i \in Instances, Crash(i) PROVE FALSE
    BY <1>2, <1>3, <2>8 DEF Crash
  <2>9. CASE \/ \E i \in Instances : Restart(i) \/ HeartbeatLapses(i)
             \/ \E e \in Calls : RingingExpires(e)
             \/ UNCHANGED vars
    BY <1>2, <2>9 DEF Restart, HeartbeatLapses, RingingExpires, vars, proc
  <2> QED
    BY <2>3, <2>6, <2>8, <2>9, Kinds DEF Next
<1> QED
  BY <1>9, <1>10

LEMMA NextUncleaned == Inv /\ Lives /\ Dialled /\ Uncleaned /\ [Next]_vars => Uncleaned'
<1> SUFFICES ASSUME Inv, Lives, Dialled, Uncleaned, [Next]_vars,
                    NEW d \in Calls, NEW p \in Procs, Ringing(d)', Cleaning(p, d)'
             PROVE  FALSE
  BY DEF Uncleaned
<1>1. Cleaning(p, d)
  BY GetsToCleanUp
<1>2. life[d] > 0 /\ ~Ringing(d)
  BY <1>1 DEF Uncleaned, Cleaning, Lives, Lasting, Fetching, Unheld
<1>3. life[d] = 0
  BY <1>2, BeginsToRing
<1> QED
  BY <1>2, <1>3

(* The index of a call grows until its clean-up.                             *)
LEMMA IndexStays ==
    ASSUME Inv, [Next]_vars, NEW d \in Calls, Minted(d),
           \A p \in Procs : ~Cleaning(p, d), NEW owners, IndexedBut(d, owners)
    PROVE  IndexedBut(d, owners)'
<1>1. /\ RegistryTypeOK /\ info'[d] = info[d]
      /\ info[d].conv \in Conversations /\ info[d].host # None
  <2>1. info[d].conv # None /\ info[d].conv \in Conversations \cup {None}
    BY DEF Inv, InfoOK, Minted, TypeOK, RegistryTypeOK
  <2> QED
    BY <2>1, MintedStays DEF Inv, TypeOK, Minted
<1>2. Participants(d)' = Participants(d) /\ Participants(d) \subseteq Owners
  BY <1>1, ConnsAreServed DEF Participants, Minted
<1>3. ASSUME NEW o \in Owners, d \in index[o] PROVE d \in index'[o]
  <2>1. CASE UNCHANGED index
    BY <1>3, <2>1
  <2>2. ASSUME NEW c \in Conns, IndexOwner(c) PROVE d \in index'[o]
    BY <1>1, <1>3, <2>2 DEF IndexOwner, AddToIndex, RegistryTypeOK
  <2>3. ASSUME NEW p \in Procs, Unindex(p) PROVE d \in index'[o]
    <3>1. InHand(p) # d
      BY <2>3 DEF Unindex, At, Cleaning
    <3>2. \E x : index' = [index EXCEPT ![x] = @ \ {InHand(p)}]
      BY <2>3 DEF Unindex, RemoveFromIndex
    <3> QED
      BY <1>1, <1>3, <3>1, <3>2 DEF RegistryTypeOK
  <2>4. ASSUME NEW c \in Conns, Inviting(c), ~IndexOwner(c) PROVE UNCHANGED index
    BY <2>4 DEF Inviting, ClaimConversation, CheckHolder, StealClaim, SaveRinging, UndoClaim,
       Ring, ArmRingTimeout, registry, Claim, Save
  <2>5. ASSUME NEW c \in Conns, Joining(c) PROVE UNCHANGED index
    BY <2>5 DEF Joining, CheckRoom, HJoin, SAddJoined, Activate, ExtendClaim, PublishStarted,
       registry, SetMember, RecordJoin, Save, Claim
  <2>6. ASSUME NEW c \in Conns, Leaving(c) PROVE UNCHANGED index
    BY <2>6 DEF Leaving, Leave, DismissLeaver, CountMembers, ReleaseNext, LeaveIfHeldBy, Closed,
       registry, SetMember, Dismiss
  <2>7. ASSUME NEW p \in Procs, EndCall(p), ~Unindex(p) PROVE UNCHANGED index
    BY <2>7 DEF EndCall, EndCancelTimer, ClaimEnding, DeleteKeys, AnnounceEnding, registry,
       Consume, CleanUp
  <2>8. ASSUME NEW e \in Calls, RingingExpires(e) PROVE UNCHANGED index
    BY <2>8 DEF RingingExpires, Lapse
  <2> QED
    BY <2>1, <2>2, <2>3, <2>4, <2>5, <2>6, <2>7, <2>8, RegistryFrame DEF registry
<1> QED
  BY <1>2, <1>3 DEF IndexedBut

(* The places between the save and the ring.                                 *)
LEMMA Indexers ==
    ASSUME Inv, Stations, Dialled, [Next]_vars, NEW c \in Conns, loc'[c].op = "invite",
           loc'[c].pc \in {"index", "hjoin", "sadd", "ring"}
    PROVE  \/ SaveRinging(c) \/ IndexOwner(c)
           \/ /\ loc[c].op = "invite" /\ loc'[c].call = InHand(c)
              /\ loc'[c].owners = loc[c].owners
              /\ \/ loc[c].pc = "index" /\ loc'[c].pc = "index"
                 \/ /\ loc[c].pc \in {"hjoin", "sadd", "ring"}
                    /\ loc'[c].pc \in {"hjoin", "sadd", "ring"}
<1>1. c \in Procs /\ c \notin Instances
  BY Kinds
<1>2. ~Finish(c) /\ loc'[c] # Blank
  BY <1>1, HomeEffect DEF Blank
<1>3. CASE loc'[c] = loc[c]
  BY <1>3 DEF InHand
<1>4. ASSUME Client(c) PROVE FALSE
  <2>1. loc'[c].pc \in {"claim", "pending", "release"} \/ loc'[c].op # "invite"
    BY <1>4, ConnectEffect, InviteEffect, JoinEffect, HangupEffect, CloseEffect
       DEF Client, Anew, Holds
  <2> QED
    BY <2>1
<1>5. ASSUME Connecting(c) \/ Leaving(c) \/ EndCall(c) PROVE FALSE
  <2>1. Inviter(c)' /\ loc[c].op # "invite"
    BY ZenonT(60), <1>5, NextStations, OtherInviter
       DEF Dialled, Inviter, Connecting, PendingIndex, PendingGet, PendingJoined, PendingDismissed,
           RingPending, Leaving, Leave, DismissLeaver, CountMembers, ReleaseNext, LeaveIfHeldBy,
           Closed, EndCall, EndCancelTimer, ClaimEnding, DeleteKeys, Unindex, AnnounceEnding, At,
           Invites, Dials
  <2>2. loc'[c].op = loc[c].op
    BY <1>1, <1>2, <1>5, PendingIndexEffect, PendingGetEffect, GotoEffect, PendingDismissedEffect,
       BlankEffect, CountMembersEffect, ReleaseNextEffect, ClaimEndingEffect, DeleteKeysEffect,
       UnindexEffect
       DEF Connecting, PendingJoined, RingPending, Leaving, Leave, DismissLeaver, LeaveIfHeldBy,
           Closed, EndCall, EndCancelTimer, AnnounceEnding, Same, Anew
  <2> QED
    BY <2>1, <2>2
<1>6. CASE Inviting(c) /\ ~SaveRinging(c) /\ ~IndexOwner(c)
  <2>1. loc'[c].pc \in {"save", "holder", "steal", "arm"}
    BY <1>1, <1>2, <1>6, ClaimConversationEffect, GotoEffect
       DEF Inviting, CheckHolder, StealClaim, UndoClaim, Ring, ArmRingTimeout, Holds
  <2> QED
    BY <2>1
<1>7. CASE Joining(c)
  <2>1. CASE HJoin(c) /\ JoinWins(InHand(c), c)
    BY <2>1, HJoinEffect DEF Same, Holds, Lists, HJoin, At
  <2>2. CASE HJoin(c) /\ ~JoinWins(InHand(c), c)
    BY <1>1, <1>2, <2>2, GotoEffect DEF HJoin, At, Same, Holds, Lists
  <2>3. CASE SAddJoined(c)
    <3>1. Goto(c, "ring") \/ Goto(c, "activate")
      BY <1>2, <2>3 DEF SAddJoined
    <3> QED
      BY <1>1, <2>3, <3>1, GotoEffect DEF SAddJoined, At, Same, Holds, Lists
  <2>4. CASE ~HJoin(c) /\ ~SAddJoined(c)
    <3>1. loc[c].op # "invite"
      BY <1>7, <2>4 DEF Joining, CheckRoom, Activate, ExtendClaim, PublishStarted, Dialled,
         Inviter, At, Invites, Dials
    <3>2. Same(c)
      BY <1>1, <1>2, <1>7, <2>4, GotoEffect
         DEF Joining, CheckRoom, Activate, ExtendClaim, PublishStarted
    <3> QED
      BY <3>1, <3>2 DEF Same
  <2> QED
    BY <2>1, <2>2, <2>3, <2>4
<1>8. ASSUME Fault(c) PROVE FALSE
  BY <1>1, <1>2, <1>8, FaultEffect
<1> QED
  BY <1>2, <1>3, <1>4, <1>5, <1>6, <1>7, <1>8, ConnMoves DEF Handle

LEMMA NextIndexed ==
    Inv /\ Stations /\ Lives /\ Dialled /\ Uncleaned /\ Indexed /\ [Next]_vars => Indexed'
<1> SUFFICES ASSUME Inv, Stations, Lives, Dialled, Uncleaned, Indexed, [Next]_vars
             PROVE  Indexed'
  OBVIOUS
<1>1. ASSUME NEW d \in rang', Ringing(d)' PROVE IndexedBut(d, {})'
  <2>1. d \in Calls
    BY NextInv DEF Inv, TypeOK
  <2>2. CASE d \in rang
    <3>1. Ringing(d)
      BY <1>1, <2>1, <2>2, BeginsToRing
    <3>2. Minted(d) /\ IndexedBut(d, {}) /\ \A p \in Procs : ~Cleaning(p, d)
      BY <2>1, <2>2, <3>1 DEF Dialled, Minting, Indexed, Uncleaned
    <3> QED
      BY <2>1, <3>2, IndexStays
  <2>3. CASE d \notin rang
    <3>1. PICK c \in Conns : Ring(c) /\ d = InHand(c)
      BY <2>3, HeardFrame DEF Ring, RingPending, CheckHolder
    <3>2. UNCHANGED <<rec, index, info>>
      BY <3>1 DEF Ring, registry
    <3>3. loc[c].op = "invite" /\ loc[c].pc = "ring" /\ Ringing(d)
      BY <1>1, <3>1, <3>2 DEF Dialled, Inviter, Ring, At, OnlyInvites, Invites, Ringing
    <3>4. IndexedBut(d, {})
      BY <3>1, <3>3 DEF Indexed, Indexing
    <3> QED
      BY <3>2, <3>4 DEF IndexedBut, Participants, Minted
  <2> QED
    BY <2>2, <2>3
<1>2. ASSUME NEW c \in Conns, NEW d, d = loc'[c].call, loc'[c].op = "invite", Ringing(d)',
             loc'[c].pc \in {"index", "hjoin", "sadd", "ring"}
      PROVE  \A o \in Participants(d)' : \/ loc'[c].pc = "index" /\ o \in loc'[c].owners
                                         \/ d \in index'[o]
  <2>1. CASE SaveRinging(c)
    <3>1. InHand(c) = d /\ loc'[c].pc = "index" /\ loc'[c].owners = Participants(d) /\ UNCHANGED info
      BY <1>2, <2>1, SaveRingingEffect DEF Holds, Lists, SaveRinging
    <3> QED
      BY <3>1 DEF Participants, Minted
  <2>2. CASE IndexOwner(c)
    <3> DEFINE o == First(loc[c].owners)
    <3>1. /\ InHand(c) = d /\ loc'[c].owners = loc[c].owners \ {o}
          /\ loc'[c].pc = IF loc[c].owners = {o} THEN "hjoin" ELSE "index"
          /\ loc[c].pc = "index" /\ UNCHANGED <<rec, info>> /\ AddToIndex(o, d)
      BY <1>2, <2>2, IndexOwnerEffect DEF Holds, Lists, IndexOwner, AddToIndex, At
    <3> HIDE DEF o
    <3>2. loc[c].op = "invite" /\ Ringing(d) /\ d \in Calls
      BY ZenonT(60), <1>2, <2>2, <3>1, IndexOwnerEffect, InHandOK, Kinds DEF Same, Ringing, Unheld
    <3>3. IndexedBut(d, loc[c].owners) /\ Participants(d)' = Participants(d) /\ Participants(d) \subseteq Owners
      <4>1. info[d].host = c
        BY <3>1, <3>2 DEF Dialled, Inviter
      <4>2. info[d].conv \in Conversations
        BY <3>2, <4>1, NoneIsNobody DEF Inv, InfoOK, TypeOK, RegistryTypeOK
      <4> QED
        BY <3>1, <3>2, <4>2, ConnsAreServed DEF Indexed, Indexing, At, Participants, Minted
    <3>4. \A x \in Owners : index'[x] = IF x = o THEN index[x] \cup {d} ELSE index[x]
      BY <3>1 DEF AddToIndex, Inv, TypeOK, RegistryTypeOK
    <3>5. \A x \in Participants(d) : x \notin loc[c].owners \/ x = o => d \in index'[x]
      BY <3>3, <3>4 DEF IndexedBut
    <3> QED
      BY <3>1, <3>3, <3>5
  <2>3. CASE ~SaveRinging(c) /\ ~IndexOwner(c)
    <3>1. PICK left : left = IF loc[c].pc = "index" THEN loc[c].owners ELSE {}
      OBVIOUS
    <3>2. /\ loc[c].op = "invite" /\ d = InHand(c)
          /\ loc[c].pc \in {"index", "hjoin", "sadd", "ring"}
          /\ left = IF loc'[c].pc = "index" THEN loc'[c].owners ELSE {}
      BY <1>2, <2>3, <3>1, Indexers
    <3>3. d \in Calls /\ info[d].host = c
      BY <3>2, Kinds, InHandOK DEF Dialled, Inviter, Unheld
    <3>4. Ringing(d)
      BY <1>2, <2>3, <3>3, BeginsToRing
    <3>5. IndexedBut(d, left) /\ Minted(d) /\ \A p \in Procs : ~Cleaning(p, d)
      BY <3>1, <3>2, <3>3, <3>4, NoneIsNobody DEF Indexed, Indexing, At, Uncleaned, Minted
    <3>6. IndexedBut(d, left)'
      BY <3>3, <3>5, IndexStays
    <3> QED
      BY <3>2, <3>6 DEF IndexedBut
  <2> QED
    BY <2>1, <2>2, <2>3
<1>3. ASSUME NEW c \in Conns PROVE Indexing(c)'
  <2> SUFFICES ASSUME loc'[c].op = "invite", Ringing(InHand(c))',
                      loc'[c].pc \in {"index", "hjoin", "sadd", "ring"}
               PROVE  Indexing(c)'
    BY DEF Indexing, At
  <2>1. PICK d : d = loc'[c].call
    OBVIOUS
  <2>2. Ringing(d)'
    BY <2>1 DEF Ringing, InHand
  <2> QED
    BY <1>2, <2>1, <2>2 DEF Indexing, IndexedBut, InHand, At, Participants, Minted
<1> QED
  BY <1>1, <1>3 DEF Indexed

-----------------------------------------------------------------------------
(* Everybody invited is rung. *)

Pends == {"pending", "pget", "pjoined", "pdismissed"}

(* The connection was told of the call, or its catching up will find it.     *)
Caught(c, d) ==
    \/ d \in heard[c]
    \/ At(c, "pending")
    \/ loc[c].pc \in Pends /\ d \in loc[c].calls \cup loc[c].found
    \/ loc[c].pc \in {"pjoined", "pdismissed"} /\ d = InHand(c)

(* Of a call that rings, a person who neither joined nor declined it.        *)
Undecided(d, o) == o \in Participants(d) \ ({Caller(d)} \cup joined[d] \cup dismissed[d])

Rung ==
    \A d \in rang, c \in Conns :
        Ringing(d) /\ sock[c] = "open" /\ Undecided(d, OwnerOf[c]) => Caught(c, d)

LEMMA HeardGrows ==
    ASSUME Inv, [Next]_vars, NEW c \in Conns PROVE heard[c] \subseteq heard'[c]
<1>1. heard \in [Conns -> SUBSET Calls]
  BY DEF Inv, TypeOK
<1>2. ASSUME NEW b \in Conns, RingPending(b) \/ CheckHolder(b) PROVE heard[c] \subseteq heard'[c]
  BY <1>1, <1>2 DEF RingPending, CheckHolder
<1>3. ASSUME NEW b \in Conns, Ring(b) PROVE heard[c] \subseteq heard'[c]
  BY <1>1, <1>3 DEF Ring
<1> QED
  BY <1>2, <1>3, HeardFrame

(* Only the clean-up of the call forgets who joined or declined it.          *)
LEMMA DecisionsStay ==
    ASSUME Inv, [Next]_vars, NEW d \in Calls, \A p \in Procs : ~Cleaning(p, d)
    PROVE  joined[d] \subseteq joined'[d] /\ dismissed[d] \subseteq dismissed'[d]
<1>1. RegistryTypeOK
  BY DEF Inv, TypeOK
<1>2. \A p \in Procs : DeleteKeys(p) => InHand(p) # d
  BY DEF DeleteKeys, At, Cleaning
<1>3. joined[d] \subseteq joined'[d]
  BY <1>2, JoinedStays
<1>4. dismissed[d] \subseteq dismissed'[d]
  <2>1. ASSUME NEW c \in Conns, Inviting(c) PROVE UNCHANGED dismissed
    BY <2>1 DEF Inviting, ClaimConversation, CheckHolder, StealClaim, SaveRinging, UndoClaim,
       IndexOwner, Ring, ArmRingTimeout, registry, Claim, Save, AddToIndex
  <2>2. ASSUME NEW c \in Conns, Joining(c) PROVE UNCHANGED dismissed
    BY <2>2 DEF Joining, CheckRoom, HJoin, SAddJoined, Activate, ExtendClaim, PublishStarted,
       registry, SetMember, RecordJoin, Save, Claim
  <2>3. ASSUME NEW c \in Conns, DismissLeaver(c) PROVE dismissed[d] \subseteq dismissed'[d]
    BY <1>1, <2>3 DEF DismissLeaver, Dismiss, RegistryTypeOK
  <2>4. ASSUME NEW c \in Conns, Leaving(c), ~DismissLeaver(c) PROVE UNCHANGED dismissed
    BY <2>4 DEF Leaving, Leave, CountMembers, ReleaseNext, LeaveIfHeldBy, Closed, registry,
       SetMember
  <2>5. ASSUME NEW p \in Procs, DeleteKeys(p) PROVE dismissed'[d] = dismissed[d]
    BY <1>1, <1>2, <2>5 DEF DeleteKeys, CleanUp, RegistryTypeOK
  <2>6. ASSUME NEW p \in Procs, EndCall(p), ~DeleteKeys(p) PROVE UNCHANGED dismissed
    BY <2>6 DEF EndCall, EndCancelTimer, ClaimEnding, Unindex, AnnounceEnding, registry,
       Consume, RemoveFromIndex
  <2>7. ASSUME NEW e \in Calls, RingingExpires(e) PROVE UNCHANGED dismissed
    BY <2>7 DEF RingingExpires, Lapse
  <2> QED
    BY <2>1, <2>2, <2>3, <2>4, <2>5, <2>6, <2>7, RegistryFrame DEF registry
<1> QED
  BY <1>3, <1>4

LEMMA OpensByConnect ==
    ASSUME Inv, [Next]_vars, NEW c \in Conns, sock'[c] = "open", sock[c] # "open"
    PROVE  Connect(c)
<1>1. sock \in [Conns -> {"off", "open", "closing", "gone"}]
  BY DEF Inv, TypeOK
<1>2. ASSUME NEW b \in Conns, Client(b) PROVE Connect(c)
  BY <1>1, <1>2 DEF Client, Connect, Invite, Join, Hangup, Close
<1>3. ASSUME NEW b \in Conns, Connecting(b) \/ Inviting(b) PROVE FALSE
  BY <1>3 DEF Connecting, PendingIndex, PendingGet, PendingJoined, PendingDismissed,
     RingPending, Inviting, ClaimConversation, CheckHolder, StealClaim, SaveRinging, UndoClaim,
     IndexOwner, Ring, ArmRingTimeout
<1>4. ASSUME NEW b \in Conns, Joining(b) PROVE FALSE
  BY <1>4 DEF Joining, CheckRoom, HJoin, SAddJoined, Activate, ExtendClaim, PublishStarted
<1>5. ASSUME NEW b \in Conns, Leaving(b) PROVE FALSE
  BY <1>1, <1>5 DEF Leaving, Leave, DismissLeaver, CountMembers, ReleaseNext, LeaveIfHeldBy, Closed
<1>6. ASSUME NEW p \in Procs, EndCall(p) PROVE FALSE
  BY <1>6 DEF EndCall, EndCancelTimer, ClaimEnding, DeleteKeys, Unindex, AnnounceEnding
<1>7. ASSUME NEW p, RingTimeout(p) \/ RingTimeoutFired(p) \/ Sweeping(p) PROVE FALSE
  BY <1>7 DEF RingTimeout, RingTimeoutFired, Sweeping, SweepHeartbeats, SweepScan, SweepGet,
     SweepMembers, SweepFound, ReapOrphan, SweepDone
<1>8. ASSUME NEW p, Fault(p) \/ Restart(p) \/ HeartbeatLapses(p) \/ RingingExpires(p) PROVE FALSE
  BY <1>8 DEF Fault, Restart, HeartbeatLapses, RingingExpires, proc
<1>9. ASSUME NEW i \in Instances, Crash(i) PROVE FALSE
  BY <1>9 DEF Crash
<1>10. UNCHANGED vars => FALSE
  BY DEF vars, proc
<1> QED
  BY <1>2, <1>3, <1>4, <1>5, <1>6, <1>7, <1>8, <1>9, <1>10, Kinds DEF Next, Handle, Time, Reap

(* Catching up loses no ring that is still of interest.                      *)
LEMMA ConnectingCatches ==
    ASSUME Inv, NEW c \in Conns, Connecting(c), NEW d \in Calls, Ringing(d), IndexedBut(d, {}),
           Undecided(d, OwnerOf[c]), Caught(c, d), heard[c] \subseteq heard'[c]
    PROVE  Caught(c, d)'
<1>1. c \in Procs /\ loc[c] \in Local /\ heard \in [Conns -> SUBSET Calls]
  BY Kinds, InHandOK DEF RestOK
<1>2. CASE d \in heard[c]
  BY <1>2 DEF Caught
<1>3. CASE PendingIndex(c)
  <2>1. d \in index[OwnerOf[c]]
    BY DEF IndexedBut, Undecided
  <2> QED
    BY <1>3, <2>1, PendingIndexEffect DEF Holds, Lists, Caught, Pends
<1>4. CASE PendingGet(c) /\ d \notin heard[c]
  <2>1. PICK e \in loc[c].calls : /\ Holds(c, IF Live(e) THEN "pjoined" ELSE "pget", e)
                                  /\ Lists(c, loc[c].calls \ {e}, loc[c].found, loc[c].owners)
    BY <1>4, PendingGetEffect
  <2>2. d \in loc[c].calls \cup loc[c].found
    BY <1>4 DEF Caught, PendingGet, At
  <2>3. loc'[c].pc \in {"pjoined", "pget"}
    BY <2>1 DEF Holds
  <2>4. CASE d = e
    <3>1. loc'[c].pc = "pjoined" /\ loc'[c].call = d
      BY <2>1, <2>4 DEF Holds, Live, Ringing
    <3> QED
      BY <3>1 DEF Caught, InHand
  <2>5. CASE d # e
    BY <2>1, <2>2, <2>3, <2>5 DEF Lists, Caught, Pends
  <2> QED
    BY <2>4, <2>5
<1>5. CASE PendingJoined(c) /\ d \notin heard[c]
  <2>1. /\ Lists(c, loc[c].calls, loc[c].found, loc[c].owners)
        /\ loc'[c].call = InHand(c) /\ loc'[c].pc \in {"pget", "pdismissed"}
        /\ OwnerOf[c] \notin joined[InHand(c)] => loc'[c].pc = "pdismissed"
    BY <1>1, <1>5, GotoEffect DEF PendingJoined, Holds
  <2>2. d \in loc[c].calls \cup loc[c].found \/ d = InHand(c)
    BY <1>5 DEF Caught, PendingJoined, At
  <2> QED
    BY <2>1, <2>2 DEF Lists, Caught, Pends, Undecided, InHand
<1>6. CASE PendingDismissed(c) /\ d \notin heard[c]
  <2>1. /\ loc'[c].pc = "pget" /\ loc'[c].calls = loc[c].calls
        /\ loc'[c].found = IF OwnerOf[c] \in dismissed[InHand(c)] THEN loc[c].found
                           ELSE loc[c].found \cup {InHand(c)}
    BY <1>6, PendingDismissedEffect DEF Holds, Lists
  <2>2. d \in loc[c].calls \cup loc[c].found \/ d = InHand(c)
    BY <1>6 DEF Caught, PendingDismissed, At
  <2> QED
    BY <2>1, <2>2 DEF Caught, Pends, Undecided
<1>7. CASE RingPending(c) /\ d \notin heard[c]
  <2>1. d \in loc[c].found
    BY <1>7 DEF Caught, RingPending, At
  <2> QED
    BY <1>1, <1>7, <2>1 DEF RingPending, Caught
<1> QED
  BY <1>2, <1>3, <1>4, <1>5, <1>6, <1>7 DEF Connecting

LEMMA NextRung ==
    Inv /\ Stations /\ Lives /\ Dialled /\ Uncleaned /\ Indexed /\ (Faultless => Rung)
    /\ [Next]_vars => (Faultless => Rung)'
<1> SUFFICES ASSUME Inv, Stations, Lives, Dialled, Uncleaned, Indexed, Rung, [Next]_vars,
                    Faultless', NEW d \in rang', NEW c \in Conns,
                    Ringing(d)', sock'[c] = "open", Undecided(d, OwnerOf[c])'
             PROVE  Caught(c, d)'
  BY NoFault DEF Rung
<1>1. d \in Calls
  BY NextInv DEF Inv, TypeOK
<1>2. heard[c] \subseteq heard'[c] /\ heard \in [Conns -> SUBSET Calls]
  BY HeardGrows DEF Inv, TypeOK
<1>3. CASE d \notin rang
  <2>1. PICK b \in Conns : Ring(b) /\ d = InHand(b)
    BY <1>3, HeardFrame DEF Ring, RingPending, CheckHolder
  <2>2. info[d].host = b
    BY <2>1 DEF Dialled, Inviter, Ring, At, OnlyInvites, Invites
  <2>3. UNCHANGED <<sock, info>>
    BY <2>1 DEF Ring
  <2>4. sock[c] = "open" /\ OwnerOf[c] \in Participants(d) \ {OwnerOf[b]}
    BY <2>2, <2>3 DEF Undecided, Caller, Participants, Minted
  <2>5. d \in heard'[c]
    BY <2>1, <2>4 DEF Ring
  <2> QED
    BY <2>5 DEF Caught
<1>4. CASE Connect(c)
  BY <1>4, ConnectEffect DEF Anew, Holds, Caught, At
<1>5. CASE d \in rang /\ ~Connect(c)
  <2>1. sock[c] = "open" /\ Ringing(d) /\ Minted(d) /\ \A p \in Procs : ~Cleaning(p, d)
    BY <1>1, <1>5, OpensByConnect, BeginsToRing DEF Uncleaned, Dialled, Minting
  <2>2. Undecided(d, OwnerOf[c])
    <3>1. info'[d] = info[d] /\ joined[d] \subseteq joined'[d] /\ dismissed[d] \subseteq dismissed'[d]
      BY <1>1, <2>1, MintedStays, DecisionsStay
    <3> QED
      BY <3>1 DEF Undecided, Participants, Minted, Caller
  <2>3. Caught(c, d) /\ IndexedBut(d, {})
    BY <1>5, <2>1, <2>2 DEF Rung, Indexed
  <2>4. CASE loc'[c] = loc[c]
    BY <1>2, <2>3, <2>4 DEF Caught, At, InHand
  <2>5. CASE Connecting(c)
    BY <1>1, <1>2, <2>1, <2>2, <2>3, <2>5, ConnectingCatches
  <2>6. CASE loc[c].pc \notin Pends
    BY <1>2, <2>3, <2>6 DEF Caught, Pends, At
  <2>7. ASSUME Client(c) \/ Inviting(c) PROVE loc[c].pc \notin Pends
    BY <1>5, <2>7 DEF Client, Invite, Join, Hangup, Close, Receive, Inviting, ClaimConversation,
       CheckHolder, StealClaim, SaveRinging, UndoClaim, IndexOwner, Ring, ArmRingTimeout, At, Pends
  <2>8. ASSUME Joining(c) \/ Leaving(c) PROVE loc[c].pc \notin Pends
    BY <2>8 DEF Joining, CheckRoom, HJoin, SAddJoined, Activate, ExtendClaim, PublishStarted,
       Leaving, Leave, DismissLeaver, CountMembers, ReleaseNext, LeaveIfHeldBy, Closed, At, Pends
  <2>9. ASSUME EndCall(c) PROVE loc[c].pc \notin Pends
    BY <2>9 DEF EndCall, EndCancelTimer, ClaimEnding, DeleteKeys, Unindex, AnnounceEnding, At, Pends
  <2>10. ASSUME NEW i \in Instances, Crash(i), InstanceOf[c] = i PROVE FALSE
    BY <2>1, <2>10 DEF Crash
  <2> QED
    BY <2>4, <2>5, <2>6, <2>7, <2>8, <2>9, <2>10, ConnMoves, NoFault, Kinds DEF Handle
<1> QED
  BY <1>3, <1>4, <1>5

RingsInv == Dialled /\ Uncleaned /\ Indexed

(* ringPending: while no Redis command has failed, every open tab that has   *)
(* caught up was rung for every ringing call its person is invited to and    *)
(* neither joined nor declined, in whatever order the ring, the index        *)
(* writes and the sign-in came.                                              *)
THEOREM RingsReachEveryone == Spec => [](Faultless => UndecidedAreRung)
<1>1. Init => RingsInv /\ Rung
  <2>1. Init => rang = {} /\ (\A d \in Calls : ~Ringing(d)) /\ (\A c \in Conns : loc[c].op # "invite")
    BY Kinds DEF Init, RegistryInit, Ringing, Blank
  <2> QED
    BY <2>1, InitDialled DEF RingsInv, Uncleaned, Indexed, Indexing, Rung
<1>2. Inv /\ PlacesInv /\ RingsInv /\ (Faultless => Rung) /\ [Next]_vars
      => RingsInv' /\ (Faultless => Rung)'
  BY NextDialled, NextUncleaned, NextIndexed, NextRung DEF PlacesInv, RingsInv
<1>3. Rung => UndecidedAreRung
  BY DEF Rung, UndecidedAreRung, Undecided, Ringing, Caught, Pends, At
<1> QED
  BY <1>1, <1>2, <1>3, PlacesInvariance, PTL DEF Spec
=============================================================================
