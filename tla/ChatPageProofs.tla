--------------------------- MODULE ChatPageProofs ---------------------------
(***************************************************************************)
(* What the chatbot's page shows belongs to the conversation of its         *)
(* address, for any conversations, turns, page sizes and plans.             *)
(***************************************************************************)
EXTENDS ChatPage, WellFoundedInduction, TLAPS

-----------------------------------------------------------------------------
(* Types.                                                                   *)

Turn == 1 .. Turns
Some == Convs \cup {None}
Ident == [role : {"user", "reply"}, n : 0 .. Turns]
Bubbles == [role : {"user", "assistant", "error"}, n : 0 .. Turns, row : BOOLEAN, text : 0 .. 2, retry : BOOLEAN]
Screens == [conv : Some, url : Some, nav : Seq(Some), bubbles : Seq(Bubbles), busy : BOOLEAN, batch : 0 .. Turns,
            loading : BOOLEAN, error : BOOLEAN, more : BOOLEAN, oldest : Seq(Ident), olderLoading : BOOLEAN]
Found1 == [rows : Seq(Row), more : BOOLEAN]
Loads == [conv : Some, older : BOOLEAN, before : Seq(Ident), stale : BOOLEAN, reply : Seq(SUBSET Found1)]
Asks == [conv : Some, reply : Seq(0 .. Turns)]
Outs == [kind : {"send", "retry", "attach"}, n : Turn, stage : {"post", "stream"}, pos : Nat, off : Bubbles, at : Nat]
Stages == {"sent", "read", "claimed", "stored", "queued", "refused", "failed", "gone"}
Posts == [n : 0 .. Turns, kind : {"send", "retry", "delete"}, conv : Some, stage : Stages, reads : 0 .. Turns]
Events == {"claimed", "chunk", "done", "error", "unwritten"}
Jobs == [conv : Some, user : 0 .. Turns, status : {"none", "pending", "processing", "done", "failed"}, stream : Seq(Events)]
Workers == [n : 0 .. Turns, step : {"idle", "taken", "running", "written", "marked"}, failed : BOOLEAN, row : BOOLEAN]
ClientTyped == page \in Screens /\ loads \in Seq(Loads) /\ asks \in Seq(Asks) /\ outs \in Seq(Outs)
ServerTyped ==
    /\ posts \in SUBSET Posts /\ thread \in [Convs -> Seq(Row)] /\ alive \in SUBSET Convs
    /\ jobs \in [Turn -> Jobs] /\ pointer \in [Convs -> 0 .. Turns] /\ queue \in Seq(Turn)
    /\ worker \in Workers /\ (worker.step # "idle" => worker.n \in Turn)

(* What the service keeps: rows and pointers of a conversation are of its   *)
(* turns, and a post moves with the turn it is about.                       *)
ThreadsOK == \A c \in Convs : \A i \in DOMAIN thread[c] : jobs[thread[c][i].n].conv = c
PointersOK == \A c \in Convs : pointer[c] # 0 => jobs[pointer[c]].conv = c
PostOK(x) ==
    /\ IF x.kind = "delete" THEN x.n = 0 /\ x.stage \in {"sent", "gone"} ELSE x.n \in Turn /\ x.stage # "gone"
    /\ x.kind = "retry" => x.conv # None
    /\ x.stage \in {"read", "claimed"} => x.kind = "retry"
    /\ x.kind # "delete" /\ x.stage \in {"sent", "read", "refused"} => jobs[x.n].conv = None
    /\ x.stage \in {"claimed", "stored", "queued", "failed"} => x.conv # None /\ jobs[x.n].conv = x.conv
PostsOK == (\A x \in posts : PostOK(x)) /\ \A x, y \in posts : x.n = y.n /\ x.n # 0 => x = y
ServerOK == ThreadsOK /\ PointersOK /\ PostsOK

-----------------------------------------------------------------------------
(* Lists that are filtered.                                                 *)

Less == {ss \in Nat \X Nat : ss[1] < ss[2]}

(* Induction, for a set of numbers.                                         *)
LEMMA Inducts == ASSUME NEW S \in SUBSET Nat, 0 \in S, \A n \in S : n + 1 \in S PROVE S = Nat
<1>1. IsWellFoundedOn(Less, Nat)
  BY NatLessThanWellFounded DEF OpToRel, Less
<1>2. ASSUME Nat \ S # {} PROVE FALSE
  <2>1. PICK x \in Nat \ S : \A y \in Nat \ S : ~(<<y, x>> \in Less)
    BY <1>1, <1>2, WFMin
  <2>2. x - 1 \in Nat /\ x - 1 < x
    OBVIOUS
  <2>3. <<x - 1, x>> \in Less
    BY <2>2 DEF Less
  <2>4. x - 1 \in S
    BY <2>1, <2>2, <2>3
  <2> QED
    BY <2>4
<1> QED
  BY <1>2

Filters(F, s, at) ==
    F = [i \in 0 .. Len(s) |-> IF i = 0 THEN <<>> ELSE IF i \in at THEN Append(F[i - 1], s[i]) ELSE F[i - 1]]

LEMMA KeptRows ==
    ASSUME NEW X, NEW s \in Seq(X), NEW at
    PROVE  Kept(s, at) \in Seq({s[i] : i \in DOMAIN s \cap at})
<1> DEFINE Y == {s[i] : i \in DOMAIN s \cap at}
           Step(f, i) == IF i = 0 THEN <<>> ELSE IF i \in at THEN Append(f[i - 1], s[i]) ELSE f[i - 1]
           Upto(n) == \E f \in [0 .. n -> Seq(Y)] : \A i \in 0 .. n : f[i] = Step(f, i)
           N == {n \in Nat : n <= Len(s) => Upto(n)}
<1>1. Kept(s, at) = (CHOOSE F : Filters(F, s, at))[Len(s)]
  BY DEF Kept, Filters
<1>2. 0 \in N
  <2>1. Upto(0)
    <3>1. [i \in 0 .. 0 |-> <<>>] \in [0 .. 0 -> Seq(Y)]
      OBVIOUS
    <3>2. \A i \in 0 .. 0 : [k \in 0 .. 0 |-> <<>>][i] = Step([k \in 0 .. 0 |-> <<>>], i)
      OBVIOUS
    <3> HIDE DEF Y, Step
    <3> QED BY <3>1, <3>2
  <2> HIDE DEF Upto
  <2> QED BY <2>1
<1>3. ASSUME NEW n \in N PROVE n + 1 \in N
  <2>1. SUFFICES ASSUME n + 1 <= Len(s) PROVE Upto(n + 1)
    <3> HIDE DEF Upto
    <3> QED OBVIOUS
  <2>2. PICK f \in [0 .. n -> Seq(Y)] : \A i \in 0 .. n : f[i] = Step(f, i)
    <3>1. Upto(n)
      <4> HIDE DEF Upto
      <4> QED BY <1>3, <2>1
    <3> HIDE DEF Y, Step
    <3> QED BY <3>1
  <2> DEFINE g == [i \in 0 .. n + 1 |-> IF i <= n THEN f[i] ELSE IF n + 1 \in at THEN Append(f[n], s[n + 1]) ELSE f[n]]
  <2>3. f[n] \in Seq(Y) /\ (n + 1 \in at => s[n + 1] \in Y)
    <3>1. n \in 0 .. n /\ n + 1 \in DOMAIN s
      BY <2>1
    <3>2. n + 1 \in at => s[n + 1] \in Y
      BY <3>1
    <3> HIDE DEF Y
    <3> QED BY <2>2, <3>1, <3>2
  <2>4. (IF n + 1 \in at THEN Append(f[n], s[n + 1]) ELSE f[n]) \in Seq(Y)
    <3> HIDE DEF Y
    <3> QED BY <2>3
  <2>5. g \in [0 .. n + 1 -> Seq(Y)]
    <3> HIDE DEF Y
    <3> QED BY <2>2, <2>4
  <2>6. \A i \in 0 .. n + 1 : g[i] = Step(g, i)
    <3>1. ASSUME NEW i \in 0 .. n PROVE g[i] = Step(g, i)
      <4>1. g[i] = f[i] /\ (i # 0 => g[i - 1] = f[i - 1])
        BY <3>1
      <4> HIDE DEF g, Y
      <4> QED BY <2>2, <4>1
    <3>2. g[n + 1] = Step(g, n + 1)
      <4>1. g[n + 1 - 1] = f[n]
        OBVIOUS
      <4>2. n + 1 # 0
        OBVIOUS
      <4> QED BY <4>1, <4>2
    <3>3. \A i \in 0 .. n + 1 : i \in 0 .. n \/ i = n + 1
      OBVIOUS
    <3> HIDE DEF g, Step
    <3> QED BY <3>1, <3>2, <3>3
  <2> HIDE DEF g, Step, Y
  <2> QED
    BY <2>5, <2>6
<1>4. Upto(Len(s))
  <2> HIDE DEF Upto
  <2>1. N \in SUBSET Nat
    OBVIOUS
  <2>2. N = Nat
    <3> HIDE DEF N
    <3> QED BY <1>2, <1>3, <2>1, Inducts
  <2>3. Len(s) \in Nat
    OBVIOUS
  <2>4. Len(s) \in N
    <3> HIDE DEF N
    <3> QED BY <2>2, <2>3
  <2> QED
    BY <2>4, <2>3
<1>5. PICK f \in [0 .. Len(s) -> Seq(Y)] : \A i \in 0 .. Len(s) : f[i] = Step(f, i)
  BY <1>4
<1>6. Filters(f, s, at)
  <2> HIDE DEF Y
  <2> QED BY <1>5 DEF Filters
<1> DEFINE g == CHOOSE F : Filters(F, s, at)
<1>7. Filters(g, s, at)
  BY <1>6
<1> DEFINE M == {n \in Nat : n <= Len(s) => g[n] \in Seq(Y)}
<1> HIDE DEF g, Y
<1>8. \A i \in 0 .. Len(s) : g[i] = Step(g, i)
  BY <1>7 DEF Filters
<1>9. 0 \in M
  <2>1. 0 \in 0 .. Len(s) /\ <<>> \in Seq(Y)
    OBVIOUS
  <2>2. g[0] = <<>>
    BY <1>8, <2>1
  <2> QED
    BY <2>1, <2>2
<1>10. ASSUME NEW n \in M PROVE n + 1 \in M
  <2>1. SUFFICES ASSUME n + 1 <= Len(s) PROVE g[n + 1] \in Seq(Y)
    OBVIOUS
  <2>2. g[n] \in Seq(Y) /\ n + 1 # 0 /\ n + 1 - 1 = n /\ n + 1 \in 0 .. Len(s)
    BY <2>1
  <2>3. n + 1 \in at => s[n + 1] \in Y
    BY <2>1 DEF Y
  <2>4. g[n + 1] = Step(g, n + 1)
    BY <1>8, <2>2
  <2>5. n + 1 \in at => Append(g[n], s[n + 1]) \in Seq(Y)
    BY <2>2, <2>3
  <2> QED
    BY <2>2, <2>4, <2>5
<1>11. M = Nat
  <2>1. M \in SUBSET Nat
    OBVIOUS
  <2> HIDE DEF M
  <2> QED BY <1>9, <1>10, <2>1, Inducts
<1>12. g[Len(s)] \in Seq(Y)
  BY <1>11
<1> QED
  BY <1>1, <1>12 DEF g, Y

-----------------------------------------------------------------------------
(* The page: what it shows, asks for and awaits fits the conversation it is *)
(* on; J are the jobs, L the turns given up, Q the posts.                   *)

Clients == [p : Screens, loads : Seq(Loads), asks : Seq(Asks), outs : Seq(Outs)]

OfIn(p, J, n) == p.conv # None /\ J[n].conv = p.conv
FitsIn(p, J, L, n) == n = 0 \/ n \in L \/ OfIn(p, J, n)
OutFits(o, p, J, L, Q) ==
    /\ o.stage = "stream" => OfIn(p, J, o.n)
    /\ o.stage = "post" =>
         /\ o.kind # "attach" /\ (o.kind = "retry" => p.conv # None /\ o.at # 0) /\ FitsIn(p, J, L, o.off.n)
         /\ \A x \in Q : x.n = o.n => x.kind = o.kind /\ (p.conv # None => x.conv = p.conv)
One(u) == u.outs # <<>> => Len(u.outs) = 1 /\ u.p.busy
AnswersOK(load, J) ==
    /\ load.conv # None
    /\ \A k \in DOMAIN load.reply : \A g \in load.reply[k] : \A j \in DOMAIN g.rows : J[g.rows[j].n].conv = load.conv
AskOK(ask, p, J) ==
    /\ ask.conv = p.conv /\ p.conv # None
    /\ \A k \in DOMAIN ask.reply : ask.reply[k] # 0 => OfIn(p, J, ask.reply[k])
AwaitedIn(O, n) == \E i \in DOMAIN O : O[i].n = n /\ O[i].stage = "post"
BubbleOK(b, u, J, L) == FitsIn(u.p, J, L, b.n) \/ AwaitedIn(u.outs, b.n)
Named(p) == p.nav = <<>> => p.url = p.conv
ClientFits(u, J, L, Q) ==
    /\ One(u) /\ \A i \in DOMAIN u.outs : OutFits(u.outs[i], u.p, J, L, Q)
    /\ \A i \in DOMAIN u.loads : AnswersOK(u.loads[i], J) /\ (~u.loads[i].stale => u.loads[i].conv = u.p.conv)
    /\ \A i \in DOMAIN u.asks : AskOK(u.asks[i], u.p, J)
    /\ \A i \in DOMAIN u.p.bubbles : BubbleOK(u.p.bubbles[i], u, J, L)
    /\ Named(u.p)

Inv == Client \in Clients /\ ServerTyped /\ ServerOK /\ ClientFits(Client, jobs, lost, posts)

LEMMA Awaits == \A n : Awaited(n) <=> AwaitedIn(outs, n)
BY DEF Awaited, AwaitedIn, Range

(* What was known of turns and posts is still known.                        *)
Grew(J, K) == \A n \in Turn : J[n].conv # None => K[n].conv = J[n].conv
Follows(Q, R) == \A y \in R : \E x \in Q : x.n = y.n /\ x.kind = y.kind /\ (x.conv # None => y.conv = x.conv)

LEMMA StillFits ==
    ASSUME NEW u \in Clients, NEW J \in [Turn -> Jobs], NEW K \in [Turn -> Jobs], NEW L, NEW M, NEW Q, NEW R,
           ClientFits(u, J, L, Q), Grew(J, K), Follows(Q, R), \A n \in L \ M : OfIn(u.p, J, n)
    PROVE  ClientFits(u, K, M, R)
<1>0. /\ u.p \in Screens /\ u.loads \in Seq(Loads) /\ u.asks \in Seq(Asks) /\ u.outs \in Seq(Outs)
      /\ u.p.bubbles \in Seq(Bubbles)
  BY DEF Clients, Screens
<1>1. ASSUME NEW n \in Turn, OfIn(u.p, J, n) PROVE OfIn(u.p, K, n)
  BY <1>1 DEF OfIn, Grew
<1>2. ASSUME NEW n \in 0 .. Turns, FitsIn(u.p, J, L, n) PROVE FitsIn(u.p, K, M, n)
  BY <1>1, <1>2, ConstantsAssumption DEF FitsIn, Turn
<1>3. ASSUME NEW i \in DOMAIN u.outs PROVE OutFits(u.outs[i], u.p, K, M, R)
  <2> DEFINE o == u.outs[i]
  <2>1. o \in Outs /\ OutFits(o, u.p, J, L, Q)
    BY <1>0, <1>3 DEF ClientFits
  <2>2. o.n \in Turn /\ o.off.n \in 0 .. Turns
    BY <2>1 DEF Outs, Bubbles
  <2> HIDE DEF o
  <2>3. ASSUME NEW y \in R, y.n = o.n, o.stage = "post" PROVE y.kind = o.kind /\ (u.p.conv # None => y.conv = u.p.conv)
    BY <2>1, <2>3 DEF OutFits, Follows
  <2> QED
    BY <1>1, <1>2, <2>1, <2>2, <2>3 DEF OutFits, o
<1>4. ASSUME NEW i \in DOMAIN u.loads PROVE AnswersOK(u.loads[i], K)
  <2> DEFINE l == u.loads[i]
  <2>1. l \in Loads /\ AnswersOK(l, J)
    BY <1>0, <1>4 DEF ClientFits
  <2> HIDE DEF l
  <2>2. ASSUME NEW k \in DOMAIN l.reply, NEW g \in l.reply[k], NEW j \in DOMAIN g.rows PROVE K[g.rows[j].n].conv = l.conv
    <3>1. g \in Found1
      BY <2>1, <2>2 DEF Loads
    <3>2. g.rows \in Seq(Row)
      BY <3>1 DEF Found1
    <3>3. g.rows[j].n \in Turn
      <4>1. g.rows[j] \in Row
        BY <3>2
      <4> QED BY <4>1 DEF Row, Turn
    <3>4. J[g.rows[j].n].conv = l.conv /\ l.conv # None
      BY <2>1 DEF AnswersOK
    <3> QED BY <3>3, <3>4 DEF Grew
  <2> QED BY <2>1, <2>2 DEF AnswersOK, l
<1>5. ASSUME NEW i \in DOMAIN u.asks PROVE AskOK(u.asks[i], u.p, K)
  <2> DEFINE a == u.asks[i]
  <2>1. a \in Asks /\ AskOK(a, u.p, J)
    BY <1>0, <1>5 DEF ClientFits
  <2> HIDE DEF a
  <2>2. ASSUME NEW k \in DOMAIN a.reply, a.reply[k] # 0 PROVE OfIn(u.p, K, a.reply[k])
    <3>1. a.reply[k] \in Turn
      BY <2>1, <2>2, ConstantsAssumption DEF Asks, Turn
    <3> QED BY <1>1, <2>1, <2>2, <3>1 DEF AskOK
  <2> QED BY <2>1, <2>2 DEF AskOK, a
<1>6. ASSUME NEW i \in DOMAIN u.p.bubbles PROVE BubbleOK(u.p.bubbles[i], u, K, M)
  <2>1. u.p.bubbles[i].n \in 0 .. Turns
    <3>1. u.p.bubbles[i] \in Bubbles
      BY <1>0
    <3> QED BY <3>1 DEF Bubbles
  <2> QED BY <1>2, <2>1 DEF BubbleOK, ClientFits
<1> QED
  BY <1>3, <1>4, <1>5, <1>6 DEF ClientFits

-----------------------------------------------------------------------------
(* A sequence with something appended, or one element left out.             *)
LEMMA Longer ==
    ASSUME NEW X, NEW q \in Seq(X), NEW e \in X
    PROVE  /\ Append(q, e) \in Seq(X)
           /\ \A i \in DOMAIN Append(q, e) : (i \in DOMAIN q /\ Append(q, e)[i] = q[i]) \/ Append(q, e)[i] = e
OBVIOUS

LEMMA Shorter ==
    ASSUME NEW X, NEW q \in Seq(X), NEW k \in DOMAIN q
    PROVE  /\ RemoveAt(q, k) \in Seq(X)
           /\ \A i \in DOMAIN RemoveAt(q, k) : \E j \in DOMAIN q : RemoveAt(q, k)[i] = q[j]
<1> DEFINE a == SubSeq(q, 1, k - 1)
           b == SubSeq(q, k + 1, Len(q))
<1>1. a \in Seq(X) /\ \A i \in DOMAIN a : \E j \in DOMAIN q : a[i] = q[j]
  OBVIOUS
<1>2. b \in Seq(X) /\ \A i \in DOMAIN b : \E j \in DOMAIN q : b[i] = q[j]
  <2>1. \A i \in DOMAIN b : k + i \in DOMAIN q /\ b[i] = q[k + i]
    OBVIOUS
  <2> QED BY <2>1
<1> HIDE DEF a, b
<1>3. a \o b \in Seq(X) /\ \A i \in DOMAIN (a \o b) : (i \in DOMAIN a /\ (a \o b)[i] = a[i]) \/ (i - Len(a) \in DOMAIN b /\ (a \o b)[i] = b[i - Len(a)])
  BY <1>1, <1>2
<1>4. RemoveAt(q, k) = a \o b
  BY DEF RemoveAt, a, b
<1> QED
  BY <1>1, <1>2, <1>3, <1>4

(* Records, field by field.                                                 *)
LEMMA ScreenIs ==
    ASSUME NEW p
    PROVE  p \in Screens <=>
             /\ p = [conv |-> p.conv, url |-> p.url, nav |-> p.nav, bubbles |-> p.bubbles, busy |-> p.busy, batch |-> p.batch,
                     loading |-> p.loading, error |-> p.error, more |-> p.more, oldest |-> p.oldest, olderLoading |-> p.olderLoading]
             /\ p.conv \in Some /\ p.url \in Some /\ p.nav \in Seq(Some) /\ p.bubbles \in Seq(Bubbles) /\ p.busy \in BOOLEAN
             /\ p.batch \in 0 .. Turns /\ p.loading \in BOOLEAN /\ p.error \in BOOLEAN /\ p.more \in BOOLEAN
             /\ p.oldest \in Seq(Ident) /\ p.olderLoading \in BOOLEAN
BY DEF Screens

LEMMA ClientIs ==
    ASSUME NEW u
    PROVE  u \in Clients <=>
             /\ u = [p |-> u.p, loads |-> u.loads, asks |-> u.asks, outs |-> u.outs]
             /\ u.p \in Screens /\ u.loads \in Seq(Loads) /\ u.asks \in Seq(Asks) /\ u.outs \in Seq(Outs)
BY DEF Clients

LEMMA Stales ==
    ASSUME NEW l \in Loads
    PROVE  LET k == [l EXCEPT !.stale = TRUE] IN k \in Loads /\ k.stale /\ k.conv = l.conv /\ k.reply = l.reply
BY DEF Loads

(* The thread is left: what was asked for is let go.                        *)
Answered(u, J) == \A i \in DOMAIN u.loads : AnswersOK(u.loads[i], J)
Left(u, id) == syncConversationParam(Blank(Cancel(u), id), id)

LEMMA CancelTyped == ASSUME NEW u \in Clients PROVE
    /\ Cancel(u) \in Clients /\ Cancel(u).outs = <<>> /\ Cancel(u).asks = <<>>
    /\ Cancel(u).loads = [i \in DOMAIN u.loads |-> [u.loads[i] EXCEPT !.stale = TRUE]]
    /\ Cancel(u).p = [u.p EXCEPT !.busy = u.p.busy /\ u.outs = <<>>, !.batch = 0]
<1> DEFINE p == [u.p EXCEPT !.busy = u.p.busy /\ u.outs = <<>>, !.batch = 0]
           l == [i \in DOMAIN u.loads |-> [u.loads[i] EXCEPT !.stale = TRUE]]
<1>1. u = [p |-> u.p, loads |-> u.loads, asks |-> u.asks, outs |-> u.outs] /\ u.p \in Screens /\ u.loads \in Seq(Loads)
  BY ClientIs
<1>2. p \in Screens
  <2> DEFINE b == u.p.busy /\ u.outs = <<>>
  <2>1. b \in BOOLEAN /\ 0 \in 0 .. Turns
    BY ConstantsAssumption
  <2> HIDE DEF b
  <2>2. [u.p EXCEPT !.busy = b, !.batch = 0] \in Screens
    BY <1>1, <2>1 DEF Screens
  <2> QED BY <2>2 DEF b
<1>3. l \in Seq(Loads)
  <2>1. \A i \in DOMAIN u.loads : u.loads[i] \in Loads
    BY <1>1
  <2>2. \A i \in DOMAIN u.loads : [u.loads[i] EXCEPT !.stale = TRUE] \in Loads
    BY <2>1, Stales
  <2> QED BY <1>1, <2>2
<1>4. Cancel(u) = [p |-> p, loads |-> l, asks |-> <<>>, outs |-> <<>>]
  <2>1. Cancel(u) = [[[[u EXCEPT !.outs = <<>>] EXCEPT !.asks = <<>>] EXCEPT !.p = p] EXCEPT !.loads = l]
    BY <1>1 DEF Cancel
  <2> HIDE DEF p, l
  <2> QED BY <1>1, <2>1
<1> HIDE DEF p, l
<1>5. Cancel(u) \in Clients
  BY <1>2, <1>3, <1>4 DEF Clients
<1> QED BY <1>4, <1>5 DEF p, l

LEMMA Blanks ==
    ASSUME NEW u \in Clients, NEW id \in Some
    PROVE  /\ Blank(u, id) \in Clients /\ Blank(u, id).p.conv = id /\ Blank(u, id).p.bubbles = <<>>
           /\ Blank(u, id).loads = u.loads /\ Blank(u, id).outs = u.outs /\ Blank(u, id).asks = u.asks
           /\ Blank(u, id).p.url = u.p.url /\ Blank(u, id).p.nav = u.p.nav
<1> DEFINE p == [u.p EXCEPT !.bubbles = <<>>, !.conv = id, !.more = FALSE, !.oldest = <<>>,
                   !.olderLoading = FALSE, !.loading = id # None, !.error = FALSE]
<1>1. u = [p |-> u.p, loads |-> u.loads, asks |-> u.asks, outs |-> u.outs] /\ u.p \in Screens
  BY DEF Clients
<1>2. p \in Screens /\ p.conv = id /\ p.bubbles = <<>> /\ p.url = u.p.url /\ p.nav = u.p.nav
  <2> DEFINE b == id # None
             none == <<>>
  <2>1. b \in BOOLEAN /\ none \in Seq(Bubbles) /\ none \in Seq(Ident)
    OBVIOUS
  <2> HIDE DEF b, none
  <2>2. LET q == [u.p EXCEPT !.bubbles = none, !.conv = id, !.more = FALSE, !.oldest = none,
                   !.olderLoading = FALSE, !.loading = b, !.error = FALSE]
        IN q \in Screens /\ q.conv = id /\ q.bubbles = none /\ q.url = u.p.url /\ q.nav = u.p.nav
    BY <1>1, <2>1 DEF Screens
  <2> QED BY <2>2 DEF b, none
<1>3. Blank(u, id) = [u EXCEPT !.p = p]
  BY <1>1 DEF Blank
<1> HIDE DEF p
<1> QED BY <1>1, <1>2, <1>3 DEF Clients

LEMMA Syncs ==
    ASSUME NEW u \in Clients, NEW id \in Some
    PROVE  LET v == syncConversationParam(u, id)
           IN /\ v \in Clients /\ v.loads = u.loads /\ v.outs = u.outs /\ v.asks = u.asks
              /\ v.p.conv = u.p.conv /\ v.p.bubbles = u.p.bubbles /\ v.p.busy = u.p.busy
              /\ v.p.url = u.p.url
              /\ u.p.conv = id => Named(v.p)
<1>1. CASE u.p.url = id
  BY <1>1 DEF syncConversationParam, Named
<1>2. CASE u.p.url # id
  <2> DEFINE p == [u.p EXCEPT !.nav = <<id>>]
  <2>1. u = [p |-> u.p, loads |-> u.loads, asks |-> u.asks, outs |-> u.outs] /\ u.p \in Screens
    BY DEF Clients
  <2>2. p \in Screens /\ p.conv = u.p.conv /\ p.bubbles = u.p.bubbles /\ p.busy = u.p.busy /\ p.url = u.p.url /\ p.nav # <<>>
    <3> DEFINE to == <<id>>
    <3>1. to \in Seq(Some) /\ to # <<>>
      OBVIOUS
    <3> HIDE DEF to
    <3>2. LET q == [u.p EXCEPT !.nav = to]
          IN q \in Screens /\ q.conv = u.p.conv /\ q.bubbles = u.p.bubbles /\ q.busy = u.p.busy /\ q.url = u.p.url /\ q.nav = to
      BY <2>1, <3>1 DEF Screens
    <3> QED BY <3>1, <3>2 DEF to
  <2>3. syncConversationParam(u, id) = [u EXCEPT !.p = p]
    BY <1>2, <2>1 DEF syncConversationParam
  <2> HIDE DEF p
  <2> QED BY <2>1, <2>2, <2>3 DEF Clients, Named
<1> QED BY <1>1, <1>2

LEMMA Leaves ==
    ASSUME NEW u \in Clients, NEW J, NEW L, NEW Q, NEW id \in Some, Answered(u, J)
    PROVE  /\ Left(u, id) \in Clients /\ ClientFits(Left(u, id), J, L, Q)
           /\ Left(u, id).p.conv = id /\ Left(u, id).outs = <<>>
<1> DEFINE a == Cancel(u)
           b == Blank(a, id)
           v == Left(u, id)
<1>1. a \in Clients /\ a.outs = <<>> /\ a.asks = <<>> /\ a.loads = [i \in DOMAIN u.loads |-> [u.loads[i] EXCEPT !.stale = TRUE]]
  BY CancelTyped
<1>2. b \in Clients /\ b.p.conv = id /\ b.p.bubbles = <<>> /\ b.loads = a.loads /\ b.outs = <<>> /\ b.asks = <<>>
  BY <1>1, Blanks
<1> HIDE DEF a
<1>3. v = syncConversationParam(b, id)
  BY DEF Left, a
<1> HIDE DEF b, v
<1>4. v \in Clients /\ v.loads = a.loads /\ v.outs = <<>> /\ v.asks = <<>> /\ v.p.conv = id /\ v.p.bubbles = <<>> /\ Named(v.p)
  BY <1>2, <1>3, Syncs
<1>5. \A i \in DOMAIN v.loads : v.loads[i].stale /\ AnswersOK(v.loads[i], J)
  <2>1. ASSUME NEW i \in DOMAIN u.loads PROVE LET l == [u.loads[i] EXCEPT !.stale = TRUE] IN l.stale /\ AnswersOK(l, J)
    <3>1. u.loads[i] \in Loads
      BY DEF Clients
    <3>2. LET l == [u.loads[i] EXCEPT !.stale = TRUE] IN l.stale /\ l.conv = u.loads[i].conv /\ l.reply = u.loads[i].reply
      BY <3>1, Stales
    <3> QED BY <2>1, <3>2 DEF Answered, AnswersOK
  <2> QED BY <1>1, <1>4, <2>1
<1>6. v.p.bubbles = <<>> => DOMAIN v.p.bubbles = {} /\ DOMAIN v.asks = {} /\ DOMAIN v.outs = {}
  BY <1>4
<1> QED BY <1>4, <1>5, <1>6 DEF ClientFits, One, v

-----------------------------------------------------------------------------
(* The service.  A step of it leaves the page, and what was known.          *)
LEMMA Serves ==
    ASSUME Inv, UNCHANGED client, ServerTyped', ServerOK', Grew(jobs, jobs'), Follows(posts, posts'), lost \subseteq lost'
    PROVE  Inv'
<1>1. Client' = Client
  BY DEF Client, client
<1>2. jobs \in [Turn -> Jobs] /\ jobs' \in [Turn -> Jobs]
  BY DEF Inv, ServerTyped
<1>3. ClientFits(Client, jobs', lost', posts')
  BY <1>2, StillFits DEF Inv
<1>4. ClientFits(Client, jobs, lost, posts)' = ClientFits(Client', jobs', lost', posts')
  OBVIOUS
<1> QED BY <1>1, <1>3, <1>4 DEF Inv

LEMMA Same == \A J, Q : Grew(J, J) /\ Follows(Q, Q)
BY DEF Grew, Follows

LEMMA ThreadsStay ==
    ASSUME ServerTyped, ThreadsOK, Grew(jobs, jobs'),
           \A c \in Convs : \A i \in DOMAIN thread'[c] : \E j \in DOMAIN thread[c] : thread'[c][i] = thread[c][j]
    PROVE  ThreadsOK'
<1>1. ASSUME NEW c \in Convs, NEW j \in DOMAIN thread[c] PROVE jobs'[thread[c][j].n].conv = c
  <2>1. thread[c] \in Seq(Row)
    BY DEF ServerTyped
  <2>2. thread[c][j] \in Row
    BY <2>1
  <2>3. thread[c][j].n \in Turn
    BY <2>2 DEF Row, Turn
  <2> QED BY <2>3, ConstantsAssumption DEF ThreadsOK, Grew
<1> QED BY <1>1 DEF ThreadsOK

LEMMA PointersStay ==
    ASSUME ServerTyped, PointersOK, Grew(jobs, jobs'), UNCHANGED pointer
    PROVE  PointersOK'
<1>1. ASSUME NEW c \in Convs, pointer[c] # 0 PROVE jobs'[pointer[c]].conv = c
  <2>1. pointer[c] \in Turn
    BY <1>1, ConstantsAssumption DEF ServerTyped, Turn
  <2> QED BY <1>1, <2>1, ConstantsAssumption DEF PointersOK, Grew
<1> QED BY <1>1 DEF PointersOK

LEMMA PostsStay ==
    ASSUME ServerTyped, PostsOK, posts' \subseteq posts, \A n \in Turn : jobs'[n].conv = jobs[n].conv
    PROVE  PostsOK' /\ posts' \in SUBSET Posts /\ Follows(posts, posts')
<1>1. ASSUME NEW x \in posts' PROVE PostOK(x)'
  <2>1. x \in posts /\ PostOK(x)
    BY <1>1 DEF PostsOK
  <2>2. x.kind # "delete" => x.n \in Turn
    BY <2>1 DEF PostOK
  <2>3. x.stage \in {"claimed", "stored", "queued", "failed"} => x.kind # "delete"
    BY <2>1 DEF PostOK
  <2> QED BY <2>1, <2>2, <2>3 DEF PostOK
<1> QED BY <1>1 DEF PostsOK, Follows, ServerTyped

LEMMA PostMoves ==
    ASSUME ServerTyped, PostsOK, NEW x \in posts, NEW z \in Posts, z.n = x.n, PostOK(z)',
           posts' = (posts \ {x}) \cup {z}, \A n \in Turn \ {x.n} : jobs'[n].conv = jobs[n].conv
    PROVE  /\ PostsOK' /\ posts' \in SUBSET Posts
           /\ z.kind = x.kind /\ (x.conv # None => z.conv = x.conv) => Follows(posts, posts')
<1>1. ASSUME NEW y \in posts', y # z PROVE PostOK(y)'
  <2>1. y \in posts /\ PostOK(y)
    BY <1>1 DEF PostsOK
  <2>2. y.kind # "delete" => y.n \in Turn /\ y.n # 0
    BY <2>1 DEF PostOK, Turn
  <2>3. y.kind # "delete" => y.n # x.n
    BY <1>1, <2>1, <2>2 DEF PostsOK
  <2>4. y.stage \in {"claimed", "stored", "queued", "failed"} => y.kind # "delete"
    BY <2>1 DEF PostOK
  <2> QED BY <2>1, <2>2, <2>3, <2>4 DEF PostOK
<1>2. ASSUME NEW a \in posts', NEW b \in posts', a.n = b.n, a.n # 0 PROVE a = b
  BY <1>2 DEF PostsOK
<1>3. posts' \in SUBSET Posts
  BY DEF ServerTyped
<1>4. z.kind = x.kind /\ (x.conv # None => z.conv = x.conv) => Follows(posts, posts')
  BY DEF Follows
<1> QED BY <1>1, <1>2, <1>3, <1>4 DEF PostsOK

LEMMA PostIs ==
    ASSUME NEW x \in Posts, NEW st \in Stages
    PROVE  LET z == [x EXCEPT !.stage = st]
           IN z \in Posts /\ z.n = x.n /\ z.kind = x.kind /\ z.conv = x.conv /\ z.stage = st /\ z.reads = x.reads
BY DEF Posts

LEMMA Served ==
    ASSUME Inv, UNCHANGED client, ServerTyped', ThreadsOK', PointersOK', PostsOK', Grew(jobs, jobs'), Follows(posts, posts'),
           lost \subseteq lost'
    PROVE  Inv'
BY Serves DEF ServerOK

(* One post is answered, or moves on, and nothing else happens.             *)
LEMMA Moved ==
    ASSUME Inv, NEW x \in posts, NEW st \in Stages, Advance(x, st), UNCHANGED <<client, thread, alive, jobs, pointer, queue, worker>>,
           lost \subseteq lost', PostOK([x EXCEPT !.stage = st])
    PROVE  Inv'
<1> DEFINE z == [x EXCEPT !.stage = st]
<1>1. ServerTyped /\ ThreadsOK /\ PointersOK /\ PostsOK /\ x \in Posts
  BY DEF Inv, ServerOK, ServerTyped
<1>2. z \in Posts /\ z.n = x.n /\ z.kind = x.kind /\ z.conv = x.conv
  BY <1>1, PostIs
<1>3. PostOK(z)'
  BY DEF PostOK
<1>4. posts' = (posts \ {x}) \cup {z}
  BY DEF Advance
<1> HIDE DEF z
<1>5. PostsOK' /\ posts' \in SUBSET Posts /\ Follows(posts, posts')
  BY <1>1, <1>2, <1>3, <1>4, PostMoves
<1>6. Grew(jobs, jobs') /\ ThreadsOK' /\ PointersOK'
  BY <1>1 DEF Grew, ThreadsOK, PointersOK
<1>7. ServerTyped'
  BY <1>1, <1>5 DEF ServerTyped
<1> QED BY <1>5, <1>6, <1>7, Served

-----------------------------------------------------------------------------
(* The steps of the service.                                                *)
LEMMA Known ==
    ASSUME Inv
    PROVE  /\ ClientTyped /\ ServerTyped /\ ThreadsOK /\ PointersOK /\ PostsOK
           /\ \A x \in posts : x \in Posts /\ PostOK(x)
BY DEF Inv, ServerOK, ServerTyped, PostsOK, Clients, ClientTyped, Client

LEMMA Refuses ==
    ASSUME Inv, NEW x \in posts, Answers(x, "refused"), x.kind # "delete", x.stage \in {"sent", "read"},
           UNCHANGED <<plan, client, worker>>
    PROVE  Inv'
<1>1. x \in Posts /\ PostOK(x)
  BY Known
<1> DEFINE z == [x EXCEPT !.stage = "refused"]
<1>2. z \in Posts /\ z.n = x.n /\ z.kind = x.kind /\ z.conv = x.conv /\ z.stage = "refused"
  BY <1>1, PostIs DEF Stages
<1> HIDE DEF z
<1>3. PostOK(z)
  BY <1>1, <1>2 DEF PostOK
<1> QED BY <1>3, Moved DEF Answers, Stages, z

LEMMA DeletePosts ==
    ASSUME Inv, executeDelete
    PROVE  Inv'
<1>1. PICK c \in alive : posts' = posts \cup {[n |-> 0, kind |-> "delete", conv |-> c, stage |-> "sent", reads |-> 0]}
  BY DEF executeDelete
<1> DEFINE z == [n |-> 0, kind |-> "delete", conv |-> c, stage |-> "sent", reads |-> 0]
<1>2. ServerTyped /\ ThreadsOK /\ PointersOK /\ PostsOK /\ UNCHANGED <<client, thread, alive, jobs, pointer, queue, worker, lost>>
  BY Known DEF executeDelete
<1>3. z \in Posts /\ PostOK(z) /\ z.n = 0
  BY <1>2, ConstantsAssumption DEF Posts, PostOK, ServerTyped, Some, Stages
<1>4. \A x \in posts : PostOK(x)'
  BY <1>2 DEF PostsOK, PostOK
<1>5. PostOK(z)'
  BY <1>2, <1>3 DEF PostOK
<1> HIDE DEF z
<1>6. PostsOK'
  BY <1>1, <1>2, <1>3, <1>4, <1>5 DEF PostsOK, z
<1>7. ServerTyped'
  BY <1>1, <1>2, <1>3 DEF ServerTyped, z
<1>8. ClientFits(Client, jobs', lost', posts')
  <2>1. ClientFits(Client, jobs, lost, posts) /\ Client \in Clients
    BY DEF Inv
  <2>2. ASSUME NEW i \in DOMAIN Client.outs PROVE Client.outs[i].n # 0
    <3>1. Client.outs[i] \in Outs
      BY <2>1, <2>2 DEF Clients
    <3> QED BY <3>1 DEF Outs, Turn
  <2>3. ASSUME NEW i \in DOMAIN Client.outs PROVE OutFits(Client.outs[i], Client.p, jobs, lost, posts')
    <3>1. OutFits(Client.outs[i], Client.p, jobs, lost, posts) /\ Client.outs[i].n # 0
      BY <2>1, <2>2, <2>3 DEF ClientFits
    <3> QED BY <1>1, <1>3, <3>1 DEF OutFits, z
  <2>4. ClientFits(Client, jobs, lost, posts')
    BY <2>1, <2>3 DEF ClientFits
  <2> QED BY <1>2, <2>4
<1>9. Client' = Client /\ ThreadsOK' /\ PointersOK'
  BY <1>2 DEF Client, client, ThreadsOK, PointersOK
<1> QED BY <1>6, <1>7, <1>8, <1>9 DEF Inv, ServerOK

LEMMA ConversationGoes ==
    ASSUME Inv, DeleteCommits
    PROVE  Inv'
<1>1. PICK x \in posts : /\ x.kind = "delete" /\ x.stage = "sent" /\ alive' = alive \ {x.conv}
                         /\ thread' = [thread EXCEPT ![x.conv] = <<>>] /\ Advance(x, "gone")
                         /\ UNCHANGED <<plan, client, jobs, pointer, queue, worker, lost>>
  BY DEF DeleteCommits
<1>2. x \in Posts /\ PostOK(x) /\ ServerTyped /\ ThreadsOK /\ PointersOK /\ PostsOK
  BY Known
<1> DEFINE z == [x EXCEPT !.stage = "gone"]
<1>3. z \in Posts /\ z.n = x.n /\ z.kind = x.kind /\ z.conv = x.conv /\ z.stage = "gone"
  BY <1>2, PostIs DEF Stages
<1>4. posts' = (posts \ {x}) \cup {z}
  BY <1>1 DEF Advance
<1> HIDE DEF z
<1>5. PostOK(z)'
  BY <1>1, <1>2, <1>3 DEF PostOK
<1>6. PostsOK' /\ posts' \in SUBSET Posts /\ Follows(posts, posts')
  BY <1>1, <1>2, <1>3, <1>4, <1>5, PostMoves
<1>7. thread' \in [Convs -> Seq(Row)] /\ \A c \in Convs : thread'[c] = thread[c] \/ thread'[c] = <<>>
  <2> DEFINE none == <<>>
  <2>1. none \in Seq(Row)
    OBVIOUS
  <2> HIDE DEF none
  <2>2. thread' = [thread EXCEPT ![x.conv] = none] /\ thread \in [Convs -> Seq(Row)]
    BY <1>1, <1>2 DEF none, ServerTyped
  <2>3. thread' \in [Convs -> Seq(Row)] /\ \A c \in Convs : thread'[c] = thread[c] \/ thread'[c] = none
    BY <2>1, <2>2
  <2> QED BY <2>3 DEF none
<1>8. Grew(jobs, jobs')
  BY <1>1 DEF Grew
<1>9. ThreadsOK'
  BY <1>2, <1>7, <1>8, ThreadsStay
<1>10. ServerTyped' /\ PointersOK'
  BY <1>1, <1>2, <1>6, <1>7 DEF ServerTyped, PointersOK
<1> QED BY <1>1, <1>6, <1>8, <1>9, <1>10, Served

LEMMA JobBegins ==
    ASSUME NEW J \in [Turn -> Jobs], NEW n \in Turn, NEW c \in Some
    PROVE  LET K == [J EXCEPT ![n].conv = c, ![n].user = n]
           IN K \in [Turn -> Jobs] /\ K[n].conv = c /\ \A m \in Turn \ {n} : K[m] = J[m]
<1>1. J[n] \in Jobs /\ n \in 0 .. Turns
  BY ConstantsAssumption DEF Turn
<1>2. LET j == [J[n] EXCEPT !.conv = c, !.user = n] IN j \in Jobs /\ j.conv = c
  BY <1>1 DEF Jobs
<1>3. [J EXCEPT ![n].conv = c, ![n].user = n] = [J EXCEPT ![n] = [J[n] EXCEPT !.conv = c, !.user = n]]
  BY <1>1
<1> QED BY <1>2, <1>3

Pending(J, K, n, c) == K = [J EXCEPT ![n].status = "pending", ![n].conv = c]

LEMMA JobPends ==
    ASSUME NEW J \in [Turn -> Jobs], NEW n \in Turn, NEW c \in Some, NEW K, Pending(J, K, n, c)
    PROVE  K \in [Turn -> Jobs] /\ K[n].conv = c /\ \A m \in Turn \ {n} : K[m] = J[m]
<1>1. J[n] \in Jobs
  OBVIOUS
<1>2. LET j == [J[n] EXCEPT !.status = "pending", !.conv = c] IN j \in Jobs /\ j.conv = c
  BY <1>1 DEF Jobs
<1>3. K = [J EXCEPT ![n] = [J[n] EXCEPT !.status = "pending", !.conv = c]]
  BY <1>1 DEF Pending
<1> QED BY <1>2, <1>3

LEMMA JobFor ==
    ASSUME NEW J \in [Turn -> Jobs], NEW n \in Turn, NEW m \in 0 .. Turns
    PROVE  LET K == [J EXCEPT ![n].user = m]
           IN K \in [Turn -> Jobs] /\ \A k \in Turn : K[k].conv = J[k].conv
<1>1. J[n] \in Jobs
  OBVIOUS
<1>2. LET j == [J[n] EXCEPT !.user = m] IN j \in Jobs /\ j.conv = J[n].conv
  BY <1>1 DEF Jobs
<1>3. [J EXCEPT ![n].user = m] = [J EXCEPT ![n] = [J[n] EXCEPT !.user = m]]
  BY <1>1
<1> QED BY <1>2, <1>3

Marked(J, K, n, st) == K = [J EXCEPT ![n].status = st]

LEMMA JobMarks ==
    ASSUME NEW J \in [Turn -> Jobs], NEW n \in Turn, NEW st \in {"none", "pending", "processing", "done", "failed"},
           NEW K, Marked(J, K, n, st)
    PROVE  K \in [Turn -> Jobs] /\ \A k \in Turn : K[k].conv = J[k].conv
<1>1. J[n] \in Jobs
  OBVIOUS
<1>2. LET j == [J[n] EXCEPT !.status = st] IN j \in Jobs /\ j.conv = J[n].conv
  BY <1>1 DEF Jobs
<1>3. K = [J EXCEPT ![n] = [J[n] EXCEPT !.status = st]]
  BY <1>1 DEF Marked
<1> QED BY <1>2, <1>3

LEMMA JobTells ==
    ASSUME NEW J \in [Turn -> Jobs], NEW n \in Turn, NEW e \in Events
    PROVE  LET K == [J EXCEPT ![n].stream = Append(@, e)]
           IN K \in [Turn -> Jobs] /\ \A k \in Turn : K[k].conv = J[k].conv
<1> DEFINE s == Append(J[n].stream, e)
<1>1. J[n] \in Jobs
  OBVIOUS
<1>2. J[n].stream \in Seq(Events)
  BY <1>1 DEF Jobs
<1>3. s \in Seq(Events)
  BY <1>2
<1>4. [J EXCEPT ![n].stream = Append(@, e)] = [J EXCEPT ![n] = [J[n] EXCEPT !.stream = s]]
  BY <1>1
<1> HIDE DEF s
<1>5. LET j == [J[n] EXCEPT !.stream = s] IN j \in Jobs /\ j.conv = J[n].conv
  BY <1>1, <1>3 DEF Jobs
<1> QED BY <1>4, <1>5

(* A conversation's row is new, and tells of a turn of that conversation.   *)
LEMMA RowComes ==
    ASSUME ServerTyped, ThreadsOK, NEW c \in Convs, NEW r \in Row, thread' = [thread EXCEPT ![c] = Append(@, r)],
           Grew(jobs, jobs'), jobs'[r.n].conv = c
    PROVE  thread' \in [Convs -> Seq(Row)] /\ ThreadsOK'
<1> DEFINE q == Append(thread[c], r)
<1>1. thread \in [Convs -> Seq(Row)] /\ thread[c] \in Seq(Row)
  BY DEF ServerTyped
<1>2. q \in Seq(Row) /\ \A i \in DOMAIN q : (i \in DOMAIN thread[c] /\ q[i] = thread[c][i]) \/ q[i] = r
  BY <1>1, Longer
<1>3. thread' = [thread EXCEPT ![c] = q]
  BY <1>1
<1> HIDE DEF q
<1>4. thread' \in [Convs -> Seq(Row)] /\ thread'[c] = q /\ \A d \in Convs \ {c} : thread'[d] = thread[d]
  BY <1>1, <1>2, <1>3
<1>5. ASSUME NEW d \in Convs, NEW j \in DOMAIN thread[d] PROVE jobs'[thread[d][j].n].conv = d
  <2>1. thread[d] \in Seq(Row)
    BY <1>1
  <2>2. thread[d][j] \in Row
    BY <2>1
  <2>3. thread[d][j].n \in Turn
    BY <2>2 DEF Row, Turn
  <2> QED BY <2>3, ConstantsAssumption DEF ThreadsOK, Grew
<1> QED BY <1>2, <1>4, <1>5 DEF ThreadsOK

LEMMA Commits ==
    ASSUME Inv, MessageCommits
    PROVE  Inv'
<1>1. PICK x \in posts :
        /\ x.kind = "send" /\ x.stage = "sent"
        /\ \/ x.conv # None /\ x.conv \notin alive /\ Answers(x, "refused")
           \/ \E c \in Convs :
                  /\ (x.conv # None => c = x.conv)
                  /\ alive' = alive \cup {c}
                  /\ thread' = [thread EXCEPT ![c] = Append(@, [role |-> "user", n |-> x.n, failed |-> FALSE])]
                  /\ jobs' = [jobs EXCEPT ![x.n].conv = c, ![x.n].user = x.n]
                  /\ posts' = (posts \ {x}) \cup {[x EXCEPT !.stage = "stored", !.conv = c]}
                  /\ UNCHANGED <<pointer, queue, lost>>
        /\ UNCHANGED <<plan, client, worker>>
  <2>1. alive \subseteq Convs /\ NewConversation \subseteq Convs
    BY Known DEF NewConversation, ServerTyped
  <2> QED BY <2>1 DEF MessageCommits
<1>2. x \in Posts /\ PostOK(x) /\ ServerTyped /\ ThreadsOK /\ PointersOK /\ PostsOK
  BY Known
<1>3. CASE Answers(x, "refused")
  BY <1>1, <1>3, Refuses
<1>4. ASSUME NEW c \in Convs, x.conv # None => c = x.conv, alive' = alive \cup {c},
             thread' = [thread EXCEPT ![c] = Append(@, [role |-> "user", n |-> x.n, failed |-> FALSE])],
             jobs' = [jobs EXCEPT ![x.n].conv = c, ![x.n].user = x.n],
             posts' = (posts \ {x}) \cup {[x EXCEPT !.stage = "stored", !.conv = c]},
             UNCHANGED <<pointer, queue, lost>>
      PROVE  Inv'
  <2> DEFINE z == [x EXCEPT !.stage = "stored", !.conv = c]
             r == [role |-> "user", n |-> x.n, failed |-> FALSE]
  <2>1. x.n \in Turn /\ jobs[x.n].conv = None /\ c # None /\ c \in Some
    BY <1>1, <1>2, ConstantsAssumption DEF PostOK, Some
  <2>2. jobs' \in [Turn -> Jobs] /\ jobs'[x.n].conv = c /\ \A m \in Turn \ {x.n} : jobs'[m] = jobs[m]
    BY ZenonT(60), <1>2, <1>4, <2>1, JobBegins DEF ServerTyped
  <2>3. Grew(jobs, jobs')
    BY <2>1, <2>2 DEF Grew
  <2>4. z \in Posts /\ z.n = x.n /\ z.kind = x.kind /\ z.conv = c /\ z.stage = "stored"
    BY <1>2, <2>1 DEF Posts, Stages
  <2>5. r \in Row /\ r.n = x.n
    BY <2>1 DEF Row, Turn
  <2> HIDE DEF z, r
  <2>6. PostOK(z)'
    BY <1>1, <2>1, <2>2, <2>4, <1>2 DEF PostOK
  <2>7. PostsOK' /\ posts' \in SUBSET Posts /\ Follows(posts, posts')
    BY <1>2, <1>4, <2>2, <2>4, <2>6, PostMoves DEF z
  <2>8. thread' \in [Convs -> Seq(Row)] /\ ThreadsOK'
    BY <1>2, <1>4, <2>2, <2>3, <2>5, RowComes DEF r
  <2>9. PointersOK'
    BY <1>2, <1>4, <2>3, PointersStay
  <2>10. ServerTyped'
    BY <1>1, <1>2, <1>4, <2>2, <2>7, <2>8 DEF ServerTyped
  <2> QED BY <1>1, <1>4, <2>3, <2>7, <2>8, <2>9, <2>10, Served
<1> QED BY <1>1, <1>3, <1>4

LEMMA Ends ==
    ASSUME NEW rows \in Seq(Row), rows # <<>>
    PROVE  /\ Last(rows) \in Row /\ Last(rows).n \in Turn
           /\ Len(rows) > 1 => rows[Len(rows) - 1].n \in Turn
<1>1. Last(rows) \in Row /\ (Len(rows) > 1 => rows[Len(rows) - 1] \in Row)
  BY DEF Last
<1> QED BY <1>1 DEF Row, Turn

LEMMA Reads ==
    ASSUME Inv, RetryReads
    PROVE  Inv'
<1>1. PICK x \in posts :
        /\ x.kind = "retry" /\ x.stage = "sent"
        /\ IF x.conv \notin alive \/ ~Retryable(thread[x.conv]) THEN Answers(x, "refused")
           ELSE /\ posts' = (posts \ {x}) \cup {[x EXCEPT !.stage = "read",
                              !.reads = IF Newest(thread[x.conv]).role = "user" THEN 0 ELSE Newest(thread[x.conv]).n]}
                /\ jobs' = [jobs EXCEPT ![x.n].user = TailUser(thread[x.conv])]
                /\ UNCHANGED <<thread, alive, pointer, queue, lost>>
        /\ UNCHANGED <<plan, client, worker>>
  BY DEF RetryReads
<1>2. x \in Posts /\ PostOK(x) /\ ServerTyped /\ ThreadsOK /\ PointersOK /\ PostsOK
  BY Known
<1>3. CASE x.conv \notin alive \/ ~Retryable(thread[x.conv])
  BY <1>1, <1>3, Refuses
<1>4. CASE x.conv \in alive /\ Retryable(thread[x.conv])
  <2> DEFINE rows == thread[x.conv]
             read == IF Newest(rows).role = "user" THEN 0 ELSE Newest(rows).n
             user == TailUser(rows)
             z == [x EXCEPT !.stage = "read", !.reads = read]
  <2>1. rows \in Seq(Row) /\ rows # <<>> /\ x.n \in Turn
    BY <1>1, <1>2, <1>4 DEF ServerTyped, Retryable, PostOK
  <2>2. Newest(rows).n \in Turn /\ (Len(rows) > 1 => rows[Len(rows) - 1].n \in Turn)
    BY <2>1, Ends DEF Newest
  <2>3. Newest(rows).role # "user" => Len(rows) > 1
    BY <1>4, <2>1 DEF Retryable
  <2>4. read \in 0 .. Turns /\ user \in 0 .. Turns
    BY <2>2, <2>3, ConstantsAssumption DEF Turn, TailUser
  <2> HIDE DEF read, user
  <2>5. jobs' = [jobs EXCEPT ![x.n].user = user]
    BY <1>1, <1>4 DEF user
  <2>6. jobs' \in [Turn -> Jobs] /\ \A k \in Turn : jobs'[k].conv = jobs[k].conv
    BY <1>2, <2>1, <2>4, <2>5, JobFor DEF ServerTyped
  <2>7. PICK w \in Posts : w = z /\ w.n = x.n /\ w.kind = x.kind /\ w.conv = x.conv /\ w.stage = "read"
    <3>1. z \in Posts /\ z.n = x.n /\ z.kind = x.kind /\ z.conv = x.conv /\ z.stage = "read"
      BY <1>2, <2>4 DEF Posts, Stages
    <3> QED BY <3>1
  <2>8. posts' = (posts \ {x}) \cup {w}
    BY <1>1, <1>4, <2>7 DEF read
  <2> HIDE DEF z, rows
  <2>9. PostOK(w)'
    <3>1. x.n \in Turn /\ x.conv # None /\ jobs'[x.n].conv = None
      BY <1>1, <1>2, <2>1, <2>6 DEF PostOK
    <3> QED BY <1>1, <2>7, <3>1 DEF PostOK
  <2>10. PostsOK' /\ posts' \in SUBSET Posts /\ Follows(posts, posts')
    <3>1. \A k \in Turn \ {x.n} : jobs'[k].conv = jobs[k].conv
      BY <2>6
    <3> QED BY <1>2, <2>7, <2>8, <2>9, <3>1, PostMoves
  <2>11. Grew(jobs, jobs')
    BY <2>6 DEF Grew
  <2>12. UNCHANGED <<thread, alive, pointer, queue, lost, client, worker>>
    BY <1>1, <1>4
  <2>13. ThreadsOK' /\ PointersOK'
    BY <1>2, <2>11, <2>12, ThreadsStay, PointersStay
  <2>14. ServerTyped'
    BY <1>2, <2>6, <2>10, <2>12 DEF ServerTyped
  <2> QED BY <2>10, <2>11, <2>12, <2>13, <2>14, Served
<1> QED BY <1>3, <1>4

(* A job pends for a conversation, which may point to it.                   *)
LEMMA Pends ==
    ASSUME Inv, NEW x \in posts, NEW st \in {"claimed", "queued"}, x.kind # "delete",
           st = "claimed" => x.kind = "retry" /\ x.stage = "read", st = "queued" => x.stage = "stored",
           Pending(jobs, jobs', x.n, x.conv),
           pointer' = [pointer EXCEPT ![x.conv] = x.n], Advance(x, st), queue' \in Seq(Turn),
           UNCHANGED <<client, thread, alive, worker, lost>>
    PROVE  Inv'
<1> DEFINE z == [x EXCEPT !.stage = st]
<1>1. x \in Posts /\ PostOK(x) /\ ServerTyped /\ ThreadsOK /\ PointersOK /\ PostsOK
  BY Known
<1>2. x.n \in Turn /\ x.conv \in Convs /\ x.conv # None /\ jobs[x.n].conv \in {None, x.conv}
  BY <1>1 DEF PostOK, Posts, Some
<1>3. jobs' \in [Turn -> Jobs] /\ jobs'[x.n].conv = x.conv /\ \A m \in Turn \ {x.n} : jobs'[m] = jobs[m]
  <2>1. x.conv \in Some /\ jobs \in [Turn -> Jobs]
    BY <1>1, <1>2 DEF ServerTyped, Some
  <2> QED BY <1>2, <2>1, JobPends
<1>4. Grew(jobs, jobs')
  BY <1>2, <1>3 DEF Grew
<1>5. z \in Posts /\ z.n = x.n /\ z.kind = x.kind /\ z.conv = x.conv /\ z.stage = st
  <2>1. st \in Stages
    BY DEF Stages
  <2> QED BY <1>1, <2>1, PostIs
<1>6. posts' = (posts \ {x}) \cup {z}
  BY DEF Advance
<1> HIDE DEF z
<1>7. PostOK(z)'
  BY <1>1, <1>2, <1>3, <1>5 DEF PostOK
<1>8. PostsOK' /\ posts' \in SUBSET Posts /\ Follows(posts, posts')
  BY <1>1, <1>3, <1>5, <1>6, <1>7, PostMoves
<1>9. ThreadsOK'
  BY <1>1, <1>4, ThreadsStay
<1>10. pointer' \in [Convs -> 0 .. Turns] /\ PointersOK'
  <2>1. pointer' \in [Convs -> 0 .. Turns] /\ pointer'[x.conv] = x.n /\ \A c \in Convs \ {x.conv} : pointer'[c] = pointer[c]
    BY <1>1, <1>2, ConstantsAssumption DEF ServerTyped, Turn
  <2>2. ASSUME NEW c \in Convs \ {x.conv}, pointer[c] # 0 PROVE jobs'[pointer[c]].conv = c
    <3>1. pointer[c] \in Turn
      BY <1>1, <2>2, ConstantsAssumption DEF ServerTyped, Turn
    <3> QED BY <1>1, <1>4, <2>2, <3>1, ConstantsAssumption DEF PointersOK, Grew
  <2> QED BY <1>3, <2>1, <2>2 DEF PointersOK
<1>11. ServerTyped'
  BY <1>1, <1>3, <1>8, <1>10 DEF ServerTyped
<1> QED BY <1>4, <1>8, <1>9, <1>10, <1>11, Served

LEMMA Claims ==
    ASSUME Inv, RetryClaims
    PROVE  Inv'
<1>1. PICK x \in posts : x.stage = "read" /\ claimConversationSlot(x) /\ UNCHANGED <<plan, client, worker>>
  BY DEF RetryClaims
<1>2. x.kind = "retry" /\ ServerTyped
  BY <1>1, Known DEF PostOK
<1>3. CASE Taken(x.conv)
  BY <1>1, <1>2, <1>3, Refuses DEF claimConversationSlot
<1>4. CASE ~Taken(x.conv)
  BY <1>1, <1>2, <1>4, Pends DEF claimConversationSlot, ServerTyped, Pending
<1> QED BY <1>3, <1>4

LEMMA Deletes ==
    ASSUME Inv, RetryDeletes
    PROVE  Inv'
<1>1. PICK x \in posts :
        /\ x.stage = "claimed"
        /\ thread' = [thread EXCEPT ![x.conv] =
                         Kept(thread[x.conv], {i \in DOMAIN thread[x.conv] : ~(thread[x.conv][i].role = "reply" /\ thread[x.conv][i].n = x.reads)})]
        /\ Advance(x, "stored") /\ lost \subseteq lost'
        /\ UNCHANGED <<plan, client, alive, jobs, pointer, queue, worker>>
  BY DEF RetryDeletes, GivenUp
<1>2. x \in Posts /\ PostOK(x) /\ ServerTyped /\ ThreadsOK /\ PointersOK /\ PostsOK
  BY Known
<1> DEFINE z == [x EXCEPT !.stage = "stored"]
           old == thread[x.conv]
           at == {i \in DOMAIN old : ~(old[i].role = "reply" /\ old[i].n = x.reads)}
           q == Kept(old, at)
<1>3. x.conv \in Convs /\ old \in Seq(Row)
  BY <1>1, <1>2 DEF PostOK, Posts, Some, ServerTyped
<1>4. q \in Seq({old[i] : i \in DOMAIN old \cap at})
  <2> HIDE DEF old, at
  <2> QED BY <1>3, KeptRows
<1>5. q \in Seq(Row) /\ \A i \in DOMAIN q : \E j \in DOMAIN old : q[i] = old[j]
  <2> DEFINE Y == {old[i] : i \in DOMAIN old \cap at}
  <2>1. Y \subseteq Row /\ \A y \in Y : \E j \in DOMAIN old : y = old[j]
    BY <1>3
  <2>2. \A i \in DOMAIN q : q[i] \in Y
    <3> HIDE DEF Y, q
    <3>1. q \in Seq(Y)
      BY <1>4 DEF Y
    <3> QED BY <3>1
  <2>3. q \in Seq(Row)
    <3> HIDE DEF Y, q
    <3>1. q \in Seq(Y)
      BY <1>4 DEF Y
    <3> QED BY <2>1, <3>1
  <2> HIDE DEF Y, q
  <2> QED BY <2>1, <2>2, <2>3
<1>6. thread' = [thread EXCEPT ![x.conv] = q]
  BY <1>1
<1> HIDE DEF q
<1>7. thread' \in [Convs -> Seq(Row)] /\ thread'[x.conv] = q /\ \A d \in Convs \ {x.conv} : thread'[d] = thread[d]
  BY <1>2, <1>3, <1>5, <1>6 DEF ServerTyped
<1>8. \A c \in Convs : \A i \in DOMAIN thread'[c] : \E j \in DOMAIN thread[c] : thread'[c][i] = thread[c][j]
  BY <1>5, <1>7
<1>9. z \in Posts /\ z.n = x.n /\ z.kind = x.kind /\ z.conv = x.conv /\ z.stage = "stored"
  BY <1>2, PostIs DEF Stages
<1>10. posts' = (posts \ {x}) \cup {z} /\ Grew(jobs, jobs')
  BY <1>1 DEF Advance, Grew
<1> HIDE DEF z
<1>11. PostOK(z)'
  BY <1>1, <1>2, <1>9 DEF PostOK
<1>12. PostsOK' /\ posts' \in SUBSET Posts /\ Follows(posts, posts')
  BY <1>1, <1>2, <1>9, <1>10, <1>11, PostMoves
<1>13. ThreadsOK'
  BY <1>2, <1>8, <1>10, ThreadsStay
<1>14. ServerTyped' /\ PointersOK'
  BY <1>1, <1>2, <1>7, <1>12 DEF ServerTyped, PointersOK
<1> QED BY <1>1, <1>10, <1>12, <1>13, <1>14, Served

LEMMA Queues ==
    ASSUME Inv, Enqueue
    PROVE  Inv'
<1>1. PICK x \in posts :
        /\ x.stage = "stored"
        /\ \/ /\ jobs' = [jobs EXCEPT ![x.n].status = "pending", ![x.n].conv = x.conv]
              /\ pointer' = [pointer EXCEPT ![x.conv] = x.n]
              /\ queue' = Append(queue, x.n)
              /\ Advance(x, "queued")
           \/ /\ Advance(x, "failed")
              /\ UNCHANGED <<jobs, pointer, queue>>
        /\ UNCHANGED <<client, thread, alive, worker, lost>>
  BY DEF Enqueue
<1>2. x \in Posts /\ PostOK(x) /\ ServerTyped /\ x.kind # "delete" /\ x.n \in Turn
  BY <1>1, Known DEF PostOK
<1>3. CASE Advance(x, "failed") /\ UNCHANGED <<jobs, pointer, queue>>
  <2> DEFINE z == [x EXCEPT !.stage = "failed"]
  <2>1. z \in Posts /\ z.n = x.n /\ z.kind = x.kind /\ z.conv = x.conv /\ z.stage = "failed"
    BY <1>2, PostIs DEF Stages
  <2> HIDE DEF z
  <2>2. PostOK(z)
    BY <1>1, <1>2, <2>1 DEF PostOK
  <2> QED BY <1>1, <1>3, <2>2, Moved DEF Stages, z
<1>4. CASE /\ jobs' = [jobs EXCEPT ![x.n].status = "pending", ![x.n].conv = x.conv]
           /\ pointer' = [pointer EXCEPT ![x.conv] = x.n]
           /\ queue' = Append(queue, x.n)
           /\ Advance(x, "queued")
  <2>1. queue' \in Seq(Turn)
    BY <1>2, <1>4 DEF ServerTyped
  <2> QED BY <1>1, <1>2, <1>4, <2>1, Pends DEF Pending
<1> QED BY <1>1, <1>3, <1>4

-----------------------------------------------------------------------------
(* The worker.                                                              *)

(* The worker keeps to jobs and threads.                                    *)
LEMMA WorkerSteps ==
    ASSUME Inv, Working, jobs' \in [Turn -> Jobs], \A n \in Turn : jobs'[n].conv = jobs[n].conv,
           thread' \in [Convs -> Seq(Row)], ThreadsOK', queue' \in Seq(Turn),
           worker' \in Workers, worker'.step # "idle" => worker'.n \in Turn, lost \subseteq lost'
    PROVE  Inv'
<1>1. UNCHANGED <<client, posts, alive, pointer>> /\ ServerTyped /\ PointersOK /\ PostsOK
  BY Known DEF Working
<1>2. Grew(jobs, jobs')
  BY DEF Grew
<1>3. PostsOK' /\ posts' \in SUBSET Posts /\ Follows(posts, posts')
  BY <1>1, PostsStay
<1>4. PointersOK'
  BY <1>1, <1>2, PointersStay
<1>5. ServerTyped'
  BY <1>1, <1>3 DEF ServerTyped
<1> QED BY <1>1, <1>2, <1>3, <1>4, <1>5, Served

LEMMA Idles == [n |-> 0, step |-> "idle", failed |-> FALSE, row |-> FALSE] \in Workers
BY ConstantsAssumption DEF Workers

LEMMA WorkerIs ==
    ASSUME NEW w \in Workers, NEW st \in {"idle", "taken", "running", "written", "marked"}
    PROVE  LET v == [w EXCEPT !.step = st] IN v \in Workers /\ v.n = w.n /\ v.step = st
BY DEF Workers

LEMMA Takes ==
    ASSUME Inv, Take
    PROVE  Inv'
<1>1. ServerTyped /\ ThreadsOK /\ queue # <<>> /\ Working /\ UNCHANGED <<plan, thread, jobs, lost>>
  BY Known DEF Take
<1>2. queue \in Seq(Turn) /\ queue' = Tail(queue) /\ worker' = [n |-> Head(queue), step |-> "taken", failed |-> FALSE, row |-> FALSE]
  BY <1>1 DEF ServerTyped, Take
<1>3. queue' \in Seq(Turn) /\ Head(queue) \in Turn
  BY <1>1, <1>2
<1>4. worker' \in Workers /\ worker'.n \in Turn
  BY <1>2, <1>3, ConstantsAssumption DEF Workers, Turn
<1>5. jobs' \in [Turn -> Jobs] /\ thread' \in [Convs -> Seq(Row)] /\ ThreadsOK'
  BY <1>1 DEF ServerTyped, ThreadsOK
<1> QED BY <1>1, <1>3, <1>4, <1>5, WorkerSteps

(* What the worker says or marks leaves a turn in its conversation.         *)
LEMMA WorkerTells ==
    ASSUME Inv, Working, UNCHANGED <<thread, queue, lost>>, jobs' \in [Turn -> Jobs],
           \A n \in Turn : jobs'[n].conv = jobs[n].conv,
           worker' \in Workers, worker'.step # "idle" => worker'.n \in Turn
    PROVE  Inv'
<1>1. ServerTyped /\ ThreadsOK
  BY Known
<1>2. Grew(jobs, jobs')
  BY DEF Grew
<1>3. ThreadsOK'
  BY <1>1, <1>2, ThreadsStay
<1> QED BY <1>1, <1>3, WorkerSteps DEF ServerTyped

Processing(J, K, n) == K = [J EXCEPT ![n].status = "processing", ![n].stream = Append(@, "claimed")]

LEMMA JobClaimed ==
    ASSUME NEW J \in [Turn -> Jobs], NEW n \in Turn, NEW K, Processing(J, K, n)
    PROVE  K \in [Turn -> Jobs] /\ \A k \in Turn : K[k].conv = J[k].conv
<1> DEFINE s == Append(J[n].stream, "claimed")
<1>1. J[n] \in Jobs
  OBVIOUS
<1>2. J[n].stream \in Seq(Events)
  BY <1>1 DEF Jobs
<1>3. s \in Seq(Events)
  BY <1>2 DEF Events
<1>4. K = [J EXCEPT ![n] = [J[n] EXCEPT !.status = "processing", !.stream = s]]
  BY <1>1 DEF Processing
<1> HIDE DEF s
<1>5. LET j == [J[n] EXCEPT !.status = "processing", !.stream = s] IN j \in Jobs /\ j.conv = J[n].conv
  BY <1>1, <1>3 DEF Jobs
<1> QED BY <1>4, <1>5

LEMMA WorkerClaims ==
    ASSUME Inv, Claim
    PROVE  Inv'
<1>1. /\ worker.step = "taken" /\ Working /\ UNCHANGED <<thread, queue, lost>>
      /\ Processing(jobs, jobs', worker.n)
      /\ worker' = [worker EXCEPT !.step = "running"]
  BY DEF Claim, Worker, Processing
<1>2. jobs \in [Turn -> Jobs] /\ worker \in Workers /\ worker.n \in Turn
  BY <1>1, Known DEF ServerTyped
<1>3. jobs' \in [Turn -> Jobs] /\ \A n \in Turn : jobs'[n].conv = jobs[n].conv
  BY <1>1, <1>2, JobClaimed
<1>4. worker' \in Workers /\ worker'.n \in Turn
  BY <1>1, <1>2, WorkerIs
<1> QED BY <1>1, <1>3, <1>4, WorkerTells

LEMMA Generates ==
    ASSUME Inv, Generate
    PROVE  Inv'
<1>1. /\ worker.step = "running" /\ Working /\ UNCHANGED <<thread, queue, lost, worker>>
      /\ jobs' = [jobs EXCEPT ![worker.n].stream = Append(@, "chunk")]
  BY DEF Generate, Tell
<1>2. jobs \in [Turn -> Jobs] /\ worker \in Workers /\ worker.n \in Turn
  BY <1>1, Known DEF ServerTyped
<1>3. jobs' \in [Turn -> Jobs] /\ \A n \in Turn : jobs'[n].conv = jobs[n].conv
  BY ZenonT(60), <1>1, <1>2, JobTells DEF Events
<1> QED BY <1>1, <1>2, <1>3, WorkerTells

LEMMA Marks ==
    ASSUME Inv, Mark
    PROVE  Inv'
<1> DEFINE st == IF worker.failed THEN "failed" ELSE "done"
<1>1. /\ worker.step = "written" /\ Working /\ UNCHANGED <<thread, queue, lost>>
      /\ Marked(jobs, jobs', worker.n, st)
      /\ worker' = [worker EXCEPT !.step = "marked"]
  BY DEF Mark, Worker, Marked
<1>2. jobs \in [Turn -> Jobs] /\ worker \in Workers /\ worker.n \in Turn /\ st \in {"none", "pending", "processing", "done", "failed"}
  BY <1>1, Known DEF ServerTyped
<1> HIDE DEF st
<1>3. jobs' \in [Turn -> Jobs] /\ \A n \in Turn : jobs'[n].conv = jobs[n].conv
  BY <1>1, <1>2, JobMarks
<1>4. worker' \in Workers /\ worker'.n \in Turn
  BY <1>1, <1>2, WorkerIs
<1> QED BY <1>1, <1>3, <1>4, WorkerTells

LEMMA Announces ==
    ASSUME Inv, Announce
    PROVE  Inv'
<1> DEFINE e == IF ~worker.failed THEN "done" ELSE IF worker.row THEN "error" ELSE "unwritten"
<1>1. /\ worker.step = "marked" /\ Working /\ UNCHANGED <<thread, queue, lost>>
      /\ jobs' = [jobs EXCEPT ![worker.n].stream = Append(@, e)]
      /\ worker' = [n |-> 0, step |-> "idle", failed |-> FALSE, row |-> FALSE]
  BY DEF Announce, Tell
<1>2. jobs \in [Turn -> Jobs] /\ worker \in Workers /\ worker.n \in Turn /\ e \in Events
  BY <1>1, Known DEF ServerTyped, Events
<1> HIDE DEF e
<1>3. jobs' \in [Turn -> Jobs] /\ \A n \in Turn : jobs'[n].conv = jobs[n].conv
  BY <1>1, <1>2, JobTells
<1> QED BY <1>1, <1>3, Idles, WorkerTells

LEMMA Crashes ==
    ASSUME Inv, Crash
    PROVE  Inv'
<1>1. /\ Working /\ UNCHANGED <<thread, jobs, queue>> /\ lost \subseteq lost'
      /\ worker' = [n |-> 0, step |-> "idle", failed |-> FALSE, row |-> FALSE]
  BY DEF Crash, GivenUp
<1>2. ServerTyped /\ ThreadsOK
  BY Known
<1>3. ThreadsOK'
  BY <1>1, <1>2 DEF ThreadsOK
<1> QED BY <1>1, <1>2, <1>3, Idles, WorkerSteps DEF ServerTyped

LEMMA Persists ==
    ASSUME Inv, Persist
    PROVE  Inv'
<1> DEFINE n == worker.n
           c == jobs[n].conv
<1>1. PICK failed \in BOOLEAN :
        /\ worker.step = "running" /\ Working /\ UNCHANGED <<jobs, queue, lost>>
        /\ thread' = IF c \in alive THEN [thread EXCEPT ![c] = Append(@, [role |-> "reply", n |-> n, failed |-> failed])]
                     ELSE thread
        /\ worker' = [worker EXCEPT !.step = "written", !.failed = failed, !.row = c \in alive]
  BY DEF Persist
<1>2. ServerTyped /\ ThreadsOK /\ worker \in Workers /\ n \in Turn
  BY <1>1, Known DEF ServerTyped
<1>3. worker' \in Workers /\ worker'.n \in Turn
  <2> DEFINE row == c \in alive
  <2>1. row \in BOOLEAN
    OBVIOUS
  <2> HIDE DEF row
  <2>2. worker' = [worker EXCEPT !.step = "written", !.failed = failed, !.row = row]
    BY <1>1 DEF row
  <2> QED BY <1>2, <2>1, <2>2 DEF Workers
<1>4. Grew(jobs, jobs') /\ \A k \in Turn : jobs'[k].conv = jobs[k].conv
  BY <1>1 DEF Grew
<1>5. thread' \in [Convs -> Seq(Row)] /\ ThreadsOK'
  <2>1. CASE c \notin alive
    BY <1>1, <1>2, <2>1 DEF ServerTyped, ThreadsOK
  <2>2. CASE c \in alive
    <3> DEFINE r == [role |-> "reply", n |-> n, failed |-> failed]
    <3>1. r \in Row /\ r.n = n
      BY <1>2 DEF Row, Turn
    <3>2. c \in Convs /\ jobs'[n].conv = c
      BY <1>1, <1>2, <2>2 DEF ServerTyped
    <3>3. thread' = [thread EXCEPT ![c] = Append(@, r)]
      BY <1>1, <2>2
    <3> HIDE DEF r, c, n
    <3> QED BY <1>2, <1>4, <3>1, <3>2, <3>3, RowComes
  <2> QED BY <2>1, <2>2
<1> QED BY <1>1, <1>2, <1>3, <1>4, <1>5, WorkerSteps DEF ServerTyped

-----------------------------------------------------------------------------
(* The page is left for another conversation, or another address.           *)

service == <<thread, alive, jobs, pointer, queue, worker>>

(* The page becomes u.                                                      *)
LEMMA Shows ==
    ASSUME Inv, UNCHANGED service, NEW u \in Clients, Becomes(u),
           ClientFits(u, jobs, lost', posts'), PostsOK', posts' \in SUBSET Posts
    PROVE  Inv'
<1>1. ServerTyped /\ ThreadsOK /\ PointersOK
  BY Known
<1>2. Client' = u
  BY ClientIs DEF Client, Becomes
<1>3. ServerTyped' /\ ThreadsOK' /\ PointersOK'
  BY <1>1 DEF ServerTyped, ThreadsOK, PointersOK, service
<1>4. ClientFits(u, jobs', lost', posts')
  BY DEF service
<1>5. ClientFits(Client, jobs, lost, posts)' = ClientFits(Client', jobs', lost', posts')
  OBVIOUS
<1> QED BY <1>2, <1>3, <1>4, <1>5 DEF Inv, ServerOK

(* What stays as it was still fits, posts having gone and turns been given up.*)
LEMMA Shown ==
    ASSUME Inv, UNCHANGED service, posts' \subseteq posts, lost \subseteq lost', NEW u \in Clients, Becomes(u),
           ClientFits(Client, jobs, lost', posts') => ClientFits(u, jobs, lost', posts')
    PROVE  Inv'
<1>1. ServerTyped /\ PostsOK /\ Client \in Clients /\ ClientFits(Client, jobs, lost, posts) /\ jobs \in [Turn -> Jobs]
  BY Known DEF Inv, ServerTyped
<1>2. Grew(jobs, jobs) /\ Follows(posts, posts') /\ \A n \in lost \ lost' : OfIn(page, jobs, n)
  BY DEF Grew, Follows
<1>3. ClientFits(Client, jobs, lost', posts')
  BY <1>1, <1>2, StillFits DEF Client
<1>4. PostsOK' /\ posts' \in SUBSET Posts
  BY <1>1, PostsStay DEF service
<1> QED BY <1>3, <1>4, Shows

LEMMA Redraws ==
    ASSUME NEW u \in Clients, NEW v \in Clients, NEW J, NEW L, NEW Q, ClientFits(u, J, L, Q),
           v.p.conv = u.p.conv, v.p.url = u.p.url, v.p.nav = u.p.nav, One(v),
           \A i \in DOMAIN v.outs : OutFits(v.outs[i], u.p, J, L, Q),
           \A i \in DOMAIN v.loads : \E j \in DOMAIN u.loads : v.loads[i] = u.loads[j],
           \A i \in DOMAIN v.asks : AskOK(v.asks[i], u.p, J),
           \A i \in DOMAIN v.p.bubbles : FitsIn(u.p, J, L, v.p.bubbles[i].n) \/ AwaitedIn(v.outs, v.p.bubbles[i].n)
    PROVE  ClientFits(v, J, L, Q)
<1>1. \A i \in DOMAIN v.loads : AnswersOK(v.loads[i], J) /\ (~v.loads[i].stale => v.loads[i].conv = v.p.conv)
  BY DEF ClientFits
<1>2. \A n : OfIn(v.p, J, n) <=> OfIn(u.p, J, n)
  BY DEF OfIn
<1>3. \A n : FitsIn(v.p, J, L, n) <=> FitsIn(u.p, J, L, n)
  BY <1>2 DEF FitsIn
<1>4. \A i \in DOMAIN v.outs : OutFits(v.outs[i], v.p, J, L, Q)
  BY <1>2, <1>3 DEF OutFits
<1>5. \A i \in DOMAIN v.asks : AskOK(v.asks[i], v.p, J)
  BY <1>2 DEF AskOK
<1>6. \A i \in DOMAIN v.p.bubbles : BubbleOK(v.p.bubbles[i], v, J, L)
  BY <1>3 DEF BubbleOK
<1>7. Named(v.p)
  BY DEF ClientFits, Named
<1> QED BY <1>1, <1>4, <1>5, <1>6, <1>7 DEF ClientFits

(* A request for the newest page.                                           *)
LEMMA Requests ==
    ASSUME NEW id \in Convs, NEW b \in BOOLEAN, NEW at \in Seq(Ident)
    PROVE  LET l == Request(id, b, at)
           IN l \in Loads /\ l.conv = id /\ \A J : AnswersOK(l, J)
<1> DEFINE none == <<>>
           l == [conv |-> id, older |-> b, before |-> at, stale |-> FALSE, reply |-> none]
<1>1. none \in Seq(SUBSET Found1) /\ DOMAIN none = {}
  OBVIOUS
<1>2. Request(id, b, at) = l
  BY DEF Request
<1> HIDE DEF none
<1>3. l \in Loads /\ l.conv = id /\ l.reply = none
  BY <1>1 DEF Loads, Some
<1>4. \A J : AnswersOK(l, J)
  BY <1>1, <1>3, ConstantsAssumption DEF AnswersOK
<1> QED BY <1>2, <1>3, <1>4

LEMMA Selects ==
    ASSUME NEW u \in Clients, NEW J, NEW L, NEW Q, NEW id \in Convs, Answered(u, J), u.p.conv # id
    PROVE  selectConversation(u, id) \in Clients /\ ClientFits(selectConversation(u, id), J, L, Q)
<1> DEFINE v == Left(u, id)
           none == <<>>
           r == Request(id, FALSE, none)
           l == Append(v.loads, r)
           w == [v EXCEPT !.loads = l]
<1>1. none \in Seq(Ident) /\ id \in Some
  BY DEF Some
<1>2. r \in Loads /\ r.conv = id /\ AnswersOK(r, J)
  BY <1>1, Requests
<1>3. v \in Clients /\ ClientFits(v, J, L, Q) /\ v.p.conv = id
  BY <1>1, Leaves
<1>4. selectConversation(u, id) = w
  BY DEF selectConversation, Left
<1> HIDE DEF v, r
<1>5. l \in Seq(Loads) /\ \A i \in DOMAIN l : (i \in DOMAIN v.loads /\ l[i] = v.loads[i]) \/ l[i] = r
  <2>1. v.loads \in Seq(Loads)
    BY <1>3 DEF Clients
  <2> QED BY <1>2, <2>1, Longer
<1> HIDE DEF l
<1>6. w \in Clients /\ w.p = v.p /\ w.loads = l /\ w.asks = v.asks /\ w.outs = v.outs
  BY <1>3, <1>5 DEF Clients
<1> HIDE DEF w
<1>7. \A i \in DOMAIN w.loads : AnswersOK(w.loads[i], J) /\ (~w.loads[i].stale => w.loads[i].conv = w.p.conv)
  BY <1>2, <1>3, <1>5, <1>6 DEF ClientFits
<1>8. ClientFits(w, J, L, Q)
  BY <1>3, <1>6, <1>7 DEF ClientFits, One, BubbleOK
<1> QED BY <1>4, <1>6, <1>8

LEMMA Clears ==
    ASSUME NEW u \in Clients, NEW J, NEW L, NEW Q, Answered(u, J)
    PROVE  /\ clearThread(u) \in Clients /\ ClientFits(clearThread(u), J, L, Q)
           /\ newChat(u) \in Clients /\ ClientFits(newChat(u), J, L, Q)
<1> DEFINE v == clearThread(u)
           p == [v.p EXCEPT !.busy = FALSE]
           w == [v EXCEPT !.p = p]
<1>1. v \in Clients /\ ClientFits(v, J, L, Q) /\ v.outs = <<>>
  BY Leaves DEF clearThread, Left, Some
<1>2. newChat(u) = [clearThread(u) EXCEPT !.p.busy = FALSE]
  BY DEF newChat
<1>3. newChat(u) = w
  BY <1>1, <1>2
<1> HIDE DEF v
<1>4. v.p \in Screens
  BY <1>1 DEF Clients
<1>5. p \in Screens /\ p.conv = v.p.conv /\ p.url = v.p.url /\ p.nav = v.p.nav /\ p.bubbles = v.p.bubbles
  BY <1>4 DEF Screens
<1> HIDE DEF p
<1>6. w \in Clients /\ w.p = p /\ w.loads = v.loads /\ w.asks = v.asks /\ w.outs = v.outs
  BY <1>1, <1>5 DEF Clients
<1> HIDE DEF w
<1>7. \A i \in DOMAIN w.p.bubbles : FitsIn(v.p, J, L, w.p.bubbles[i].n) \/ AwaitedIn(w.outs, w.p.bubbles[i].n)
  BY <1>1, <1>5, <1>6 DEF ClientFits, BubbleOK
<1>8. ClientFits(w, J, L, Q)
  <2>1. One(w) /\ DOMAIN w.outs = {}
    BY <1>1, <1>6 DEF One
  <2>2. \A i \in DOMAIN w.loads : \E j \in DOMAIN v.loads : w.loads[i] = v.loads[j]
    BY <1>6
  <2>3. \A i \in DOMAIN w.asks : AskOK(w.asks[i], v.p, J)
    BY <1>1, <1>6 DEF ClientFits
  <2> QED BY <1>1, <1>5, <1>6, <1>7, <2>1, <2>2, <2>3, Redraws
<1> QED BY <1>1, <1>3, <1>6, <1>8 DEF v

Going(u, id) == [u EXCEPT !.p.url = id, !.p.nav = <<>>]

LEMMA Goes ==
    ASSUME NEW u \in Clients, NEW id \in Some
    PROVE  LET v == Going(u, id)
           IN /\ v \in Clients /\ v.loads = u.loads /\ v.asks = u.asks /\ v.outs = u.outs
              /\ v.p.conv = u.p.conv /\ v.p.bubbles = u.p.bubbles /\ v.p.busy = u.p.busy /\ v.p.url = id
<1> DEFINE none == <<>>
           p == [u.p EXCEPT !.url = id, !.nav = none]
<1>1. u.p \in Screens /\ u = [p |-> u.p, loads |-> u.loads, asks |-> u.asks, outs |-> u.outs]
  BY ClientIs
<1>2. none \in Seq(Some)
  OBVIOUS
<1>3. Going(u, id) = [u EXCEPT !.p = p]
  BY <1>1 DEF Going
<1> HIDE DEF none
<1>4. p \in Screens /\ p.conv = u.p.conv /\ p.bubbles = u.p.bubbles /\ p.busy = u.p.busy /\ p.url = id
  BY <1>1, <1>2 DEF Screens
<1> HIDE DEF p
<1>5. [u EXCEPT !.p = p] \in Clients
  BY <1>4 DEF Clients
<1> QED BY <1>1, <1>3, <1>4, <1>5

LEMMA Open ==
    ASSUME Inv
    PROVE  /\ Client \in Clients /\ ClientFits(Client, jobs, lost, posts) /\ Answered(Client, jobs)
           /\ page \in Screens /\ loads \in Seq(Loads) /\ asks \in Seq(Asks) /\ outs \in Seq(Outs)
           /\ Client.p = page /\ Client.loads = loads /\ Client.asks = asks /\ Client.outs = outs
           /\ jobs \in [Turn -> Jobs]
BY DEF Inv, ClientFits, Answered, Clients, Client, ServerTyped

LEMMA NavEnding ==
    ASSUME Inv, NavEnds
    PROVE  Inv'
<1> DEFINE id == Head(page.nav)
           u == Going(Client, id)
           v == IF id = page.conv THEN u ELSE IF id # None THEN selectConversation(u, id) ELSE clearThread(u)
<1>1. Becomes(v) /\ UNCHANGED <<service, posts, lost>> /\ page.nav # <<>>
  BY DEF NavEnds, server, service, Going
<1>2. id \in Some
  <2>1. page.nav \in Seq(Some)
    BY Open DEF Screens
  <2> QED BY <1>1, <2>1
<1>3. /\ u \in Clients /\ u.loads = loads /\ u.asks = asks /\ u.outs = outs
      /\ u.p.conv = page.conv /\ u.p.bubbles = page.bubbles /\ u.p.busy = page.busy /\ u.p.url = id
  <2> HIDE DEF id
  <2> QED BY <1>2, Open, Goes
<1> HIDE DEF u, id
<1>4. Answered(u, jobs)
  BY <1>3, Open DEF Answered
<1>5. CASE id = page.conv
  <2>1. ClientFits(u, jobs, lost, posts)
    BY <1>3, <1>5, Open DEF ClientFits, One, Named, OutFits, FitsIn, OfIn, AskOK, BubbleOK
  <2> QED BY <1>1, <1>3, <1>5, <2>1, Shows, Known DEF service, PostsOK, PostOK, ServerTyped
<1>6. CASE id # page.conv /\ id # None
  <2>1. id \in Convs
    BY <1>2, <1>6 DEF Some
  <2>2. selectConversation(u, id) \in Clients /\ ClientFits(selectConversation(u, id), jobs, lost, posts)
    BY <1>3, <1>4, <1>6, <2>1, Selects
  <2> QED BY <1>1, <1>6, <2>2, Shown
<1>7. CASE id # page.conv /\ id = None
  <2>1. clearThread(u) \in Clients /\ ClientFits(clearThread(u), jobs, lost, posts)
    BY <1>3, <1>4, Clears
  <2> QED BY <1>1, <1>7, <2>1, Shown
<1> QED BY <1>5, <1>6, <1>7

LEMMA Browses ==
    ASSUME Inv, Browse
    PROVE  Inv'
<1>1. PICK id \in alive \cup {None} : page' = [page EXCEPT !.nav = <<id>>] /\ UNCHANGED <<loads, asks, outs, service, posts, lost>>
  BY DEF Browse, server, service
<1> DEFINE to == <<id>>
           p == [page EXCEPT !.nav = to]
           u == [Client EXCEPT !.p = p]
<1>2. to \in Seq(Some) /\ to # <<>>
  BY Known DEF ServerTyped, Some
<1>3. page' = [page EXCEPT !.nav = to]
  BY <1>1
<1> HIDE DEF to
<1>4. p \in Screens /\ p.conv = page.conv /\ p.bubbles = page.bubbles /\ p.busy = page.busy /\ p.nav # <<>>
  BY <1>2, Open DEF Screens
<1> HIDE DEF p
<1>5. u \in Clients /\ u.p = p /\ u.loads = loads /\ u.asks = asks /\ u.outs = outs
  BY <1>4, Open DEF Clients
<1>6. Becomes(u)
  BY <1>1, <1>3, <1>5 DEF Becomes, p
<1> HIDE DEF u
<1>7. ClientFits(u, jobs, lost, posts)
  BY SMTT(60), <1>4, <1>5, Open DEF ClientFits, One, Named, OutFits, FitsIn, OfIn, AskOK, BubbleOK
<1> QED BY <1>1, <1>5, <1>6, <1>7, Shown

LEMMA SelectShows ==
    ASSUME Inv, Select
    PROVE  Inv'
<1>1. PICK id \in alive \ {page.conv} : Becomes(selectConversation(Client, id)) /\ UNCHANGED <<service, posts, lost>>
  BY DEF Select, server, service
<1>2. id \in Convs /\ page.conv # id
  BY Known DEF ServerTyped
<1>3. selectConversation(Client, id) \in Clients /\ ClientFits(selectConversation(Client, id), jobs, lost, posts)
  BY <1>2, Open, Selects
<1> QED BY <1>1, <1>3, Shown

LEMMA NewChatShows ==
    ASSUME Inv, NewChat
    PROVE  Inv'
<1>1. Becomes(newChat(Client)) /\ UNCHANGED <<service, posts, lost>>
  BY DEF NewChat, server, service
<1>2. newChat(Client) \in Clients /\ ClientFits(newChat(Client), jobs, lost, posts)
  BY Open, Clears
<1> QED BY <1>1, <1>2, Shown

LEMMA DeleteShows ==
    ASSUME Inv, DeleteLands
    PROVE  Inv'
<1>1. posts' \subseteq posts /\ UNCHANGED <<service, lost>>
  BY DEF DeleteLands, service
<1>2. CASE Becomes(newChat(Client))
  <2>1. newChat(Client) \in Clients /\ ClientFits(newChat(Client), jobs, lost, posts')
    BY Open, Clears
  <2> QED BY <1>1, <1>2, <2>1, Shown
<1>3. CASE Becomes(Client)
  BY <1>1, <1>3, Open, Shown
<1>4. UNCHANGED client => Becomes(Client)
  BY DEF Becomes, client, Client
<1> QED BY <1>2, <1>3, <1>4 DEF DeleteLands

-----------------------------------------------------------------------------
(* Pages of history and pending turns, read and answered.                   *)

LEMMA Pages ==
    ASSUME NEW rows \in Seq(Row), NEW upTo \in 0 .. Len(rows)
    PROVE  LET h == HistoryPage(rows, upTo)
           IN h \in Found1 /\ \A j \in DOMAIN h.rows : \E k \in DOMAIN rows : h.rows[j] = rows[k]
<1> DEFINE from == IF upTo > PageSize THEN upTo - PageSize + 1 ELSE 1
           part == SubSeq(rows, from, upTo)
           more == upTo > PageSize
<1>1. HistoryPage(rows, upTo) = [rows |-> part, more |-> more]
  BY DEF HistoryPage
<1>2. from \in Nat /\ from >= 1 /\ upTo \in Nat /\ upTo <= Len(rows)
  BY ConstantsAssumption
<1> HIDE DEF from
<1>3. part \in Seq(Row) /\ \A j \in DOMAIN part : \E k \in DOMAIN rows : part[j] = rows[k]
  <2>1. from <= upTo => part \in Seq(Row) /\ \A j \in DOMAIN part : from + j - 1 \in DOMAIN rows /\ part[j] = rows[from + j - 1]
    BY <1>2
  <2>2. ~(from <= upTo) => part \in Seq(Row) /\ DOMAIN part = {}
    BY <1>2
  <2> HIDE DEF part
  <2>3. CASE from <= upTo
    BY <2>1, <2>3
  <2>4. CASE ~(from <= upTo)
    BY <2>2, <2>4
  <2> QED BY <2>3, <2>4
<1>4. more \in BOOLEAN
  OBVIOUS
<1> HIDE DEF part, more
<1> QED BY <1>1, <1>3, <1>4 DEF Found1

(* A page of history is read from the thread it was asked of.               *)
LEMMA FindsOwn ==
    ASSUME Inv, NEW l \in Loads, l.conv # None
    PROVE  /\ Found(l) \in SUBSET Found1
           /\ \A g \in Found(l) : \A j \in DOMAIN g.rows : jobs[g.rows[j].n].conv = l.conv
<1> DEFINE rows == thread[l.conv]
           anchors == AnchorAt(rows, Head(l.before))
<1>1. l.conv \in Convs /\ rows \in Seq(Row) /\ \A k \in DOMAIN rows : jobs[rows[k].n].conv = l.conv
  BY Known DEF Loads, Some, ServerTyped, ThreadsOK
<1>2. ASSUME NEW g \in Found(l) PROVE \E upTo \in 0 .. Len(rows) : g = HistoryPage(rows, upTo)
  <2>1. anchors \subseteq DOMAIN rows
    BY DEF AnchorAt
  <2> HIDE DEF anchors, rows
  <2>2. Found(l) = IF l.conv \notin alive THEN {} ELSE IF l.before = <<>> THEN {HistoryPage(rows, Len(rows))}
                   ELSE {HistoryPage(rows, i - 1) : i \in anchors}
    BY DEF Found, rows, anchors
  <2>3. Len(rows) \in 0 .. Len(rows) /\ \A i \in DOMAIN rows : i - 1 \in 0 .. Len(rows)
    BY <1>1
  <2> QED BY <1>2, <2>1, <2>2, <2>3
<1> HIDE DEF rows
<1>3. ASSUME NEW g \in Found(l) PROVE g \in Found1 /\ \A j \in DOMAIN g.rows : jobs[g.rows[j].n].conv = l.conv
  <2>1. PICK upTo \in 0 .. Len(rows) : g = HistoryPage(rows, upTo)
    BY <1>2
  <2>2. g \in Found1 /\ \A j \in DOMAIN g.rows : \E k \in DOMAIN rows : g.rows[j] = rows[k]
    BY <1>1, <2>1, Pages
  <2> QED BY <1>1, <2>2
<1> QED BY <1>3

Replied(q, i, r) == [q EXCEPT ![i].reply = r]

LEMMA LoadReplied ==
    ASSUME NEW q \in Seq(Loads), NEW i \in DOMAIN q, NEW a \in SUBSET Found1
    PROVE  LET s == Replied(q, i, <<a>>)
           IN /\ s \in Seq(Loads) /\ DOMAIN s = DOMAIN q /\ s[i].conv = q[i].conv /\ s[i].stale = q[i].stale
              /\ s[i].reply = <<a>> /\ \A j \in DOMAIN q \ {i} : s[j] = q[j]
<1> DEFINE r == <<a>>
           l == [q[i] EXCEPT !.reply = r]
           s == [q EXCEPT ![i] = l]
<1>1. r \in Seq(SUBSET Found1)
  OBVIOUS
<1>2. q[i] \in Loads
  OBVIOUS
<1>3. Replied(q, i, <<a>>) = s
  BY DEF Replied
<1> HIDE DEF r
<1>4. l \in Loads /\ l.conv = q[i].conv /\ l.stale = q[i].stale /\ l.reply = r
  BY <1>1, <1>2 DEF Loads
<1> HIDE DEF l
<1>5. s \in Seq(Loads) /\ DOMAIN s = DOMAIN q /\ s[i] = l /\ \A j \in DOMAIN q \ {i} : s[j] = q[j]
  BY <1>4
<1> QED BY <1>3, <1>4, <1>5 DEF r

LEMMA AskReplied ==
    ASSUME NEW q \in Seq(Asks), NEW i \in DOMAIN q, NEW n \in 0 .. Turns
    PROVE  LET s == Replied(q, i, <<n>>)
           IN /\ s \in Seq(Asks) /\ DOMAIN s = DOMAIN q /\ s[i].conv = q[i].conv
              /\ s[i].reply = <<n>> /\ \A j \in DOMAIN q \ {i} : s[j] = q[j]
<1> DEFINE r == <<n>>
           l == [q[i] EXCEPT !.reply = r]
           s == [q EXCEPT ![i] = l]
<1>1. r \in Seq(0 .. Turns)
  OBVIOUS
<1>2. q[i] \in Asks
  OBVIOUS
<1>3. Replied(q, i, <<n>>) = s
  BY DEF Replied
<1> HIDE DEF r
<1>4. l \in Asks /\ l.conv = q[i].conv /\ l.reply = r
  BY <1>1, <1>2 DEF Asks
<1> HIDE DEF l
<1>5. s \in Seq(Asks) /\ DOMAIN s = DOMAIN q /\ s[i] = l /\ \A j \in DOMAIN q \ {i} : s[j] = q[j]
  BY <1>4
<1> QED BY <1>3, <1>4, <1>5 DEF r

(* One page of history is answered.                                         *)
LEMMA LoadAnswered ==
    ASSUME Inv, UNCHANGED <<service, posts>>, NEW i \in DOMAIN loads, NEW a \in SUBSET Found1,
           loads' = Replied(loads, i, <<a>>), UNCHANGED <<page, asks, outs>>,
           \A g \in a : \A j \in DOMAIN g.rows : jobs[g.rows[j].n].conv = loads[i].conv,
           \A n \in lost \ lost' : OfIn(page, jobs, n)
    PROVE  Inv'
<1> DEFINE s == Replied(loads, i, <<a>>)
           u == [Client EXCEPT !.loads = s]
<1>1. /\ s \in Seq(Loads) /\ DOMAIN s = DOMAIN loads /\ s[i].conv = loads[i].conv /\ s[i].stale = loads[i].stale
      /\ s[i].reply = <<a>> /\ \A j \in DOMAIN loads \ {i} : s[j] = loads[j]
  BY Open, LoadReplied
<1>2. loads' = s
  OBVIOUS
<1> HIDE DEF s
<1>3. u \in Clients /\ u.p = page /\ u.loads = s /\ u.asks = asks /\ u.outs = outs
  BY <1>1, Open DEF Clients
<1>4. Becomes(u)
  BY <1>2, <1>3 DEF Becomes
<1> HIDE DEF u
<1>5. ClientFits(Client, jobs, lost', posts')
  <2>1. Grew(jobs, jobs) /\ Follows(posts, posts')
    BY Same
  <2>2. \A n \in lost \ lost' : OfIn(Client.p, jobs, n)
    BY Open
  <2> QED BY <2>1, <2>2, Open, StillFits
<1>6. \A k \in DOMAIN s[i].reply : s[i].reply[k] = a
  BY <1>1
<1>7. AnswersOK(s[i], jobs)
  <2>1. loads[i].conv # None
    BY Open DEF ClientFits, AnswersOK
  <2> QED BY <1>1, <1>6, <2>1 DEF AnswersOK
<1>8. \A j \in DOMAIN s : AnswersOK(s[j], jobs) /\ (~s[j].stale => s[j].conv = page.conv)
  BY <1>1, <1>5, <1>7, Open DEF ClientFits
<1>9. ClientFits(u, jobs, lost', posts')
  BY <1>3, <1>5, <1>8, Open DEF ClientFits, One, BubbleOK
<1>10. PostsOK' /\ posts' \in SUBSET Posts
  BY Known, PostsStay DEF service
<1> QED BY <1>3, <1>4, <1>9, <1>10, Shows

LEMMA LoadIsRead ==
    ASSUME Inv, LoadReads
    PROVE  Inv'
<1>1. PICK i \in DOMAIN loads :
        /\ loads' = Replied(loads, i, <<Found(loads[i])>>)
        /\ lost' = IF loads[i].stale \/ loads[i].older THEN lost
                   ELSE {n \in lost : jobs[n].conv # loads[i].conv} \cup Missed(loads[i].conv)
        /\ UNCHANGED <<page, asks, outs, service, posts>>
  BY DEF LoadReads, server, service, Replied
<1>2. /\ loads[i] \in Loads /\ AnswersOK(loads[i], jobs) /\ loads[i].conv # None
      /\ ~loads[i].stale => loads[i].conv = page.conv
  BY Open DEF ClientFits, AnswersOK
<1>3. /\ Found(loads[i]) \in SUBSET Found1
      /\ \A g \in Found(loads[i]) : \A j \in DOMAIN g.rows : jobs[g.rows[j].n].conv = loads[i].conv
  BY <1>2, FindsOwn
<1>4. \A n \in lost \ lost' : OfIn(page, jobs, n)
  BY <1>1, <1>2 DEF OfIn
<1> QED BY <1>1, <1>3, <1>4, LoadAnswered

LEMMA LoadLost ==
    ASSUME Inv, LoadIsLost
    PROVE  Inv'
<1>1. PICK i \in DOMAIN loads : loads' = Replied(loads, i, <<{}>>) /\ UNCHANGED <<page, asks, outs, service, posts, lost>>
  BY DEF LoadIsLost, server, service, Replied
<1>2. {} \in SUBSET Found1
  OBVIOUS
<1> QED BY <1>1, <1>2, LoadAnswered

LEMMA AskAnswered ==
    ASSUME Inv, UNCHANGED <<service, posts>>, NEW i \in DOMAIN asks, NEW n \in 0 .. Turns,
           asks' = Replied(asks, i, <<n>>), UNCHANGED <<page, loads, outs>>,
           n # 0 => OfIn(page, jobs, n), lost \subseteq lost'
    PROVE  Inv'
<1> DEFINE s == Replied(asks, i, <<n>>)
           u == [Client EXCEPT !.asks = s]
<1>1. /\ s \in Seq(Asks) /\ DOMAIN s = DOMAIN asks /\ s[i].conv = asks[i].conv
      /\ s[i].reply = <<n>> /\ \A j \in DOMAIN asks \ {i} : s[j] = asks[j]
  BY Open, AskReplied
<1>2. asks' = s
  OBVIOUS
<1> HIDE DEF s
<1>3. u \in Clients /\ u.p = page /\ u.loads = loads /\ u.asks = s /\ u.outs = outs
  BY <1>1, Open DEF Clients
<1>4. Becomes(u)
  BY <1>2, <1>3 DEF Becomes
<1> HIDE DEF u
<1>5. SUFFICES ASSUME ClientFits(Client, jobs, lost', posts') PROVE ClientFits(u, jobs, lost', posts')
  BY <1>3, <1>4, Shown DEF service
<1>6. \A k \in DOMAIN s[i].reply : s[i].reply[k] = n
  BY <1>1
<1>7. \A j \in DOMAIN s : AskOK(s[j], page, jobs)
  BY SMTT(60), <1>1, <1>5, <1>6, Open DEF ClientFits, AskOK
<1> QED BY <1>3, <1>5, <1>7, Open DEF ClientFits, One, BubbleOK

LEMMA AskIsRead ==
    ASSUME Inv, AskReads
    PROVE  Inv'
<1>1. PICK i \in DOMAIN asks :
        LET c == asks[i].conv
            n == pointer[c]
            running == c \in alive /\ n # 0 /\ jobs[n].status \in {"pending", "processing"}
        IN /\ asks' = Replied(asks, i, <<IF running THEN n ELSE 0>>)
           /\ UNCHANGED <<page, loads, outs, service, posts>> /\ lost \subseteq lost'
  BY DEF AskReads, server, service, Replied, GivenUp
<1> DEFINE c == asks[i].conv
           running == c \in alive /\ pointer[c] # 0 /\ jobs[pointer[c]].status \in {"pending", "processing"}
           m == IF running THEN pointer[c] ELSE 0
<1>2. asks[i] \in Asks /\ AskOK(asks[i], page, jobs)
  BY Open DEF ClientFits
<1>3. c \in Convs /\ c = page.conv
  BY <1>2 DEF AskOK, Asks, Some
<1>4. pointer[c] \in 0 .. Turns /\ (pointer[c] # 0 => OfIn(page, jobs, pointer[c]))
  BY <1>2, <1>3, Known DEF ServerTyped, PointersOK, OfIn, AskOK
<1>5. m \in 0 .. Turns /\ (m # 0 => OfIn(page, jobs, m))
  BY <1>4, ConstantsAssumption
<1>6. asks' = Replied(asks, i, <<m>>) /\ UNCHANGED <<page, loads, outs, service, posts>> /\ lost \subseteq lost'
  BY <1>1
<1> HIDE DEF m
<1> QED BY <1>5, <1>6, AskAnswered

LEMMA AskLost ==
    ASSUME Inv, AskIsLost
    PROVE  Inv'
<1>1. PICK i \in DOMAIN asks : asks' = Replied(asks, i, <<0>>) /\ UNCHANGED <<page, loads, outs, service, posts>> /\ lost \subseteq lost'
  BY DEF AskIsLost, server, service, Replied, GivenUp
<1>2. 0 \in 0 .. Turns
  BY ConstantsAssumption
<1> QED BY <1>1, <1>2, AskAnswered

-----------------------------------------------------------------------------
(* Answers land.                                                            *)

LEMMA Maps ==
    ASSUME NEW rows \in Seq(Row)
    PROVE  LET m == mapHistoryMessagesToBubbles(rows)
           IN m \in Seq(Bubbles) /\ DOMAIN m = DOMAIN rows /\ \A i \in DOMAIN m : m[i].n = rows[i].n
<1> DEFINE b(r) == Bubble(IF r.role = "user" THEN "user" ELSE IF r.failed THEN "error" ELSE "assistant", r.n, TRUE, 2, r.failed)
<1>1. ASSUME NEW r \in Row PROVE b(r) \in Bubbles /\ b(r).n = r.n
  BY ConstantsAssumption DEF Row, Bubble, Bubbles
<1>2. mapHistoryMessagesToBubbles(rows) = [i \in DOMAIN rows |-> b(rows[i])]
  BY DEF mapHistoryMessagesToBubbles
<1> HIDE DEF b
<1>3. \A i \in DOMAIN rows : b(rows[i]) \in Bubbles /\ b(rows[i]).n = rows[i].n
  BY <1>1
<1> QED BY <1>2, <1>3

LEMMA Idents ==
    ASSUME NEW b \in Bubbles
    PROVE  IdOf(b) \in Ident
BY DEF Bubbles, IdOf, Ident

(* The oldest row of a page, when there is one.                             *)
Oldest(m, else) == IF m = <<>> THEN else ELSE <<IdOf(Head(m))>>
LEMMA Oldests ==
    ASSUME NEW m \in Seq(Bubbles), NEW at \in Seq(Ident)
    PROVE  Oldest(m, at) \in Seq(Ident)
<1>1. CASE m = <<>>
  BY <1>1 DEF Oldest
<1>2. CASE m # <<>>
  <2>1. Head(m) \in Bubbles
    BY <1>2
  <2>2. IdOf(Head(m)) \in Ident
    BY <2>1, Idents
  <2> QED BY <1>2, <2>2 DEF Oldest
<1> QED BY <1>1, <1>2

(* A request is answered and gone.                                          *)
LEMMA LoadLeaves ==
    ASSUME NEW u \in Clients, NEW J, NEW L, NEW Q, ClientFits(u, J, L, Q), NEW i \in DOMAIN u.loads
    PROVE  LET v == [u EXCEPT !.loads = RemoveAt(@, i)]
           IN v \in Clients /\ ClientFits(v, J, L, Q) /\ v.p = u.p /\ v.asks = u.asks /\ v.outs = u.outs
<1> DEFINE s == RemoveAt(u.loads, i)
           v == [u EXCEPT !.loads = s]
<1>1. u.loads \in Seq(Loads)
  BY DEF Clients
<1>2. s \in Seq(Loads) /\ \A k \in DOMAIN s : \E j \in DOMAIN u.loads : s[k] = u.loads[j]
  BY <1>1, Shorter
<1>3. [u EXCEPT !.loads = RemoveAt(@, i)] = v
  BY ClientIs
<1> HIDE DEF s
<1>4. v \in Clients /\ v.p = u.p /\ v.loads = s /\ v.asks = u.asks /\ v.outs = u.outs
  BY <1>2 DEF Clients
<1> HIDE DEF v
<1>5. ClientFits(v, J, L, Q)
  <2>1. \A k \in DOMAIN v.p.bubbles : FitsIn(u.p, J, L, v.p.bubbles[k].n) \/ AwaitedIn(v.outs, v.p.bubbles[k].n)
    BY <1>4 DEF ClientFits, BubbleOK
  <2>2. One(v) /\ (\A k \in DOMAIN v.outs : OutFits(v.outs[k], u.p, J, L, Q)) /\ \A k \in DOMAIN v.asks : AskOK(v.asks[k], u.p, J)
    BY <1>4 DEF ClientFits, One
  <2>3. \A k \in DOMAIN v.loads : \E j \in DOMAIN u.loads : v.loads[k] = u.loads[j]
    BY <1>2, <1>4
  <2> QED BY <1>4, <2>1, <2>2, <2>3, Redraws
<1> QED BY <1>3, <1>4, <1>5

LEMMA AskLeaves ==
    ASSUME NEW u \in Clients, NEW J, NEW L, NEW Q, ClientFits(u, J, L, Q), NEW i \in DOMAIN u.asks
    PROVE  LET v == [u EXCEPT !.asks = RemoveAt(@, i)]
           IN v \in Clients /\ ClientFits(v, J, L, Q) /\ v.p = u.p /\ v.loads = u.loads /\ v.outs = u.outs
<1> DEFINE s == RemoveAt(u.asks, i)
           v == [u EXCEPT !.asks = s]
<1>1. u.asks \in Seq(Asks)
  BY DEF Clients
<1>2. s \in Seq(Asks) /\ \A k \in DOMAIN s : \E j \in DOMAIN u.asks : s[k] = u.asks[j]
  BY <1>1, Shorter
<1>3. [u EXCEPT !.asks = RemoveAt(@, i)] = v
  BY ClientIs
<1> HIDE DEF s
<1>4. v \in Clients /\ v.p = u.p /\ v.loads = u.loads /\ v.asks = s /\ v.outs = u.outs
  BY <1>2 DEF Clients
<1> HIDE DEF v
<1>5. ClientFits(v, J, L, Q)
  <2>1. \A k \in DOMAIN v.p.bubbles : FitsIn(u.p, J, L, v.p.bubbles[k].n) \/ AwaitedIn(v.outs, v.p.bubbles[k].n)
    BY <1>4 DEF ClientFits, BubbleOK
  <2>2. One(v) /\ (\A k \in DOMAIN v.outs : OutFits(v.outs[k], u.p, J, L, Q)) /\ \A k \in DOMAIN v.asks : AskOK(v.asks[k], u.p, J)
    BY <1>2, <1>4 DEF ClientFits, One
  <2>3. \A k \in DOMAIN v.loads : \E j \in DOMAIN u.loads : v.loads[k] = u.loads[j]
    BY <1>4
  <2> QED BY <1>4, <2>1, <2>2, <2>3, Redraws
<1> QED BY <1>3, <1>4, <1>5

(* The answers of a request that counts are rows of the page's conversation.*)
LEMMA RowsFit ==
    ASSUME NEW J, NEW l \in Loads, NEW p, AnswersOK(l, J), l.conv = p.conv, l.reply # <<>>, NEW g \in Head(l.reply)
    PROVE  g \in Found1 /\ g.rows \in Seq(Row) /\ \A j \in DOMAIN g.rows : OfIn(p, J, g.rows[j].n)
<1>1. l.reply \in Seq(SUBSET Found1)
  BY DEF Loads
<1>2. 1 \in DOMAIN l.reply /\ Head(l.reply) = l.reply[1] /\ l.reply[1] \in SUBSET Found1
  BY <1>1
<1>3. g \in Found1 /\ g.rows \in Seq(Row)
  BY <1>2 DEF Found1
<1> QED BY <1>2, <1>3 DEF AnswersOK, OfIn

Asking(id) == [conv |-> id, reply |-> <<>>]
LEMMA AsksNew ==
    ASSUME NEW q \in Seq(Asks), NEW p, NEW J, p.conv \in Convs, \A k \in DOMAIN q : AskOK(q[k], p, J)
    PROVE  /\ Append(q, Asking(p.conv)) \in Seq(Asks)
           /\ \A k \in DOMAIN Append(q, Asking(p.conv)) : AskOK(Append(q, Asking(p.conv))[k], p, J)
<1> DEFINE none == <<>>
           a == [conv |-> p.conv, reply |-> none]
<1>1. none \in Seq(0 .. Turns) /\ DOMAIN none = {}
  OBVIOUS
<1>2. Asking(p.conv) = a
  BY DEF Asking
<1> HIDE DEF none
<1>3. a \in Asks /\ a.conv = p.conv /\ a.reply = none
  BY <1>1 DEF Asks, Some
<1> HIDE DEF a
<1>4. AskOK(a, p, J)
  BY <1>1, <1>3, ConstantsAssumption DEF AskOK
<1> QED BY <1>2, <1>3, <1>4, Longer

LEMMA LandsFit ==
    ASSUME NEW u \in Clients, NEW J, NEW L, NEW Q, ClientFits(u, J, L, Q), NEW l \in Loads, AnswersOK(l, J),
           ~l.stale, l.conv = u.p.conv, l.reply # <<>>
    PROVE  Landed(u, l, Head(l.reply)) \in Clients /\ ClientFits(Landed(u, l, Head(l.reply)), J, L, Q)
<1> DEFINE answer == Head(l.reply)
           asked == Append(u.asks, Asking(l.conv))
           got == CHOOSE g \in answer : TRUE
           m == IF answer = {} THEN <<>> ELSE mapHistoryMessagesToBubbles(got.rows)
           more == IF answer = {} THEN FALSE ELSE got.more
           error == IF answer = {} THEN TRUE ELSE u.p.error
           oldest == IF answer = {} THEN <<>> ELSE Oldest(m, <<>>)
           p == [u.p EXCEPT !.error = error, !.bubbles = m, !.loading = FALSE, !.more = more, !.oldest = oldest]
           v == [u EXCEPT !.p = p, !.asks = asked]
<1>1. u = [p |-> u.p, loads |-> u.loads, asks |-> u.asks, outs |-> u.outs] /\ u.p \in Screens
  BY ClientIs
<1>2. u.p = [conv |-> u.p.conv, url |-> u.p.url, nav |-> u.p.nav, bubbles |-> u.p.bubbles, busy |-> u.p.busy, batch |-> u.p.batch,
             loading |-> u.p.loading, error |-> u.p.error, more |-> u.p.more, oldest |-> u.p.oldest, olderLoading |-> u.p.olderLoading]
  BY <1>1, ScreenIs
<1>3. Landed(u, l, answer) = v
  <2>1. CASE answer = {}
    <3>1. Landed(u, l, answer) = [u EXCEPT !.p.error = TRUE, !.p.bubbles = <<>>, !.p.loading = FALSE, !.p.more = FALSE,
                                       !.p.oldest = <<>>, !.asks = Append(@, [conv |-> l.conv, reply |-> <<>>])]
      BY <2>1 DEF Landed
    <3>2. p = [u.p EXCEPT !.error = TRUE, !.bubbles = <<>>, !.loading = FALSE, !.more = FALSE, !.oldest = <<>>]
      BY <2>1
    <3> HIDE DEF p
    <3> QED BY <1>1, <1>2, <3>1, <3>2 DEF Asking
  <2>2. CASE answer # {}
    <3>1. Landed(u, l, answer) = [u EXCEPT !.p.bubbles = m, !.p.loading = FALSE, !.p.more = more,
                      !.p.oldest = oldest, !.asks = asked]
      BY <2>2 DEF Landed, Asking, Oldest
    <3>2. error = u.p.error
      BY <2>2
    <3> HIDE DEF m, more, error, oldest, asked
    <3>3. p = [u.p EXCEPT !.bubbles = m, !.loading = FALSE, !.more = more, !.oldest = oldest]
      BY <1>2, <3>2
    <3> HIDE DEF p
    <3> QED BY <1>1, <1>2, <3>1, <3>3
  <2> QED BY <2>1, <2>2
<1>4. m \in Seq(Bubbles) /\ \A i \in DOMAIN m : OfIn(u.p, J, m[i].n)
  <2>1. CASE answer = {}
    BY <2>1
  <2>2. CASE answer # {}
    <3>1. got \in answer
      BY <2>2
    <3> HIDE DEF got
    <3>2. got.rows \in Seq(Row) /\ \A j \in DOMAIN got.rows : OfIn(u.p, J, got.rows[j].n)
      BY <3>1, RowsFit
    <3>3. m = mapHistoryMessagesToBubbles(got.rows)
      BY <2>2
    <3> HIDE DEF m
    <3> QED BY <3>2, <3>3, Maps
  <2> QED BY <2>1, <2>2
<1>5. more \in BOOLEAN
  <2>1. CASE answer # {}
    <3>1. got \in answer
      BY <2>1
    <3>2. got \in Found1
      <4> HIDE DEF got
      <4> QED BY <3>1, RowsFit
    <3> QED BY <2>1, <3>2 DEF Found1
  <2> QED BY <2>1
<1>6. error \in BOOLEAN
  BY <1>1, ScreenIs
<1>7. oldest \in Seq(Ident)
  <2> DEFINE none == <<>>
  <2>1. none \in Seq(Ident)
    OBVIOUS
  <2>2. oldest \in {none, Oldest(m, none)}
    OBVIOUS
  <2> HIDE DEF none, m, oldest
  <2> QED BY <1>4, <2>1, <2>2, Oldests
<1>8. l.conv # None /\ u.p.conv \in Convs
  BY <1>1, ScreenIs DEF AnswersOK, Some
<1>9. asked \in Seq(Asks) /\ \A k \in DOMAIN asked : AskOK(asked[k], u.p, J)
  <2>1. u.asks \in Seq(Asks) /\ \A k \in DOMAIN u.asks : AskOK(u.asks[k], u.p, J)
    BY ClientIs DEF ClientFits
  <2> QED BY <1>8, <2>1, AsksNew
<1> HIDE DEF m, more, error, oldest, asked, answer
<1>10. p \in Screens /\ p.conv = u.p.conv /\ p.url = u.p.url /\ p.nav = u.p.nav /\ p.bubbles = m /\ p.busy = u.p.busy
  BY <1>1, <1>4, <1>5, <1>6, <1>7 DEF Screens
<1> HIDE DEF p
<1>11. v \in Clients /\ v.p = p /\ v.loads = u.loads /\ v.asks = asked /\ v.outs = u.outs
  BY <1>9, <1>10 DEF Clients
<1> HIDE DEF v
<1>12. ClientFits(v, J, L, Q)
  <2>1. \A k \in DOMAIN v.p.bubbles : FitsIn(u.p, J, L, v.p.bubbles[k].n) \/ AwaitedIn(v.outs, v.p.bubbles[k].n)
    BY <1>4, <1>10, <1>11 DEF FitsIn
  <2>2. One(v) /\ (\A k \in DOMAIN v.outs : OutFits(v.outs[k], u.p, J, L, Q))
    BY <1>10, <1>11 DEF ClientFits, One
  <2>3. \A k \in DOMAIN v.loads : \E j \in DOMAIN u.loads : v.loads[k] = u.loads[j]
    BY <1>11
  <2> QED BY <1>9, <1>10, <1>11, <2>1, <2>2, <2>3, Redraws
<1> QED BY <1>3, <1>11, <1>12 DEF answer

-----------------------------------------------------------------------------
(* What is loaded is shown, and older pages are asked for.                  *)

LEMMA NoneBefore ==
    ASSUME NEW X, NEW s \in Seq(X)
    PROVE  <<>> \o s = s
<1> DEFINE e == <<>>
           t == e \o s
<1>1. e \in Seq(X) /\ Len(e) = 0
  OBVIOUS
<1> HIDE DEF e
<1>2. t \in Seq(X) /\ Len(t) = Len(s) /\ \A i \in 1 .. Len(s) : t[i] = s[i]
  BY <1>1
<1> HIDE DEF t
<1>3. t = s
  BY <1>2
<1> QED BY <1>3 DEF t, e

LEMMA Heads ==
    ASSUME NEW X, NEW s \in Seq(X), s # <<>>
    PROVE  1 \in DOMAIN s /\ Head(s) = s[1] /\ Head(s) \in X
OBVIOUS

LEMMA Olders ==
    ASSUME NEW u \in Clients, NEW J, NEW L, NEW Q, ClientFits(u, J, L, Q), NEW l \in Loads, AnswersOK(l, J),
           ~l.stale, l.conv = u.p.conv, l.reply # <<>>
    PROVE  LandedOlder(u, l, Head(l.reply)) \in Clients /\ ClientFits(LandedOlder(u, l, Head(l.reply)), J, L, Q)
<1> DEFINE answer == Head(l.reply)
           got == CHOOSE g \in answer : TRUE
           m == IF answer = {} THEN <<>> ELSE mapHistoryMessagesToBubbles(got.rows)
           all == m \o u.p.bubbles
           more == IF answer = {} THEN u.p.more ELSE got.more
           oldest == Oldest(m, u.p.oldest)
           p == [u.p EXCEPT !.olderLoading = FALSE, !.bubbles = all, !.more = more, !.oldest = oldest]
           v == [u EXCEPT !.p = p]
<1>1. u = [p |-> u.p, loads |-> u.loads, asks |-> u.asks, outs |-> u.outs] /\ u.p \in Screens
  BY ClientIs
<1>2. u.p = [conv |-> u.p.conv, url |-> u.p.url, nav |-> u.p.nav, bubbles |-> u.p.bubbles, busy |-> u.p.busy, batch |-> u.p.batch,
             loading |-> u.p.loading, error |-> u.p.error, more |-> u.p.more, oldest |-> u.p.oldest, olderLoading |-> u.p.olderLoading]
  BY <1>1, ScreenIs
<1>3. LandedOlder(u, l, answer) = v
  <2>1. CASE answer = {}
    <3>1. LandedOlder(u, l, answer) = [u EXCEPT !.p.olderLoading = FALSE]
      BY <2>1 DEF LandedOlder
    <3>2. m = <<>> /\ more = u.p.more /\ oldest = u.p.oldest
      BY <2>1 DEF Oldest
    <3>3. u.p.bubbles \in Seq(Bubbles)
      BY <1>1, ScreenIs
    <3>4. all = u.p.bubbles
      BY <3>2, <3>3, NoneBefore
    <3> HIDE DEF m, more, oldest, all
    <3>5. p = [u.p EXCEPT !.olderLoading = FALSE]
      BY <1>2, <3>2, <3>4
    <3> HIDE DEF p
    <3> QED BY <1>1, <3>1, <3>5
  <2>2. CASE answer # {}
    <3>1. LandedOlder(u, l, answer) = [u EXCEPT !.p.olderLoading = FALSE, !.p.more = more, !.p.bubbles = m \o @, !.p.oldest = oldest]
      BY <2>2 DEF LandedOlder, Oldest
    <3> HIDE DEF m, more, oldest
    <3>2. p = [u.p EXCEPT !.olderLoading = FALSE, !.more = more, !.bubbles = m \o @, !.oldest = oldest]
      BY <1>2
    <3> HIDE DEF p
    <3> QED BY <1>1, <3>1, <3>2
  <2> QED BY <2>1, <2>2
<1>4. m \in Seq(Bubbles) /\ \A i \in DOMAIN m : OfIn(u.p, J, m[i].n)
  <2>1. CASE answer = {}
    BY <2>1
  <2>2. CASE answer # {}
    <3>1. got \in answer
      BY <2>2
    <3> HIDE DEF got
    <3>2. got.rows \in Seq(Row) /\ \A j \in DOMAIN got.rows : OfIn(u.p, J, got.rows[j].n)
      BY <3>1, RowsFit
    <3>3. m = mapHistoryMessagesToBubbles(got.rows)
      BY <2>2
    <3> HIDE DEF m
    <3> QED BY <3>2, <3>3, Maps
  <2> QED BY <2>1, <2>2
<1>5. more \in BOOLEAN
  <2>1. CASE answer # {}
    <3>1. got \in answer
      BY <2>1
    <3>2. got \in Found1
      <4> HIDE DEF got
      <4> QED BY <3>1, RowsFit
    <3> QED BY <2>1, <3>2 DEF Found1
  <2> QED BY <1>1, <2>1, ScreenIs
<1> HIDE DEF m, more, answer
<1>6. u.p.bubbles \in Seq(Bubbles) /\ u.p.oldest \in Seq(Ident)
  BY <1>1, ScreenIs
<1>7. oldest \in Seq(Ident)
  BY <1>4, <1>6, Oldests
<1>8. /\ all \in Seq(Bubbles)
      /\ \A i \in DOMAIN all : (i \in DOMAIN m /\ all[i] = m[i]) \/ \E j \in DOMAIN u.p.bubbles : all[i] = u.p.bubbles[j]
  <2>1. \A i \in DOMAIN all : (i \in DOMAIN m /\ all[i] = m[i]) \/ (i - Len(m) \in DOMAIN u.p.bubbles /\ all[i] = u.p.bubbles[i - Len(m)])
    BY <1>4, <1>6
  <2> QED BY <1>4, <1>6, <2>1
<1> HIDE DEF oldest, all
<1>9. p \in Screens /\ p.conv = u.p.conv /\ p.url = u.p.url /\ p.nav = u.p.nav /\ p.bubbles = all /\ p.busy = u.p.busy
  BY <1>1, <1>5, <1>7, <1>8 DEF Screens
<1> HIDE DEF p
<1>10. v \in Clients /\ v.p = p /\ v.loads = u.loads /\ v.asks = u.asks /\ v.outs = u.outs
  BY <1>9 DEF Clients
<1> HIDE DEF v
<1>11. ClientFits(v, J, L, Q)
  <2>1. \A k \in DOMAIN v.p.bubbles : FitsIn(u.p, J, L, v.p.bubbles[k].n) \/ AwaitedIn(v.outs, v.p.bubbles[k].n)
    BY <1>4, <1>8, <1>9, <1>10 DEF FitsIn, ClientFits, BubbleOK
  <2>2. One(v) /\ (\A k \in DOMAIN v.outs : OutFits(v.outs[k], u.p, J, L, Q)) /\ \A k \in DOMAIN v.asks : AskOK(v.asks[k], u.p, J)
    BY <1>9, <1>10 DEF ClientFits, One
  <2>3. \A k \in DOMAIN v.loads : \E j \in DOMAIN u.loads : v.loads[k] = u.loads[j]
    BY <1>10
  <2> QED BY <1>9, <1>10, <2>1, <2>2, <2>3, Redraws
<1> QED BY <1>3, <1>10, <1>11 DEF answer

LEMMA LoadShows ==
    ASSUME Inv, LoadLands
    PROVE  Inv'
<1>1. PICK i \in DOMAIN loads : loads[i].reply # <<>> /\ Becomes(Land(i)) /\ UNCHANGED <<service, posts, lost>>
  BY DEF LoadLands, server, service
<1> DEFINE req == loads[i]
           u == [Client EXCEPT !.loads = RemoveAt(@, i)]
<1>2. u \in Clients /\ ClientFits(u, jobs, lost, posts) /\ u.p = page
  BY Open, LoadLeaves
<1>3. req \in Loads /\ AnswersOK(req, jobs) /\ (~req.stale => req.conv = page.conv)
  BY Open DEF ClientFits
<1>4. Land(i) = IF req.older THEN LandedOlder(u, req, Head(req.reply)) ELSE Landed(u, req, Head(req.reply))
  BY DEF Land
<1>5. Land(i) \in Clients /\ ClientFits(Land(i), jobs, lost, posts)
  <2> HIDE DEF u
  <2>1. CASE req.stale
    <3>1. Land(i) = u
      BY <1>4, <2>1 DEF LandedOlder, Landed
    <3> QED BY <1>2, <3>1
  <2>2. CASE ~req.stale
    <3> HIDE DEF req
    <3> QED BY <1>1, <1>2, <1>3, <1>4, <2>2, LandsFit, Olders DEF req
  <2> QED BY <2>1, <2>2
<1> QED BY <1>1, <1>5, Shown

LEMMA OlderAsked ==
    ASSUME Inv, tryLoadOlderMessages
    PROVE  Inv'
<1> DEFINE p == [page EXCEPT !.olderLoading = TRUE]
           r == Request(page.conv, TRUE, page.oldest)
           l == Append(loads, r)
           u == [[Client EXCEPT !.p = p] EXCEPT !.loads = l]
<1>1. page' = p /\ loads' = l /\ page.conv # None /\ UNCHANGED <<asks, outs, service, posts, lost>>
  BY DEF tryLoadOlderMessages, server, service
<1>2. page.conv \in Convs /\ page.oldest \in Seq(Ident)
  BY <1>1, Open, ScreenIs DEF Some
<1>3. r \in Loads /\ r.conv = page.conv /\ AnswersOK(r, jobs)
  BY <1>2, Requests
<1> HIDE DEF r
<1>4. l \in Seq(Loads) /\ \A i \in DOMAIN l : (i \in DOMAIN loads /\ l[i] = loads[i]) \/ l[i] = r
  BY <1>3, Open, Longer
<1>5. p \in Screens /\ p.conv = page.conv /\ p.url = page.url /\ p.nav = page.nav /\ p.bubbles = page.bubbles /\ p.busy = page.busy
  BY Open DEF Screens
<1> HIDE DEF l, p
<1>6. u \in Clients /\ u.p = p /\ u.loads = l /\ u.asks = asks /\ u.outs = outs
  BY <1>4, <1>5, Open DEF Clients
<1> HIDE DEF u
<1>7. Becomes(u)
  BY <1>1, <1>6 DEF Becomes
<1>8. \A i \in DOMAIN l : AnswersOK(l[i], jobs) /\ (~l[i].stale => l[i].conv = page.conv)
  BY <1>3, <1>4, Open DEF ClientFits
<1>9. ClientFits(u, jobs, lost, posts)
  BY SMTT(60), <1>5, <1>6, <1>8, Open DEF ClientFits, One, Named, OutFits, FitsIn, OfIn, AskOK, BubbleOK
<1> QED BY <1>1, <1>6, <1>7, <1>9, Shown

(* One bubble more.                                                         *)
LEMMA BubbleAdded ==
    ASSUME NEW u \in Clients, NEW b \in Bubbles
    PROVE  LET v == Append1(u, b)
           IN /\ v \in Clients /\ v.loads = u.loads /\ v.asks = u.asks /\ v.outs = u.outs
              /\ v.p.conv = u.p.conv /\ v.p.url = u.p.url /\ v.p.nav = u.p.nav /\ v.p.busy = u.p.busy
              /\ \A i \in DOMAIN v.p.bubbles : (i \in DOMAIN u.p.bubbles /\ v.p.bubbles[i] = u.p.bubbles[i]) \/ v.p.bubbles[i] = b
<1> DEFINE l == Append(u.p.bubbles, b)
           p == [u.p EXCEPT !.bubbles = l]
           v == [u EXCEPT !.p = p]
<1>1. u = [p |-> u.p, loads |-> u.loads, asks |-> u.asks, outs |-> u.outs] /\ u.p \in Screens /\ u.p.bubbles \in Seq(Bubbles)
  BY ClientIs, ScreenIs
<1>2. l \in Seq(Bubbles) /\ \A i \in DOMAIN l : (i \in DOMAIN u.p.bubbles /\ l[i] = u.p.bubbles[i]) \/ l[i] = b
  BY <1>1, Longer
<1>3. Append1(u, b) = v
  BY <1>1 DEF Append1
<1> HIDE DEF l
<1>4. p \in Screens /\ p.conv = u.p.conv /\ p.url = u.p.url /\ p.nav = u.p.nav /\ p.bubbles = l /\ p.busy = u.p.busy
  BY <1>1, <1>2 DEF Screens
<1> HIDE DEF p
<1>5. v \in Clients /\ v.p = p /\ v.loads = u.loads /\ v.asks = u.asks /\ v.outs = u.outs
  BY <1>4 DEF Clients
<1> QED BY <1>2, <1>3, <1>4, <1>5

LEMMA Constant == Notice \in Bubbles /\ Notice.n = 0
BY ConstantsAssumption DEF Notice, Bubble, Bubbles

LEMMA Placeholders == ASSUME NEW n \in Turn PROVE Placeholder(n) \in Bubbles /\ Placeholder(n).n = n
BY ConstantsAssumption DEF Placeholder, Bubble, Bubbles, Turn

(* The page listens to another turn.                                        *)
LEMMA AttachFits ==
    ASSUME NEW u \in Clients, NEW J, NEW L, NEW Q, ClientFits(u, J, L, Q), NEW n \in Turn, OfIn(u.p, J, n), u.outs = <<>>
    PROVE  Attached(u, n) \in Clients /\ ClientFits(Attached(u, n), J, L, Q)
<1> DEFINE b == Placeholder(n)
           w == Append1(u, b)
           o == Out("attach", n, "stream", Notice, 0)
           l == Append(w.outs, o)
           p == [w.p EXCEPT !.busy = TRUE]
           v == [w EXCEPT !.p = p, !.outs = l]
<1>1. b \in Bubbles /\ b.n = n
  BY Placeholders
<1> HIDE DEF b
<1>2. /\ w \in Clients /\ w.loads = u.loads /\ w.asks = u.asks /\ w.outs = u.outs
      /\ w.p.conv = u.p.conv /\ w.p.url = u.p.url /\ w.p.nav = u.p.nav /\ w.p.busy = u.p.busy
      /\ \A i \in DOMAIN w.p.bubbles : (i \in DOMAIN u.p.bubbles /\ w.p.bubbles[i] = u.p.bubbles[i]) \/ w.p.bubbles[i] = b
  BY <1>1, BubbleAdded
<1>3. w = [p |-> w.p, loads |-> w.loads, asks |-> w.asks, outs |-> w.outs]
  BY <1>2, ClientIs
<1>4. Attached(u, n) = v
  BY <1>3 DEF Attached, b
<1> HIDE DEF w
<1>5. o \in Outs /\ o.n = n /\ o.stage = "stream"
  BY Constant DEF Out, Outs
<1> HIDE DEF o
<1>6. l \in Seq(Outs) /\ Len(l) = 1 /\ \A i \in DOMAIN l : l[i] = o
  <2>1. w.outs \in Seq(Outs) /\ w.outs = <<>>
    BY <1>2 DEF Clients
  <2> QED BY <1>5, <2>1
<1>7. p \in Screens /\ p.conv = w.p.conv /\ p.url = w.p.url /\ p.nav = w.p.nav /\ p.bubbles = w.p.bubbles /\ p.busy
  BY <1>2 DEF Screens, Clients
<1> HIDE DEF l, p
<1>8. v \in Clients /\ v.p = p /\ v.loads = w.loads /\ v.asks = w.asks /\ v.outs = l
  BY <1>2, <1>6, <1>7 DEF Clients
<1> HIDE DEF v
<1>9. ClientFits(v, J, L, Q)
  <2>1. \A k \in DOMAIN v.p.bubbles : FitsIn(u.p, J, L, v.p.bubbles[k].n) \/ AwaitedIn(v.outs, v.p.bubbles[k].n)
    <3>1. ~ \E m : AwaitedIn(u.outs, m)
      BY DEF AwaitedIn
    <3> QED BY <1>1, <1>2, <1>7, <1>8, <3>1 DEF FitsIn, ClientFits, BubbleOK
  <2>2. One(v) /\ \A k \in DOMAIN v.asks : AskOK(v.asks[k], u.p, J)
    BY <1>2, <1>6, <1>7, <1>8 DEF ClientFits, One
  <2>3. \A k \in DOMAIN v.outs : OutFits(v.outs[k], u.p, J, L, Q)
    BY <1>5, <1>6, <1>8 DEF OutFits
  <2>4. \A k \in DOMAIN v.loads : \E j \in DOMAIN u.loads : v.loads[k] = u.loads[j]
    BY <1>2, <1>8
  <2> QED BY <1>2, <1>7, <1>8, <2>1, <2>2, <2>3, <2>4, Redraws
<1> QED BY <1>4, <1>8, <1>9

LEMMA AskShows ==
    ASSUME Inv, AskLands
    PROVE  Inv'
<1> DEFINE u(i) == [Client EXCEPT !.asks = RemoveAt(@, i)]
           n(i) == Head(asks[i].reply)
<1>1. PICK i \in DOMAIN asks : asks[i].reply # <<>> /\ Becomes(reattachActiveJob(u(i), n(i)))
                               /\ UNCHANGED <<service, posts>> /\ lost \subseteq lost'
  BY DEF AskLands, server, service, GivenUp
<1> DEFINE w == u(i)
           m == n(i)
<1>2. asks[i] \in Asks /\ AskOK(asks[i], page, jobs)
  BY Open DEF ClientFits
<1>3. m \in 0 .. Turns /\ (m # 0 => OfIn(page, jobs, m))
  <2>1. asks[i].reply \in Seq(0 .. Turns)
    BY <1>2 DEF Asks
  <2>2. 1 \in DOMAIN asks[i].reply /\ m = asks[i].reply[1] /\ m \in 0 .. Turns
    BY <1>1, <2>1, Heads
  <2> QED BY <1>2, <2>2 DEF AskOK
<1>4. w \in Clients /\ w.p = page /\ w.outs = outs
  BY Open, AskLeaves
<1>5. ASSUME ClientFits(Client, jobs, lost', posts') PROVE ClientFits(w, jobs, lost', posts')
  BY <1>5, Open, AskLeaves
<1>8. ClientFits(w, jobs, lost, posts)
  BY Open, AskLeaves
<1> HIDE DEF w, m
<1>6. reattachActiveJob(w, m) \in Clients /\
      (ClientFits(Client, jobs, lost', posts') => ClientFits(reattachActiveJob(w, m), jobs, lost', posts'))
  <2>1. CASE m = 0 \/ page.busy
    BY <1>4, <1>5, <2>1 DEF reattachActiveJob
  <2>2. CASE m # 0 /\ ~page.busy
    <3>1. reattachActiveJob(w, m) = Attached(w, m)
      BY <1>4, <2>2 DEF reattachActiveJob
    <3>2. w.outs = <<>>
      BY <1>4, <1>8, <2>2 DEF ClientFits, One
    <3>3. m \in Turn /\ OfIn(w.p, jobs, m)
      BY <1>3, <1>4, <2>2, ConstantsAssumption DEF Turn
    <3>4. Attached(w, m) \in Clients
      BY <1>4, <1>8, <3>2, <3>3, AttachFits
    <3>5. ClientFits(w, jobs, lost', posts') => ClientFits(Attached(w, m), jobs, lost', posts')
      BY <1>4, <3>2, <3>3, AttachFits
    <3> QED BY <1>5, <3>1, <3>4, <3>5
  <2> QED BY <2>1, <2>2
<1>7. Becomes(reattachActiveJob(w, m)) /\ UNCHANGED <<service, posts>> /\ lost \subseteq lost'
  BY <1>1 DEF w, m
<1> QED BY <1>6, <1>7, Shown

-----------------------------------------------------------------------------
(* A turn begins, or is tried again.                                        *)

LEMMA Least ==
    ASSUME NEW S \in SUBSET Nat, S # {}
    PROVE  \E n \in S : \A m \in S : n <= m
<1>1. IsWellFoundedOn(Less, Nat)
  BY NatLessThanWellFounded DEF OpToRel, Less
<1>2. PICK x \in S : \A y \in S : ~(<<y, x>> \in Less)
  BY <1>1, WFMin
<1>3. ASSUME NEW m \in S PROVE x <= m
  <2>1. x \in Nat /\ m \in Nat
    OBVIOUS
  <2>2. m < x => <<m, x>> \in Less
    BY <2>1 DEF Less
  <2> QED BY <1>2, <2>1, <2>2
<1> QED BY <1>3

LEMMA NextIs ==
    ASSUME Unused # {}
    PROVE  /\ NextTurn \in Turn /\ jobs[NextTurn].conv = None /\ \A x \in posts : x.n # NextTurn
<1>1. Unused \in SUBSET Nat
  BY ConstantsAssumption DEF Unused
<1>2. NextTurn \in Unused
  <2> HIDE DEF Unused
  <2> QED BY <1>1, Least DEF NextTurn
<1> QED BY <1>2 DEF Unused, Turn

(* A turn begins: its post is sent and awaited.                             *)
LEMMA Begins ==
    ASSUME Inv, UNCHANGED service, lost \subseteq lost', outs = <<>>, Unused # {}, NEW kind \in {"send", "retry"},
           kind = "retry" => page.conv # None, NEW off \in Bubbles, FitsIn(page, jobs, lost, off.n), NEW at \in Nat,
           kind = "retry" => at # 0,
           NEW u \in Clients, Becomes(u), u.p.conv = page.conv, u.p.url = page.url, u.p.nav = page.nav, u.p.busy,
           u.loads = loads, u.asks = asks, u.outs = <<Out(kind, NextTurn, "post", off, at)>>,
           \A i \in DOMAIN u.p.bubbles : FitsIn(page, jobs, lost, u.p.bubbles[i].n) \/ u.p.bubbles[i].n = NextTurn,
           posts' = posts \cup {[n |-> NextTurn, kind |-> kind, conv |-> page.conv, stage |-> "sent", reads |-> 0]}
    PROVE  Inv'
<1> DEFINE z == [n |-> NextTurn, kind |-> kind, conv |-> page.conv, stage |-> "sent", reads |-> 0]
           o == Out(kind, NextTurn, "post", off, at)
<1>1. NextTurn \in Turn /\ jobs[NextTurn].conv = None /\ \A x \in posts : x.n # NextTurn
  BY NextIs
<1>2. page.conv \in Some
  BY Open, ScreenIs
<1>3. z \in Posts /\ z.n = NextTurn /\ z.kind = kind /\ z.conv = page.conv /\ z.stage = "sent"
  BY <1>1, <1>2, ConstantsAssumption DEF Posts, Turn, Stages
<1>4. o.n = NextTurn /\ o.stage = "post" /\ o.kind = kind /\ o.off = off /\ o.at = at
  BY DEF Out
<1>5. posts' = posts \cup {z} /\ u.outs = <<o>>
  OBVIOUS
<1> HIDE DEF z, o
<1>6. PostOK(z)
  BY <1>1, <1>3 DEF PostOK
<1>7. UNCHANGED jobs
  BY DEF service
<1>8. PostsOK' /\ posts' \in SUBSET Posts
  <2>1. \A x \in posts' : PostOK(x) /\ x \in Posts
    BY <1>3, <1>5, <1>6, Known
  <2>2. \A x \in posts' : PostOK(x)'
    BY <1>7, <2>1 DEF PostOK
  <2>3. \A x, y \in posts' : x.n = y.n /\ x.n # 0 => x = y
    BY <1>1, <1>3, <1>5, Known DEF PostsOK
  <2> QED BY <2>1, <2>2, <2>3 DEF PostsOK
<1>9. ClientFits(Client, jobs, lost', posts')
  <2>1. ClientFits(Client, jobs, lost', posts)
    <3>1. Grew(jobs, jobs) /\ Follows(posts, posts) /\ \A n \in lost \ lost' : OfIn(Client.p, jobs, n)
      BY Same
    <3> QED BY <3>1, Open, StillFits
  <2>2. DOMAIN Client.outs = {}
    BY Open
  <2> QED BY <2>1, <2>2 DEF ClientFits
<1>10. ClientFits(u, jobs, lost', posts')
  <2>1. One(u)
    BY <1>5 DEF One
  <2>2. ASSUME NEW i \in DOMAIN u.outs PROVE OutFits(u.outs[i], page, jobs, lost', posts')
    <3>1. u.outs[i] = o
      BY <1>5, <2>2
    <3>2. FitsIn(page, jobs, lost', off.n)
      BY DEF FitsIn
    <3>3. ASSUME NEW x \in posts', x.n = o.n PROVE x = z
      BY <1>1, <1>3, <1>4, <1>5, <3>3
    <3> QED BY <1>3, <1>4, <3>1, <3>2, <3>3 DEF OutFits
  <2>3. \A i \in DOMAIN u.loads : \E j \in DOMAIN Client.loads : u.loads[i] = Client.loads[j]
    BY Open
  <2>4. \A i \in DOMAIN u.asks : AskOK(u.asks[i], page, jobs)
    BY Open DEF ClientFits
  <2>5. AwaitedIn(u.outs, NextTurn)
    BY <1>4, <1>5 DEF AwaitedIn
  <2>6. \A i \in DOMAIN u.p.bubbles : FitsIn(page, jobs, lost', u.p.bubbles[i].n) \/ AwaitedIn(u.outs, u.p.bubbles[i].n)
    BY <2>5 DEF FitsIn
  <2>7. Client \in Clients /\ Client.p = page
    BY Open
  <2>8. /\ \A i \in DOMAIN u.outs : OutFits(u.outs[i], Client.p, jobs, lost', posts')
        /\ \A i \in DOMAIN u.asks : AskOK(u.asks[i], Client.p, jobs)
        /\ \A i \in DOMAIN u.p.bubbles : FitsIn(Client.p, jobs, lost', u.p.bubbles[i].n) \/ AwaitedIn(u.outs, u.p.bubbles[i].n)
    BY <2>2, <2>4, <2>6, <2>7
  <2>9. u.p.conv = Client.p.conv /\ u.p.url = Client.p.url /\ u.p.nav = Client.p.nav
    BY <2>7
  <2> QED BY <1>9, <2>1, <2>3, <2>7, <2>8, <2>9, Redraws
<1> QED BY <1>8, <1>10, Shows

(* Nothing is awaited while the page is not busy.                           *)
LEMMA NotBusy ==
    ASSUME Inv, ~page.busy
    PROVE  outs = <<>> /\ \A i \in DOMAIN page.bubbles : FitsIn(page, jobs, lost, page.bubbles[i].n)
<1>1. outs = <<>>
  BY Open DEF ClientFits, One
<1>2. \A n : ~AwaitedIn(outs, n)
  BY <1>1 DEF AwaitedIn
<1> QED BY <1>1, <1>2, Open DEF ClientFits, BubbleOK

LEMMA Sends ==
    ASSUME Inv, send
    PROVE  Inv'
<1> DEFINE b == Bubble("user", NextTurn, FALSE, 2, FALSE)
           v == Append1(Client, b)
           p == [v.p EXCEPT !.busy = TRUE]
           o == Out("send", NextTurn, "post", Notice, 0)
           l == Append(v.outs, o)
           u == [v EXCEPT !.p = p, !.outs = l]
<1>1. /\ ~page.busy /\ Unused # {}
      /\ Becomes([[v EXCEPT !.p.busy = TRUE] EXCEPT !.outs = Append(@, o)])
      /\ posts' = posts \cup {[n |-> NextTurn, kind |-> "send", conv |-> page.conv, stage |-> "sent", reads |-> 0]}
      /\ lost \subseteq lost' /\ UNCHANGED service
  BY DEF send, service, GivenUp
<1>2. NextTurn \in Turn
  BY <1>1, NextIs
<1>3. b \in Bubbles /\ b.n = NextTurn
  BY <1>2, ConstantsAssumption DEF Bubble, Bubbles, Turn
<1> HIDE DEF b
<1>4. /\ v \in Clients /\ v.loads = loads /\ v.asks = asks /\ v.outs = outs
      /\ v.p.conv = page.conv /\ v.p.url = page.url /\ v.p.nav = page.nav /\ v.p.busy = page.busy
      /\ \A i \in DOMAIN v.p.bubbles : (i \in DOMAIN page.bubbles /\ v.p.bubbles[i] = page.bubbles[i]) \/ v.p.bubbles[i] = b
  BY <1>3, Open, BubbleAdded
<1>5. v = [p |-> v.p, loads |-> v.loads, asks |-> v.asks, outs |-> v.outs]
  BY <1>4, ClientIs
<1>6. Becomes(u)
  <2> HIDE DEF v, o
  <2>1. [[v EXCEPT !.p.busy = TRUE] EXCEPT !.outs = Append(@, o)] = u
    BY <1>5
  <2> QED BY <1>1, <2>1
<1> HIDE DEF v
<1>7. outs = <<>> /\ \A i \in DOMAIN page.bubbles : FitsIn(page, jobs, lost, page.bubbles[i].n)
  BY <1>1, NotBusy
<1>8. o \in Outs
  BY <1>2, Constant DEF Out, Outs
<1> HIDE DEF o
<1>9. l = <<o>> /\ l \in Seq(Outs)
  BY <1>4, <1>7, <1>8
<1>10. /\ p \in Screens /\ p.conv = page.conv /\ p.url = page.url /\ p.nav = page.nav /\ p.bubbles = v.p.bubbles /\ p.busy
  BY <1>4 DEF Screens, Clients
<1> HIDE DEF l, p
<1>11. u \in Clients /\ u.p = p /\ u.loads = loads /\ u.asks = asks /\ u.outs = <<o>>
  BY <1>4, <1>9, <1>10 DEF Clients
<1> HIDE DEF u
<1>12. \A i \in DOMAIN u.p.bubbles : FitsIn(page, jobs, lost, u.p.bubbles[i].n) \/ u.p.bubbles[i].n = NextTurn
  BY <1>3, <1>4, <1>7, <1>10, <1>11
<1>13. FitsIn(page, jobs, lost, Notice.n)
  BY Constant DEF FitsIn
<1> QED BY <1>1, <1>6, <1>7, <1>10, <1>11, <1>12, <1>13, Constant, Begins DEF o

(* A list with rows left out.                                               *)
LEMMA Filtered ==
    ASSUME NEW X, NEW s \in Seq(X), NEW at
    PROVE  Kept(s, at) \in Seq(X) /\ \A i \in DOMAIN Kept(s, at) : \E j \in DOMAIN s \cap at : Kept(s, at)[i] = s[j]
<1> DEFINE Y == {s[i] : i \in DOMAIN s \cap at}
           q == Kept(s, at)
<1>1. q \in Seq(Y)
  BY KeptRows
<1>2. Y \subseteq X /\ \A y \in Y : \E j \in DOMAIN s \cap at : y = s[j]
  OBVIOUS
<1> HIDE DEF Y, q
<1> QED BY <1>1, <1>2 DEF q

LEMMA LastIs ==
    ASSUME NEW X, NEW s \in Seq(X), s # <<>>
    PROVE  Len(s) \in DOMAIN s /\ Last(s) = s[Len(s)]
BY DEF Last

LEMMA RetryOf ==
    ASSUME NEW p \in Screens, NEW b \in retryBubble(p)
    PROVE  ~p.busy /\ \E i \in DOMAIN p.bubbles : p.bubbles[i] = b
<1> DEFINE shown == visibleBubbles(p.bubbles)
<1>1. ~p.busy /\ shown # <<>> /\ b = Last(shown)
  BY DEF retryBubble
<1>2. shown \in Seq(Bubbles) /\ \A i \in DOMAIN shown : \E j \in DOMAIN p.bubbles : shown[i] = p.bubbles[j]
  <2> DEFINE at == {i \in DOMAIN p.bubbles : p.bubbles[i].role # "assistant" \/ p.bubbles[i].text # 0}
  <2>1. shown = Kept(p.bubbles, at) /\ p.bubbles \in Seq(Bubbles)
    BY ScreenIs DEF visibleBubbles
  <2> HIDE DEF at, shown
  <2> QED BY <2>1, Filtered
<1> HIDE DEF shown
<1> QED BY <1>1, <1>2, LastIs

LEMMA Retries ==
    ASSUME Inv, retryLast
    PROVE  Inv'
<1>1. PICK b \in retryBubble(page) :
        /\ page.conv # None /\ Unused # {}
        /\ LET at == CHOOSE i \in DOMAIN page.bubbles : page.bubbles[i] = b
               u == [Client EXCEPT !.p.bubbles = Without(@, b), !.p.busy = TRUE]
           IN Becomes([u EXCEPT !.outs = Append(@, Out("retry", NextTurn, "post", b, at))])
        /\ posts' = posts \cup {[n |-> NextTurn, kind |-> "retry", conv |-> page.conv, stage |-> "sent", reads |-> 0]}
        /\ UNCHANGED <<service, lost>>
  BY DEF retryLast, service
<1> DEFINE at == CHOOSE i \in DOMAIN page.bubbles : page.bubbles[i] = b
           q == Without(page.bubbles, b)
           p == [page EXCEPT !.bubbles = q, !.busy = TRUE]
           o == Out("retry", NextTurn, "post", b, at)
           l == Append(outs, o)
           u == [Client EXCEPT !.p = p, !.outs = l]
<1>2. NextTurn \in Turn
  BY <1>1, NextIs
<1>3. ~page.busy /\ (\E i \in DOMAIN page.bubbles : page.bubbles[i] = b) /\ page.bubbles \in Seq(Bubbles)
  BY <1>1, Open, RetryOf, ScreenIs
<1>4. at \in DOMAIN page.bubbles /\ page.bubbles[at] = b
  BY <1>3
<1>5. at \in Nat /\ at # 0 /\ b \in Bubbles
  <2> HIDE DEF at
  <2> QED BY <1>3, <1>4
<1>6. outs = <<>> /\ \A i \in DOMAIN page.bubbles : FitsIn(page, jobs, lost, page.bubbles[i].n)
  BY <1>3, NotBusy
<1>7. q \in Seq(Bubbles) /\ \A i \in DOMAIN q : \E j \in DOMAIN page.bubbles : q[i] = page.bubbles[j]
  <2> DEFINE rest == {i \in DOMAIN page.bubbles : page.bubbles[i] # b}
  <2>1. q = Kept(page.bubbles, rest)
    BY DEF Without
  <2> HIDE DEF rest, q
  <2> QED BY <1>3, <2>1, Filtered
<1>8. Becomes(u)
  <2>1. Client = [p |-> page, loads |-> loads, asks |-> asks, outs |-> outs] /\ page \in Screens
    BY Open DEF Client
  <2>2. Becomes([[Client EXCEPT !.p.bubbles = q, !.p.busy = TRUE] EXCEPT !.outs = Append(@, o)])
    BY <1>1, Open
  <2> HIDE DEF q, o
  <2>3. [[Client EXCEPT !.p.bubbles = q, !.p.busy = TRUE] EXCEPT !.outs = Append(@, o)] = u
    BY <2>1
  <2> QED BY <2>2, <2>3
<1> HIDE DEF at, q
<1>9. o \in Outs
  BY <1>2, <1>5 DEF Out, Outs
<1> HIDE DEF o
<1>10. l = <<o>> /\ l \in Seq(Outs)
  BY <1>6, <1>9
<1>11. p \in Screens /\ p.conv = page.conv /\ p.url = page.url /\ p.nav = page.nav /\ p.bubbles = q /\ p.busy
  BY <1>7, Open DEF Screens
<1> HIDE DEF l, p
<1>12. u \in Clients /\ u.p = p /\ u.loads = loads /\ u.asks = asks /\ u.outs = <<o>>
  BY <1>10, <1>11, Open DEF Clients
<1> HIDE DEF u
<1>13. \A i \in DOMAIN u.p.bubbles : FitsIn(page, jobs, lost, u.p.bubbles[i].n)
  BY <1>6, <1>7, <1>11, <1>12
<1>14. FitsIn(page, jobs, lost, b.n)
  BY <1>4, <1>6
<1> QED BY <1>1, <1>5, <1>6, <1>8, <1>11, <1>12, <1>13, <1>14, Begins DEF o

-----------------------------------------------------------------------------
(* A turn is over.                                                          *)

(* The one subscription there is.                                           *)
LEMMA OnlyOne ==
    ASSUME NEW u \in Clients, One(u), NEW o \in Range(u.outs)
    PROVE  u.outs = <<o>> /\ o \in Outs /\ u.p.busy
<1>1. u.outs \in Seq(Outs)
  BY ClientIs
<1>2. PICK i \in DOMAIN u.outs : u.outs[i] = o
  BY DEF Range
<1>3. u.outs # <<>>
  BY <1>1, <1>2
<1>4. Len(u.outs) = 1 /\ u.p.busy
  BY <1>3 DEF One
<1>5. i = 1
  BY <1>1, <1>2, <1>4
<1> QED BY <1>1, <1>2, <1>4, <1>5

LEMMA Empties == \A o : Without(<<o>>, o) = <<>>
<1> SUFFICES ASSUME NEW o PROVE Without(<<o>>, o) = <<>>
  OBVIOUS
<1> DEFINE s == <<o>>
           at == {i \in DOMAIN s : s[i] # o}
           q == Kept(s, at)
<1>1. s \in Seq({o}) /\ DOMAIN s \cap at = {}
  OBVIOUS
<1>2. Without(<<o>>, o) = q
  BY DEF Without
<1> HIDE DEF s, at
<1>3. q \in Seq({o}) /\ DOMAIN q = {}
  BY <1>1, Filtered
<1> HIDE DEF q
<1> QED BY <1>2, <1>3

LEMMA Finishes ==
    ASSUME NEW u \in Clients, NEW o, u.outs = <<o>>
    PROVE  LET v == Finished(u, o)
           IN /\ v \in Clients /\ v.loads = u.loads /\ v.asks = u.asks /\ v.outs = <<>>
              /\ v.p.conv = u.p.conv /\ v.p.url = u.p.url /\ v.p.nav = u.p.nav /\ v.p.bubbles = u.p.bubbles
<1> DEFINE p == [u.p EXCEPT !.busy = FALSE]
           none == <<>>
           v == [u EXCEPT !.p = p, !.outs = none]
<1>1. u = [p |-> u.p, loads |-> u.loads, asks |-> u.asks, outs |-> u.outs] /\ u.p \in Screens
  BY ClientIs
<1>2. Without(u.outs, o) = none
  BY Empties
<1>3. Finished(u, o) = v
  <2> HIDE DEF none
  <2> QED BY <1>1, <1>2 DEF Finished
<1>4. none \in Seq(Outs)
  OBVIOUS
<1> HIDE DEF none
<1>5. p \in Screens /\ p.conv = u.p.conv /\ p.url = u.p.url /\ p.nav = u.p.nav /\ p.bubbles = u.p.bubbles
  BY <1>1 DEF Screens
<1> HIDE DEF p
<1>6. v \in Clients /\ v.p = p /\ v.loads = u.loads /\ v.asks = u.asks /\ v.outs = none
  BY <1>4, <1>5 DEF Clients
<1> HIDE DEF v
<1> QED BY <1>3, <1>5, <1>6 DEF none

(* The turn is over; what the screen then shows belongs to the conversation.*)
LEMMA FinishFits ==
    ASSUME NEW u \in Clients, NEW J, NEW L, NEW Q, ClientFits(u, J, L, Q), NEW v \in Clients, NEW o, v.outs = <<o>>,
           v.loads = u.loads, v.asks = u.asks, v.p.conv = u.p.conv, v.p.url = u.p.url, v.p.nav = u.p.nav,
           \A i \in DOMAIN v.p.bubbles : FitsIn(u.p, J, L, v.p.bubbles[i].n)
    PROVE  Finished(v, o) \in Clients /\ ClientFits(Finished(v, o), J, L, Q)
<1> DEFINE w == Finished(v, o)
<1>1. /\ w \in Clients /\ w.loads = u.loads /\ w.asks = u.asks /\ w.outs = <<>>
      /\ w.p.conv = u.p.conv /\ w.p.url = u.p.url /\ w.p.nav = u.p.nav /\ w.p.bubbles = v.p.bubbles
  BY Finishes
<1> HIDE DEF w
<1>2. One(w) /\ DOMAIN w.outs = {}
  BY <1>1 DEF One
<1>3. \A i \in DOMAIN w.p.bubbles : FitsIn(u.p, J, L, w.p.bubbles[i].n) \/ AwaitedIn(w.outs, w.p.bubbles[i].n)
  BY <1>1
<1>4. \A k \in DOMAIN w.asks : AskOK(w.asks[k], u.p, J)
  BY <1>1 DEF ClientFits
<1>5. \A k \in DOMAIN w.loads : \E j \in DOMAIN u.loads : w.loads[k] = u.loads[j]
  BY <1>1
<1>6. ClientFits(w, J, L, Q)
  BY <1>1, <1>2, <1>3, <1>4, <1>5, Redraws
<1> QED BY <1>1, <1>6 DEF w

-----------------------------------------------------------------------------
(* A post fails.                                                            *)
LEMMA Inserted ==
    ASSUME NEW X, NEW s \in Seq(X), NEW k \in 1 .. Len(s) + 1, NEW e \in X
    PROVE  InsertAt(s, k, e) \in Seq(X) /\ \A i \in DOMAIN InsertAt(s, k, e) : InsertAt(s, k, e)[i] = e \/ \E j \in DOMAIN s : InsertAt(s, k, e)[i] = s[j]
<1> DEFINE a == SubSeq(s, 1, k - 1)
           b == SubSeq(s, k, Len(s))
           m == <<e>>
           c == a \o m
<1>1. a \in Seq(X) /\ \A i \in DOMAIN a : \E j \in DOMAIN s : a[i] = s[j]
  OBVIOUS
<1>2. b \in Seq(X) /\ \A i \in DOMAIN b : \E j \in DOMAIN s : b[i] = s[j]
  <2>1. \A i \in DOMAIN b : k + i - 1 \in DOMAIN s /\ b[i] = s[k + i - 1]
    OBVIOUS
  <2>2. b \in Seq(X)
    OBVIOUS
  <2> QED BY <2>1, <2>2
<1>3. m \in Seq(X) /\ \A i \in DOMAIN m : m[i] = e
  OBVIOUS
<1> HIDE DEF a, b, m
<1>4. c \in Seq(X) /\ \A i \in DOMAIN c : (i \in DOMAIN a /\ c[i] = a[i]) \/ (i - Len(a) \in DOMAIN m /\ c[i] = m[i - Len(a)])
  BY <1>1, <1>3
<1> HIDE DEF c
<1>5. c \o b \in Seq(X) /\ \A i \in DOMAIN (c \o b) : (i \in DOMAIN c /\ (c \o b)[i] = c[i]) \/ (i - Len(c) \in DOMAIN b /\ (c \o b)[i] = b[i - Len(c)])
  BY <1>2, <1>4
<1>6. InsertAt(s, k, e) = c \o b
  BY DEF InsertAt, a, b, c, m
<1>7. \A i \in DOMAIN c : c[i] = e \/ \E j \in DOMAIN s : c[i] = s[j]
  BY <1>1, <1>3, <1>4
<1> QED BY <1>2, <1>5, <1>6, <1>7

LEMMA RestoredIs ==
    ASSUME NEW u \in Clients, NEW o \in Outs, o.at # 0
    PROVE  LET v == Restored(u, o)
           IN /\ v \in Clients /\ v.loads = u.loads /\ v.asks = u.asks /\ v.outs = u.outs
              /\ v.p.conv = u.p.conv /\ v.p.url = u.p.url /\ v.p.nav = u.p.nav
              /\ \A i \in DOMAIN v.p.bubbles : v.p.bubbles[i] = o.off \/ \E j \in DOMAIN u.p.bubbles : v.p.bubbles[i] = u.p.bubbles[j]
<1> DEFINE list == u.p.bubbles
           at == IF o.at > Len(list) + 1 THEN Len(list) + 1 ELSE o.at
           there == \E b \in Range(list) : b.row = o.off.row /\ IdOf(b) = IdOf(o.off)
           q == InsertAt(list, at, o.off)
           p == [u.p EXCEPT !.bubbles = q]
           v == [u EXCEPT !.p = p]
<1>1. u = [p |-> u.p, loads |-> u.loads, asks |-> u.asks, outs |-> u.outs] /\ u.p \in Screens /\ list \in Seq(Bubbles)
  BY ClientIs, ScreenIs
<1>2. at \in 1 .. Len(list) + 1 /\ o.off \in Bubbles
  BY <1>1 DEF Outs
<1>3. Restored(u, o) = IF there THEN u ELSE v
  BY <1>1 DEF Restored
<1> HIDE DEF there, at
<1>4. q \in Seq(Bubbles) /\ \A i \in DOMAIN q : q[i] = o.off \/ \E j \in DOMAIN list : q[i] = list[j]
  BY <1>1, <1>2, Inserted
<1> HIDE DEF q
<1>5. p \in Screens /\ p.conv = u.p.conv /\ p.url = u.p.url /\ p.nav = u.p.nav /\ p.bubbles = q
  BY <1>1, <1>4 DEF Screens
<1> HIDE DEF p
<1>6. v \in Clients /\ v.p = p /\ v.loads = u.loads /\ v.asks = u.asks /\ v.outs = u.outs
  BY <1>5 DEF Clients
<1> HIDE DEF v
<1> QED BY <1>3, <1>4, <1>5, <1>6

LEMMA FailsFit ==
    ASSUME NEW u \in Clients, NEW J, NEW L, NEW Q, ClientFits(u, J, L, Q), NEW o \in Range(u.outs), o.stage = "post", o.n \in L
    PROVE  PostFails(u, o) \in Clients /\ ClientFits(PostFails(u, o), J, L, Q)
<1> DEFINE v == IF o.kind = "send" THEN Append1(u, Notice) ELSE Restored(u, o)
<1>1. u.outs = <<o>> /\ o \in Outs
  BY OnlyOne DEF ClientFits
<1>2. OutFits(o, u.p, J, L, Q)
  BY DEF ClientFits, Range
<1>3. \A i \in DOMAIN u.p.bubbles : FitsIn(u.p, J, L, u.p.bubbles[i].n)
  <2>1. \A n : AwaitedIn(u.outs, n) => n = o.n
    BY <1>1 DEF AwaitedIn
  <2> QED BY <2>1 DEF ClientFits, BubbleOK, FitsIn
<1>4. /\ v \in Clients /\ v.loads = u.loads /\ v.asks = u.asks /\ v.outs = u.outs
      /\ v.p.conv = u.p.conv /\ v.p.url = u.p.url /\ v.p.nav = u.p.nav
      /\ \A i \in DOMAIN v.p.bubbles : FitsIn(u.p, J, L, v.p.bubbles[i].n)
  <2>1. CASE o.kind = "send"
    <3>1. FitsIn(u.p, J, L, Notice.n)
      BY Constant DEF FitsIn
    <3>2. v = Append1(u, Notice)
      BY <2>1
    <3> HIDE DEF v
    <3> QED BY <1>3, <3>1, <3>2, Constant, BubbleAdded
  <2>2. CASE o.kind # "send"
    <3>1. o.kind = "retry"
      BY <1>1, <1>2, <2>2 DEF Outs, OutFits
    <3>2. o.at # 0 /\ FitsIn(u.p, J, L, o.off.n)
      BY <1>2, <3>1 DEF OutFits
    <3>3. v = Restored(u, o)
      BY <2>2
    <3> HIDE DEF v
    <3> QED BY <1>1, <1>3, <3>2, <3>3, RestoredIs
  <2> QED BY <2>1, <2>2
<1>5. PostFails(u, o) = Finished(v, o)
  BY DEF PostFails
<1> HIDE DEF v
<1> QED BY <1>1, <1>4, <1>5, FinishFits

LEMMA AnswerLost ==
    ASSUME Inv, AnswerIsLost
    PROVE  Inv'
<1>1. PICK o \in Range(outs) : o.stage = "post" /\ Becomes(PostFails(Client, o)) /\ lost' = lost \cup ({o.n, o.off.n} \ {0})
                               /\ UNCHANGED <<service, posts>>
  BY DEF AnswerIsLost, GivenUp, server, service
<1>2. o.n \in lost' /\ lost \subseteq lost'
  <2>1. o \in Outs
    BY Open, OnlyOne DEF ClientFits
  <2> QED BY <1>1, <2>1 DEF Outs, Turn
<1>3. ASSUME NEW L, o.n \in L, ClientFits(Client, jobs, L, posts')
      PROVE  PostFails(Client, o) \in Clients /\ ClientFits(PostFails(Client, o), jobs, L, posts')
  BY <1>1, <1>3, Open, FailsFit
<1>4. ClientFits(Client, jobs, lost', posts')
  <2>1. Grew(jobs, jobs) /\ Follows(posts, posts') /\ \A n \in lost \ lost' : OfIn(Client.p, jobs, n)
    BY <1>1, <1>2, Same
  <2> QED BY <2>1, Open, StillFits
<1> QED BY <1>1, <1>2, <1>3, <1>4, Shown

-----------------------------------------------------------------------------
(* A turn is answered.                                                      *)

(* The job is there: the page may take on the new conversation's id.        *)
Joins(u, c) == syncConversationParam([u EXCEPT !.p.conv = c], c)

LEMMA JoinsFit ==
    ASSUME NEW u \in Clients, NEW J, NEW L, NEW Q, ClientFits(u, J, L, Q), NEW c \in Convs, u.p.conv \in {None, c}
    PROVE  /\ Joins(u, c) \in Clients /\ Joins(u, c).p.conv = c /\ Joins(u, c).outs = u.outs /\ Joins(u, c).p.busy = u.p.busy
           /\ Named(Joins(u, c).p)
           /\ \A i \in DOMAIN Joins(u, c).loads : AnswersOK(Joins(u, c).loads[i], J) /\ (~Joins(u, c).loads[i].stale => Joins(u, c).loads[i].conv = c)
           /\ \A i \in DOMAIN Joins(u, c).asks : AskOK(Joins(u, c).asks[i], Joins(u, c).p, J)
           /\ Joins(u, c).p.bubbles = u.p.bubbles
           /\ \A n : FitsIn(u.p, J, L, n) => FitsIn(Joins(u, c).p, J, L, n)
<1> DEFINE p == [u.p EXCEPT !.conv = c]
           v == [u EXCEPT !.p = p]
           w == syncConversationParam(v, c)
<1>1. u = [p |-> u.p, loads |-> u.loads, asks |-> u.asks, outs |-> u.outs] /\ u.p \in Screens /\ c \in Some /\ c # None
  BY ClientIs, ConstantsAssumption DEF Some
<1>2. Joins(u, c) = w
  BY <1>1 DEF Joins
<1>3. p \in Screens /\ p.conv = c /\ p.bubbles = u.p.bubbles /\ p.busy = u.p.busy
  BY <1>1 DEF Screens
<1> HIDE DEF p
<1>4. v \in Clients /\ v.p = p /\ v.loads = u.loads /\ v.asks = u.asks /\ v.outs = u.outs
  BY <1>3 DEF Clients
<1> HIDE DEF v
<1>5. /\ w \in Clients /\ w.loads = u.loads /\ w.outs = u.outs /\ w.asks = u.asks
      /\ w.p.conv = c /\ w.p.bubbles = u.p.bubbles /\ w.p.busy = u.p.busy /\ Named(w.p)
  BY <1>1, <1>3, <1>4, Syncs
<1> HIDE DEF w
<1>6. \A i \in DOMAIN w.loads : AnswersOK(w.loads[i], J) /\ (~w.loads[i].stale => w.loads[i].conv = c)
  BY <1>5 DEF ClientFits, AnswersOK
<1>7. \A i \in DOMAIN w.asks : AskOK(w.asks[i], w.p, J)
  BY <1>5 DEF ClientFits, AskOK, OfIn
<1>8. \A n : FitsIn(u.p, J, L, n) => FitsIn(w.p, J, L, n)
  BY <1>1, <1>5 DEF FitsIn, OfIn
<1> QED BY <1>2, <1>5, <1>6, <1>7, <1>8

LEMMA AnswersFit ==
    ASSUME NEW u \in Clients, NEW J, NEW L, NEW Q, ClientFits(u, J, L, Q), NEW o \in Range(u.outs), o.stage = "post",
           NEW c \in Convs, J[o.n].conv = c, u.p.conv \in {None, c}
    PROVE  PostAnswers(u, o, c) \in Clients /\ ClientFits(PostAnswers(u, o, c), J, L, Q)
<1> DEFINE v == IF o.kind = "send" THEN Joins(u, c) ELSE u
           b == Placeholder(o.n)
           w == Append1(v, b)
           e == [o EXCEPT !.stage = "stream"]
           rest == Without(w.outs, o)
           l == Append(rest, e)
           x == [w EXCEPT !.outs = l]
<1>1. u.outs = <<o>> /\ o \in Outs /\ u.p.busy /\ c # None
  BY OnlyOne, ConstantsAssumption DEF ClientFits
<1>2. OutFits(o, u.p, J, L, Q) /\ o.n \in Turn
  BY <1>1 DEF ClientFits, Range, Outs
<1>3. /\ v \in Clients /\ v.p.conv = c /\ v.outs = u.outs /\ v.p.busy = u.p.busy /\ Named(v.p)
      /\ \A i \in DOMAIN v.loads : AnswersOK(v.loads[i], J) /\ (~v.loads[i].stale => v.loads[i].conv = c)
      /\ \A i \in DOMAIN v.asks : AskOK(v.asks[i], v.p, J)
      /\ v.p.bubbles = u.p.bubbles
      /\ \A n : FitsIn(u.p, J, L, n) => FitsIn(v.p, J, L, n)
  <2>1. CASE o.kind = "send"
    <3>1. v = Joins(u, c)
      BY <2>1
    <3> HIDE DEF v
    <3> QED BY <3>1, JoinsFit
  <2>2. CASE o.kind # "send"
    <3>1. o.kind = "retry"
      BY <1>1, <1>2, <2>2 DEF Outs, OutFits
    <3>2. u.p.conv = c
      BY <1>2, <3>1 DEF OutFits
    <3>3. v = u
      BY <2>2
    <3> HIDE DEF v
    <3> QED BY <3>2, <3>3 DEF ClientFits
  <2> QED BY <2>1, <2>2
<1>4. PostAnswers(u, o, c) = x
  BY DEF PostAnswers, Joins
<1> HIDE DEF v
<1>5. b \in Bubbles /\ b.n = o.n
  BY <1>2, Placeholders
<1> HIDE DEF b
<1>6. /\ w \in Clients /\ w.loads = v.loads /\ w.asks = v.asks /\ w.outs = v.outs
      /\ w.p.conv = v.p.conv /\ w.p.url = v.p.url /\ w.p.nav = v.p.nav /\ w.p.busy = v.p.busy
      /\ \A i \in DOMAIN w.p.bubbles : (i \in DOMAIN v.p.bubbles /\ w.p.bubbles[i] = v.p.bubbles[i]) \/ w.p.bubbles[i] = b
  BY <1>3, <1>5, BubbleAdded
<1> HIDE DEF w
<1>7. rest = <<>>
  BY <1>1, <1>3, <1>6, Empties
<1>8. e \in Outs /\ e.stage = "stream" /\ e.n = o.n
  BY <1>1 DEF Outs
<1> HIDE DEF e, rest
<1>9. l \in Seq(Outs) /\ Len(l) = 1 /\ \A i \in DOMAIN l : l[i] = e
  BY <1>7, <1>8
<1> HIDE DEF l
<1>10. x \in Clients /\ x.p = w.p /\ x.loads = w.loads /\ x.asks = w.asks /\ x.outs = l
  BY <1>6, <1>9 DEF Clients
<1> HIDE DEF x
<1>11. OfIn(w.p, J, o.n)
  BY <1>1, <1>3, <1>6 DEF OfIn
<1>12. \A n : FitsIn(v.p, J, L, n) => FitsIn(w.p, J, L, n)
  BY <1>6 DEF FitsIn, OfIn
<1>13. \A i \in DOMAIN x.p.bubbles : BubbleOK(x.p.bubbles[i], x, J, L)
  <2>1. \A n : AwaitedIn(u.outs, n) => n = o.n
    BY <1>1 DEF AwaitedIn
  <2>2. ASSUME NEW i \in DOMAIN u.p.bubbles PROVE FitsIn(w.p, J, L, u.p.bubbles[i].n)
    BY <1>3, <1>11, <1>12, <2>1 DEF ClientFits, BubbleOK, FitsIn
  <2> QED BY <1>3, <1>5, <1>6, <1>10, <1>11, <2>2 DEF BubbleOK, FitsIn
<1>14. \A i \in DOMAIN x.outs : OutFits(x.outs[i], x.p, J, L, Q)
  BY <1>8, <1>9, <1>10, <1>11 DEF OutFits
<1>15. \A i \in DOMAIN x.loads : AnswersOK(x.loads[i], J) /\ (~x.loads[i].stale => x.loads[i].conv = x.p.conv)
  BY <1>3, <1>6, <1>10
<1>16. \A i \in DOMAIN x.asks : AskOK(x.asks[i], x.p, J)
  BY <1>3, <1>6, <1>10 DEF AskOK, OfIn
<1>17. One(x) /\ Named(x.p)
  BY <1>1, <1>3, <1>6, <1>9, <1>10 DEF One, Named
<1>18. ClientFits(x, J, L, Q)
  BY <1>13, <1>14, <1>15, <1>16, <1>17 DEF ClientFits
<1> QED BY <1>4, <1>10, <1>18

LEMMA AnswerShows ==
    ASSUME Inv, AnswerLands
    PROVE  Inv'
<1> DEFINE Mine(x) == {o \in Range(outs) : o.n = x.n /\ o.stage = "post"}
           Shows1(x) == IF Mine(x) = {} THEN Client
                        ELSE LET o == CHOOSE y \in Mine(x) : TRUE
                             IN IF x.stage = "queued" THEN PostAnswers(Client, o, x.conv) ELSE PostFails(Client, o)
<1>1. PICK x \in posts :
        /\ x.stage \in {"queued", "refused", "failed"} /\ posts' = posts \ {x} /\ Becomes(Shows1(x))
        /\ lost' = lost \cup ((IF x.stage = "queued" THEN {} ELSE {x.n, x.reads}) \ {0}) /\ UNCHANGED service
  BY DEF AnswerLands, GivenUp, service
<1>2. x \in Posts /\ PostOK(x)
  BY Known
<1>3. lost \subseteq lost' /\ (x.stage # "queued" => x.n \in lost')
  BY <1>1, <1>2 DEF PostOK, Turn
<1>4. ClientFits(Client, jobs, lost', posts)
  <2>1. Grew(jobs, jobs) /\ Follows(posts, posts) /\ \A n \in lost \ lost' : OfIn(Client.p, jobs, n)
    BY <1>3, Same
  <2> QED BY <2>1, Open, StillFits
<1>5. Shows1(x) \in Clients /\ ClientFits(Shows1(x), jobs, lost', posts)
  <2>1. CASE Mine(x) = {}
    BY <1>4, <2>1, Open
  <2>2. CASE Mine(x) # {}
    <3> DEFINE o == CHOOSE y \in Mine(x) : TRUE
    <3>1. o \in Range(outs) /\ o.n = x.n /\ o.stage = "post"
      BY <2>2
    <3>2. Shows1(x) = IF x.stage = "queued" THEN PostAnswers(Client, o, x.conv) ELSE PostFails(Client, o)
      BY <2>2
    <3> HIDE DEF o, Shows1
    <3>3. Client \in Clients /\ o \in Range(Client.outs)
      BY <3>1, Open
    <3>4. CASE x.stage = "queued"
      <4>1. x.conv \in Convs /\ jobs[o.n].conv = x.conv
        BY <1>2, <3>1, <3>4 DEF PostOK, Posts, Some
      <4>2. OutFits(o, page, jobs, lost, posts)
        BY <3>3, Open DEF ClientFits, Range
      <4>3. page.conv # None => x.conv = page.conv
        BY <3>1, <4>2 DEF OutFits
      <4>4. Client.p.conv \in {None, x.conv}
        BY <4>3, Open
      <4> QED BY <1>4, <3>1, <3>2, <3>3, <3>4, <4>1, <4>4, AnswersFit
    <3>5. CASE x.stage # "queued"
      BY <1>3, <1>4, <3>1, <3>2, <3>3, <3>5, FailsFit
    <3> QED BY <3>4, <3>5
  <2> QED BY <2>1, <2>2
<1> HIDE DEF Shows1
<1>6. ClientFits(Shows1(x), jobs, lost', posts')
  <2>1. Grew(jobs, jobs) /\ Follows(posts, posts') /\ \A n \in lost' \ lost' : OfIn(Shows1(x).p, jobs, n)
    BY <1>1 DEF Grew, Follows
  <2> QED BY <1>5, <2>1, Open, StillFits
<1> QED BY <1>1, <1>3, <1>5, <1>6, Shown

-----------------------------------------------------------------------------
(* What an event of the turn n makes of the screen.                         *)
Painted(p, q, n) ==
    /\ q \in Screens /\ q.conv = p.conv /\ q.url = p.url /\ q.nav = p.nav /\ q.busy = p.busy
    /\ \A i \in DOMAIN q.bubbles : q.bubbles[i].n = n \/ \E j \in DOMAIN p.bubbles : q.bubbles[i].n = p.bubbles[j].n

LEMMA PaintedTwice ==
    ASSUME NEW p, NEW q, NEW r, NEW n, Painted(p, q, n), Painted(q, r, n)
    PROVE  Painted(p, r, n)
BY DEF Painted

(* A screen with other bubbles and another batch.                           *)
Drawn(p, m, l) == [p EXCEPT !.batch = m, !.bubbles = l]
LEMMA Paints ==
    ASSUME NEW p \in Screens, NEW n, NEW l \in Seq(Bubbles), NEW m \in 0 .. Turns,
           \A i \in DOMAIN l : l[i].n = n \/ \E j \in DOMAIN p.bubbles : l[i].n = p.bubbles[j].n
    PROVE  Painted(p, Drawn(p, m, l), n)
<1> DEFINE q == Drawn(p, m, l)
<1>1. q \in Screens /\ q.conv = p.conv /\ q.url = p.url /\ q.nav = p.nav /\ q.busy = p.busy /\ q.bubbles = l
  BY DEF Screens, Drawn
<1> HIDE DEF q
<1>2. Painted(p, q, n)
  BY <1>1 DEF Painted
<1> QED BY <1>2 DEF q

LEMMA Batches ==
    ASSUME NEW p \in Screens, NEW n
    PROVE  Painted(p, applyBatchedChunks(p), n)
<1> DEFINE f(b) == IF p.batch # 0 /\ IsPlaceholder(b, p.batch) /\ b.role = "assistant" THEN [b EXCEPT !.text = 1] ELSE b
           l == [i \in DOMAIN p.bubbles |-> f(p.bubbles[i])]
<1>1. ASSUME NEW b \in Bubbles PROVE f(b) \in Bubbles /\ f(b).n = b.n
  BY DEF Bubbles
<1>2. applyBatchedChunks(p) = Drawn(p, 0, l)
  <2>1. p = [conv |-> p.conv, url |-> p.url, nav |-> p.nav, bubbles |-> p.bubbles, busy |-> p.busy, batch |-> p.batch,
             loading |-> p.loading, error |-> p.error, more |-> p.more, oldest |-> p.oldest, olderLoading |-> p.olderLoading]
    BY ScreenIs
  <2> QED BY <2>1 DEF applyBatchedChunks, Drawn
<1> HIDE DEF f
<1>3. p.bubbles \in Seq(Bubbles)
  BY ScreenIs
<1>4. l \in Seq(Bubbles) /\ \A i \in DOMAIN l : i \in DOMAIN p.bubbles /\ l[i].n = p.bubbles[i].n
  <2>1. \A i \in DOMAIN p.bubbles : f(p.bubbles[i]) \in Bubbles /\ f(p.bubbles[i]).n = p.bubbles[i].n
    BY <1>1, <1>3
  <2> QED BY <1>3, <2>1
<1> HIDE DEF l
<1>5. 0 \in 0 .. Turns
  BY ConstantsAssumption
<1> QED BY <1>2, <1>4, <1>5, Paints

-----------------------------------------------------------------------------
(* Events of a turn paint its bubble.                                       *)

LEMMA Drops ==
    ASSUME NEW p \in Screens, NEW n, NEW i \in DOMAIN p.bubbles
    PROVE  Painted(p, [p EXCEPT !.bubbles = RemoveAt(@, i)], n)
<1> DEFINE l == RemoveAt(p.bubbles, i)
           q == Drawn(p, p.batch, l)
<1>1. /\ p = [conv |-> p.conv, url |-> p.url, nav |-> p.nav, bubbles |-> p.bubbles, busy |-> p.busy, batch |-> p.batch,
             loading |-> p.loading, error |-> p.error, more |-> p.more, oldest |-> p.oldest, olderLoading |-> p.olderLoading]
      /\ p.bubbles \in Seq(Bubbles) /\ p.batch \in 0 .. Turns
  BY ScreenIs
<1>2. l \in Seq(Bubbles) /\ \A k \in DOMAIN l : \E j \in DOMAIN p.bubbles : l[k] = p.bubbles[j]
  BY <1>1, Shorter
<1>3. [p EXCEPT !.bubbles = RemoveAt(@, i)] = q
  BY <1>1 DEF Drawn
<1> HIDE DEF l
<1>4. Painted(p, q, n)
  BY <1>1, <1>2, Paints
<1> QED BY <1>3, <1>4

Put(p, i, b) == [p EXCEPT !.bubbles = [@ EXCEPT ![i] = b]]
LEMMA Puts ==
    ASSUME NEW p \in Screens, NEW n, NEW i \in DOMAIN p.bubbles, NEW b \in Bubbles, b.n = n
    PROVE  Painted(p, Put(p, i, b), n)
<1> DEFINE l == [p.bubbles EXCEPT ![i] = b]
           q == Drawn(p, p.batch, l)
<1>1. /\ p = [conv |-> p.conv, url |-> p.url, nav |-> p.nav, bubbles |-> p.bubbles, busy |-> p.busy, batch |-> p.batch,
             loading |-> p.loading, error |-> p.error, more |-> p.more, oldest |-> p.oldest, olderLoading |-> p.olderLoading]
      /\ p.bubbles \in Seq(Bubbles) /\ p.batch \in 0 .. Turns
  BY ScreenIs
<1>2. l \in Seq(Bubbles) /\ \A k \in DOMAIN l : k \in DOMAIN p.bubbles /\ (l[k] = b \/ l[k] = p.bubbles[k])
  BY <1>1
<1>3. Put(p, i, b) = q
  BY <1>1 DEF Put, Drawn
<1> HIDE DEF l
<1>4. Painted(p, q, n)
  BY <1>1, <1>2, Paints
<1> QED BY <1>3, <1>4

LEMMA Dones ==
    ASSUME NEW p \in Screens, NEW n \in Turn
    PROVE  Painted(p, Done(p, n), n)
<1> DEFINE q == applyBatchedChunks(p)
           at == {i \in ById(q.bubbles, n) : q.bubbles[i].role = "assistant"}
           known == \E b \in Range(q.bubbles) : SameMessage(b, "reply", n)
           i == CHOOSE j \in at : TRUE
           b == Bubble("assistant", n, TRUE, 2, FALSE)
<1>1. Painted(p, q, n) /\ q \in Screens
  BY ZenonT(60), Batches DEF Painted
<1>2. Done(p, n) = IF at = {} THEN q ELSE [q EXCEPT !.bubbles = IF known THEN RemoveAt(@, i) ELSE [@ EXCEPT ![i] = b]]
  BY DEF Done
<1>3. b \in Bubbles /\ b.n = n
  BY ConstantsAssumption DEF Bubble, Bubbles, Turn
<1>4. at # {} => i \in DOMAIN q.bubbles
  BY DEF ById
<1> HIDE DEF q, at, known, i, b
<1>5. CASE at = {}
  BY <1>1, <1>2, <1>5
<1>6. CASE at # {} /\ known
  <2>1. Done(p, n) = [q EXCEPT !.bubbles = RemoveAt(@, i)]
    BY <1>2, <1>6
  <2>2. Painted(q, [q EXCEPT !.bubbles = RemoveAt(@, i)], n)
    BY <1>1, <1>4, <1>6, Drops
  <2> QED BY <1>1, <2>1, <2>2, PaintedTwice
<1>7. CASE at # {} /\ ~known
  <2>1. Done(p, n) = Put(q, i, b)
    BY <1>2, <1>7 DEF Put
  <2>2. Painted(q, Put(q, i, b), n)
    BY <1>1, <1>3, <1>4, <1>7, Puts
  <2> QED BY <1>1, <2>1, <2>2, PaintedTwice
<1> QED BY <1>5, <1>6, <1>7

LEMMA Breaks ==
    ASSUME NEW p \in Screens, NEW n \in Turn, NEW row \in BOOLEAN
    PROVE  Painted(p, Broken(p, n, row), n)
<1> DEFINE at == ById(p.bubbles, n)
           b == Bubble("error", n, row, 2, TRUE)
           i == CHOOSE j \in at : TRUE
           l == IF at = {} THEN Append(p.bubbles, b) ELSE [p.bubbles EXCEPT ![i] = b]
<1>1. /\ p = [conv |-> p.conv, url |-> p.url, nav |-> p.nav, bubbles |-> p.bubbles, busy |-> p.busy, batch |-> p.batch,
             loading |-> p.loading, error |-> p.error, more |-> p.more, oldest |-> p.oldest, olderLoading |-> p.olderLoading]
      /\ p.bubbles \in Seq(Bubbles)
  BY ScreenIs
<1>2. b \in Bubbles /\ b.n = n /\ (at # {} => i \in DOMAIN p.bubbles)
  BY ConstantsAssumption DEF Bubble, Bubbles, Turn, ById
<1>3. Broken(p, n, row) = Drawn(p, 0, l)
  <2>1. Broken(p, n, row) = [p EXCEPT !.batch = 0, !.bubbles = l]
    BY <1>1 DEF Broken
  <2> QED BY <2>1 DEF Drawn
<1> HIDE DEF b, i, at
<1>4. l \in Seq(Bubbles) /\ \A k \in DOMAIN l : l[k] = b \/ (k \in DOMAIN p.bubbles /\ l[k] = p.bubbles[k])
  <2>1. CASE at = {}
    <3>1. l = Append(p.bubbles, b)
      BY <2>1
    <3> HIDE DEF l
    <3> QED BY <1>1, <1>2, <3>1, Longer
  <2>2. CASE at # {}
    <3>1. l = [p.bubbles EXCEPT ![i] = b] /\ i \in DOMAIN p.bubbles
      BY <1>2, <2>2
    <3> HIDE DEF l
    <3> QED BY <1>1, <1>2, <3>1
  <2> QED BY <2>1, <2>2
<1> HIDE DEF l
<1>5. 0 \in 0 .. Turns
  BY ConstantsAssumption
<1>6. Painted(p, Drawn(p, 0, l), n)
  BY <1>2, <1>4, <1>5, Paints
<1> QED BY <1>3, <1>6

LEMMA EventsPaint ==
    ASSUME NEW p \in Screens, NEW n \in Turn, NEW e \in Events
    PROVE  Painted(p, applyStreamEvent(p, n, e), n)
<1>1. CASE e = "claimed"
  BY <1>1 DEF applyStreamEvent, Painted
<1>2. CASE e = "chunk"
  <2>1. p = [conv |-> p.conv, url |-> p.url, nav |-> p.nav, bubbles |-> p.bubbles, busy |-> p.busy, batch |-> p.batch,
             loading |-> p.loading, error |-> p.error, more |-> p.more, oldest |-> p.oldest, olderLoading |-> p.olderLoading]
        /\ p.bubbles \in Seq(Bubbles) /\ n \in 0 .. Turns
    BY ScreenIs, ConstantsAssumption DEF Turn
  <2>2. applyStreamEvent(p, n, e) = Drawn(p, n, p.bubbles)
    BY <1>2, <2>1 DEF applyStreamEvent, Drawn
  <2> QED BY <2>1, <2>2, Paints
<1>3. CASE e = "done"
  BY <1>3, Dones DEF applyStreamEvent
<1>4. CASE e = "error"
  <2>1. applyStreamEvent(p, n, e) = Broken(p, n, TRUE)
    BY <1>4 DEF applyStreamEvent
  <2> QED BY <2>1, Breaks
<1>5. CASE e = "unwritten"
  <2>1. applyStreamEvent(p, n, e) = Broken(p, n, FALSE)
    BY <1>5 DEF applyStreamEvent
  <2> QED BY <2>1, Breaks
<1> QED BY <1>1, <1>2, <1>3, <1>4, <1>5 DEF Events

(* A stream's turn belongs to the conversation shown, and so does all else. *)
LEMMA Streams ==
    ASSUME NEW u \in Clients, NEW J, NEW L, NEW Q, ClientFits(u, J, L, Q), NEW o \in Range(u.outs), o.stage = "stream"
    PROVE  /\ u.outs = <<o>> /\ o \in Outs /\ u.p.busy /\ OfIn(u.p, J, o.n) /\ o.n \in Turn
           /\ \A i \in DOMAIN u.p.bubbles : FitsIn(u.p, J, L, u.p.bubbles[i].n)
<1>1. u.outs = <<o>> /\ o \in Outs /\ u.p.busy
  BY OnlyOne DEF ClientFits
<1>2. OutFits(o, u.p, J, L, Q)
  BY DEF ClientFits, Range
<1>3. \A n : ~AwaitedIn(u.outs, n)
  BY <1>1 DEF AwaitedIn
<1> QED BY <1>1, <1>2, <1>3 DEF OutFits, ClientFits, BubbleOK, Outs

LEMMA PaintsFit ==
    ASSUME NEW u \in Clients, NEW J, NEW L, NEW Q, ClientFits(u, J, L, Q), NEW o \in Range(u.outs), o.stage = "stream",
           NEW q, Painted(u.p, q, o.n)
    PROVE  /\ [u EXCEPT !.p = q] \in Clients /\ ClientFits([u EXCEPT !.p = q], J, L, Q)
           /\ Finished([u EXCEPT !.p = q], o) \in Clients /\ ClientFits(Finished([u EXCEPT !.p = q], o), J, L, Q)
<1> DEFINE v == [u EXCEPT !.p = q]
<1>1. /\ u.outs = <<o>> /\ OfIn(u.p, J, o.n) /\ u.p.busy
      /\ \A i \in DOMAIN u.p.bubbles : FitsIn(u.p, J, L, u.p.bubbles[i].n)
  BY Streams
<1>2. v \in Clients /\ v.p = q /\ v.loads = u.loads /\ v.asks = u.asks /\ v.outs = u.outs
  BY DEF Clients, Painted
<1> HIDE DEF v
<1>3. \A i \in DOMAIN v.p.bubbles : FitsIn(u.p, J, L, v.p.bubbles[i].n)
  BY <1>1, <1>2 DEF Painted, FitsIn
<1>4. v.p.conv = u.p.conv /\ v.p.url = u.p.url /\ v.p.nav = u.p.nav /\ v.p.busy = u.p.busy
  BY <1>2 DEF Painted
<1>5. ClientFits(v, J, L, Q)
  <2>1. One(v) /\ (\A k \in DOMAIN v.outs : OutFits(v.outs[k], u.p, J, L, Q)) /\ \A k \in DOMAIN v.asks : AskOK(v.asks[k], u.p, J)
    BY <1>2, <1>4 DEF ClientFits, One
  <2>2. \A k \in DOMAIN v.loads : \E j \in DOMAIN u.loads : v.loads[k] = u.loads[j]
    BY <1>2
  <2> QED BY <1>2, <1>3, <1>4, <2>1, <2>2, Redraws
<1>6. Finished(v, o) \in Clients /\ ClientFits(Finished(v, o), J, L, Q)
  BY <1>1, <1>2, <1>3, <1>4, FinishFits
<1> QED BY <1>2, <1>5, <1>6 DEF v

Reads1(u, o) == [u EXCEPT !.outs = [i \in DOMAIN @ |-> IF @[i] = o THEN [o EXCEPT !.pos = @ + 1] ELSE @[i]]]
LEMMA ReadsFit ==
    ASSUME NEW u \in Clients, NEW J, NEW L, NEW Q, ClientFits(u, J, L, Q), NEW o \in Range(u.outs), o.stage = "stream"
    PROVE  Reads1(u, o) \in Clients /\ ClientFits(Reads1(u, o), J, L, Q)
<1> DEFINE e == [o EXCEPT !.pos = @ + 1]
           l == [i \in DOMAIN u.outs |-> IF u.outs[i] = o THEN e ELSE u.outs[i]]
           v == [u EXCEPT !.outs = l]
<1>1. /\ u.outs = <<o>> /\ o \in Outs /\ OfIn(u.p, J, o.n) /\ u.p.busy
      /\ \A i \in DOMAIN u.p.bubbles : FitsIn(u.p, J, L, u.p.bubbles[i].n)
  BY Streams
<1>2. Reads1(u, o) = v
  BY ClientIs DEF Reads1
<1>3. e \in Outs /\ e.stage = "stream" /\ e.n = o.n
  <2>1. o.pos + 1 \in Nat
    BY <1>1 DEF Outs
  <2>2. e = [o EXCEPT !.pos = o.pos + 1]
    BY <1>1 DEF Outs
  <2> QED BY <1>1, <2>1, <2>2 DEF Outs
<1> HIDE DEF e
<1>4. l \in Seq(Outs) /\ Len(l) = 1 /\ \A i \in DOMAIN l : l[i] = e
  <2>1. l = [i \in 1 .. 1 |-> e]
    BY <1>1
  <2> QED BY <1>3, <2>1
<1> HIDE DEF l
<1>5. v \in Clients /\ v.p = u.p /\ v.loads = u.loads /\ v.asks = u.asks /\ v.outs = l
  BY <1>4 DEF Clients
<1> HIDE DEF v
<1>6. ClientFits(v, J, L, Q)
  <2>1. One(v) /\ \A k \in DOMAIN v.asks : AskOK(v.asks[k], u.p, J)
    BY <1>1, <1>4, <1>5 DEF ClientFits, One
  <2>2. \A k \in DOMAIN v.outs : OutFits(v.outs[k], u.p, J, L, Q)
    BY <1>1, <1>3, <1>4, <1>5 DEF OutFits
  <2>3. \A k \in DOMAIN v.loads : \E j \in DOMAIN u.loads : v.loads[k] = u.loads[j]
    BY <1>5
  <2> QED BY <1>1, <1>5, <2>1, <2>2, <2>3, Redraws
<1> QED BY <1>2, <1>5, <1>6

-----------------------------------------------------------------------------
(* Events are read, and streams end.                                        *)

Heard(u, o, e) ==
    LET v == [u EXCEPT !.p = applyStreamEvent(@, o.n, e)]
    IN IF e \in {"done", "error", "unwritten"} THEN Finished(v, o) ELSE Reads1(v, o)

LEMMA HearsFit ==
    ASSUME NEW u \in Clients, NEW J, NEW L, NEW Q, ClientFits(u, J, L, Q), NEW o \in Range(u.outs), o.stage = "stream",
           NEW e \in Events
    PROVE  Heard(u, o, e) \in Clients /\ ClientFits(Heard(u, o, e), J, L, Q)
<1> DEFINE q == applyStreamEvent(u.p, o.n, e)
           v == [u EXCEPT !.p = q]
<1>1. o.n \in Turn /\ u.p \in Screens
  BY Streams, ClientIs
<1>2. Painted(u.p, q, o.n)
  BY <1>1, EventsPaint
<1>3. Heard(u, o, e) = IF e \in {"done", "error", "unwritten"} THEN Finished(v, o) ELSE Reads1(v, o)
  BY ClientIs DEF Heard
<1> HIDE DEF q
<1>4. v \in Clients /\ ClientFits(v, J, L, Q) /\ Finished(v, o) \in Clients /\ ClientFits(Finished(v, o), J, L, Q)
  BY <1>2, PaintsFit
<1>5. v.outs = u.outs
  BY ClientIs
<1> HIDE DEF v
<1>6. Reads1(v, o) \in Clients /\ ClientFits(Reads1(v, o), J, L, Q)
  BY <1>4, <1>5, ReadsFit
<1> QED BY <1>3, <1>4, <1>6

LEMMA StreamShows ==
    ASSUME Inv, StreamTells
    PROVE  Inv'
<1>1. PICK o \in Range(outs) :
        /\ o.stage = "stream" /\ o.pos < Len(jobs[o.n].stream)
        /\ Becomes(Heard(Client, o, jobs[o.n].stream[o.pos + 1]))
        /\ lost \subseteq lost' /\ UNCHANGED <<service, posts>>
  BY DEF StreamTells, Heard, Reads1, GivenUp, server, service
<1>2. o \in Range(Client.outs) /\ Client \in Clients /\ ClientFits(Client, jobs, lost, posts)
  BY <1>1, Open
<1>3. jobs[o.n].stream[o.pos + 1] \in Events
  <2>1. o.n \in Turn /\ o.pos \in Nat
    BY <1>1, <1>2, Streams DEF Outs
  <2>2. jobs[o.n] \in Jobs
    BY <2>1, Open
  <2>3. jobs[o.n].stream \in Seq(Events)
    BY <2>2 DEF Jobs
  <2> QED BY <1>1, <2>1, <2>3
<1>4. ASSUME NEW L, ClientFits(Client, jobs, L, posts')
      PROVE  Heard(Client, o, jobs[o.n].stream[o.pos + 1]) \in Clients /\ ClientFits(Heard(Client, o, jobs[o.n].stream[o.pos + 1]), jobs, L, posts')
  BY <1>1, <1>2, <1>3, <1>4, HearsFit
<1>5. Heard(Client, o, jobs[o.n].stream[o.pos + 1]) \in Clients
  BY <1>1, <1>2, <1>3, HearsFit
<1> QED BY <1>1, <1>4, <1>5, Shown

LEMMA FrameShows ==
    ASSUME Inv, FramePaints
    PROVE  Inv'
<1> DEFINE q == applyBatchedChunks(page)
           u == [Client EXCEPT !.p = q]
<1>1. page' = q /\ UNCHANGED <<loads, asks, outs, service, posts, lost>>
  BY DEF FramePaints, server, service
<1>2. q \in Screens /\ q.conv = page.conv /\ q.url = page.url /\ q.nav = page.nav /\ q.busy = page.busy
  BY Open, Batches DEF Painted
<1>3. \A i \in DOMAIN q.bubbles : \E j \in DOMAIN page.bubbles : q.bubbles[i].n = page.bubbles[j].n
  <2>1. Painted(page, q, Turns + 1)
    BY Open, Batches
  <2> HIDE DEF q
  <2>2. ASSUME NEW i \in DOMAIN q.bubbles PROVE q.bubbles[i].n \in 0 .. Turns
    <3>1. q.bubbles[i] \in Bubbles
      BY <1>2, ScreenIs
    <3> QED BY <3>1 DEF Bubbles
  <2>3. Turns + 1 \notin 0 .. Turns
    BY ConstantsAssumption
  <2> QED BY <2>1, <2>2, <2>3 DEF Painted
<1> HIDE DEF q
<1>4. u \in Clients /\ u.p = q /\ u.loads = loads /\ u.asks = asks /\ u.outs = outs
  BY <1>2, Open DEF Clients
<1> HIDE DEF u
<1>5. Becomes(u)
  BY <1>1, <1>4 DEF Becomes
<1>6. SUFFICES ASSUME ClientFits(Client, jobs, lost', posts') PROVE ClientFits(u, jobs, lost', posts')
  BY <1>1, <1>4, <1>5, Shown
<1>7. \A i \in DOMAIN page.bubbles : FitsIn(page, jobs, lost', page.bubbles[i].n) \/ AwaitedIn(outs, page.bubbles[i].n)
  BY <1>6, Open DEF ClientFits, BubbleOK
<1>8. \A i \in DOMAIN u.p.bubbles : FitsIn(Client.p, jobs, lost', u.p.bubbles[i].n) \/ AwaitedIn(u.outs, u.p.bubbles[i].n)
  <2>1. ASSUME NEW i \in DOMAIN u.p.bubbles PROVE FitsIn(page, jobs, lost', u.p.bubbles[i].n) \/ AwaitedIn(outs, u.p.bubbles[i].n)
    <3>1. PICK j \in DOMAIN page.bubbles : u.p.bubbles[i].n = page.bubbles[j].n
      BY <1>3, <1>4
    <3> QED BY <1>7, <3>1
  <2> QED BY <1>4, <2>1, Open
<1>9. One(u) /\ \A k \in DOMAIN u.asks : AskOK(u.asks[k], Client.p, jobs)
  BY <1>2, <1>4, <1>6, Open DEF ClientFits, One
<1>10. \A k \in DOMAIN u.outs : OutFits(u.outs[k], Client.p, jobs, lost', posts')
  BY <1>4, <1>6, Open DEF ClientFits
<1>11. \A k \in DOMAIN u.loads : \E j \in DOMAIN Client.loads : u.loads[k] = Client.loads[j]
  BY <1>4, Open
<1>12. u.p.conv = Client.p.conv /\ u.p.url = Client.p.url /\ u.p.nav = Client.p.nav /\ Client \in Clients
  BY <1>2, <1>4, Open
<1> QED BY <1>4, <1>6, <1>8, <1>9, <1>10, <1>11, <1>12, Redraws

(* A stream is cut off.                                                     *)
CutFrom(u, o) ==
    IF o.kind # "attach" THEN Append1(u, Notice)
    ELSE LET q == applyBatchedChunks(u.p)
         IN [u EXCEPT !.p = [q EXCEPT !.bubbles = Kept(@, {i \in DOMAIN @ : ~(IsPlaceholder(@[i], o.n) /\ @[i].text = 0)})]]

LEMMA Sweeps ==
    ASSUME NEW p \in Screens, NEW n, NEW at
    PROVE  Painted(p, [p EXCEPT !.bubbles = Kept(p.bubbles, at)], n)
<1> DEFINE l == Kept(p.bubbles, at)
           q == Drawn(p, p.batch, l)
<1>1. /\ p = [conv |-> p.conv, url |-> p.url, nav |-> p.nav, bubbles |-> p.bubbles, busy |-> p.busy, batch |-> p.batch,
             loading |-> p.loading, error |-> p.error, more |-> p.more, oldest |-> p.oldest, olderLoading |-> p.olderLoading]
      /\ p.bubbles \in Seq(Bubbles) /\ p.batch \in 0 .. Turns
  BY ScreenIs
<1>2. l \in Seq(Bubbles) /\ \A k \in DOMAIN l : \E j \in DOMAIN p.bubbles : l[k] = p.bubbles[j]
  BY <1>1, Filtered
<1> HIDE DEF l
<1>3. [p EXCEPT !.bubbles = l] = q
  BY <1>1 DEF Drawn
<1>4. Painted(p, q, n)
  BY <1>1, <1>2, Paints
<1> QED BY <1>3, <1>4 DEF l

LEMMA CutsFit ==
    ASSUME NEW u \in Clients, NEW J, NEW L, NEW Q, ClientFits(u, J, L, Q), NEW o \in Range(u.outs), o.stage = "stream"
    PROVE  Finished(CutFrom(u, o), o) \in Clients /\ ClientFits(Finished(CutFrom(u, o), o), J, L, Q)
<1>1. /\ u.outs = <<o>> /\ OfIn(u.p, J, o.n)
      /\ \A i \in DOMAIN u.p.bubbles : FitsIn(u.p, J, L, u.p.bubbles[i].n)
  BY Streams
<1>2. CASE o.kind # "attach"
  <2> DEFINE v == Append1(u, Notice)
  <2>1. CutFrom(u, o) = v
    BY <1>2 DEF CutFrom
  <2>2. FitsIn(u.p, J, L, Notice.n)
    BY Constant DEF FitsIn
  <2>3. /\ v \in Clients /\ v.loads = u.loads /\ v.asks = u.asks /\ v.outs = u.outs
        /\ v.p.conv = u.p.conv /\ v.p.url = u.p.url /\ v.p.nav = u.p.nav
        /\ \A i \in DOMAIN v.p.bubbles : (i \in DOMAIN u.p.bubbles /\ v.p.bubbles[i] = u.p.bubbles[i]) \/ v.p.bubbles[i] = Notice
    BY Constant, BubbleAdded
  <2> HIDE DEF v
  <2>4. \A i \in DOMAIN v.p.bubbles : FitsIn(u.p, J, L, v.p.bubbles[i].n)
    BY <1>1, <2>2, <2>3
  <2>5. Finished(v, o) \in Clients /\ ClientFits(Finished(v, o), J, L, Q)
    BY <1>1, <2>3, <2>4, FinishFits
  <2> QED BY <2>1, <2>5
<1>3. CASE o.kind = "attach"
  <2> DEFINE q == applyBatchedChunks(u.p)
             at == {i \in DOMAIN q.bubbles : ~(IsPlaceholder(q.bubbles[i], o.n) /\ q.bubbles[i].text = 0)}
             r == [q EXCEPT !.bubbles = Kept(q.bubbles, at)]
  <2>1. Painted(u.p, q, o.n) /\ q \in Screens
    <3>1. u.p \in Screens
      BY ClientIs
    <3>2. Painted(u.p, q, o.n)
      BY <3>1, Batches
    <3> HIDE DEF q
    <3> QED BY <3>2 DEF Painted
  <2>2. CutFrom(u, o) = [u EXCEPT !.p = r]
    <3>1. CutFrom(u, o) = [u EXCEPT !.p = [q EXCEPT !.bubbles = Kept(@, {i \in DOMAIN @ : ~(IsPlaceholder(@[i], o.n) /\ @[i].text = 0)})]]
      BY <1>3 DEF CutFrom
    <3> HIDE DEF q
    <3>2. [q EXCEPT !.bubbles = Kept(@, {i \in DOMAIN @ : ~(IsPlaceholder(@[i], o.n) /\ @[i].text = 0)})] = r
      BY <2>1, ScreenIs
    <3> QED BY <3>1, <3>2 DEF q
  <2> HIDE DEF q, at
  <2>3. Painted(q, r, o.n)
    BY <2>1, Sweeps
  <2> HIDE DEF r
  <2>4. Painted(u.p, r, o.n)
    BY <2>1, <2>3, PaintedTwice
  <2> QED BY <2>2, <2>4, PaintsFit
<1> QED BY <1>2, <1>3

LEMMA CutShows ==
    ASSUME Inv, NEW o \in Range(outs), o.stage = "stream", Cut(o)
    PROVE  Inv'
<1>1. Becomes(Finished(CutFrom(Client, o), o)) /\ lost \subseteq lost' /\ UNCHANGED <<service, posts>>
  BY Open DEF Cut, CutFrom, GivenUp, server, service
<1>2. o \in Range(Client.outs) /\ Client \in Clients /\ ClientFits(Client, jobs, lost, posts)
  BY Open
<1>3. Finished(CutFrom(Client, o), o) \in Clients
  BY <1>2, CutsFit
<1>4. ClientFits(Client, jobs, lost', posts') => ClientFits(Finished(CutFrom(Client, o), o), jobs, lost', posts')
  BY <1>2, CutsFit
<1> QED BY <1>1, <1>3, <1>4, Shown

-----------------------------------------------------------------------------
LEMMA BeginRow ==
    ASSUME NEW c \in Convs, NEW p \in Plans
    PROVE  p.history[c] \in Seq(Row) /\ \A i \in DOMAIN p.history[c] : p.history[c][i].n \in Turn
<1>1. p.history[c] \in Seq(Row)
  BY ConstantsAssumption DEF PlanType
<1>2. \A i \in DOMAIN p.history[c] : p.history[c][i] \in Row
  BY <1>1
<1> QED BY <1>1, <1>2 DEF Row, Turn

LEMMA Opens == \A url \in Some : Opened(url) \in Clients /\ \A J, L, Q : ClientFits(Opened(url), J, L, Q)
<1> SUFFICES ASSUME NEW url \in Some PROVE Opened(url) \in Clients /\ \A J, L, Q : ClientFits(Opened(url), J, L, Q)
  OBVIOUS
<1> DEFINE none == <<>>
           p == [conv |-> None, url |-> url, nav |-> none, bubbles |-> none, busy |-> FALSE, batch |-> 0,
               loading |-> FALSE, error |-> FALSE, more |-> FALSE, oldest |-> none, olderLoading |-> FALSE]
           u == [p |-> p, loads |-> none, asks |-> none, outs |-> none]
<1>1. none \in Seq(Some) /\ none \in Seq(Bubbles) /\ none \in Seq(Ident) /\ none \in Seq(Loads) /\ none \in Seq(Asks) /\ none \in Seq(Outs)
      /\ DOMAIN none = {}
  OBVIOUS
<1>2. Opened(url) = IF url = None THEN u ELSE selectConversation(u, url)
  BY DEF Opened, Fresh
<1>3. \A k : k = none => DOMAIN k = {}
  BY <1>1
<1>4. none = <<>>
  OBVIOUS
<1> HIDE DEF none
<1>5. p \in Screens /\ p.conv = None /\ p.url = url /\ p.bubbles = none
  BY <1>1, ConstantsAssumption DEF Screens, Some
<1> HIDE DEF p
<1>6. u \in Clients /\ u.p = p /\ u.loads = none /\ u.asks = none /\ u.outs = none
  BY <1>1, <1>5 DEF Clients
<1> HIDE DEF u
<1>7. CASE url = None
  <2>1. \A J, L, Q : ClientFits(u, J, L, Q)
    BY <1>1, <1>4, <1>5, <1>6, <1>7 DEF ClientFits, One, Named
  <2> QED BY <1>2, <1>6, <1>7, <2>1
<1>8. CASE url # None
  <2>1. url \in Convs /\ u.p.conv # url
    BY <1>5, <1>6, <1>8 DEF Some
  <2>2. \A J : Answered(u, J)
    BY <1>1, <1>6 DEF Answered
  <2>3. ASSUME NEW J, NEW L, NEW Q PROVE selectConversation(u, url) \in Clients /\ ClientFits(selectConversation(u, url), J, L, Q)
    BY <1>6, <2>1, <2>2, Selects
  <2> QED BY <1>2, <1>8, <2>3
<1> QED BY <1>7, <1>8

-----------------------------------------------------------------------------
(* The page opens.                                                          *)

LEMMA JobOf ==
    ASSUME NEW p \in Plans, NEW c \in Convs, NEW i \in DOMAIN p.history[c]
    PROVE  LET n == p.history[c][i].n IN n \in Begun(p) /\ n \in Turn /\ (CHOOSE d \in Convs : n \in TurnsOf(p.history[d])) = c
<1> DEFINE n == p.history[c][i].n
           d == CHOOSE e \in Convs : n \in TurnsOf(p.history[e])
<1>1. n \in Turn /\ n \in TurnsOf(p.history[c])
  BY BeginRow DEF TurnsOf
<1>2. d \in Convs /\ n \in TurnsOf(p.history[d])
  <2> HIDE DEF n
  <2> QED BY <1>1
<1>3. n \in Begun(p)
  BY <1>1 DEF Begun
<1> HIDE DEF d
<1>4. PICK j \in DOMAIN p.history[d] : p.history[d][j].n = n
  BY <1>2 DEF TurnsOf
<1>5. d = c
  BY <1>2, <1>4, HistoryAssumption
<1> QED BY <1>1, <1>3, <1>5 DEF d

LEMMA BeginsJobs ==
    ASSUME NEW p \in Plans, NEW n \in Turn, NEW st \in {"pending", "done"}
    PROVE  /\ NoJob \in Jobs
           /\ n \in Begun(p) => [conv |-> CHOOSE c \in Convs : n \in TurnsOf(p.history[c]), user |-> n, status |-> st, stream |-> <<>>] \in Jobs
<1> DEFINE none == <<>>
           c == CHOOSE e \in Convs : n \in TurnsOf(p.history[e])
<1>1. none \in Seq(Events)
  OBVIOUS
<1>2. n \in Begun(p) => c \in Convs
  BY DEF Begun
<1> HIDE DEF none, c
<1>3. [conv |-> None, user |-> 0, status |-> "none", stream |-> none] \in Jobs
  BY <1>1, ConstantsAssumption DEF Jobs, Some
<1>4. n \in Begun(p) => [conv |-> c, user |-> n, status |-> st, stream |-> none] \in Jobs
  BY <1>1, <1>2, ConstantsAssumption DEF Jobs, Some, Turn
<1> QED BY <1>3, <1>4 DEF none, c, NoJob

LEMMA InitInv ==
    ASSUME Init
    PROVE  Inv
<1>1. plan \in Plans /\ plan.url \in Some /\ plan.history \in [Convs -> Seq(Row)] /\ plan.queued \in BOOLEAN
  BY ConstantsAssumption DEF Init, PlanType, Some
<1> DEFINE St(n) == IF n \in Waiting(plan) THEN "pending" ELSE "done"
           Job(n) == [conv |-> CHOOSE c \in Convs : n \in TurnsOf(plan.history[c]), user |-> n, status |-> St(n), stream |-> <<>>]
<1>2. jobs = [n \in Turn |-> IF n \notin Begun(plan) THEN NoJob ELSE Job(n)]
  BY DEF Init, Turn
<1>3. \A n \in Turn : NoJob \in Jobs /\ (n \in Begun(plan) => Job(n) \in Jobs)
  <2>1. ASSUME NEW n \in Turn PROVE NoJob \in Jobs /\ (n \in Begun(plan) => Job(n) \in Jobs)
    <3>1. St(n) \in {"pending", "done"}
      OBVIOUS
    <3> HIDE DEF St
    <3> QED BY <1>1, <3>1, BeginsJobs
  <2> QED BY <2>1
<1>4. \A n \in Turn : n \in Begun(plan) => Job(n).conv = CHOOSE c \in Convs : n \in TurnsOf(plan.history[c])
  OBVIOUS
<1> HIDE DEF Job
<1>5. jobs \in [Turn -> Jobs]
  BY <1>2, <1>3
<1>6. ASSUME NEW c \in Convs, NEW i \in DOMAIN plan.history[c] PROVE jobs[plan.history[c][i].n].conv = c
  <2> DEFINE n == plan.history[c][i].n
  <2>1. n \in Begun(plan) /\ n \in Turn /\ (CHOOSE d \in Convs : n \in TurnsOf(plan.history[d])) = c
    BY <1>1, JobOf
  <2> HIDE DEF n
  <2>2. jobs[n] = Job(n) /\ Job(n).conv = c
    BY <1>2, <1>4, <2>1
  <2> QED BY <2>2 DEF n
<1>7. thread = plan.history /\ ThreadsOK
  BY <1>6 DEF Init, ThreadsOK
<1>8. ASSUME plan.queued
      PROVE  /\ plan.url \in Convs /\ Last(plan.history[plan.url]).n \in Turn
             /\ jobs[Last(plan.history[plan.url]).n].conv = plan.url
  <2>1. plan.url \in Convs /\ plan.history[plan.url] # <<>>
    BY <1>1, <1>8, HistoryAssumption
  <2>2. plan.history[plan.url] \in Seq(Row)
    BY <1>1, <2>1
  <2>3. Len(plan.history[plan.url]) \in DOMAIN plan.history[plan.url]
        /\ Last(plan.history[plan.url]) = plan.history[plan.url][Len(plan.history[plan.url])]
    BY <2>1, <2>2, LastIs
  <2> QED BY <1>1, <1>6, <2>1, <2>3, BeginRow
<1>9. pointer \in [Convs -> 0 .. Turns] /\ PointersOK
  <2>1. pointer = [c \in Convs |-> IF plan.queued /\ c = plan.url THEN Last(plan.history[c]).n ELSE 0]
    BY DEF Init
  <2> QED BY <1>8, <2>1, ConstantsAssumption DEF PointersOK, Turn
<1>10. queue \in Seq(Turn)
  <2>1. queue = IF plan.queued THEN <<Last(plan.history[plan.url]).n>> ELSE <<>>
    BY DEF Init
  <2> QED BY <1>8, <2>1
<1>11. worker \in Workers /\ worker.step = "idle" /\ posts = {} /\ alive \in SUBSET Convs
  BY Idles DEF Init
<1>12. ServerTyped /\ ServerOK
  BY <1>1, <1>5, <1>7, <1>9, <1>10, <1>11 DEF ServerTyped, ServerOK, PostsOK
<1>13. Client = Opened(plan.url)
  <2> DEFINE u == Opened(plan.url)
  <2>1. page = u.p /\ loads = u.loads /\ asks = u.asks /\ outs = u.outs
    BY DEF Init
  <2>2. u \in Clients
    BY <1>1, Opens
  <2> HIDE DEF u
  <2> QED BY <2>1, <2>2, ClientIs DEF Client, u
<1>14. Client \in Clients /\ ClientFits(Client, jobs, lost, posts)
  BY <1>1, <1>13, Opens
<1> QED BY <1>12, <1>14 DEF Inv

LEMMA Stutters ==
    ASSUME Inv, UNCHANGED vars
    PROVE  Inv'
<1>1. UNCHANGED <<service, posts, lost>> /\ Becomes(Client)
  BY DEF vars, service, Becomes, Client
<1> QED BY <1>1, Open, Shown

LEMMA NextInv ==
    ASSUME Inv, Next
    PROVE  Inv'
<1>1. StreamBreaks => Inv'
  BY CutShows DEF StreamBreaks
<1>2. StreamTimesOut => Inv'
  BY CutShows DEF StreamTimesOut
<1> QED BY <1>1, <1>2, NavEnding, Browses, SelectShows, NewChatShows, DeletePosts, ConversationGoes, DeleteShows,
       LoadIsRead, LoadLost, LoadShows, OlderAsked, AskIsRead, AskLost, AskShows, Sends, Retries, AnswerShows, AnswerLost,
       StreamShows, FrameShows, Commits, Reads, Claims, Deletes, Queues,
       Takes, WorkerClaims, Generates, Persists, Marks, Announces, Crashes
     DEF Next

LEMMA InvShows ==
    ASSUME Inv
    PROVE  OneConversationShown
<1>1. ASSUME NEW b \in Range(page.bubbles), b.n # 0, b.n \notin lost, ~Awaited(b.n) PROVE ConvOf(b.n) \subseteq {page.conv}
  <2>1. PICK i \in DOMAIN page.bubbles : page.bubbles[i] = b
    BY DEF Range
  <2>2. FitsIn(page, jobs, lost, b.n) \/ AwaitedIn(outs, b.n)
    BY <2>1, Open DEF ClientFits, BubbleOK
  <2>3. OfIn(page, jobs, b.n)
    BY <1>1, <2>2, Awaits DEF FitsIn
  <2> QED BY <2>3 DEF OfIn, ConvOf
<1>2. Quiet => page.url = page.conv
  BY Open DEF ClientFits, Named, Quiet
<1> QED BY <1>1, <1>2 DEF OneConversationShown

(* Every turn on screen that the service has a job for belongs to the page's *)
(* conversation, unless its answer is awaited or it was given up, and at    *)
(* rest the address names that conversation: no page of history, pending    *)
(* turn, stream or answer that was asked for under another one paints here. *)
THEOREM OneConversation == Spec => []OneConversationShown
<1>1. Init => Inv
  BY InitInv
<1>2. Inv /\ [Next]_vars => Inv'
  BY NextInv, Stutters
<1>3. Inv => OneConversationShown
  BY InvShows
<1> QED BY <1>1, <1>2, <1>3, PTL DEF Spec

=============================================================================
